----------------------------- MODULE Semantics -----------------------------
(* What a program means: an evaluator of the tree, without registers, jumps  *)
(* or upvalues.  A variable is a cell of its own each time its declaration   *)
(* runs, a function keeps the environment it was made in, and a goto goes on *)
(* in the block of its label.  Used to judge what the compiled program does. *)
EXTENDS LuaValues, FiniteSets, SequencesExt, TLC

Break == <<0>>
Self_ == <<115>>
Empty == [cells |-> <<>>, tables |-> << (Str(<<101>>) :> <<"c", "emit">>) @@ (Str(<<105>>) :> <<"c", "id">>) >>,
          fns |-> <<>>, out |-> <<>>, err |-> "none"]
Raise(s, kind) == IF s.err = "none" THEN [s EXCEPT !.err = kind] ELSE s
Ok(s) == s.err = "none"
One(s, v) == [s |-> s, vs |-> <<v>>]
First(vs) == IF vs = <<>> THEN Nil ELSE vs[1]
Adjust(vs, n) == [i \in 1..n |-> IF i <= Len(vs) THEN vs[i] ELSE Nil]

\* variables: the last declaration of a name counts
Declared(env, n) == {i \in DOMAIN env.vars : env.vars[i].name = n}
CellOf(env, n) == LET d == Declared(env, n) IN env.vars[CHOOSE i \in d : \A j \in d : i >= j].cell
Declare(s, env, names, vs) ==
    [s |-> [s EXCEPT !.cells = @ \o Adjust(vs, Len(names))],
     env |-> [env EXCEPT !.vars = @ \o [i \in DOMAIN names |-> [name |-> names[i], cell |-> Len(s.cells) + i]]]]
Index(s, t, k) == IF Type(t) # "table" THEN [s |-> Raise(s, "index"), vs |-> <<Nil>>]
                  ELSE One(s, IF k \in DOMAIN s.tables[t[2]] THEN s.tables[t[2]][k] ELSE Nil)
SetIndex(s, t, k, v) ==
    IF ~Ok(s) THEN s
    ELSE IF Type(t) # "table" \/ k = Nil THEN Raise(s, "index")
    ELSE LET h == s.tables[t[2]]
         IN  [s EXCEPT !.tables[t[2]] = [x \in {y \in DOMAIN h \cup {k} : y # k \/ v # Nil} |->
                                            IF x = k THEN v ELSE h[x]]]

\* the manual's table of operators, loosest first
Levels == << {"OR"}, {"AND"}, {"EQ", "LT", "LE", "NE", "GT", "GE"}, {"BOR"}, {"BXOR"}, {"BAND"},
             {"SHL", "SHR"}, {"CONCAT"}, {"ADD", "SUB"}, {"MUL", "IDIV", "MOD"} >>
Binary(toks) == {i \in 2..Len(toks) : toks[i].kind = "bin"}
Loosest(toks) ==
    LET level(i) == CHOOSE l \in DOMAIN Levels : toks[i].op \in Levels[l]
        low == {i \in Binary(toks) : \A j \in Binary(toks) : level(i) <= level(j)}
    IN  CHOOSE i \in low : \A j \in low : IF toks[i].op = "CONCAT" THEN i <= j ELSE i >= j

Floor(m, n) == IF n > 0 THEN m \div n ELSE (-m) \div (-n)
Operate(s, op, a, b) ==
    CASE op = "EQ" -> One(s, Bool(a = b))
      [] op = "NE" -> One(s, Bool(a # b))
      [] op \in {"LT", "LE", "GT", "GE"} ->
            IF ~CanCompare(a, b) THEN One(Raise(s, "compare"), Nil)
            ELSE One(s, Bool(CASE op = "LT" -> LessThan(a, b) [] op = "LE" -> ~LessThan(b, a)
                               [] op = "GT" -> LessThan(b, a) [] OTHER -> ~LessThan(a, b)))
      [] op = "CONCAT" -> IF ~CanConcat(a) \/ ~CanConcat(b) THEN One(Raise(s, "concatenate"), Nil)
                          ELSE One(s, Str(ToChars(a) \o ToChars(b)))
      [] OTHER -> IF ~IsInt(a) \/ ~IsInt(b) THEN One(Raise(s, "arithmetic"), Nil)
                  ELSE IF op \in {"MOD", "IDIV"} /\ b[2] = 0 THEN One(Raise(s, "zero"), Nil)
                  ELSE One(s, IntV(CASE op = "MOD" -> a[2] - b[2] * Floor(a[2], b[2])
                                     [] op = "IDIV" -> Wrap(Floor(a[2], b[2]))
                                     [] OTHER -> IntArith(op, a[2], b[2])))
Apply(s, op, a) ==
    CASE op = "NOT" -> One(s, Bool(IsFalse(a)))
      [] op = "LEN" -> CASE Type(a) = "str" -> One(s, IntV(Len(a[2])))
                         [] Type(a) = "table" -> LET h == s.tables[a[2]] IN
                                One(s, IntV(CHOOSE n \in 0..Cardinality(DOMAIN h) :
                                        /\ \A i \in 1..n : IntV(i) \in DOMAIN h
                                        /\ IntV(n + 1) \notin DOMAIN h))
                         [] OTHER -> One(Raise(s, "length"), Nil)
      [] OTHER -> IF IsInt(a) THEN One(s, IntV(IF op = "UNM" THEN Wrap(-a[2]) ELSE Wrap(-a[2] - 1)))
                  ELSE One(Raise(s, "arithmetic"), Nil)

-----------------------------------------------------------------------------

RECURSIVE Values(_, _, _), ValueList(_, _, _, _), Fields(_, _, _, _, _, _), Path(_, _, _, _, _),
          Exec(_, _, _, _, _), Iterate(_, _, _, _), CountTo(_, _, _, _, _, _), Select(_, _, _, _)

Value(s, env, toks) == LET r == Values(s, env, toks) IN One(r.s, First(r.vs))
\* a list of expressions: the last one may give any number of values
ValueList(s, env, es, n) ==
    IF n > Len(es) THEN [s |-> s, vs |-> <<>>]
    ELSE IF n = Len(es) THEN Values(s, env, es[n])
    ELSE LET r == Value(s, env, es[n])
             t == ValueList(r.s, env, es, n + 1)
         IN  [s |-> t.s, vs |-> r.vs \o t.vs]

Invoke(s, f, args) ==
    CASE ~Ok(s) -> [s |-> s, vs |-> <<>>]
      [] Type(f) = "c" -> IF f[2] = "emit" THEN [s |-> [s EXCEPT !.out = @ \o args], vs |-> <<>>]
                          ELSE [s |-> s, vs |-> args]
      [] Type(f) = "function" ->
            LET fn == s.fns[f[2]]
                names == (IF fn.method THEN <<Self_>> ELSE <<>>) \o fn.fun.params
                rest == IF fn.fun.dots THEN SubSeq(args, Len(names) + 1, Len(args)) ELSE <<>>
                d == Declare(s, [fn.env EXCEPT !.dots = rest], names, args)
            IN  Exec(d.s, fn.fun.body, 1, d.env, <<>>)
      [] OTHER -> [s |-> Raise(s, "call"), vs |-> <<>>]

MakeFun(s, env, fun, method) ==
    One([s EXCEPT !.fns = Append(@, [fun |-> fun, env |-> env, method |-> method])],
        <<"function", Len(s.fns) + 1>>)

\* v with the suffixes from n on; only the last one may give many values
Path(s, env, vs, suffixes, n) ==
    IF n > Len(suffixes) THEN [s |-> s, vs |-> vs]
    ELSE LET x == suffixes[n]
             v == First(vs)
             k == IF x.kind = "index" THEN Value(s, env, x.key) ELSE One(s, Str(x.name))
             m == Index(s, v, Str(x.name))
             args == ValueList(IF x.kind = "method" THEN m.s ELSE s, env, x.args, 1)
             r == CASE x.kind \in {"dot", "index"} -> Index(k.s, v, k.vs[1])
                    [] x.kind = "call" -> Invoke(args.s, v, args.vs)
                    [] OTHER -> Invoke(args.s, m.vs[1], <<v>> \o args.vs)
         IN  IF n = Len(suffixes) THEN r ELSE Path(r.s, env, r.vs, suffixes, n + 1)
Start(s, env, x) == IF x.kind = "paren" THEN Value(s, env, x.exp)
                    ELSE IF Declared(env, x.name) # {} THEN One(s, s.cells[CellOf(env, x.name)])
                    ELSE Index(s, <<"table", 1>>, Str(x.name))
Prefixed(s, env, x) == LET r == Start(s, env, x) IN Path(r.s, env, r.vs, x.suffixes, 1)

\* a constructor; n: the next field, i: the items so far
Fields(s, env, t, fields, n, i) ==
    IF n > Len(fields) THEN s
    ELSE LET x == fields[n]
             k == CASE x.kind = "keyed" -> Value(s, env, x.key) [] x.kind = "named" -> One(s, Str(x.name))
                    [] OTHER -> One(s, IntV(i + 1))
             v == IF x.kind = "item" /\ n = Len(fields) THEN Values(k.s, env, x.val) ELSE Value(k.s, env, x.val)
             store == IF x.kind # "item" THEN SetIndex(v.s, t, k.vs[1], v.vs[1])
                      ELSE FoldLeft(LAMBDA a, j : SetIndex(a, t, IntV(i + j), v.vs[j]), v.s,
                                    [j \in DOMAIN v.vs |-> j])
         IN  Fields(store, env, t, fields, n + 1, IF x.kind = "item" THEN i + 1 ELSE i)

Operand(s, env, x) ==
    CASE x.kind = "int" -> One(s, IntV(x.n))
      [] x.kind = "str" -> One(s, Str(x.chars))
      [] x.kind = "nil" -> One(s, Nil)
      [] x.kind = "true" -> One(s, True)
      [] x.kind = "false" -> One(s, False)
      [] x.kind = "dots" -> [s |-> s, vs |-> env.dots]
      [] x.kind = "function" -> MakeFun(s, env, x, FALSE)
      [] x.kind = "table" ->
            LET t == <<"table", Len(s.tables) + 1>>
            IN  One(Fields([s EXCEPT !.tables = Append(@, << >>)], env, t, x.fields, 1, 0), t)
      [] OTHER -> Prefixed(s, env, x)

Values(s, env, toks) ==
    IF ~Ok(s) THEN One(s, Nil)
    ELSE IF Binary(toks) # {} THEN
        LET i == Loosest(toks)
            op == toks[i].op
            a == Value(s, env, SubSeq(toks, 1, i - 1))
            decided == IF op = "AND" THEN IsFalse(a.vs[1]) ELSE ~IsFalse(a.vs[1])
            b == Value(a.s, env, SubSeq(toks, i + 1, Len(toks)))
        IN  IF op \in {"AND", "OR"} THEN (IF decided THEN a ELSE b)
            ELSE IF ~Ok(b.s) THEN b ELSE Operate(b.s, op, a.vs[1], b.vs[1])
    ELSE IF toks[1].kind = "unary" THEN
        LET a == Value(s, env, Tail(toks)) IN IF Ok(a.s) THEN Apply(a.s, toks[1].op, a.vs[1]) ELSE a
    ELSE Operand(s, env, toks[1])

-----------------------------------------------------------------------------

\* how a statement ends: "next", "return", or "goto" with a name
End(s, env, how, name, vs) == [s |-> s, env |-> env, how |-> how, name |-> name, vs |-> vs]
Next1(s, env) == End(s, env, "next", Break, <<>>)
Leave(r, env) == [r EXCEPT !.env = env]                \* the block's variables are gone
Labelled(b, n) == {j \in DOMAIN b : b[j].kind = "label" /\ b[j].name = n}

\* the block from statement i on; envs: the environment before each one that ran
Exec(s, b, i, env, envs) ==
    IF ~Ok(s) \/ i > Len(b) THEN Next1(s, env)
    ELSE LET at == [j \in 1..i |-> IF j < i /\ j \in DOMAIN envs THEN envs[j] ELSE env]
             r == Select(s, b, i, env)
             j == CHOOSE x \in Labelled(b, r.name) : TRUE
         IN  IF r.how = "next" THEN Exec(r.s, b, i + 1, r.env, at)
             ELSE IF r.how = "goto" /\ Labelled(b, r.name) # {}
             THEN Exec(r.s, b, j, IF j <= i THEN at[j] ELSE env, at)
             ELSE r
Done(r) == ~Ok(r.s) \/ r.how # "next"
AfterLoop(r, env) == IF r.how = "goto" /\ r.name = Break THEN Next1(r.s, env) ELSE Leave(r, env)

\* while and repeat; the condition of repeat sees the variables of the body
Iterate(s, st, env, first) ==
    LET c == Value(s, env, st.cond)
        go == first \/ (Ok(c.s) /\ ~IsFalse(c.vs[1]))
        r == Exec(IF first THEN s ELSE c.s, st.body, 1, env, <<>>)
        u == Value(r.s, r.env, st.cond)
    IN  IF ~go THEN Next1(c.s, env)
        ELSE IF Done(r) THEN AfterLoop(r, env)
        ELSE IF st.kind = "while" THEN Iterate(r.s, st, env, FALSE)
        ELSE IF ~Ok(u.s) \/ ~IsFalse(u.vs[1]) THEN Next1(u.s, env) ELSE Iterate(u.s, st, env, TRUE)
\* the loops over a counter and over an iterator, as the manual spells them out
CountTo(s, st, env, var, limit, step) ==
    LET d == Declare(s, env, <<st.name>>, <<IntV(var)>>)
        r == Exec(d.s, st.body, 1, d.env, <<>>)
    IN  IF IF step > 0 THEN var > limit ELSE var < limit THEN Next1(s, env)
        ELSE IF Done(r) THEN AfterLoop(r, env) ELSE CountTo(r.s, st, env, Wrap(var + step), limit, step)
RECURSIVE IterateOver(_, _, _, _)
IterateOver(s, st, env, g) ==
    LET vs == Invoke(s, g[1], <<g[2], g[3]>>)
        d == Declare(vs.s, env, st.names, vs.vs)
        r == Exec(d.s, st.body, 1, d.env, <<>>)
    IN  IF ~Ok(vs.s) \/ First(vs.vs) = Nil THEN Next1(vs.s, env)
        ELSE IF Done(r) THEN AfterLoop(r, env) ELSE IterateOver(r.s, st, env, <<g[1], g[2], vs.vs[1]>>)

\* the clauses of an if from n on
RECURSIVE Clause(_, _, _, _)
Clause(s, st, env, n) ==
    LET c == Value(s, env, st.clauses[n].cond)
    IN  IF n > Len(st.clauses) THEN (IF st.hasElse THEN Leave(Exec(s, st.else, 1, env, <<>>), env) ELSE Next1(s, env))
        ELSE IF ~Ok(c.s) THEN Next1(c.s, env)
        ELSE IF ~IsFalse(c.vs[1]) THEN Leave(Exec(c.s, st.clauses[n].body, 1, env, <<>>), env)
        ELSE Clause(c.s, st, env, n + 1)

\* the targets of an assignment are found first, then its values, then it stores
RECURSIVE FindTargets(_, _, _, _), StoreAll(_, _, _, _)
FindTargets(s, env, xs, found) ==
    IF Len(found) = Len(xs) THEN [s |-> s, to |-> found]
    ELSE LET x == xs[Len(found) + 1]
             last == x.suffixes[Len(x.suffixes)]
             p == Prefixed(s, env, [x EXCEPT !.suffixes = Front(@)])
             k == IF last.kind = "dot" THEN One(p.s, Str(last.name)) ELSE Value(p.s, env, last.key)
         IN  IF x.suffixes = <<>>
             THEN FindTargets(s, env, xs, Append(found,
                    IF Declared(env, x.name) # {} THEN <<"cell", CellOf(env, x.name), Nil>>
                    ELSE <<"key", <<"table", 1>>, Str(x.name)>>))
             ELSE FindTargets(k.s, env, xs, Append(found, <<"key", First(p.vs), k.vs[1]>>))
StoreAll(s, to, vs, n) ==
    IF n = 0 THEN s
    ELSE StoreAll(IF ~Ok(s) THEN s
                  ELSE IF to[n][1] = "cell" THEN [s EXCEPT !.cells[to[n][2]] = vs[n]]
                  ELSE SetIndex(s, to[n][2], to[n][3], vs[n]), to, vs, n - 1)
Assign(s, env, vars, exps) ==
    LET t == FindTargets(s, env, vars, <<>>)
        r == ValueList(t.s, env, exps, 1)
    IN  Next1(StoreAll(r.s, t.to, Adjust(r.vs, Len(vars)), Len(vars)), env)

\* statement i of block b
Select(s, b, i, env) ==
    LET st == b[i]
        list(es) == ValueList(s, env, es, 1)
    IN  CASE st.kind = "local" ->
                LET r == list(st.exps) IN LET d == Declare(r.s, env, st.names, r.vs) IN Next1(d.s, d.env)
          [] st.kind = "localfunction" ->
                LET d == Declare(s, env, <<st.name>>, <<Nil>>)
                    f == MakeFun(d.s, d.env, st.fun, FALSE)
                IN  Next1([f.s EXCEPT !.cells[CellOf(d.env, st.name)] = f.vs[1]], d.env)
          [] st.kind = "function" ->
                LET t == FindTargets(s, env, <<st.var>>, <<>>)
                    f == MakeFun(t.s, env, st.fun, st.method)
                IN  Next1(StoreAll(f.s, t.to, f.vs, 1), env)
          [] st.kind = "assign" -> Assign(s, env, st.vars, st.exps)
          [] st.kind = "call" -> Next1(Prefixed(s, env, st.exp).s, env)
          [] st.kind = "do" -> Leave(Exec(s, st.body, 1, env, <<>>), env)
          [] st.kind \in {"while", "repeat"} -> Iterate(s, st, env, st.kind = "repeat")
          [] st.kind = "if" -> Clause(s, st, env, 1)
          [] st.kind = "fornum" ->
                LET r == list(st.exps)
                    v == IF Len(st.exps) = 3 THEN r.vs ELSE Append(Adjust(r.vs, 2), IntV(1))
                IN  IF ~Ok(r.s) THEN Next1(r.s, env)
                    ELSE IF \E k \in 1..3 : ~IsInt(v[k]) THEN Next1(Raise(r.s, "for"), env)
                    ELSE CountTo(r.s, st, env, v[1][2], v[2][2], v[3][2])
          [] st.kind = "forlist" ->
                LET r == list(st.exps) IN IterateOver(r.s, st, env, Adjust(r.vs, 3))
          [] st.kind = "return" -> LET r == list(st.exps) IN End(r.s, env, "return", Break, r.vs)
          [] st.kind \in {"goto", "break"} -> End(s, env, "goto", st.name, <<>>)
          [] st.kind = "label" -> Next1(s, env)

Meaning(body) ==
    LET r == Exec(Empty, body, 1, [vars |-> <<>>, dots |-> <<>>], <<>>)
    IN  [out |-> r.s.out, status |-> IF Ok(r.s) THEN "done" ELSE r.s.err]

-----------------------------------------------------------------------------
(* Which gotos are legal: those to a label of a block they are in, not into  *)
(* the scope of a variable.  Illegal gotos are Nowhere, which nothing has.   *)

Nowhere == <<1>>
Locals == {"local", "localfunction"}
\* a goto from inside statement i to name n: the label, or what is left to find
Resolve(b, i, n, rep) ==
    LET j == CHOOSE x \in Labelled(b, n) : TRUE
        atEnd == \A k \in j..Len(b) : b[k].kind = "label"
    IN  IF Labelled(b, n) = {} THEN {n}
        ELSE IF j > i /\ (\E k \in i + 1..j : b[k].kind \in Locals) /\ (rep \/ ~atEnd) THEN {Nowhere} ELSE {}
RECURSIVE Unresolved(_, _)
Inside(st) ==
    CASE st.kind \in {"goto", "break"} -> {st.name}
      [] st.kind = "do" -> Unresolved(st.body, FALSE)
      [] st.kind \in {"while", "repeat", "fornum", "forlist"} -> Unresolved(st.body, st.kind = "repeat") \ {Break}
      [] st.kind = "if" -> UNION {Unresolved(st.clauses[c].body, FALSE) : c \in DOMAIN st.clauses}
                           \cup (IF st.hasElse THEN Unresolved(st.else, FALSE) ELSE {})
      [] st.kind \in {"localfunction", "function"} -> IF Unresolved(st.fun.body, FALSE) = {} THEN {} ELSE {Nowhere}
      [] OTHER -> {}
Unresolved(b, rep) ==
    UNION {UNION {Resolve(b, i, n, rep) : n \in Inside(b[i])} : i \in DOMAIN b}
    \cup {Nowhere : i \in {j \in DOMAIN b : b[j].kind = "label" /\ Cardinality(Labelled(b, b[j].name)) > 1}}
Legal(body) == Unresolved(body, FALSE) = {}
=============================================================================
