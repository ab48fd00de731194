----------------------------- MODULE MCPrograms -----------------------------
(* Families of small programs, compiled by Parser, run by Machine, and judged *)
(* by Semantics.                                                             *)
EXTENDS Machine

M == INSTANCE Semantics

-----------------------------------------------------------------------------
(* How the programs are written down.                                        *)

I(n) == [kind |-> "int", n |-> n]
S(chars) == [kind |-> "str", chars |-> chars]
C(kind) == [kind |-> kind]                              \* nil, true, false, dots
U(op) == [kind |-> "unary", op |-> op]
B(op) == [kind |-> "bin", op |-> op]
V(n) == [kind |-> "name", name |-> n, suffixes |-> <<>>]
Paren(toks) == [kind |-> "paren", exp |-> toks, suffixes |-> <<>>]
Then(x, s) == [x EXCEPT !.suffixes = Append(@, s)]
Call_(x, args) == Then(x, [kind |-> "call", args |-> args])
At(x, key) == Then(x, [kind |-> "index", key |-> key])
Dot(x, name) == Then(x, [kind |-> "dot", name |-> name])
Send(x, name, args) == Then(x, [kind |-> "method", name |-> name, args |-> args])
Func(params, body) == [kind |-> "function", params |-> params, dots |-> FALSE, body |-> body]
FuncDots(params, body) == [kind |-> "function", params |-> params, dots |-> TRUE, body |-> body]
Table_(fields) == [kind |-> "table", fields |-> fields]
Item(toks) == [kind |-> "item", val |-> toks]
Named(name, toks) == [kind |-> "named", name |-> name, val |-> toks]
Keyed(key, toks) == [kind |-> "keyed", key |-> key, val |-> toks]

Do(x) == [kind |-> "call", exp |-> x]
Emit(es) == Do(Call_(V(EmitName), es))
Local(names, es) == [kind |-> "local", names |-> names, exps |-> es]
LocalFun(name, fun) == [kind |-> "localfunction", name |-> name, fun |-> fun]
Set(xs, es) == [kind |-> "assign", vars |-> xs, exps |-> es]
Ret1(es) == [kind |-> "return", exps |-> es]
If(cond, body) == [kind |-> "if", clauses |-> << [cond |-> cond, body |-> body] >>, hasElse |-> FALSE]
IfElse(cond, body, else) == [kind |-> "if", clauses |-> << [cond |-> cond, body |-> body] >>,
                             hasElse |-> TRUE, else |-> else]
IfElif(c1, b1, c2, b2, else) ==
    [kind |-> "if", clauses |-> << [cond |-> c1, body |-> b1], [cond |-> c2, body |-> b2] >>,
     hasElse |-> TRUE, else |-> else]
While(cond, body) == [kind |-> "while", cond |-> cond, body |-> body]
Repeat(body, cond) == [kind |-> "repeat", body |-> body, cond |-> cond]
For(name, es, body) == [kind |-> "fornum", name |-> name, exps |-> es, body |-> body]
ForIn(names, es, body) == [kind |-> "forlist", names |-> names, exps |-> es, body |-> body]
Block_(body) == [kind |-> "do", body |-> body]
Go(name) == [kind |-> "goto", name |-> name]
BreakOut == [kind |-> "break", name |-> BreakName]
Lab(name) == [kind |-> "label", name |-> name, last |-> "end"]
LabUntil(name) == [kind |-> "label", name |-> name, last |-> "until"]

a == <<97>>
b == <<98>>
c == <<99>>
f == <<102>>
k == <<107>>
n == <<110>>
t == <<116>>
u == <<117>>
v == <<118>>
L == <<76>>
Num(x) == << IF x < 0 THEN Paren(<<U("UNM"), I(-x)>>) ELSE I(x) >>
Id(es) == Call_(V(IdName), es)
Seqs(S_, m) == [1..m -> S_]

-----------------------------------------------------------------------------
(* Conditions and logical values: all ways to join three operands.           *)

Lits == << <<C("nil")>>, <<C("false")>>, <<I(1)>> >>
\* f(a, b, c) for all a, b, c of nil, false and 1, emitting what it gives
TryAll(body) ==
    << LocalFun(f, Func(<<a, b, c>>, body)) >> \o
    [i \in 1..8 |-> Emit(<< <<Call_(V(f), << Lits[1 + (((i - 1) \div 4) * 2)], Lits[2 + (((i - 1) \div 2) % 2)],
                                            Lits[1 + (((i - 1) % 2) * 2)] >>)>> >>)]
Nots == << << >>, <<U("NOT")>> >>
Joined == {<<x1, x2, x3, o1, o2, p>> : x1 \in 1..2, x2 \in 1..2, x3 \in 1..2,
                                       o1 \in {"AND", "OR", "EQ"}, o2 \in {"AND", "OR", "NE"}, p \in {0, 1}}
JoinedExp(j) ==
    LET right == <<V(b), B(j[5])>> \o Nots[j[3]] \o <<V(c)>>
    IN  Nots[j[1]] \o <<V(a), B(j[4])>> \o Nots[j[2]] \o (IF j[6] = 1 THEN <<Paren(right)>> ELSE right)
Uses(e) == << << Ret1(<<e>>) >>,
             << Local(<<v>>, <<e>>), Ret1(<< <<V(v)>> >>) >>,
             << IfElse(e, <<Ret1(<< <<I(1)>> >>)>>, <<Ret1(<< <<I(2)>> >>)>>) >>,
             << While(e, <<Ret1(<< <<I(1)>> >>)>>) >>,
             << Repeat(<<Local(<<v>>, << <<V(a)>> >>), If(<<V(v)>>, <<BreakOut>>)>>,
                       <<U("NOT"), Paren(e), B("OR"), C("true")>>) >> >>
Logic(m) == {TryAll(Uses(JoinedExp(j))[m]) : j \in Joined}
\* with a constant in the middle
MiddleExp(x, o1, o2) == <<V(a), B(o1), x, B(o2), V(c)>>
Middle(m) == {TryAll(Uses(MiddleExp(x, o1, o2))[m]) :
    x \in {C("nil"), C("false"), C("true"), I(5), V(u)}, o1 \in {"AND", "OR"}, o2 \in {"AND", "OR"}}
Elifs == { TryAll(<< IfElif(<<V(a)>>, x, <<V(b), B("OR"), V(c)>>, <<Set(<<V(u)>>, << <<I(3)>> >>)>>, y),
                     Ret1(<< <<V(u)>> >>) >>) :
           x \in {<<>>, <<Ret1(<< <<I(1)>> >>)>>}, y \in {<<>>, <<Set(<<V(u)>>, << <<I(4)>> >>)>>} }

-----------------------------------------------------------------------------
(* Arithmetic at the ends of the integers, with variables and with constants *)

Triples == << <<7, 1, 2>>, <<-8, -1, 3>>, <<-7, 2, -3>>, <<5, -3, 7>>, <<0, 7, -8>>, <<3, 4, -1>>, <<6, 0, 0>> >>
Chain(x, y, z, o1, o2) == x \o <<B(o1)>> \o y \o <<B(o2)>> \o z
ArithVars(o1, o2) ==
    << LocalFun(f, Func(<<a, b, c>>, <<Ret1(<<Chain(<<V(a)>>, <<U("UNM"), V(b)>>, <<V(c)>>, o1, o2)>>)>>)) >> \o
    [i \in DOMAIN Triples |-> Emit(<< <<Call_(V(f), [j \in 1..3 |-> Num(Triples[i][j])])>> >>)]
ArithConst(o1, o2) ==
    [i \in DOMAIN Triples |-> Emit(<< Chain(Num(Triples[i][1]), <<U("BNOT")>> \o Num(Triples[i][2]),
                                            Num(Triples[i][3]), o1, o2) >>)]
ArithOps == {"ADD", "SUB", "MUL", "IDIV", "MOD"}
Arith_ == {ArithVars(o1, o2) : o1 \in Arithmetic, o2 \in ArithOps} \cup
          {ArithConst(o1, o2) : o1 \in Arithmetic, o2 \in ArithOps}
Compares == { << Local(<<a, b>>, <<x, y>>), Emit(<< <<V(a), B(o), V(b)>>, x \o <<B(o), V(b)>>, <<V(a), B(o)>> \o y >>) >> :
              o \in {"EQ", "NE", "LT", "LE", "GT", "GE"},
              x \in {<<I(2)>>, <<S(<<97>>)>>, <<S(<<97, 98>>)>>}, y \in {<<I(2)>>, <<I(1)>>, <<S(<<97, 98>>)>>, <<C("nil")>>} }
Joins == { << Local(<<a, b>>, << <<S(<<97>>)>>, <<I(7)>> >>),
              Emit(<< Chain(x, y, z, "CONCAT", o), Chain(x, y, z, o, "CONCAT"), <<U("LEN"), Paren(Chain(x, y, x, "CONCAT", "CONCAT"))>> >>) >> :
           x \in {<<V(a)>>, <<S(<<>>)>>, <<I(3)>>}, y \in {<<V(b)>>, <<Id(<< <<I(1)>> >>)>>},
           z \in {<<I(4)>>, <<U("UNM"), V(b)>>, <<V(a)>>, <<C("nil")>>}, o \in {"CONCAT", "ADD", "EQ"} }

-----------------------------------------------------------------------------
(* Loops, and the variables their bodies give to closures.                   *)

Inc(x, e) == Set(<<x>>, << <<x, B("ADD")>> \o e >>)
Adder(name) == Func(<<>>, <<Inc(V(name), <<I(1)>>), Ret1(<< <<V(name)>> >>)>>)
Keep == Set(<<At(V(t), <<V(n)>>)>>, << <<Adder(v)>> >>)
Getter == Set(<<At(V(t), <<V(n), B("ADD"), I(4)>>)>>, << <<Func(<<>>, <<Ret1(<< <<V(v)>> >>)>>)>> >>)
Outs == { <<BreakOut>>, <<Go(L)>>, <<Emit(<< <<V(n)>> >>)>>, <<Emit(<< <<V(v)>> >>), Go(L)>>,
          <<Block_(<<Local(<<u>>, << <<V(n)>> >>), Set(<<V(v)>>, << <<Func(<<>>, <<Ret1(<< <<V(u)>> >>)>>)>> >>), BreakOut>>)>>,
          <<Ret1(<< <<V(v)>> >>)>> }
\* the body of a loop in which n counts from 1
Bodies(last) == {<< Local(<<v>>, << <<V(n), B("MUL"), I(2)>> >>), Keep, Getter,
                    If(<<V(n), B("EQ"), I(2)>>, x), Inc(V(v), <<I(1)>>), last >> : x \in Outs}
Plain == { << Local(<<v>>, << <<V(n)>> >>), Keep, Inc(V(k), <<V(v)>>) >> }
Counted(bd) == <<Inc(V(n), <<I(1)>>)>> \o bd
Loops(bd) == { <<For(n, << <<I(1)>>, <<I(3)>> >>, bd)>>,
               <<Local(<<n>>, << <<I(0)>> >>), While(<<V(n), B("LT"), I(3)>>, Counted(bd))>>,
               <<ForIn(<<n>>, << <<Func(<<u, k>>, <<If(<<V(k), B("LT"), I(3)>>, <<Ret1(<< <<V(k), B("ADD"), I(1)>> >>)>>)>>)>>,
                                 <<C("nil")>>, <<I(0)>> >>, bd)>> }
Repeats(bd) == { <<Local(<<n>>, << <<I(0)>> >>), Repeat(Counted(bd), <<V(n), B("GE"), I(3)>>)>>,
                 <<Local(<<n>>, << <<I(0)>> >>), Repeat(Counted(bd), <<V(v), B("GT"), I(5), B("OR"), V(n), B("EQ"), I(3)>>)>> }
Shown == [i \in 1..5 |-> Emit(<< <<V(t), B("AND"), Call_(Paren(<<At(V(t), <<I(<<1, 1, 5, 3, 7>>[i])>>), B("OR"), V(IdName)>>), << <<I(i)>> >>)>> >>)]
InFun(body) == <<Local(<<t, k>>, << <<Table_(<<>>)>>, <<I(0)>> >>), LocalFun(f, Func(<<>>, body)),
                 Emit(<< <<Call_(V(f), <<>>)>> >>), Emit(<< <<V(k)>> >>)>> \o Shown
Loop == {InFun(l) : l \in UNION {Loops(bd) : bd \in Bodies(Lab(L)) \cup Plain}} \cup
        {InFun(l) : l \in UNION {Repeats(bd) : bd \in Bodies(LabUntil(L)) \cup Plain}}
Counters == { <<For(n, [i \in 1..Len(r) |-> Num(r[i])], <<Emit(<< <<V(n)>> >>), Set(<<V(n)>>, << <<I(0)>> >>)>>)>> :
              r \in {<<1, 3>>, <<3, 1>>, <<3, 1, -1>>, <<5, 6>>, <<-7, -6>>, <<-6, -7, -1>>, <<2, 2, 3>>, <<0, 6, 3>>, <<1, -5, -3>>} }
           \cup { <<For(n, << x, <<I(2)>> >>, <<Emit(<< <<V(n)>> >>)>>)>> : x \in {<<C("nil")>>, <<S(a)>>} }

\* a goto and its label among other statements, in each order
Pieces == << <<Lab(L)>>, <<Inc(V(n), <<I(1)>>), If(<<V(n), B("LT"), I(3)>>, <<Go(L)>>)>>,
             <<Local(<<v>>, << <<V(n)>> >>)>>, <<Set(<<V(u), V(t)>>, << <<V(t)>>, <<Func(<<>>, <<Ret1(<< <<V(v)>> >>)>>)>> >>)>>,
             <<Emit(<< <<V(n)>>, <<V(v)>> >>)>> >>
Order(s) == FlattenSeq([i \in DOMAIN s |-> Pieces[s[i]]])
Jumpy(bd) == <<Local(<<n, t, u>>, << <<I(0)>>, <<V(IdName)>>, <<V(IdName)>> >>)>> \o bd \o
             <<Emit(<< <<Call_(V(u), << <<V(n)>> >>)>>, <<Call_(V(t), << <<V(n)>> >>)>> >>)>>
Orders == {s \in Seqs(1..5, 4) : \E i \in 1..4 : s[i] = 2}
Jumps_(q) == {Jumpy(<<Block_(Order(s))>>) : s \in {o \in Orders : o[1] = q}}
Jumps2 == {Jumpy(<<Lab(L), Block_(Order(s))>>) : s \in {o \in Seqs(2..5, 3) : \E i \in 1..3 : o[i] = 2}} \cup
          {Jumpy(<<Repeat(Order(s) \o <<LabUntil(L)>>, <<V(n), B("GT"), I(2), B("OR"), V(v)>>)>>) :
                s \in {o \in Seqs(2..4, 2) : \E i \in 1..2 : o[i] = 2}} \cup
          {<<BreakOut>>, <<Go(L)>>, <<Lab(L), Lab(L)>>, <<LocalFun(f, Func(<<>>, <<Go(L)>>)), Lab(L)>>}

-----------------------------------------------------------------------------
(* Assignments, calls and constructors.                                      *)

Targets2 == {V(k), V(u), At(V(t), <<V(k)>>), At(V(t), <<V(u)>>), V(t), At(V(t), <<I(1)>>), Dot(V(c), a)}
Assigned(x, y, es) ==
    << Local(<<k, t>>, << <<I(1)>>, <<Table_(<<Item(<<I(4)>>), Item(<<I(5)>>)>>)>> >>), Local(<<b>>, << <<V(t)>> >>),
       Set(<<V(u), V(c)>>, << <<I(2)>>, <<V(t)>> >>),
       Set(<<x, y>>, es), Emit(<< <<V(k)>>, <<V(u)>>, <<At(V(b), <<I(1)>>)>>, <<At(V(b), <<I(2)>>)>>, <<Dot(V(b), a)>> >>) >>
Closed_(x, y, es) ==
    << Local(<<k, t>>, << <<I(1)>>, <<Table_(<<Item(<<I(4)>>), Item(<<I(5)>>)>>)>> >>), Local(<<b>>, << <<V(t)>> >>),
       Set(<<V(u), V(c)>>, << <<I(2)>>, <<V(t)>> >>),
       LocalFun(f, Func(<<>>, <<Set(<<x, y>>, es)>>)), Do(Call_(V(f), <<>>)),
       Emit(<< <<V(k)>>, <<V(u)>>, <<At(V(b), <<I(1)>>)>>, <<At(V(b), <<I(2)>>)>> >>) >>
Sources == << << <<I(2)>>, <<I(1)>> >>, << <<V(u)>>, <<V(k)>> >>, << <<I(2)>> >>, << <<Id(<< <<I(2)>>, <<I(6)>> >>)>> >>,
             << <<I(2)>>, <<Id(<< <<I(1)>> >>)>>, <<I(3)>> >> >>
Assigns(es) == {Assigned(x, y, es) : x \in Targets2, y \in Targets2}
Assigns2 == {Closed_(x, y, es) : x \in Targets2, y \in Targets2, es \in {<< <<I(2)>>, <<V(k)>> >>}}

ArgLists == { <<>>, << <<I(1)>> >>, << <<I(1)>>, <<C("nil")>>, <<I(3)>> >>, << <<C("dots")>> >>, << <<I(1)>>, <<C("dots")>> >>,
              << <<C("dots")>>, <<I(1)>> >>, << <<Id(<< <<C("dots")>> >>)>> >>, << <<Paren(<<C("dots")>>)>> >>,
              << <<I(1)>>, <<I(2)>>, <<I(3)>>, <<I(4)>>, <<C("dots")>> >>, << <<I(1)>>, <<I(2)>>, <<I(3)>>, <<I(4)>>, <<I(5)>> >> }
Collect(args) == <<Table_([i \in DOMAIN args |-> Item(args[i])])>>
Given(g) == [i \in 1..g |-> <<I(10 - i - 4)>>]
Consumers(args) == { <<Emit(args)>>, <<Ret1(args)>>, <<Ret1(<< <<Id(args)>> >>)>>, <<Local(<<a, v, k>>, args), Ret1(<< <<V(k)>>, <<V(v)>> >>)>>,
                     <<Local(<<t>>, <<Collect(args)>>), Ret1(<< <<U("LEN"), V(t)>>, <<At(V(t), <<I(3)>>)>>, <<At(V(t), <<I(5)>>)>> >>)>>,
                     <<Ret1(<< <<Call_(V(u), args)>> >>)>>,
                     <<ForIn(<<v>>, args, <<>>)>> }
Calls_(fx, g) ==
    {<< Set(<<V(u)>>, << <<Func(<<a, b>>, <<Ret1(<< <<V(b)>>, <<V(a)>> >>)>>)>> >>),
              LocalFun(f, FuncDots(IF fx THEN <<c>> ELSE <<>>, bd)),
              Emit(<< <<I(0)>>, <<Call_(V(f), Given(g))>> >>) >> :
             bd \in UNION {Consumers(args) : args \in ArgLists \ {<<>>}}}
Counting == Func(<<n, b>>, <<IfElse(<<V(n), B("EQ"), I(0)>>, <<Ret1(<< <<V(b)>> >>)>>,
                    <<Ret1(<< <<Call_(V(f), << <<V(n), B("SUB"), I(1)>>, <<V(b), B("ADD"), I(1)>> >>)>> >>)>>)>>)
Fact == Func(<<n>>, <<If(<<V(n), B("LE"), I(1)>>, <<Ret1(<< <<I(1)>> >>)>>),
                      Ret1(<< <<V(n), B("MUL"), Call_(V(f), << <<V(n), B("SUB"), I(1)>> >>)>> >>)>>)
Capturing == Func(<<n>>, <<Local(<<v>>, << <<Func(<<>>, <<Ret1(<< <<V(n)>> >>)>>)>> >>),
                           If(<<V(n), B("EQ"), I(0)>>, <<Ret1(<< <<V(v)>> >>)>>),
                           Ret1(<< <<Call_(V(f), << <<V(n), B("SUB"), I(1)>> >>)>> >>)>>)
Others ==
    { << LocalFun(f, Counting), Emit(<< <<Call_(V(f), << <<I(3)>>, <<I(0)>> >>)>> >>) >>,
      << LocalFun(f, Fact), Emit(<< <<Call_(V(f), << <<I(3)>> >>)>> >>) >>,
      << LocalFun(f, Capturing), Emit(<< <<Call_(Call_(V(f), << <<I(2)>> >>), <<>>)>> >>) >>,
      << Local(<<t>>, << <<Table_(<<Named(a, <<I(1)>>), Item(<<I(2)>>), Keyed(<<I(2)>>, <<I(3)>>), Item(<<V(u)>>)>>)>> >>),
         [kind |-> "function", var |-> Dot(V(t), f), method |-> TRUE,
          fun |-> Func(<<v>>, <<Set(<<Dot(V(SelfName), a)>>, << <<V(v)>> >>), Ret1(<< <<V(SelfName)>> >>)>>)],
         Emit(<< <<Dot(Send(Send(V(t), f, << <<I(5)>> >>), f, << <<I(6)>> >>), a)>>, <<At(V(t), <<I(1)>>)>>, <<At(V(t), <<I(2)>>)>> >>) >>,
      << Emit(<< <<Dot(V(u), a)>> >>) >>, << Do(Call_(V(u), <<>>)) >>, << Set(<<Dot(V(u), a)>>, << <<I(1)>> >>) >>,
      << Local(<<a, b>>, <<>>), Emit(<< <<V(a)>>, <<V(b)>>, <<U("NOT"), V(b)>> >>), Emit(<< <<U("LEN"), V(a)>> >>) >>,
      << Local(<<a>>, << <<I(1)>> >>), Block_(<<Local(<<a>>, << <<V(a), B("ADD"), I(1)>> >>), Emit(<< <<V(a)>> >>)>>), Emit(<< <<V(a)>> >>) >>,
      << If(<<V(k)>>, <<Local(<<a, c>>, <<>>)>>), Local(<<b, c>>, <<>>), Emit(<< <<V(b)>>, <<V(c)>> >>) >>,
      << If(<<C("nil")>>, <<Emit(<< <<I(1)>> >>)>>), Local(<<a>>, <<>>), Local(<<b>>, <<>>), Emit(<< <<V(a)>>, <<V(b)>> >>) >>,
      << Local(<<n>>, << <<I(2)>> >>), While(<<V(n)>>, <<Local(<<a>>, <<>>), Emit(<< <<V(a)>> >>), Set(<<V(a)>>, << <<I(1)>> >>),
         If(<<V(n), B("EQ"), I(1)>>, <<Set(<<V(n)>>, << <<C("nil")>> >>)>>), Set(<<V(n)>>, << <<V(n), B("AND"), I(1)>> >>)>>) >> }

ProgramSet ==
    UNION {Logic(m) \cup Middle(m) \cup Jumps_(m) \cup Assigns(Sources[m]) : m \in 1..5} \cup
    UNION {Calls_(fx, g) : fx \in BOOLEAN, g \in {0, 1, 3}} \cup
    Elifs \cup Arith_ \cup Compares \cup Joins \cup Loop \cup Counters \cup Jumps2 \cup Assigns2 \cup Others

-----------------------------------------------------------------------------

\* a table or function of the machine and of the reference are the same if both are one
Ref(x) == IF Type(x) \in {"table", "function", "c"} THEN <<"ref", 0>> ELSE x
Refs(vs) == [i \in DOMAIN vs |-> Ref(vs[i])]
VARIABLES meaning,              \* of the program, once it is loaded
          steps                 \* instructions so far
CONSTANT Meanings               \* of each program, like Compiled evaluated once
MeaningOf(p) == IF M!Legal(p) THEN LET r == M!Meaning(p) IN [r EXCEPT !.out = Refs(@)]
                ELSE [out |-> <<>>, status |-> "rejected"]
MCInit == Init /\ meaning = [out |-> <<>>, status |-> "unknown"] /\ steps = 0
MCNext == /\ Next
          /\ meaning' = IF status = "load" THEN Meanings[prog] ELSE meaning
          /\ steps' = IF status = "run" THEN steps + 1 ELSE steps

(* What a program emits, and how it ends, is what its source means: through  *)
(* the compiler's one pass (jump lists patched later, registers freed as a   *)
(* stack, targets copied when an assignment would change them) and the       *)
(* machine's upvalues, varargs, tail calls and wrapped integers; and just    *)
(* the programs with a goto to no visible label, or into the scope of a      *)
(* variable, are refused.                                                    *)
SameAsReference ==
    /\ IsPrefix(Refs(out), meaning.out)
    /\ status \notin {"load", "run"} => Refs(out) = meaning.out /\ status = meaning.status

(* The code is sound and means what its source does: no instruction reads a  *)
(* register that is not live there, nor jumps out of its function.           *)
CodeIsRight == SoundCode /\ SameAsReference

\* the machine while no program is run
Smallest == << Emit(<< <<Dot(V(u), a)>> >>) >>
=============================================================================
