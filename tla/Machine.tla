------------------------------ MODULE Machine ------------------------------
(* luaV_execute on what the parser made of a program, with the calls it      *)
(* makes of ldo.c and lfunc.c.  The stack is one for all frames; a slot that *)
(* nothing has been written to since its frame began, or that a return left  *)
(* behind, is Junk.  Metamethods, hooks, floats, the cache of closures and   *)
(* the nested luaV_execute of a for iterator are left out.                   *)
EXTENDS Parser

CONSTANTS Programs,                     \* a set of programs (see Parser)
          Compiled                      \* what Compile makes of each of them

VARIABLES prog,                         \* the source, until it is loaded
          main,                         \* the function the parser made of it
          frames,                       \* the CallInfo's: fun, base, pc, nres
          stack, top,                   \* the stack from 1, and L->top
          cells,                        \* the UpVal's: open at a slot, or with a value
          closures,                     \* a path to the function, and its cells
          tables,                       \* each from keys to values other than nil
          out,                          \* what emit has been called with
          status                        \* "run", "done", or what went wrong
vars == <<prog, main, frames, stack, top, cells, closures, tables, out, status>>
data == <<cells, closures, tables, out>>

Junk == <<"junk", 0>>
CFun(name) == <<"c", name>>
Fun(n) == <<"function", n>>
Tab(n) == <<"table", n>>
EmitName == <<101>>
IdName == <<105>>

-----------------------------------------------------------------------------
(* Frames, registers, constants.                                             *)

Slot(n) == IF n \in DOMAIN stack THEN stack[n] ELSE Junk
\* writes vs at n; what is between the end of the stack and n is junk
Write(s, n, vs) ==
    [i \in 1..(IF n + Len(vs) - 1 > Len(s) THEN n + Len(vs) - 1 ELSE Len(s)) |->
        IF i \in n..(n + Len(vs) - 1) THEN vs[i - n + 1] ELSE IF i \in DOMAIN s THEN s[i] ELSE Junk]
Slots(from, n) == [i \in 1..n |-> Slot(from + i - 1)]

ci == Last(frames)
Closure(fr) == closures[stack[fr.fun][2]]
Function(path) == FoldLeft(LAMBDA p, n : p.p[n], main, path)
proto == Function(Closure(ci).path)
FrameTop(fr) == fr.base + Function(Closure(fr).path).max
instr == proto.code[ci.pc]
Next_(n) == [frames EXCEPT ![Len(frames)].pc = n]

R(a) == Slot(ci.base + a)
RKVal(x) == IF x < 0 THEN proto.k[-x] ELSE R(x)
Cell(n) == cells[Closure(ci).ups[n]]
CellValue(c) == IF c.open THEN Slot(c.at) ELSE c.v

On(ops) == status = "run" /\ instr.op \in ops
Goto(n) == frames' = Next_(n)
Skip == Goto(ci.pc + 1)
Fail(kind) == status' = kind /\ UNCHANGED <<prog, main, frames, stack, top, data>>
SetR(a, v) == stack' = Write(stack, ci.base + a, <<v>>)
\* an instruction whose result goes to register A
Result(v) == SetR(instr.a, v) /\ Skip /\ UNCHANGED <<prog, main, top, data, status>>

\* luaF_close
Closed(level, s) ==
    [c \in DOMAIN cells |-> IF cells[c].open /\ cells[c].at >= level
                            THEN [open |-> FALSE, at |-> 0, v |-> s[cells[c].at]] ELSE cells[c]]
\* dojump: a jump out of a block closes its upvalues
JumpClosing(n, close) ==
    /\ Goto(n)
    /\ cells' = IF close = 0 THEN cells ELSE Closed(ci.base + close - 1, stack)
\* donextjump, or over the jump that follows a test
Branch(taken) ==
    LET j == proto.code[ci.pc + 1]
    IN  IF taken THEN JumpClosing(j.b, j.a) ELSE Goto(ci.pc + 2) /\ UNCHANGED cells

-----------------------------------------------------------------------------
(* Values and tables.                                                        *)

TableGet(t, k) == IF k \in DOMAIN tables[t] THEN tables[t][k] ELSE Nil
TablePut(h, k, v) == [x \in (DOMAIN h \cup {k}) \ (IF v = Nil THEN {k} ELSE {}) |-> IF x = k THEN v ELSE h[x]]
\* luaH_getn, of tables whose border is unique
Border(h) == CHOOSE n \in 0..Cardinality(DOMAIN h) :
                (n = 0 \/ IntV(n) \in DOMAIN h) /\ IntV(n + 1) \notin DOMAIN h

Load ==                                 \* OP_MOVE, OP_LOADK, OP_GETUPVAL
    /\ On({"MOVE", "LOADK", "GETUPVAL"})
    /\ Result(CASE instr.op = "MOVE" -> R(instr.b)
                [] instr.op = "LOADK" -> proto.k[instr.b]
                [] OTHER -> CellValue(Cell(instr.b)))
LoadNil ==
    /\ On({"LOADNIL"})
    /\ stack' = Write(stack, ci.base + instr.a, [i \in 1..instr.b + 1 |-> Nil])
    /\ Skip /\ UNCHANGED <<prog, main, top, data, status>>
LoadBool ==
    /\ On({"LOADBOOL"})
    /\ SetR(instr.a, Bool(instr.b = 1))
    /\ Goto(ci.pc + IF instr.c = 1 THEN 2 ELSE 1)
    /\ UNCHANGED <<prog, main, top, data, status>>
SetUpval ==
    /\ On({"SETUPVAL"})
    /\ LET n == Closure(ci).ups[instr.b]
       IN  IF cells[n].open THEN stack' = Write(stack, cells[n].at, <<R(instr.a)>>) /\ UNCHANGED cells
           ELSE cells' = [cells EXCEPT ![n].v = R(instr.a)] /\ UNCHANGED stack
    /\ Skip /\ UNCHANGED <<prog, main, top, closures, tables, out, status>>

GetTable ==
    /\ On({"GETTABLE", "GETTABUP", "SELF"})
    /\ LET t == IF instr.op = "GETTABUP" THEN CellValue(Cell(instr.b)) ELSE R(instr.b)
           v == TableGet(t[2], RKVal(instr.c))
       IN  IF Type(t) # "table" THEN Fail("index")
           ELSE /\ stack' = Write(stack, ci.base + instr.a,
                                  IF instr.op = "SELF" THEN <<v, t>> ELSE <<v>>)
                /\ Skip /\ UNCHANGED <<prog, main, top, data, status>>
SetTable ==
    /\ On({"SETTABLE", "SETTABUP"})
    /\ LET t == IF instr.op = "SETTABUP" THEN CellValue(Cell(instr.a)) ELSE R(instr.a)
           k == RKVal(instr.b)
       IN  IF Type(t) # "table" \/ k = Nil THEN Fail("index")
           ELSE /\ tables' = [tables EXCEPT ![t[2]] = TablePut(@, k, RKVal(instr.c))]
                /\ Skip /\ UNCHANGED <<prog, main, stack, top, cells, closures, out, status>>
NewTable ==
    /\ On({"NEWTABLE"})
    /\ tables' = Append(tables, << >>)
    /\ SetR(instr.a, Tab(Len(tables) + 1))
    /\ Skip /\ UNCHANGED <<prog, main, top, cells, closures, out, status>>
\* an open list ends at the top, which then goes back to the frame's
SetListStep ==
    /\ On({"SETLIST"})
    /\ LET n == IF instr.b = 0 THEN top - (ci.base + instr.a) - 1 ELSE instr.b
           before == (instr.c - 1) * FieldsPerFlush
       IN  /\ tables' = [tables EXCEPT ![R(instr.a)[2]] =
                FoldLeft(LAMBDA h, i : TablePut(h, IntV(before + i), R(instr.a + i)), @, [i \in 1..n |-> i])]
           /\ top' = FrameTop(ci)
    /\ Skip /\ UNCHANGED <<prog, main, stack, cells, closures, out, status>>

\* the operands of luaV_concat, from the right
RECURSIVE ConcatFrom(_, _)
ConcatFrom(vs, acc) ==
    IF vs = <<>> THEN acc
    ELSE IF ~CanConcat(Last(vs)) \/ ~CanConcat(acc) THEN Junk
    ELSE ConcatFrom(Front(vs), Str(ToChars(Last(vs)) \o ToChars(acc)))
Concat ==
    /\ On({"CONCAT"})
    /\ LET vs == Slots(ci.base + instr.b, instr.c - instr.b + 1)
           v == ConcatFrom(Front(vs), Last(vs))
       IN  IF v = Junk THEN Fail("concatenate")
           ELSE /\ stack' = Write(SubSeq(stack, 1, ci.base + instr.b - 1), ci.base + instr.a, <<v>>)
                /\ top' = FrameTop(ci)
                /\ Skip /\ UNCHANGED <<prog, main, data, status>>

Arith ==
    /\ On(Arithmetic)
    /\ LET m == RKVal(instr.b)
           n == RKVal(instr.c)
       IN  IF ~IsInt(m) \/ ~IsInt(n) THEN Fail("arithmetic")
           ELSE IF instr.op \in {"MOD", "IDIV"} /\ n[2] = 0 THEN Fail("zero")
           ELSE Result(IntV(IntArith(instr.op, m[2], n[2])))
Unary ==
    /\ On({"UNM", "BNOT", "NOT", "LEN"})
    /\ LET v == R(instr.b)
       IN  CASE instr.op = "NOT" -> Result(Bool(IsFalse(v)))
             [] instr.op = "LEN" -> IF Type(v) = "table" THEN Result(IntV(Border(tables[v[2]])))
                                    ELSE IF Type(v) = "str" THEN Result(IntV(Len(v[2]))) ELSE Fail("length")
             [] OTHER -> IF IsInt(v) THEN Result(IntV(IntArith(instr.op, v[2], 0))) ELSE Fail("arithmetic")

-----------------------------------------------------------------------------
(* Jumps and tests.                                                          *)

JumpStep ==
    /\ On({"JMP"})
    /\ JumpClosing(instr.b, instr.a)
    /\ UNCHANGED <<prog, main, stack, top, closures, tables, out, status>>
Compare ==
    /\ On({"EQ", "LT", "LE"})
    /\ LET m == RKVal(instr.b)
           n == RKVal(instr.c)
       IN  IF instr.op # "EQ" /\ ~CanCompare(m, n) THEN Fail("compare")
           ELSE /\ Branch((CASE instr.op = "EQ" -> m = n [] instr.op = "LT" -> LessThan(m, n)
                             [] OTHER -> LessEqual(m, n)) <=> (instr.a = 1))
                /\ UNCHANGED <<prog, main, stack, top, closures, tables, out, status>>
Test ==
    /\ On({"TEST", "TESTSET"})
    /\ LET v == IF instr.op = "TEST" THEN R(instr.a) ELSE R(instr.b)
           taken == IF instr.c = 1 THEN ~IsFalse(v) ELSE IsFalse(v)
       IN  /\ Branch(taken)
           /\ stack' = IF taken /\ instr.op = "TESTSET" THEN Write(stack, ci.base + instr.a, <<v>>) ELSE stack
           /\ UNCHANGED <<prog, main, top, closures, tables, out, status>>

\* the index wraps around like any integer
ForPrep ==
    /\ On({"FORPREP"})
    /\ LET init == R(instr.a)
           limit == R(instr.a + 1)
           step == R(instr.a + 2)
       IN  IF ~(IsInt(init) /\ IsInt(limit) /\ IsInt(step)) THEN Fail("for")
           ELSE /\ SetR(instr.a, IntV(Wrap(init[2] - step[2])))
                /\ Goto(instr.b) /\ UNCHANGED <<prog, main, top, data, status>>
ForLoop ==
    /\ On({"FORLOOP"})
    /\ LET step == R(instr.a + 2)[2]
           idx == Wrap(R(instr.a)[2] + step)
           limit == R(instr.a + 1)[2]
       IN  IF IF 0 < step THEN idx <= limit ELSE limit <= idx
           THEN /\ stack' = Write(Write(stack, ci.base + instr.a, <<IntV(idx)>>),
                                  ci.base + instr.a + 3, <<IntV(idx)>>)
                /\ Goto(instr.b)
           ELSE Skip /\ UNCHANGED stack
    /\ UNCHANGED <<prog, main, top, data, status>>
TForLoop ==
    /\ On({"TFORLOOP"})
    /\ IF R(instr.a + 1) # Nil THEN SetR(instr.a, R(instr.a + 1)) /\ Goto(instr.b)
       ELSE Skip /\ UNCHANGED stack
    /\ UNCHANGED <<prog, main, top, data, status>>

-----------------------------------------------------------------------------
(* Closures, calls and returns.                                              *)

\* luaF_findupval for each variable of the enclosing function, in order
RECURSIVE Capture(_, _, _)
Capture(ups, cs, found) ==
    IF Len(found) = Len(ups) THEN [cells |-> cs, ups |-> found]
    ELSE LET u == ups[Len(found) + 1]
             at == ci.base + u.idx
             same == {c \in DOMAIN cs : cs[c].open /\ cs[c].at = at}
         IN  IF ~u.instack THEN Capture(ups, cs, Append(found, Closure(ci).ups[u.idx]))
             ELSE IF same # {} THEN Capture(ups, cs, Append(found, CHOOSE c \in same : TRUE))
             ELSE Capture(ups, Append(cs, [open |-> TRUE, at |-> at, v |-> Nil]), Append(found, Len(cs) + 1))
NewClosure ==                           \* pushclosure
    LET c == Capture(proto.p[instr.b].ups, cells, <<>>)
    IN  /\ On({"CLOSURE"})
        /\ cells' = c.cells
        /\ closures' = Append(closures, [path |-> Append(Closure(ci).path, instr.b), ups |-> c.ups])
        /\ SetR(instr.a, Fun(Len(closures) + 1))
        /\ Skip /\ UNCHANGED <<prog, main, top, tables, out, status>>

\* the arguments in front of the base of a vararg function
Vararg ==
    LET all == ci.base - ci.fun - proto.params - 1
        n == IF all < 0 THEN 0 ELSE all
        want == IF instr.b = 0 THEN n ELSE instr.b - 1
    IN  /\ On({"VARARG"})
        /\ stack' = Write(stack, ci.base + instr.a,
                          [j \in 1..want |-> IF j <= n THEN Slot(ci.base - n + j - 1) ELSE Nil])
        /\ top' = IF instr.b = 0 THEN ci.base + instr.a + n ELSE top
        /\ Skip /\ UNCHANGED <<prog, main, data, status>>

\* moveresults; a caller that wants any number finds the top after the last
Moved(s, fun, vs, wanted) ==
    LET n == IF wanted = -1 THEN Len(vs) ELSE wanted
    IN  Write(SubSeq(s, 1, fun - 1), fun, [i \in 1..n |-> IF i <= Len(vs) THEN vs[i] ELSE Nil])
AfterCall(fun, n, wanted, caller) == IF wanted = -1 THEN fun + n ELSE FrameTop(caller)

\* the frame of a Lua function: adjust_varargs moves the parameters over the rest
Entered(s, fun, n, p, nres) ==
    LET args == [i \in 1..p.params |-> IF i <= n THEN s[fun + i] ELSE Nil]
        fixed == IF n < p.params THEN n ELSE p.params
    IN  IF p.vararg
        THEN [stack |-> Write(Write(s, fun + 1, [i \in 1..fixed |-> Nil]), fun + n + 1, args),
              frame |-> [fun |-> fun, base |-> fun + n + 1, pc |-> 1, nres |-> nres]]
        ELSE [stack |-> Write(SubSeq(s, 1, fun), fun + 1, args),
              frame |-> [fun |-> fun, base |-> fun + 1, pc |-> 1, nres |-> nres]]

\* luaD_precall; callers: the frames the new one goes on top of
Precall(s, fun, n, nres, callers) ==
    LET f == s[fun]
        p == Function(closures[f[2]].path)
        e == Entered(s, fun, n, p, nres)
        args == SubSeq(s, fun + 1, fun + n)
    IN  CASE Type(f) = "function" ->
                /\ stack' = e.stack /\ frames' = Append(callers, e.frame)
                /\ top' = e.frame.base + p.max
                /\ UNCHANGED <<out, status>>
          [] Type(f) = "c" ->
                LET rs == IF f[2] = "emit" THEN <<>> ELSE args
                IN  /\ out' = IF f[2] = "emit" THEN out \o args ELSE out
                    /\ stack' = Moved(s, fun, rs, nres) /\ frames' = callers
                    /\ top' = AfterCall(fun, Len(rs), nres, ci)
                    /\ UNCHANGED status
          [] OTHER -> status' = "call" /\ UNCHANGED <<stack, frames, top, out>>
\* the arguments are those up to the top when B is 0
ArgCount == IF instr.b = 0 THEN top - (ci.base + instr.a) - 1 ELSE instr.b - 1
ArgTop == SubSeq(stack, 1, ci.base + instr.a + ArgCount)

Call ==
    /\ On({"CALL"})
    /\ Precall(ArgTop, ci.base + instr.a, ArgCount, instr.c - 1, Next_(ci.pc + 1))
    /\ UNCHANGED <<prog, main, cells, closures, tables>>
\* the iterator, the state and the control variable are copied for the call
TForCall ==
    /\ On({"TFORCALL"})
    /\ Precall(Write(SubSeq(stack, 1, ci.base + instr.a + 2), ci.base + instr.a + 3, Slots(ci.base + instr.a, 3)),
               ci.base + instr.a + 3, 2, instr.c, Next_(ci.pc + 1))
    /\ UNCHANGED <<prog, main, cells, closures, tables>>
\* the new frame takes the place of the caller's, whose upvalues it closes
TailCall ==
    LET fun == ci.base + instr.a
        f == stack[fun]
        p == Function(closures[f[2]].path)
        e == Entered(ArgTop, fun, ArgCount, p, ci.nres)
        moved == SubSeq(e.stack, fun, e.frame.base + p.params - 1)
        base == ci.fun + e.frame.base - fun
    IN  /\ On({"TAILCALL"})
        /\ IF Type(f) # "function"
           THEN Precall(ArgTop, fun, ArgCount, -1, Next_(ci.pc + 1)) /\ UNCHANGED cells
           ELSE /\ cells' = IF proto.p # <<>> THEN Closed(ci.base, stack) ELSE cells
                /\ stack' = Write(SubSeq(stack, 1, ci.fun - 1), ci.fun, moved)
                /\ frames' = Append(Front(frames), [e.frame EXCEPT !.fun = ci.fun, !.base = base])
                /\ top' = base + p.max
                /\ UNCHANGED <<out, status>>
        /\ UNCHANGED <<prog, main, closures, tables>>

\* OP_RETURN and luaD_poscall; the caller of the main function takes nothing
Return ==
    LET from == ci.base + instr.a
        vs == Slots(from, IF instr.b = 0 THEN top - from ELSE instr.b - 1)
        callers == Front(frames)
    IN  /\ On({"RETURN"})
        /\ cells' = IF proto.p # <<>> THEN Closed(ci.base, stack) ELSE cells
        /\ IF callers = <<>> THEN status' = "done" /\ UNCHANGED <<stack, frames, top>>
           ELSE /\ stack' = Moved(stack, ci.fun, vs, ci.nres)
                /\ frames' = callers
                /\ top' = AfterCall(ci.fun, Len(vs), ci.nres, Last(callers))
                /\ UNCHANGED status
        /\ UNCHANGED <<prog, main, closures, tables, out>>

-----------------------------------------------------------------------------

\* the main function has _ENV for its upvalue, and is called without arguments
Globals == (Str(EmitName) :> CFun("emit")) @@ (Str(IdName) :> CFun("id"))
Init ==
    /\ prog \in Programs
    /\ main = Proto(NewFunc(<<>>, TRUE)) /\ closures = <<>> /\ cells = <<>>
    /\ tables = << Globals >>
    /\ stack = <<>> /\ frames = <<>> /\ top = 1 /\ out = <<>> /\ status = "load"
\* luaD_protectedparser and the call of the main function, without arguments
LoadProgram ==
    /\ status = "load"
    /\ LET f == Compiled[prog]
       IN  /\ main' = Proto(f)
           /\ status' = IF f.err # "none" THEN "rejected" ELSE IF f.bad THEN "assert" ELSE "run"
           /\ top' = 2 + f.max
    /\ closures' = << [path |-> <<>>, ups |-> <<1>>] >>
    /\ cells' = << [open |-> FALSE, at |-> 0, v |-> Tab(1)] >>
    /\ stack' = << Fun(1) >>
    /\ frames' = << [fun |-> 1, base |-> 2, pc |-> 1, nres |-> 0] >>
    /\ prog' = <<>>
    /\ UNCHANGED <<tables, out>>

Execute ==
    \/ LoadProgram \/ Load \/ LoadNil \/ LoadBool \/ SetUpval \/ GetTable \/ SetTable \/ NewTable \/ SetListStep
    \/ Concat \/ Arith \/ Unary
    \/ JumpStep \/ Compare \/ Test \/ ForPrep \/ ForLoop \/ TForLoop
    \/ NewClosure \/ Vararg \/ Call \/ TForCall \/ TailCall \/ Return
Finished == status \notin {"load", "run"} /\ UNCHANGED vars
Next == Execute \/ Finished
Spec == Init /\ [][Next]_vars

-----------------------------------------------------------------------------
(* What the parser made.                                                     *)

\* the registers an instruction reads, but for those up to the top
Args(i) == IF i.b = 0 THEN {i.a} ELSE i.a..(i.a + i.b - 1)
RKs(i) == {x \in {i.b, i.c} : x >= 0}
Reads(i) ==
    CASE i.op \in {"MOVE", "GETTABLE", "UNM", "BNOT", "NOT", "LEN"} ->
            {i.b} \cup (IF i.op = "GETTABLE" /\ i.c >= 0 THEN {i.c} ELSE {})
      [] i.op = "GETTABUP" -> {i.c} \cap 0..i.c
      [] i.op = "SELF" -> {i.b, i.c} \cap 0..(i.b + i.c)
      [] i.op = "SETUPVAL" -> {i.a}
      [] i.op = "SETTABUP" -> RKs(i)
      [] i.op = "SETTABLE" -> {i.a} \cup RKs(i)
      [] i.op \in Arithmetic \cup {"EQ", "LT", "LE"} -> RKs(i)
      [] i.op = "CONCAT" -> i.b..i.c
      [] i.op = "TEST" -> {i.a}
      [] i.op = "TESTSET" -> {i.b}
      [] i.op \in {"CALL", "TAILCALL"} -> Args(i)
      [] i.op = "RETURN" -> IF i.b = 0 THEN {} ELSE i.a..(i.a + i.b - 2)
      [] i.op \in {"FORPREP", "FORLOOP", "TFORCALL"} -> i.a..(i.a + 2)
      [] i.op = "TFORLOOP" -> {i.a + 1}
      [] i.op = "SETLIST" -> i.a..(i.a + i.b)
      [] OTHER -> {}
\* the last register an instruction writes or lays a call out in
Reach(i) ==
    CASE i.op = "LOADNIL" -> i.a + i.b
      [] i.op = "SELF" -> i.a + 1
      [] i.op \in {"FORPREP", "FORLOOP"} -> i.a + 3
      [] i.op = "TFORCALL" -> i.a + 2 + (IF i.c > 3 THEN i.c ELSE 3)
      [] i.op = "CALL" -> IF i.c > 1 THEN i.a + i.c - 2 ELSE i.a
      [] i.op = "VARARG" -> IF i.b > 1 THEN i.a + i.b - 2 ELSE i.a
      [] i.op \in {"JMP", "SETUPVAL", "SETTABUP", "RETURN", "EQ", "LT", "LE"} -> 0
      [] OTHER -> i.a
Opens(i) == i.op = "TAILCALL" \/ (i.op = "CALL" /\ i.c = 0) \/ (i.op = "VARARG" /\ i.b = 0)
Consumes(i) == i.op \in {"CALL", "TAILCALL", "RETURN", "SETLIST"} /\ i.b = 0
Targets_(code, n) == IF code[n].op \in {"JMP", "FORPREP", "FORLOOP", "TFORLOOP"} THEN {code[n].b} ELSE {}

WellFormedCode(p) ==
    LET code == p.code
        targets == UNION {Targets_(code, n) : n \in DOMAIN code}
    IN  /\ Last(code).op = "RETURN"
        /\ targets \subseteq DOMAIN code
        /\ \A n \in DOMAIN code :
            LET i == code[n] IN
            /\ Reads(i) \cup {Reach(i)} \subseteq 0..p.max - 1
            /\ i.op \in TestOps => code[n + 1].op = "JMP" /\ n + 1 \notin targets
            /\ i.op = "LOADBOOL" /\ i.c = 1 => n + 2 \in DOMAIN code
            /\ i.op \in {"GETUPVAL", "SETUPVAL", "GETTABUP"} => i.b \in DOMAIN p.ups
            /\ i.op = "SETTABUP" => i.a \in DOMAIN p.ups
            /\ i.op = "TFORCALL" => code[n + 1].op = "TFORLOOP"
            /\ i.op = "FORPREP" => code[i.b].op = "FORLOOP" /\ code[i.b].b = n + 1
            /\ Opens(i) => Consumes(code[n + 1]) /\ n + 1 \notin targets
            /\ Consumes(i) => Opens(code[n - 1])
RECURSIVE WellFormedProto(_)
WellFormedProto(p) == WellFormedCode(p) /\ \A n \in DOMAIN p.p : WellFormedProto(p.p[n])
-----------------------------------------------------------------------------

TypeOK ==
    /\ \A n \in DOMAIN frames : /\ frames[n].fun \in 1..frames[n].base - 1
                                /\ frames[n].fun \in DOMAIN stack /\ frames[n].nres \in -1..8
    /\ \A n \in DOMAIN cells : cells[n].open \in BOOLEAN
    /\ \A n \in DOMAIN closures : \A u \in DOMAIN closures[n].ups : closures[n].ups[u] \in DOMAIN cells
    /\ \A n \in DOMAIN tables : Nil \notin {tables[n][k] : k \in DOMAIN tables[n]}
    /\ status \in {"run", "load", "done", "rejected", "assert", "index", "concatenate", "arithmetic", "zero", "length", "compare", "for", "call"}

(* The code of every function is sound: jumps stay inside it, registers are  *)
(* below its frame's size, a test is followed by its jump, and what leaves   *)
(* an open list of values is followed by what takes one, into which nothing  *)
(* jumps; no assertion of the code generator failed on the way               *)
(* (luaK_checkstack, freereg, the asserts of lcode.c and lparser.c).  When   *)
(* it runs no instruction reads a register that has not been written since   *)
(* its function was entered, or that a call has used since, and L->top is    *)
(* the end of the frame except after an open call.                           *)
SoundCode ==
    /\ status # "assert"
    /\ status = "run" =>
         /\ \A a \in Reads(instr) : R(a) # Junk
         /\ ci.pc > 1 /\ ~Opens(proto.code[ci.pc - 1]) => top = FrameTop(ci)
         /\ frames = << [fun |-> 1, base |-> 2, pc |-> 1, nres |-> 0] >> => WellFormedProto(main)
=============================================================================
