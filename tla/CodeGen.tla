------------------------------ MODULE CodeGen ------------------------------
(* The code generator (lcode.c).  A FuncState is a record with the code so   *)
(* far, the constants, the active variables and the free register; every     *)
(* operator takes one and gives the next.  Instructions count from 1, and a   *)
(* jump holds its target in b, 0 for NO_JUMP, which ends a list of jumps.    *)
(* Floats, line numbers and the limits of the operands are left out, except  *)
(* MaxIndexRK.                                                               *)
EXTENDS LuaValues, FiniteSets, SequencesExt

CONSTANTS MaxIndexRK,           \* constants an RK operand reaches (MAXINDEXRK)
          FieldsPerFlush        \* LFIELDS_PER_FLUSH

NoJump == 0
NoReg == -1

Instr(op, a, b, c) == [op |-> op, a |-> a, b |-> b, c |-> c]
TestOps == {"EQ", "LT", "LE", "TEST", "TESTSET"}

\* an expdesc; info: register, constant, upvalue, instruction or integer
Exp(k, info) == [k |-> k, info |-> info, tab |-> 0, idx |-> 0, vt |-> "VVOID", t |-> NoJump, f |-> NoJump]
HasJumps(e) == e.t # e.f
IsNumeral(e) == e.k = "VKINT" /\ ~HasJumps(e)
HasMultret(e) == e.k \in {"VCALL", "VVARARG"}
With(f, e) == [f |-> f, e |-> e]

PC(f) == Len(f.code) + 1
\* op of what x is (written so that TLC evaluates x first, and not inside op)
After(x, op(_)) == CHOOSE r \in {op(v) : v \in {x}} : TRUE
\* a lua_assert of the code generator
Require(f, p) == IF p THEN f ELSE [f EXCEPT !.bad = TRUE]

\* the code with instruction n replaced by i(n), for all n (SubSeq makes TLC evaluate it)
Rewrite(f, i(_)) == [f EXCEPT !.code = SubSeq([n \in DOMAIN @ |-> i(n)], 1, Len(@))]

-----------------------------------------------------------------------------
(* Lists of jumps.                                                           *)

\* getjump followed to the end of the list
RECURSIVE Jumps(_, _)
Jumps(f, list) == IF list = NoJump THEN {} ELSE {list} \cup Jumps(f, f.code[list].b)
LastJump(f, list) == CHOOSE n \in Jumps(f, list) : f.code[n].b = NoJump
\* luaK_concat: the list of both
ConcatCode(f, l1, l2) == IF l1 = NoJump \/ l2 = NoJump THEN f
                         ELSE [f EXCEPT !.code[LastJump(f, l1)].b = l2]
ConcatList(l1, l2) == IF l1 = NoJump THEN l2 ELSE l1

\* getjumpcontrol: the instruction that decides whether jump n is taken
Control(f, n) == IF n > 1 /\ f.code[n - 1].op \in TestOps THEN n - 1 ELSE n
\* patchtestreg
PatchTest(i, reg) == IF reg # NoReg /\ reg # i.b THEN [i EXCEPT !.a = reg] ELSE Instr("TEST", i.b, 0, i.c)
TestSets(f, list) == {n \in Jumps(f, list) : f.code[Control(f, n)].op = "TESTSET"}

\* patchlistaux: tests that leave a value jump to vtarget, the others to dtarget
PatchListAux(f, list, vtarget, reg, dtarget) ==
    LET js == Jumps(f, list)
        ts == TestSets(f, list)
    IN  Rewrite(f, LAMBDA n :
            IF n \in js THEN [f.code[n] EXCEPT !.b = IF n \in ts THEN vtarget ELSE dtarget]
            ELSE IF n + 1 \in ts THEN PatchTest(f.code[n], reg) ELSE f.code[n])
RemoveValues(f, list) ==
    LET ts == TestSets(f, list)
    IN  Rewrite(f, LAMBDA n : IF n + 1 \in ts THEN PatchTest(f.code[n], NoReg) ELSE f.code[n])
NeedValue(f, list) == Jumps(f, list) # TestSets(f, list)

DischargeJpc(f) == [PatchListAux(f, f.jpc, PC(f), NoReg, PC(f)) EXCEPT !.jpc = NoJump]
Label(f) == [f EXCEPT !.target = PC(f)]             \* luaK_getlabel
\* luaK_patchtohere and luaK_patchlist
PatchToHere(f, list) == LET g == Label(f)
                        IN  [ConcatCode(g, g.jpc, list) EXCEPT !.jpc = ConcatList(g.jpc, list)]
PatchList(f, list, target) ==
    IF target = PC(f) THEN PatchToHere(f, list)
    ELSE PatchListAux(Require(f, target < PC(f)), list, target, NoReg, target)
\* luaK_patchclose: the jumps also close the upvalues from level up
PatchClose(f, list, level) ==
    LET js == Jumps(f, list)
    IN  Rewrite(Require(f, \A n \in js : f.code[n].op = "JMP" /\ f.code[n].a \in {0} \cup (level + 1)..f.max + 1),
                LAMBDA n : IF n \in js THEN [f.code[n] EXCEPT !.a = level + 1] ELSE f.code[n])

-----------------------------------------------------------------------------
(* Instructions, registers and constants.                                    *)

Code(f, op, a, b, c) == After(f, LAMBDA g : [DischargeJpc(g) EXCEPT !.code = Append(@, Instr(op, a, b, c))])
SetA(f, n, v) == [f EXCEPT !.code[n].a = v]
SetB(f, n, v) == [f EXCEPT !.code[n].b = v]
SetC(f, n, v) == [f EXCEPT !.code[n].c = v]

\* luaK_jump: the new instruction is the last one; jumps to it join its list
Jump(f) == LET g == Code([f EXCEPT !.jpc = NoJump], "JMP", 0, NoJump, 0)
           IN  ConcatCode(g, Len(g.code), f.jpc)
CondJump(f, op, a, b, c) == After(Code(f, op, a, b, c), Jump)
JumpTo(f, target) == LET g == Jump(f) IN PatchList(g, Len(g.code), target)

\* luaK_nil: one instruction for neighbours, unless something jumps between
\* mutant: it does not ask whether something jumps here
NilOverJump(f, from, n) ==
    LET p == f.code[Len(f.code)]
    IN  IF Len(f.code) > 0 /\ p.op = "LOADNIL" /\ p.a <= from /\ from <= p.a + p.b + 1
        THEN SetB(f, Len(f.code), from + n - 1 - p.a)
        ELSE Code(f, "LOADNIL", from, n - 1, 0)
CodeNil(f, from, n) ==
    LET p == f.code[Len(f.code)]
        l == from + n - 1
        pl == p.a + p.b
        first == IF p.a < from THEN p.a ELSE from
        last == IF pl > l THEN pl ELSE l
    IN  IF /\ PC(f) > f.target /\ p.op = "LOADNIL"
           /\ (p.a <= from /\ from <= pl + 1) \/ (from <= p.a /\ p.a <= l + 1)
        THEN SetB(SetA(f, Len(f.code), first), Len(f.code), last - first)
        ELSE Code(f, "LOADNIL", from, n - 1, 0)

CheckStack(f, n) == IF f.free + n > f.max THEN [f EXCEPT !.max = f.free + n] ELSE f
Reserve(f, n) == [CheckStack(f, n) EXCEPT !.free = @ + n]
\* freereg: only temporaries, the last one first
FreeReg(f, r) == IF r < f.nact THEN f ELSE Require([f EXCEPT !.free = @ - 1], r = f.free - 1)
FreeExp(f, e) == IF e.k = "VNONRELOC" THEN FreeReg(f, e.info) ELSE f
FreeExps(f, e1, e2) ==
    LET r1 == IF e1.k = "VNONRELOC" THEN e1.info ELSE -1
        r2 == IF e2.k = "VNONRELOC" THEN e2.info ELSE -1
    IN  IF r1 > r2 THEN FreeReg(FreeReg(f, r1), r2) ELSE FreeReg(FreeReg(f, r2), r1)

\* addk: equal constants share a place
AddK(f, v) == IF \E n \in DOMAIN f.k : f.k[n] = v THEN f ELSE [f EXCEPT !.k = Append(@, v)]
IndexK(f, v) == CHOOSE n \in DOMAIN f.k : f.k[n] = v
ConstOf(e) == CASE e.k = "VTRUE" -> True [] e.k = "VFALSE" -> False
                [] e.k = "VNIL" -> Nil [] e.k = "VKINT" -> IntV(e.info)
\* luaK_codek, after addk
CodeK(f, reg, v) == LET g == AddK(f, v) IN Code(g, "LOADK", reg, IndexK(g, v), 0)
StringExp(f, s) == LET g == AddK(f, Str(s)) IN With(g, Exp("VK", IndexK(g, Str(s))))

-----------------------------------------------------------------------------
(* Expressions.                                                              *)

SetReturns(f, e, n) ==
    CASE e.k = "VCALL" -> SetC(f, e.info, n + 1)
      [] e.k = "VVARARG" -> Reserve(SetA(SetB(f, e.info, n + 1), e.info, f.free), 1)
      [] OTHER -> Require(f, n = -1)
SetOneRet(f, e) ==
    CASE e.k = "VCALL" -> With(Require(f, f.code[e.info].c = 2),
                               [e EXCEPT !.k = "VNONRELOC", !.info = f.code[e.info].a])
      [] e.k = "VVARARG" -> With(SetB(f, e.info, 2), [e EXCEPT !.k = "VRELOC"])
      [] OTHER -> With(f, e)

DischargeVars(f, e) ==
    CASE e.k = "VLOCAL" -> With(f, [e EXCEPT !.k = "VNONRELOC"])
      [] e.k = "VUPVAL" -> LET g == Code(f, "GETUPVAL", 0, e.info, 0)
                           IN  With(g, [e EXCEPT !.k = "VRELOC", !.info = Len(g.code)])
      [] e.k = "VINDEXED" ->
            LET g == FreeReg(f, e.idx)
                h == IF e.vt = "VLOCAL" THEN Code(FreeReg(g, e.tab), "GETTABLE", 0, e.tab, e.idx)
                     ELSE Code(g, "GETTABUP", 0, e.tab, e.idx)
            IN  With(h, [e EXCEPT !.k = "VRELOC", !.info = Len(h.code)])
      [] OTHER -> SetOneRet(f, e)

\* discharge2reg
ToReg(f0, e0, reg) ==
    LET d == DischargeVars(f0, e0)
        f == d.f
        e == d.e
        g == CASE e.k = "VNIL" -> CodeNil(f, reg, 1)
               [] e.k \in {"VTRUE", "VFALSE"} -> Code(f, "LOADBOOL", reg, IF e.k = "VTRUE" THEN 1 ELSE 0, 0)
               [] e.k = "VK" -> Code(f, "LOADK", reg, e.info, 0)
               [] e.k = "VKINT" -> CodeK(f, reg, ConstOf(e))
               [] e.k = "VRELOC" -> SetA(f, e.info, reg)
               [] e.k = "VNONRELOC" -> IF reg # e.info THEN Code(f, "MOVE", reg, e.info, 0) ELSE f
               [] OTHER -> Require(f, e.k = "VJMP")
    IN  IF e.k = "VJMP" THEN With(g, e) ELSE With(g, [e EXCEPT !.k = "VNONRELOC", !.info = reg])

\* exp2reg: the value, and the values of the tests that jump out of it
ExpToReg(f0, e0, reg) ==
    LET d == ToReg(f0, e0, reg)
        isjmp == d.e.k = "VJMP"
        t == IF isjmp THEN ConcatList(d.e.t, d.e.info) ELSE d.e.t
        f == IF isjmp THEN ConcatCode(d.f, d.e.t, d.e.info) ELSE d.f
        need == NeedValue(f, t) \/ NeedValue(f, d.e.f)
        over == IF need /\ ~isjmp THEN Jump(f) ELSE f
        pf == Label(over)
        lf == Code(pf, "LOADBOOL", reg, 0, 1)
        lt == Code(Label(lf), "LOADBOOL", reg, 1, 0)
        g == IF ~need THEN f ELSE PatchToHere(lt, IF isjmp THEN NoJump ELSE Len(over.code))
        h == Label(g)
        done == PatchListAux(PatchListAux(h, d.e.f, PC(h), reg, PC(lf) - 1), t, PC(h), reg, PC(lt) - 1)
    IN  With(IF t = d.e.f THEN f ELSE done, Exp("VNONRELOC", reg))

NextReg(f, e) ==                                    \* luaK_exp2nextreg
    After(DischargeVars(f, e), LAMBDA d :
        LET g == Reserve(FreeExp(d.f, d.e), 1) IN ExpToReg(g, d.e, g.free - 1))
AnyReg(f, e) ==                                     \* luaK_exp2anyreg
    LET d == DischargeVars(f, e)
    IN  IF d.e.k = "VNONRELOC" /\ ~HasJumps(d.e) THEN d
        ELSE IF d.e.k = "VNONRELOC" /\ d.e.info >= d.f.nact THEN ExpToReg(d.f, d.e, d.e.info)
        ELSE NextReg(d.f, d.e)
AnyRegUp(f, e) == IF e.k # "VUPVAL" \/ HasJumps(e) THEN AnyReg(f, e) ELSE With(f, e)
Val(f, e) == IF HasJumps(e) THEN AnyReg(f, e) ELSE DischargeVars(f, e)      \* luaK_exp2val

\* luaK_exp2RK; RK gives the operand: a register, or a constant counted down
RKExp(f0, e0) ==
    LET d == Val(f0, e0)
        v == ConstOf(d.e)
        const == d.e.k \in {"VTRUE", "VFALSE", "VNIL", "VKINT"}
        g == IF const THEN AddK(d.f, v) ELSE d.f
        e == IF const THEN [d.e EXCEPT !.k = "VK", !.info = IndexK(g, v)] ELSE d.e
    IN  IF e.k = "VK" /\ e.info <= MaxIndexRK THEN With(g, e) ELSE AnyReg(g, e)
RK(e) == IF e.k = "VK" THEN -e.info ELSE e.info

StoreVar(f, v, e) ==
    CASE v.k = "VLOCAL" -> ExpToReg(FreeExp(f, e), e, v.info).f
      [] v.k = "VUPVAL" -> LET d == AnyReg(f, e)
                           IN  FreeExp(Code(d.f, "SETUPVAL", d.e.info, v.info, 0), d.e)
      [] v.k = "VINDEXED" ->
            LET d == RKExp(f, e)
                op == IF v.vt = "VLOCAL" THEN "SETTABLE" ELSE "SETTABUP"
            IN  FreeExp(Code(d.f, op, v.tab, v.idx, RK(d.e)), d.e)

\* luaK_self: the function and its first argument, in two new registers
Self(f, e, key) ==
    LET d == AnyReg(f, e)
        g == FreeExp(d.f, d.e)
        r == RKExp(Reserve(g, 2), key)
    IN  With(FreeExp(Code(r.f, "SELF", g.free, d.e.info, RK(r.e)), r.e), Exp("VNONRELOC", g.free))

\* luaK_indexed
Indexed(f, e, key) ==
    LET d == RKExp(Require(f, ~HasJumps(e) /\ e.k \in {"VLOCAL", "VNONRELOC", "VUPVAL"}), key)
    IN  With(d.f, [Exp("VINDEXED", 0) EXCEPT !.tab = e.info, !.idx = RK(d.e),
                                              !.vt = IF e.k = "VUPVAL" THEN "VUPVAL" ELSE "VLOCAL"])

-----------------------------------------------------------------------------
(* Conditions.                                                               *)

Negate(f, e) == LET n == Control(f, e.info)
                IN  SetA(Require(f, f.code[n].op \in {"EQ", "LT", "LE"}), n, 1 - f.code[n].a)

\* jumponcond: the jump is the last instruction; a not turns into its opposite
JumpOnCond(f, e, cond) ==
    IF e.k = "VRELOC" /\ f.code[e.info].op = "NOT"
    THEN CondJump([f EXCEPT !.code = Front(@)], "TEST", f.code[e.info].b, 0, 1 - cond)
    ELSE LET d == IF e.k = "VNONRELOC" THEN With(f, e)
                  ELSE ToReg(Reserve(f, 1), e, f.free)
         IN  CondJump(FreeExp(d.f, d.e), "TESTSET", NoReg, d.e.info, cond)

\* luaK_goiftrue: falls through when e is true, its list f when it is false
GoIfTrue(f0, e0) ==
    LET d == DischargeVars(f0, e0)
        e == d.e
        always == e.k \in {"VK", "VKINT", "VTRUE"}
        g == CASE e.k = "VJMP" -> Negate(d.f, e)
               [] always -> d.f
               [] OTHER -> JumpOnCond(d.f, e, 0)
        pc == CASE e.k = "VJMP" -> e.info [] always -> NoJump [] OTHER -> Len(g.code)
    IN  With(PatchToHere(ConcatCode(g, e.f, pc), e.t), [e EXCEPT !.f = ConcatList(@, pc), !.t = NoJump])
GoIfFalse(f0, e0) ==
    LET d == DischargeVars(f0, e0)
        e == d.e
        never == e.k \in {"VNIL", "VFALSE"}
        g == IF e.k = "VJMP" \/ never THEN d.f ELSE JumpOnCond(d.f, e, 1)
        pc == CASE e.k = "VJMP" -> e.info [] never -> NoJump [] OTHER -> Len(g.code)
    IN  With(PatchToHere(ConcatCode(g, e.t, pc), e.f), [e EXCEPT !.t = ConcatList(@, pc), !.f = NoJump])

\* codenot: the lists change places, and their tests leave no value
CodeNot(f0, e0) ==
    LET d == DischargeVars(f0, e0)
        r == IF d.e.k = "VNONRELOC" THEN d ELSE ToReg(Reserve(d.f, 1), d.e, d.f.free)
        n == Code(FreeExp(r.f, r.e), "NOT", 0, r.e.info, 0)
        c == CASE d.e.k \in {"VNIL", "VFALSE"} -> With(d.f, [d.e EXCEPT !.k = "VTRUE"])
               [] d.e.k \in {"VK", "VKINT", "VTRUE"} -> With(d.f, [d.e EXCEPT !.k = "VFALSE"])
               [] d.e.k = "VJMP" -> With(Negate(d.f, d.e), d.e)
               [] OTHER -> With(n, [r.e EXCEPT !.k = "VRELOC", !.info = Len(n.code)])
    IN  With(RemoveValues(RemoveValues(c.f, c.e.t), c.e.f), [c.e EXCEPT !.t = c.e.f, !.f = c.e.t])

-----------------------------------------------------------------------------
(* Operators.                                                                *)

\* constfolding, unless it could fail (validop)
Folds(op, e1, e2) == IsNumeral(e1) /\ IsNumeral(e2) /\ (op \in {"MOD", "IDIV"} => e2.info # 0)
Folded(op, e1, e2) == Exp("VKINT", IntArith(op, e1.info, e2.info))

CodeUnExp(f, op, e) ==
    LET d == AnyReg(f, e)
        g == Code(FreeExp(d.f, d.e), op, 0, d.e.info, 0)
    IN  With(g, [d.e EXCEPT !.k = "VRELOC", !.info = Len(g.code)])
CodeBinExp(f, op, e1, e2) ==
    LET reloc(g, e) == With(g, [e EXCEPT !.k = "VRELOC", !.info = Len(g.code)])
    IN  After(RKExp(f, e2), LAMBDA d2 :
        After(RKExp(d2.f, e1), LAMBDA d1 :
            reloc(Code(FreeExps(d1.f, d1.e, d2.e), op, 0, RK(d1.e), RK(d2.e)), d1.e)))

\* codecomp: a test and a jump; greater is less with the operands exchanged
CodeComp(f, op, e1, e2) ==
    LET jump(g, e) == CASE op = "NE" -> CondJump(g, "EQ", 0, RK(e1), RK(e))
                        [] op = "GT" -> CondJump(g, "LT", 1, RK(e), RK(e1))
                        [] op = "GE" -> CondJump(g, "LE", 1, RK(e), RK(e1))
                        [] OTHER -> CondJump(g, op, 1, RK(e1), RK(e))
        h == After(RKExp(Require(f, e1.k \in {"VK", "VNONRELOC"}), e2),
                   LAMBDA d : jump(FreeExps(d.f, e1, d.e), d.e))
    IN  With(h, [e1 EXCEPT !.k = "VJMP", !.info = Len(h.code)])

Prefix(f, op, e) ==
    IF op = "NOT" THEN CodeNot(f, e)
    ELSE IF op \in {"UNM", "BNOT"} /\ Folds(op, e, Exp("VKINT", 0))
         THEN With(f, Folded(op, e, Exp("VKINT", 0)))
         ELSE CodeUnExp(f, op, e)

\* before the second operand is read
Infix(f, op, e) ==
    CASE op = "AND" -> GoIfTrue(f, e)
      [] op = "OR" -> GoIfFalse(f, e)
      [] op = "CONCAT" -> NextReg(f, e)
      [] op \in Arithmetic -> IF IsNumeral(e) THEN With(f, e) ELSE RKExp(f, e)
      [] OTHER -> RKExp(f, e)

Posfix(f, op, e1, e2) ==
    IF op \in {"AND", "OR"} THEN
        LET l == IF op = "AND" THEN e1.f ELSE e1.t
            d == DischargeVars(Require(f, (IF op = "AND" THEN e1.t ELSE e1.f) = NoJump), e2)
        IN  IF op = "AND" THEN With(ConcatCode(d.f, d.e.f, l), [d.e EXCEPT !.f = ConcatList(@, l)])
            ELSE With(ConcatCode(d.f, d.e.t, l), [d.e EXCEPT !.t = ConcatList(@, l)])
    ELSE IF op = "CONCAT" THEN
        LET d == Val(f, e2)
            n == NextReg(d.f, d.e)
        IN  IF d.e.k = "VRELOC" /\ d.f.code[d.e.info].op = "CONCAT"
            THEN With(SetB(FreeExp(Require(d.f, e1.info = d.f.code[d.e.info].b - 1), e1), d.e.info, e1.info),
                      [e1 EXCEPT !.k = "VRELOC", !.info = d.e.info])
            ELSE CodeBinExp(n.f, op, e1, n.e)
    ELSE IF op \in Arithmetic THEN
        IF Folds(op, e1, e2) THEN With(f, Folded(op, e1, e2)) ELSE CodeBinExp(f, op, e1, e2)
    ELSE CodeComp(f, op, e1, e2)

\* luaK_setlist; many: how many values, -1 for all up to the top
SetList(f, base, nelems, many) ==
    [Code(f, "SETLIST", base, IF many = -1 THEN 0 ELSE many, ((nelems - 1) \div FieldsPerFlush) + 1)
     EXCEPT !.free = base + 1]
Ret(f, first, n) == Code(f, "RETURN", first, n + 1, 0)
=============================================================================
