------------------------------- MODULE Parser -------------------------------
(* The parser (lparser.c): it makes one pass over the program and calls the  *)
(* code generator as it goes.  A program comes as statements whose           *)
(* expressions are still lists of operators and operands; line numbers,      *)
(* debug information and syntax errors other than those of goto are left     *)
(* out.  A register is the index of its variable, from 0.                    *)
EXTENDS CodeGen

EnvName == <<95>>                       \* ls->envn
SelfName == <<115>>
BreakName == <<0>>                      \* no program has a label of this name

RECURSIVE SubExpr(_, _, _, _), StatList(_, _, _), SingleVarAux(_, _, _)

ExpOf(f, toks) == SubExpr(f, toks, 1, 0)                                \* expr

-----------------------------------------------------------------------------
(* Blocks, labels and gotos.                                                 *)

\* newlabelentry
LabelEntry(f, name, pc) == [name |-> name, nact |-> f.nact, pc |-> pc]
\* closegoto: goto number n jumps to the label
CloseGoto(f, n, label) ==
    LET g == IF f.gotos[n].nact < label.nact THEN [f EXCEPT !.err = "jumps into the scope"] ELSE f
    IN  [PatchList(g, g.gotos[n].pc, label.pc) EXCEPT !.gotos = RemoveAt(@, n)]

\* findlabel: a label of the current block closes goto number n
FindLabel(f, n) ==
    LET gt == f.gotos[n]
        bl == Last(f.bl)
        ls == {l \in (bl.lab + 1)..Len(f.labels) : f.labels[l].name = gt.name}
        lb == f.labels[CHOOSE l \in ls : \A m \in ls : l <= m]
        g == IF gt.nact > lb.nact /\ (bl.up \/ Len(f.labels) > bl.lab)
             THEN PatchClose(f, gt.pc, lb.nact) ELSE f
    IN  IF ls = {} THEN f ELSE CloseGoto(g, n, lb)

RECURSIVE FindGotos(_, _, _), MoveGotosOut(_, _, _)
\* findgotos: the pending gotos of the block that wait for the label
FindGotos(f, n, label) ==
    IF n > Len(f.gotos) THEN f
    ELSE IF f.gotos[n].name = label.name THEN FindGotos(CloseGoto(f, n, label), n, label)
    ELSE FindGotos(f, n + 1, label)

\* movegotosout: what is pending belongs to the enclosing block now
MoveGotosOut(f, bl, n) ==
    IF n > Len(f.gotos) THEN f
    ELSE LET gt == f.gotos[n]
             c == IF gt.nact > bl.nact /\ bl.up THEN PatchClose(f, gt.pc, bl.nact) ELSE f
             g == IF gt.nact > bl.nact THEN [c EXCEPT !.gotos[n].nact = bl.nact] ELSE c
             h == FindLabel(g, n)
         IN  MoveGotosOut(h, bl, IF Len(h.gotos) < Len(g.gotos) THEN n ELSE n + 1)

EnterBlock(f, loop) ==
    [Require(f, f.free = f.nact) EXCEPT !.bl = Append(@,
        [nact |-> f.nact, lab |-> Len(f.labels), gt |-> Len(f.gotos), up |-> FALSE, loop |-> loop])]
BreakLabel(f) ==
    LET l == LabelEntry(f, BreakName, PC(f))
    IN  FindGotos([f EXCEPT !.labels = Append(@, l)], Last(f.bl).gt + 1, l)
LeaveBlock(f) ==
    LET bl == Last(f.bl)
        j == Jump(f)
        c == IF Len(f.bl) > 1 /\ bl.up
             THEN PatchToHere(PatchClose(j, Len(j.code), bl.nact), Len(j.code)) ELSE f
        b == IF bl.loop THEN BreakLabel(c) ELSE c
        g == [b EXCEPT !.bl = Front(@), !.loc = SubSeq(@, 1, bl.nact), !.nact = bl.nact,
                       !.free = bl.nact, !.labels = SubSeq(@, 1, bl.lab)]
    IN  IF Len(f.bl) > 1 THEN MoveGotosOut(g, bl, bl.gt + 1)
        ELSE IF bl.gt < Len(g.gotos) THEN [g EXCEPT !.err = "no visible label"] ELSE g
Block(f, b) == After(StatList(EnterBlock(f, FALSE), b, 1), LeaveBlock)

-----------------------------------------------------------------------------
(* Variables and functions.                                                  *)

NewLocals(f, names) == [f EXCEPT !.loc = @ \o names]
Activate(f, n) == [f EXCEPT !.nact = @ + n]         \* adjustlocalvars

\* markupval: the block of the variable must close it
MarkUpval(f, level) ==
    LET bs == {b \in DOMAIN f.bl : f.bl[b].nact <= level}
    IN  [f EXCEPT !.bl[CHOOSE b \in bs : \A d \in bs : b >= d].up = TRUE]
SingleVarAux(f, n, base) ==
    LET vs == {i \in 1..f.nact : f.loc[i] = n}
        v == (CHOOSE i \in vs : \A j \in vs : i >= j) - 1
        us == {i \in DOMAIN f.ups : f.ups[i].name = n}
        d == SingleVarAux(f.prev[1], n, FALSE)
        g == [f EXCEPT !.prev = <<d.f>>,
                       !.ups = Append(@, [name |-> n, instack |-> d.e.k = "VLOCAL", idx |-> d.e.info])]
    IN  IF vs # {} THEN With(IF base THEN f ELSE MarkUpval(f, v), Exp("VLOCAL", v))
        ELSE IF us # {} THEN With(f, Exp("VUPVAL", CHOOSE i \in us : TRUE))
        ELSE IF f.prev = <<>> THEN With(f, Exp("VVOID", 0))
        ELSE IF d.e.k = "VVOID" THEN With(f, d.e)
        ELSE With(g, Exp("VUPVAL", Len(g.ups)))
\* a global is a field of the upvalue _ENV
SingleVar(f, n) ==
    LET v == SingleVarAux(f, n, TRUE)
        env == SingleVarAux(v.f, EnvName, TRUE)
        key == StringExp(env.f, n)
    IN  IF v.e.k = "VVOID" THEN Indexed(key.f, env.e, key.e) ELSE v

NewFunc(prev, vararg) ==
    [prev |-> prev, code |-> <<>>, k |-> <<>>, p |-> <<>>, ups |-> <<>>, loc |-> <<>>, nact |-> 0,
     free |-> 0, max |-> 2, jpc |-> NoJump, target |-> 1, bl |-> <<>>, labels |-> <<>>, gotos |-> <<>>,
     params |-> 0, vararg |-> vararg, bad |-> FALSE, err |-> "none"]
Proto(f) == [code |-> f.code, k |-> f.k, p |-> f.p, ups |-> f.ups, params |-> f.params,
             vararg |-> f.vararg, max |-> f.max]
CloseFunc(f) == After(Ret(f, 0, 0), LeaveBlock)

\* body: the closure is made in the next register of the enclosing function
Body(f, fun, method) ==
    LET names == (IF method THEN <<SelfName>> ELSE <<>>) \o fun.params
        new == NewLocals(EnterBlock(NewFunc(<<f>>, fun.dots), FALSE), names)
        par == Reserve(Activate([new EXCEPT !.params = Len(names)], Len(names)), Len(names))
        up(g) == [g.prev[1] EXCEPT !.p = Append(@, Proto(g)), !.bad = @ \/ g.bad,
                                   !.err = IF g.err = "none" THEN @ ELSE g.err]
        closure(g) == LET c == Code(up(g), "CLOSURE", 0, Len(g.prev[1].p) + 1, 0)
                      IN  NextReg(c, Exp("VRELOC", Len(c.code)))
    IN  After(After(StatList(par, fun.body, 1), CloseFunc), closure)

-----------------------------------------------------------------------------
(* Expressions.                                                              *)

RECURSIVE ExpListFrom(_, _, _, _), FieldsFrom(_, _, _, _), SuffixesFrom(_, _, _, _)

\* explist: all but the last one in registers
ExpListFrom(f, es, n, e) ==
    IF n > Len(es) THEN With(f, e)
    ELSE LET d == NextReg(f, e)
         IN  After(ExpOf(d.f, es[n]), LAMBDA r : ExpListFrom(r.f, es, n + 1, r.e))
ExpList(f, es) == After(ExpOf(f, es[1]), LAMBDA r : ExpListFrom(r.f, es, 2, r.e))

\* funcargs
FuncArgs(f, fn, args) ==
    LET base == fn.info
        call(g, n) == LET c == Code(Require(g, fn.k = "VNONRELOC"), "CALL", base, n, 2)
                      IN  With([c EXCEPT !.free = base + 1], Exp("VCALL", Len(c.code)))
        fixed(g) == call(g, g.free - base)
    IN  IF args = <<>> THEN fixed(f)
        ELSE After(ExpList(f, args), LAMBDA l :
                 IF HasMultret(l.e) THEN call(SetReturns(l.f, l.e, -1), 0)
                 ELSE After(NextReg(l.f, l.e).f, fixed))

\* suffixedexp
SuffixesFrom(f, e, ss, n) ==
    IF n > Len(ss) THEN With(f, e)
    ELSE LET s == ss[n]
             r == CASE s.kind = "dot" -> LET d == AnyRegUp(f, e)
                                             k == StringExp(d.f, s.name)
                                         IN  Indexed(k.f, d.e, k.e)
                    [] s.kind = "index" -> LET d == AnyRegUp(f, e)
                                               x == After(d.f, LAMBDA g : ExpOf(g, s.key))
                                               k == After(x, LAMBDA y : Val(y.f, y.e))
                                           IN  Indexed(k.f, d.e, k.e)
                    [] s.kind = "method" -> LET k == StringExp(f, s.name)
                                                d == Self(k.f, e, k.e)
                                            IN  FuncArgs(d.f, d.e, s.args)
                    [] s.kind = "call" -> LET d == NextReg(f, e) IN FuncArgs(d.f, d.e, s.args)
         IN  After(r, LAMBDA d : SuffixesFrom(d.f, d.e, ss, n + 1))
Suffixed(f, x) ==
    LET p == IF x.kind = "name" THEN SingleVar(f, x.name)
             ELSE After(ExpOf(f, x.exp), LAMBDA d : DischargeVars(d.f, d.e))    \* (exp)
    IN  After(p, LAMBDA d : SuffixesFrom(d.f, d.e, x.suffixes, 1))

\* constructor; c: the pending list item, the items so far, those not yet stored
FieldsFrom(f, t, fields, c) ==
    LET n == c.next
        fl == fields[n]
        r == IF c.v.k = "VVOID" THEN f ELSE NextReg(f, c.v).f                 \* closelistfield
        full == c.v.k # "VVOID" /\ c.pending = FieldsPerFlush
        g == IF full THEN SetList(r, t, c.na, c.pending) ELSE r
        left == IF full THEN 0 ELSE c.pending
        i == ExpOf(g, fl.val)
        kx == IF fl.kind = "named" THEN StringExp(g, fl.name)
              ELSE LET x == ExpOf(g, fl.key) IN Val(x.f, x.e)
        k == RKExp(kx.f, kx.e)
        vx == ExpOf(k.f, fl.val)
        v == RKExp(vx.f, vx.e)
    IN  IF n > Len(fields) THEN                                             \* lastlistfield
            IF c.pending = 0 THEN f
            ELSE IF HasMultret(c.v) THEN SetList(SetReturns(f, c.v, -1), t, c.na, -1)
            ELSE SetList(r, t, c.na, c.pending)
        ELSE IF fl.kind = "item"
        THEN FieldsFrom(i.f, t, fields, [next |-> n + 1, v |-> i.e, na |-> c.na + 1, pending |-> left + 1])
        ELSE FieldsFrom([Code(v.f, "SETTABLE", t, RK(k.e), RK(v.e)) EXCEPT !.free = g.free], t, fields,
                        [next |-> n + 1, v |-> Exp("VVOID", 0), na |-> c.na, pending |-> left])
Constructor(f, fields) ==
    LET c == Code(f, "NEWTABLE", 0, 0, 0)
        t == NextReg(c, Exp("VRELOC", Len(c.code)))
    IN  With(FieldsFrom(t.f, t.e.info, fields,
                        [next |-> 1, v |-> Exp("VVOID", 0), na |-> 0, pending |-> 0]), t.e)

SimpleExp(f, x) ==
    CASE x.kind = "int" -> With(f, Exp("VKINT", x.n))
      [] x.kind = "str" -> StringExp(f, x.chars)
      [] x.kind = "nil" -> With(f, Exp("VNIL", 0))
      [] x.kind = "true" -> With(f, Exp("VTRUE", 0))
      [] x.kind = "false" -> With(f, Exp("VFALSE", 0))
      [] x.kind = "dots" -> LET c == Code(f, "VARARG", 0, 1, 0) IN With(c, Exp("VVARARG", Len(c.code)))
      [] x.kind = "table" -> Constructor(f, x.fields)
      [] x.kind = "function" -> Body(f, x, FALSE)
      [] OTHER -> Suffixed(f, x)

\* the table of priorities, left and right
Priority(op) ==
    CASE op \in {"ADD", "SUB"} -> <<10, 10>> [] op \in {"MUL", "MOD", "IDIV"} -> <<11, 11>>
      [] op = "BAND" -> <<6, 6>> [] op = "BOR" -> <<4, 4>> [] op = "BXOR" -> <<5, 5>>
      [] op \in {"SHL", "SHR"} -> <<7, 7>> [] op = "CONCAT" -> <<9, 8>>
      [] op \in {"EQ", "LT", "LE", "NE", "GT", "GE"} -> <<3, 3>>
      [] op = "AND" -> <<2, 2>> [] op = "OR" -> <<1, 1>>
UnaryPriority == 12

RECURSIVE Operators(_, _, _, _, _)
\* the loop of subexpr; i: the next token
Operators(f, e, toks, i, limit) ==
    IF i > Len(toks) \/ Priority(toks[i].op)[1] <= limit THEN [f |-> f, e |-> e, i |-> i]
    ELSE LET op == toks[i].op
         IN  After(Infix(f, op, e), LAMBDA d :
             After(SubExpr(d.f, toks, i + 1, Priority(op)[2]), LAMBDA r :
             After(Posfix(r.f, op, d.e, r.e), LAMBDA p : Operators(p.f, p.e, toks, r.i, limit))))
SubExpr(f, toks, i, limit) ==
    IF toks[i].kind = "unary"
    THEN After(SubExpr(f, toks, i + 1, UnaryPriority), LAMBDA r :
         After(Prefix(r.f, toks[i].op, r.e), LAMBDA p : Operators(p.f, p.e, toks, r.i, limit)))
    ELSE After(SimpleExp(f, toks[i]), LAMBDA s : Operators(s.f, s.e, toks, i + 1, limit))

-----------------------------------------------------------------------------
(* Statements.                                                               *)

\* adjust_assign
AdjustAssign(f, nvars, nexps, e) ==
    LET extra == nvars - nexps
        open == IF extra + 1 < 0 THEN 0 ELSE extra + 1
        m == SetReturns(f, e, open)
        c == IF e.k # "VVOID" THEN NextReg(f, e).f ELSE f
        g == IF HasMultret(e) THEN (IF open > 1 THEN Reserve(m, open - 1) ELSE m)
             ELSE IF extra > 0 THEN CodeNil(Reserve(c, extra), c.free, extra) ELSE c
    IN  IF nexps > nvars THEN [g EXCEPT !.free = @ - (nexps - nvars)] ELSE g
OptExpList(f, es) == IF es = <<>> THEN With(f, Exp("VVOID", 0)) ELSE ExpList(f, es)

\* check_conflict: an earlier target that uses variable v will use a copy of it
\* mutant: only tables are looked at, not indices
ConflictTable(f, lhs, v) ==
    LET tabs == {n \in DOMAIN lhs : lhs[n].k = "VINDEXED" /\ lhs[n].vt = v.k /\ lhs[n].tab = v.info}
        op == IF v.k = "VLOCAL" THEN "MOVE" ELSE "GETUPVAL"
    IN  [f |-> IF tabs = {} THEN f ELSE Reserve(Code(f, op, f.free, v.info, 0), 1),
         lhs |-> [n \in DOMAIN lhs |->
                    IF n \in tabs THEN [lhs[n] EXCEPT !.vt = "VLOCAL", !.tab = f.free] ELSE lhs[n]]]
CheckConflict(f, lhs, v) ==
    LET indexed == {n \in DOMAIN lhs : lhs[n].k = "VINDEXED"}
        tabs == {n \in indexed : lhs[n].vt = v.k /\ lhs[n].tab = v.info}
        idxs == {n \in indexed : v.k = "VLOCAL" /\ lhs[n].idx = v.info}
        op == IF v.k = "VLOCAL" THEN "MOVE" ELSE "GETUPVAL"
    IN  [f |-> IF tabs \cup idxs = {} THEN f ELSE Reserve(Code(f, op, f.free, v.info, 0), 1),
         lhs |-> [n \in DOMAIN lhs |->
                    [lhs[n] EXCEPT !.vt = IF n \in tabs THEN "VLOCAL" ELSE @,
                                   !.tab = IF n \in tabs THEN f.free ELSE @,
                                   !.idx = IF n \in idxs THEN f.free ELSE @]]]

RECURSIVE Targets(_, _, _), StoreBack(_, _)
Targets(f, vars, lhs) ==
    IF Len(lhs) = Len(vars) THEN [f |-> f, lhs |-> lhs]
    ELSE LET v == Suffixed(f, vars[Len(lhs) + 1])
             c == IF v.e.k # "VINDEXED" THEN CheckConflict(v.f, lhs, v.e) ELSE [f |-> v.f, lhs |-> lhs]
         IN  Targets(c.f, vars, Append(c.lhs, v.e))
StoreBack(f, lhs) ==
    IF lhs = <<>> THEN f
    ELSE StoreBack(StoreVar(f, Last(lhs), Exp("VNONRELOC", f.free - 1)), Front(lhs))
Assignment(f, s) ==
    LET one(v, l) == LET d == SetOneRet(l.f, l.e) IN StoreVar(d.f, v, d.e)
        store(lhs, l) == IF Len(s.exps) = Len(s.vars) THEN StoreBack(one(Last(lhs), l), Front(lhs))
                         ELSE StoreBack(AdjustAssign(l.f, Len(s.vars), Len(s.exps), l.e), lhs)
    IN  After(Targets(f, s.vars, <<>>), LAMBDA t :
            After(ExpList(t.f, s.exps), LAMBDA l : store(t.lhs, l)))

Cond(f, toks) ==
    After(ExpOf(f, toks), LAMBDA x :
        GoIfTrue(x.f, IF x.e.k = "VNIL" THEN [x.e EXCEPT !.k = "VFALSE"] ELSE x.e))

GotoStat(f, name, pc) ==
    LET g == [f EXCEPT !.gotos = Append(@, LabelEntry(f, name, pc))] IN FindLabel(g, Len(g.gotos))

WhileStat(f, s) ==
    After(Cond(Label(f), s.cond), LAMBDA c :
        LET b == After(Block(EnterBlock(c.f, TRUE), s.body), LAMBDA g : JumpTo(g, PC(f)))
        IN  After(After(b, LeaveBlock), LAMBDA g : PatchToHere(g, c.e.f)))

RepeatStat(f, s) ==
    LET b == StatList(EnterBlock(EnterBlock(Label(f), TRUE), FALSE), s.body, 1)
        left(c) == LET bl == Last(c.f.bl)
                   IN  After(IF bl.up THEN PatchClose(c.f, c.e.f, bl.nact) ELSE c.f, LeaveBlock)
    IN  After(After(After(b, LAMBDA g : Cond(g, s.cond)), LAMBDA c : PatchList(left(c), c.e.f, PC(f))),
              LeaveBlock)

ForBody(f, base, nvars, isnum, body) ==
    LET a == Activate(f, 3)
        p == IF isnum THEN Code(a, "FORPREP", base, NoJump, 0) ELSE Jump(a)
        prep == Len(p.code)
        b == Block(Reserve(Activate(EnterBlock(p, FALSE), nvars), nvars), body)
        loop(g) == IF isnum THEN Code(g, "FORLOOP", base, NoJump, 0)
                   ELSE Code(Code(g, "TFORCALL", base, 0, nvars), "TFORLOOP", base + 2, NoJump, 0)
        end(g) == LET l == loop(PatchToHere(g, prep)) IN PatchList(l, Len(l.code), prep + 1)
    IN  After(After(b, LeaveBlock), end)
Control3 == [i \in 1..3 |-> <<0, i>>]               \* (for index), (for limit), (for step)
ForNum(f, s) ==
    LET exp1(g, toks) == After(After(g, LAMBDA h : ExpOf(h, toks)), LAMBDA x : NextReg(x.f, x.e).f)
        l == exp1(exp1(NewLocals(f, Control3 \o <<s.name>>), s.exps[1]), s.exps[2])
        step(g) == IF Len(s.exps) = 3 THEN exp1(g, s.exps[3]) ELSE Reserve(CodeK(g, g.free, IntV(1)), 1)
    IN  After(After(l, step), LAMBDA g : ForBody(g, f.free, 1, TRUE, s.body))
ForList(f, s) ==
    LET l == ExpList(NewLocals(f, Control3 \o s.names), s.exps)
        g == After(l, LAMBDA r : CheckStack(AdjustAssign(r.f, 3, Len(s.exps), r.e), 3))
    IN  After(g, LAMBDA h : ForBody(h, f.free, Len(s.names), FALSE, s.body))
ForStat(f, s) ==
    LET g == EnterBlock(f, TRUE)
    IN  After(IF s.kind = "fornum" THEN ForNum(g, s) ELSE ForList(g, s), LeaveBlock)

RECURSIVE SkipNoOp(_, _, _), Clauses(_, _, _, _)
IsLabel(b, i) == i <= Len(b) /\ b[i].kind = "label"
\* labelstat; a label at the end of its block sees none of its variables
LabelStat(f0, b, i) ==
    LET rep == \E l \in (Last(f0.bl).lab + 1)..Len(f0.labels) : f0.labels[l].name = b[i].name
        f == Label(IF rep THEN [f0 EXCEPT !.err = "already defined"] ELSE f0)
        r == SkipNoOp([f EXCEPT !.labels = Append(@, LabelEntry(f, b[i].name, PC(f)))], b, i + 1)
        n == Len(f.labels) + 1
        g == IF r.i > Len(b) /\ b[i].last # "until"
             THEN [r.f EXCEPT !.labels[n].nact = Last(r.f.bl).nact] ELSE r.f
    IN  [f |-> FindGotos(g, Last(g.bl).gt + 1, g.labels[n]), i |-> r.i]
SkipNoOp(f, b, i) ==
    IF IsLabel(b, i) THEN LET r == LabelStat(f, b, i) IN SkipNoOp(r.f, b, r.i) ELSE [f |-> f, i |-> i]

\* test_then_block: a goto as the first statement is the jump of the condition
TestThenBlock(f, clause, more) ==
    LET b == clause.body
        jumps == b # <<>> /\ b[1].kind \in {"goto", "break"}
        \* the block from statement i on; jf: the jumps of the false condition
        rest(g, i, jf) == After(After(StatList(g, b, i), LeaveBlock), LAMBDA left :
            LET esc == IF more THEN Jump(left) ELSE left
            IN  [f |-> PatchToHere(esc, jf), esc |-> IF more THEN Len(esc.code) ELSE NoJump])
        then(x) ==
            LET gf == GoIfFalse(x.f, x.e)
                s == SkipNoOp(GotoStat(EnterBlock(gf.f, FALSE), b[1].name, gf.e.t), b, 2)
                over == Jump(s.f)
                gt == GoIfTrue(x.f, x.e)
            IN  IF ~jumps THEN rest(EnterBlock(gt.f, FALSE), 1, gt.e.f)
                ELSE IF s.i > Len(b) THEN [f |-> LeaveBlock(s.f), esc |-> NoJump]
                ELSE rest(over, s.i, Len(over.code))
    IN  After(ExpOf(f, clause.cond), then)
\* the escape list grows before the false jumps are patched; both lists are disjoint
Clauses(f, s, n, esc) ==
    IF n > Len(s.clauses)
    THEN PatchToHere(IF s.hasElse THEN Block(f, s.else) ELSE f, esc)
    ELSE After(TestThenBlock(f, s.clauses[n], n < Len(s.clauses) \/ s.hasElse),
               LAMBDA r : Clauses(ConcatCode(r.f, esc, r.esc), s, n + 1, ConcatList(esc, r.esc)))

RetStat(f, s) ==
    LET l == ExpList(f, s.exps)
        open == HasMultret(l.e)
        m == SetReturns(l.f, l.e, -1)
        tail == IF l.e.k = "VCALL" /\ Len(s.exps) = 1
                THEN [Require(m, m.code[l.e.info].a = m.nact) EXCEPT !.code[l.e.info].op = "TAILCALL"] ELSE m
        one == AnyReg(l.f, l.e)
        all == NextReg(l.f, l.e).f
    IN  IF s.exps = <<>> THEN Ret(f, 0, 0)
        ELSE IF open THEN Ret(tail, tail.nact, -1)
        ELSE IF Len(s.exps) = 1 THEN Ret(one.f, one.e.info, 1)
        ELSE Ret(Require(all, Len(s.exps) = all.free - all.nact), all.nact, Len(s.exps))

FuncStat(f, s) ==
    LET v == Suffixed(f, s.var)
        b == Body(v.f, s.fun, s.method)
    IN  StoreVar(b.f, v.e, b.e)
LocalStat(f, s) ==
    After(OptExpList(NewLocals(f, s.names), s.exps),
          LAMBDA l : Activate(AdjustAssign(l.f, Len(s.names), Len(s.exps), l.e), Len(s.names)))

\* statement, of those that are one element of their block
StatementOf(f, s) ==
    CASE s.kind = "if" -> Clauses(f, s, 1, NoJump)
      [] s.kind = "while" -> WhileStat(f, s)
      [] s.kind = "do" -> Block(f, s.body)
      [] s.kind \in {"fornum", "forlist"} -> ForStat(f, s)
      [] s.kind = "repeat" -> RepeatStat(f, s)
      [] s.kind = "function" -> FuncStat(f, s)
      [] s.kind = "localfunction" -> Body(Activate(NewLocals(f, <<s.name>>), 1), s.fun, FALSE).f
      [] s.kind = "local" -> LocalStat(f, s)
      [] s.kind = "return" -> RetStat(f, s)
      [] s.kind \in {"goto", "break"} -> LET j == Jump(f) IN GotoStat(j, s.name, Len(j.code))
      [] s.kind = "assign" -> Assignment(f, s)
      [] s.kind = "call" -> LET v == Suffixed(f, s.exp) IN SetC(v.f, v.e.info, 1)
StatList(f, b, i) ==
    IF i > Len(b) THEN f
    ELSE LET r == IF b[i].kind = "label" THEN LabelStat(f, b, i)
                  ELSE [f |-> StatementOf(f, b[i]), i |-> i + 1]
             g == [Require(r.f, r.f.max >= r.f.free /\ r.f.free >= r.f.nact) EXCEPT !.free = r.f.nact]
         IN  IF b[i].kind = "return" THEN g ELSE StatList(g, b, r.i)

\* mainfunc; a syntax error leaves no function
Compile(body) ==
    LET f == [NewFunc(<<>>, TRUE) EXCEPT !.ups = <<[name |-> EnvName, instack |-> TRUE, idx |-> 0]>>]
    IN  After(StatList(EnterBlock(f, FALSE), body, 1), CloseFunc)
=============================================================================
