------------------------------ MODULE Collector ------------------------------
(***************************************************************************)
(* The incremental garbage collector of the Lua interpreter the agent is   *)
(* linked with (src/lib/lua/lgc.c), with the operations of the running     *)
(* program that it has to survive: stores with their write barriers,       *)
(* interned strings, coroutines and the upvalues they leave open, weak     *)
(* tables, userdata and finalizers.                                        *)
(*                                                                         *)
(* The state is one record g, as in the code (global_State).  Every        *)
(* function of lgc.c that changes it is an operator from g to g with the   *)
(* function's name; an action is one call from the interpreter.  Lists     *)
(* linked by "next" or "gclist" are sequences, head first.                 *)
(*                                                                         *)
(* Abstracted: the amount of work a step does is a number of single steps  *)
(* chosen freely; array parts (a number key is the value Num in a node);   *)
(* metatables, which stay marked; prototypes and C closures.               *)
(***************************************************************************)
EXTENDS Integers, FiniteSets, Sequences, SequencesExt

CONSTANTS Obj,          \* addresses of collectable objects
          Main,         \* the main thread, an element of Obj in no list
          Upv,          \* addresses of upvalues
          Nil, Num,     \* the nil value; a value that is not collectable
          DeadKey,      \* what a key is set to when its object may be freed
          Scenarios,    \* heaps the program starts from
          MaxOps,       \* bound: operations of the program in a behaviour
          MaxStack,     \* bound: values on one stack
          MaxWork       \* bound: single steps in one luaC_step

ASSUME MainIsObject == Main \in Obj /\ {Nil, Num, DeadKey} \cap Obj = {}

VARIABLES g,   \* the global state, the heap and the stacks
          ops  \* operations of the program so far

vars == <<g, ops>>

Tables == {"strong", "weakval", "ephemeron", "allweak"}
Kinds == Tables \cup {"udata", "lcl", "thread", "string"}
States == {"pause", "propagate", "atomic", "inside", "swpallgc", "swpfinobj",
           "swptobefnz", "swpend", "callfin", "closed"}
IsSweepPhase(s) == s.gcstate \in {"swpallgc", "swpfinobj", "swptobefnz", "swpend"}
KeepInvariant(s) == s.gcstate \in {"propagate", "atomic"}

NoNode == [k |-> Nil, v |-> Nil]
NoUpval == [th |-> Nil, at |-> 0, v |-> Nil, touched |-> FALSE]

Allocated(s) == {Main} \cup ToSet(s.allgc) \cup ToSet(s.finobj) \cup ToSet(s.tobefnz)
OtherWhite(s) == IF s.white = "w0" THEN "w1" ELSE "w0"
IsWhite(s, o) == s.mark[o] \in {"w0", "w1"}
IsDead(s, o) == s.mark[o] = OtherWhite(s)
ValIsWhite(s, v) == v \in Obj /\ IsWhite(s, v)
IsBlack(s, o) == s.mark[o] = "black"
SetMark(s, o, c) == [s EXCEPT !.mark[o] = c]
Without(seq, o) == SelectSeq(seq, LAMBDA x : x # o)

(* The upvalues open in the stack of a thread, and what a closure sees. *)
OpenIn(s, th) == {u \in Upv : s.uv[u].th = th}
UpvalValue(s, u) == IF s.uv[u].th # Nil THEN s.stack[s.uv[u].th][s.uv[u].at]
                    ELSE s.uv[u].v
Referenced(s, u) == \E f \in Allocated(s) : s.up[f] = u

-----------------------------------------------------------------------------
(* Marking. *)

RECURSIVE ReallyMark(_, _)
ReallyMark(s, o) ==
    CASE s.kind[o] = "string" -> SetMark(s, o, "black")
      [] s.kind[o] = "udata" ->
            LET t == SetMark(s, o, "black")
                uvalue == s.node[o][1].v
            IN IF ValIsWhite(t, uvalue) THEN ReallyMark(t, uvalue) ELSE t
      [] OTHER -> [SetMark(s, o, "gray") EXCEPT !.gray = <<o>> \o @]

MarkValue(s, v) == IF ValIsWhite(s, v) THEN ReallyMark(s, v) ELSE s
MarkAll(s, seq) == FoldLeft(MarkValue, s, seq)
MarkSet(s, S) == MarkAll(s, SetToSeq(S))

RemoveEntry(s, h, i) ==
    IF ValIsWhite(s, s.node[h][i].k) THEN [s EXCEPT !.node[h][i].k = DeadKey] ELSE s

(* iscleared marks a string it is asked about, so it has a state to return. *)
IsString(s, v) == v \in Obj /\ s.kind[v] = "string"
AskCleared(s, v) == IF IsString(s, v) THEN MarkValue(s, v) ELSE s
IsCleared(s, v) == ~ IsString(s, v) /\ ValIsWhite(s, v)

RemarkUpvals(s) ==
    LET leaving == {th \in s.twups : ~ (s.mark[th] = "gray" /\ OpenIn(s, th) # {})}
        open == {u \in Upv : s.uv[u].th \in leaving /\ s.uv[u].touched}
        marked == MarkSet(s, {UpvalValue(s, u) : u \in open} \ {Nil})
    IN [marked EXCEPT !.twups = @ \ leaving,
           !.uv = [u \in Upv |-> IF u \in open THEN [@[u] EXCEPT !.touched = FALSE]
                                 ELSE @[u]]]

RestartCollection(s) ==
    MarkAll([s EXCEPT !.gray = <<>>, !.grayagain = <<>>, !.weak = <<>>,
                      !.allweak = <<>>, !.ephemeron = <<>>],
            <<Main>> \o s.tobefnz)

-----------------------------------------------------------------------------
(* Traversing one object.  The nodes of a table are visited in order. *)

Slots(s, h) == [i \in 1 .. Len(s.node[h]) |-> i]
Empty(s, h, i) == s.node[h][i].v = Nil
Link(s, list, h) ==
    CASE list = "grayagain" -> [s EXCEPT !.grayagain = <<h>> \o @]
      [] list = "weak" -> [s EXCEPT !.weak = <<h>> \o @]
      [] list = "ephemeron" -> [s EXCEPT !.ephemeron = <<h>> \o @]
      [] list = "allweak" -> [s EXCEPT !.allweak = <<h>> \o @]
      [] OTHER -> s

TraverseStrongTable(s, h) ==
    LET Node(t, i) == IF Empty(t, h, i) THEN RemoveEntry(t, h, i)
                      ELSE MarkAll(t, <<t.node[h][i].k, t.node[h][i].v>>)
    IN FoldLeft(Node, s, Slots(s, h))

\* mutant: weak values are marked as the others
TraverseWeakStrongly(s, h) ==
    Link(TraverseStrongTable(s, h), IF s.gcstate = "propagate" THEN "grayagain" ELSE "none", h)

TraverseWeakValue(s, h) ==
    LET Node(acc, i) ==
          IF Empty(acc.s, h, i) THEN [acc EXCEPT !.s = RemoveEntry(@, h, i)]
          ELSE LET t == MarkValue(acc.s, acc.s.node[h][i].k)
                   v == t.node[h][i].v
               IN IF acc.clears THEN [acc EXCEPT !.s = t]
                  ELSE [s |-> AskCleared(t, v), clears |-> IsCleared(t, v)]
        end == FoldLeft(Node, [s |-> s, clears |-> FALSE], Slots(s, h))
    IN Link(end.s, CASE s.gcstate = "propagate" -> "grayagain"
                     [] s.gcstate # "propagate" /\ end.clears -> "weak"
                     [] OTHER -> "none", h)

(* marked: the traversal marked a value, so the convergence has to go on. *)
TraverseEphemeron(s, h) ==
    LET Node(acc, i) ==
          LET t == AskCleared(acc.s, acc.s.node[h][i].k)
              n == acc.s.node[h][i]
          IN CASE Empty(acc.s, h, i) -> [acc EXCEPT !.s = RemoveEntry(@, h, i)]
               [] ~ Empty(acc.s, h, i) /\ IsCleared(acc.s, n.k) ->
                    [acc EXCEPT !.clears = TRUE, !.ww = @ \/ ValIsWhite(t, n.v)]
               [] OTHER -> [acc EXCEPT !.s = MarkValue(t, n.v),
                                       !.marked = @ \/ ValIsWhite(t, n.v)]
        end == FoldLeft(Node, [s |-> s, marked |-> FALSE, clears |-> FALSE, ww |-> FALSE],
                        Slots(s, h))
        list == CASE s.gcstate = "propagate" -> "grayagain"
                  [] s.gcstate # "propagate" /\ end.ww -> "ephemeron"
                  [] s.gcstate # "propagate" /\ ~ end.ww /\ end.clears -> "allweak"
                  [] OTHER -> "none"
    IN [s |-> Link(end.s, list, h), marked |-> end.marked]

TraverseTable(s, h) ==
    LET gray == SetMark(s, h, "gray")
    IN CASE s.kind[h] = "weakval" -> TraverseWeakValue(gray, h)
         [] s.kind[h] = "ephemeron" -> TraverseEphemeron(gray, h).s
         [] s.kind[h] = "allweak" -> Link(gray, "allweak", h)
         [] OTHER -> TraverseStrongTable(s, h)

TraverseLclosure(s, f) ==
    LET u == s.up[f]
    IN IF u = Nil THEN s
       ELSE IF s.uv[u].th # Nil /\ s.gcstate # "inside"
            THEN [s EXCEPT !.uv[u].touched = TRUE]
            ELSE MarkValue(s, UpvalValue(s, u))

TraverseThread(s, th) ==
    LET t == MarkAll(s, s.stack[th])
    IN IF s.gcstate = "inside" /\ OpenIn(s, th) # {}
       THEN [t EXCEPT !.twups = @ \cup {th}] ELSE t

PropagateMark(s) ==
    LET o == Head(s.gray)
        t == [SetMark(s, o, "black") EXCEPT !.gray = Tail(@)]
    IN CASE s.kind[o] \in Tables -> TraverseTable(t, o)
         [] s.kind[o] = "lcl" -> TraverseLclosure(t, o)
         [] s.kind[o] = "thread" ->
              TraverseThread([SetMark(t, o, "gray") EXCEPT !.grayagain = <<o>> \o @], o)

RECURSIVE PropagateAll(_)
PropagateAll(s) == IF s.gray = <<>> THEN s ELSE PropagateAll(PropagateMark(s))

RECURSIVE ConvergeEphemerons(_)
ConvergeEphemerons(s) ==
    LET Visit(acc, h) ==
          LET r == TraverseEphemeron(acc.s, h)
          IN IF r.marked THEN [s |-> PropagateAll(r.s), changed |-> TRUE]
             ELSE [acc EXCEPT !.s = r.s]
        end == FoldLeft(Visit, [s |-> [s EXCEPT !.ephemeron = <<>>], changed |-> FALSE],
                        s.ephemeron)
    IN IF end.changed THEN ConvergeEphemerons(end.s) ELSE end.s

(* Entries of weak tables whose key, or value, was not marked. *)
ClearEntry(s, h, i, v) ==
    LET t == IF Empty(s, h, i) THEN s ELSE AskCleared(s, v)
    IN IF ~ Empty(s, h, i) /\ IsCleared(s, v)
       THEN RemoveEntry([s EXCEPT !.node[h][i].v = Nil], h, i) ELSE t
ClearKeys(s, list) ==
    LET Visit(t, h) == FoldLeft(LAMBDA a, i : ClearEntry(a, h, i, a.node[h][i].k),
                                t, Slots(t, h))
    IN FoldLeft(Visit, s, list)
ClearValues(s, list) ==
    LET Visit(t, h) == FoldLeft(LAMBDA a, i : ClearEntry(a, h, i, a.node[h][i].v),
                                t, Slots(t, h))
    IN FoldLeft(Visit, s, list)
Newer(list, orig) == SubSeq(list, 1, Len(list) - Len(orig))

-----------------------------------------------------------------------------
(* Upvalues: luaF_close moves the values from the stack, from a level up.  *)

CloseUpvals(s, th, level) ==
    LET closing == {u \in OpenIn(s, th) : s.uv[u].at >= level}
        kept == {u \in closing : Referenced(s, u)}
        t == [s EXCEPT !.uv = [u \in Upv |->
                 CASE u \in kept -> [NoUpval EXCEPT !.v = UpvalValue(s, u)]
                   [] u \in closing \ kept -> NoUpval
                   [] OTHER -> s.uv[u]]]
    IN IF KeepInvariant(s) THEN MarkSet(t, {t.uv[u].v : u \in kept} \ {Nil}) ELSE t

(* freeobj, with what freeing a thread or a closure does to upvalues. *)
Forget(s, o) == [s EXCEPT !.mark[o] = "w0", !.fin[o] = FALSE, !.stack[o] = <<>>,
                          !.up[o] = Nil, !.node[o] = [i \in DOMAIN @ |-> NoNode]]
FreeObj(s, o) ==
    LET u == s.up[o]
        t == Forget(IF s.kind[o] = "thread" THEN CloseUpvals(s, o, 1) ELSE s, o)
    IN IF u # Nil /\ ~ (\E f \in Allocated(s) \ {o} : s.up[f] = u) /\ s.uv[u].th = Nil
       THEN [t EXCEPT !.uv[u] = NoUpval] ELSE t

-----------------------------------------------------------------------------
(* Sweeping.  The position sweepgc is the link after an object, the head   *)
(* of a list, or none.                                                     *)

Lists == {"allgc", "finobj", "tobefnz"}
Get(s, list) == CASE list = "allgc" -> s.allgc [] list = "finobj" -> s.finobj
                  [] OTHER -> s.tobefnz
ListOf(s, o) == CHOOSE l \in Lists : Contains(Get(s, l), o)
NextOf(s, p) ==
    LET l == IF p \in Lists THEN Get(s, p) ELSE Get(s, ListOf(s, p))
        at == IF p \in Lists THEN 1 ELSE 1 + CHOOSE i \in DOMAIN l : l[i] = p
    IN IF at > Len(l) THEN Nil ELSE l[at]
Unlink(s, o) == [s EXCEPT !.allgc = Without(@, o), !.finobj = Without(@, o),
                          !.tobefnz = Without(@, o)]

RECURSIVE SweepList(_, _, _)
SweepList(s, p, count) ==
    LET curr == NextOf(s, p)
    IN IF curr = Nil THEN [s EXCEPT !.sweepgc = "none"]
       ELSE IF count = 0 THEN [s EXCEPT !.sweepgc = p]
       ELSE IF IsDead(s, curr) THEN SweepList(FreeObj(Unlink(s, curr), curr), p, count - 1)
       ELSE SweepList(SetMark(s, curr, s.white), curr, count - 1)

RECURSIVE SweepToLive(_, _)
SweepToLive(s, p) ==
    LET t == SweepList(s, p, 1) IN IF t.sweepgc = p THEN SweepToLive(t, p) ELSE t

EnterSweep(s) == SweepList([s EXCEPT !.gcstate = "swpallgc"], "allgc", 1)
SweepStep(s, nextstate, nextlist) ==
    LET t == IF s.sweepgc = "none" THEN s ELSE SweepList(s, s.sweepgc, s.sweepmax)
    IN IF t.sweepgc # "none" THEN t
       ELSE [t EXCEPT !.gcstate = nextstate, !.sweepgc = nextlist]

-----------------------------------------------------------------------------
(* Finalizers.  A finalizer drops its object, keeps it (the program can    *)
(* reach it again) or raises an error, which ends the batch.               *)

Effects == {"drop", "keep", "error"}

\* mutant: what is set aside is linked in at the head of the list, one by one
SeparateReversed(s, all) ==
    LET moved == SelectSeq(s.finobj, LAMBDA o : IsWhite(s, o) \/ all)
    IN [s EXCEPT !.finobj = SelectSeq(@, LAMBDA o : ~ (IsWhite(s, o) \/ all)),
                 !.tobefnz = Reverse(moved) \o @]

SeparateToBeFnz(s, all) ==
    LET moved == SelectSeq(s.finobj, LAMBDA o : IsWhite(s, o) \/ all)
    IN [s EXCEPT !.finobj = SelectSeq(@, LAMBDA o : ~ (IsWhite(s, o) \/ all)),
                 !.tobefnz = @ \o moved]

Udata2Finalize(s) ==
    LET o == Head(s.tobefnz)
        t == [s EXCEPT !.tobefnz = Tail(@), !.allgc = <<o>> \o @, !.fin[o] = FALSE]
    IN IF IsSweepPhase(s) THEN SetMark(t, o, s.white) ELSE t

CallTM(s, effect) ==
    LET o == Head(s.tobefnz)
        t == [Udata2Finalize(s) EXCEPT !.log = Append(@, o)]
    IN IF effect = "keep" THEN [t EXCEPT !.stack[s.running] = Append(@, o)] ELSE t

RECURSIVE CallUpTo(_, _, _)
CallUpTo(s, n, effect) ==
    IF s.tobefnz = <<>> \/ n = 0 THEN s ELSE CallUpTo(CallTM(s, effect), n - 1, effect)
RunAFewFinalizers(s, effect) ==
    IF effect = "error" /\ s.tobefnz # <<>> /\ s.finnum > 0
    THEN [CallTM(s, effect) EXCEPT !.thrown = TRUE]
    ELSE LET t == CallUpTo(s, s.finnum, effect)
         IN [t EXCEPT !.finnum = IF t.tobefnz = <<>> THEN 0 ELSE @ * 2]

CheckFinalizer(s, o) ==
    IF s.fin[o] THEN s
    ELSE LET t == IF ~ IsSweepPhase(s) THEN s
                  ELSE LET w == SetMark(s, o, s.white)
                       IN IF s.sweepgc = o THEN SweepToLive(w, o) ELSE w
         IN [t EXCEPT !.allgc = Without(@, o), !.finobj = <<o>> \o @, !.fin[o] = TRUE]

-----------------------------------------------------------------------------
(* The steps of the collector. *)

MarkRoots(s) == PropagateAll(RemarkUpvals(MarkValue([s EXCEPT !.gcstate = "inside"], s.running)))
MarkAgain(s, grayagain) == ConvergeEphemerons(PropagateAll([s EXCEPT !.gray = grayagain]))
ClearWeak(s) == ClearValues(ClearValues(s, s.weak), s.allweak)
MarkToBeFnz(s) == ConvergeEphemerons(PropagateAll(MarkAll(s, s.tobefnz)))
ClearDeadKeys(s) == ClearKeys(ClearKeys(s, s.ephemeron), s.allweak)
ClearResurrected(s, weak, allweak) ==
    ClearValues(ClearValues(s, Newer(s.weak, weak)), Newer(s.allweak, allweak))
FlipWhite(s) == [s EXCEPT !.white = OtherWhite(s)]
AtomicFinalizers(s) ==
    FlipWhite(ClearResurrected(ClearDeadKeys(MarkToBeFnz(s)), s.weak, s.allweak))
Atomic(s) ==
    AtomicFinalizers([SeparateToBeFnz(ClearWeak(MarkAgain(MarkRoots(s), s.grayagain)), FALSE)
                      EXCEPT !.finnum = 1])

WhenAllMarked(s) == IF s.gray = <<>> THEN [s EXCEPT !.gcstate = "atomic"] ELSE s
SingleStep(s, effect) ==
    CASE s.gcstate = "pause" -> [RestartCollection(s) EXCEPT !.gcstate = "propagate"]
      [] s.gcstate = "propagate" ->
            WhenAllMarked(PropagateMark(s))
      [] s.gcstate = "atomic" -> EnterSweep(Atomic(PropagateAll(s)))
      [] s.gcstate = "swpallgc" -> SweepStep(s, "swpfinobj", "finobj")
      [] s.gcstate = "swpfinobj" -> SweepStep(s, "swptobefnz", "tobefnz")
      [] s.gcstate = "swptobefnz" -> SweepStep(s, "swpend", "none")
      [] s.gcstate = "swpend" -> [SetMark(s, Main, s.white) EXCEPT !.gcstate = "callfin"]
      [] s.gcstate = "callfin" ->
            IF s.tobefnz # <<>> /\ ~ s.emergency THEN RunAFewFinalizers(s, effect)
            ELSE [s EXCEPT !.gcstate = "pause"]

Resting(s) == s.gcstate = "pause" \/ s.thrown
RECURSIVE MoreSteps(_, _, _)
MoreSteps(s, n, effect) ==
    IF n = 0 \/ Resting(s) THEN s ELSE MoreSteps(SingleStep(s, effect), n - 1, effect)
PayFinalizers(s, effect) == IF Resting(s) THEN s ELSE RunAFewFinalizers(s, effect)
LuaCStep(s, n, effect) ==
    PayFinalizers(MoreSteps(SingleStep(s, effect), n - 1, effect), effect)

RECURSIVE RunUntil(_, _, _)
RunUntil(s, states, effect) ==
    IF s.gcstate \in states \/ s.thrown THEN s
    ELSE RunUntil(SingleStep(s, effect), states, effect)

RECURSIVE RunThrough(_, _, _)
RunThrough(s, targets, effect) ==
    IF targets = <<>> THEN s
    ELSE RunThrough(RunUntil(s, Head(targets), effect), Tail(targets), effect)
TurnWhite(s) == IF KeepInvariant(s) THEN EnterSweep(s) ELSE s
FullGC(s, emergency, effect) ==
    [RunThrough(TurnWhite([s EXCEPT !.emergency = emergency]),
                <<{"pause"}, States \ {"pause"}, {"callfin"}, {"pause"}>>, effect)
     EXCEPT !.emergency = FALSE]

CallAllPending(s) == CallUpTo(s, Len(s.tobefnz), "drop")
FreeAll(s) == FoldLeft(FreeObj, [s EXCEPT !.allgc = <<>>, !.finobj = <<>>], s.finobj \o s.allgc)
FreeAllObjects(s) ==
    [FreeAll(CallAllPending(SeparateToBeFnz(s, TRUE))) EXCEPT !.gcstate = "closed"]

-----------------------------------------------------------------------------
(* Write barriers (luaC_barrier_, luaC_barrierback_, luaC_upvalbarrier_).  *)

Barrier(s, o, v) ==
    IF ~ (ValIsWhite(s, v) /\ IsBlack(s, o)) THEN s
    ELSE IF KeepInvariant(s) THEN ReallyMark(s, v) ELSE SetMark(s, o, s.white)
\* mutants: no barrier; a barrier that does not look at the table's color
BarrierBackForgotten(s, h, v) == s
BarrierBack(s, h, v) ==
    IF ~ (ValIsWhite(s, v) /\ IsBlack(s, h)) THEN s
    ELSE [SetMark(s, h, "gray") EXCEPT !.grayagain = <<h>> \o @]
UpvalBarrier(s, u) ==
    IF s.uv[u].th = Nil /\ KeepInvariant(s) THEN MarkValue(s, s.uv[u].v) ELSE s

-----------------------------------------------------------------------------
(* What the program does.  It works on the stack of the running thread.    *)

Stack == g.stack[g.running]
OnStack == ToSet(Stack)
Push(s, v) == [s EXCEPT !.stack[s.running] = Append(@, v)]
Op == ops < MaxOps /\ g.gcstate # "closed" /\ ops' = ops + 1
Room == Len(Stack) < MaxStack
NewObj(s, o) == Push([SetMark(s, o, s.white) EXCEPT !.allgc = <<o>> \o @], o)

New(o) ==
    /\ Op /\ Room /\ o \notin Allocated(g) /\ g.kind[o] \notin {"string", "lcl"}
    /\ g' = NewObj(g, o)

(* OP_CLOSURE: the closure captures the local variable at index i, by the  *)
(* upvalue already open there or by a new one (luaF_findupval).            *)
NewClosure(f, u, i) ==
    LET here == {w \in Upv : g.uv[w].th = g.running /\ g.uv[w].at = i}
        opened == [g EXCEPT !.uv[u] = [th |-> g.running, at |-> i, v |-> Nil, touched |-> TRUE],
                            !.twups = @ \cup {g.running}]
    IN /\ Op /\ Room /\ f \notin Allocated(g) /\ g.kind[f] = "lcl" /\ i \in DOMAIN Stack
       /\ \/ u \in here
          \/ here = {} /\ g.uv[u].th = Nil /\ ~ Referenced(g, u)
       /\ g' = NewObj([(IF here = {} THEN opened ELSE g) EXCEPT !.up[f] = u], f)

\* mutant: a dead string is handed out as it is
InternDead(o) ==
    /\ Op /\ Room /\ g.kind[o] = "string"
    /\ g' = IF o \notin Allocated(g) THEN NewObj(g, o) ELSE Push(g, o)

(* internshrstr: an equal string that is dead but not swept yet lives on.  *)
Intern(o) ==
    /\ Op /\ Room /\ g.kind[o] = "string"
    /\ g' = IF o \notin Allocated(g) THEN NewObj(g, o)
            ELSE Push(IF IsDead(g, o) THEN SetMark(g, o, g.white) ELSE g, o)

SetField(h, i, k, v) ==
    LET n == g.node[h][i]
        keyed == IF n.k = k THEN g ELSE BarrierBack([g EXCEPT !.node[h][i].k = k], h, k)
    IN /\ Op /\ h \in OnStack /\ g.kind[h] \in Tables
       /\ k \in OnStack \cup {Num} /\ v \in OnStack \cup {Nil} /\ k # Nil
       /\ \/ n.k = k
          \/ n.v = Nil /\ v # Nil /\ \A j \in DOMAIN g.node[h] : g.node[h][j].k # k
       /\ g' = BarrierBack([keyed EXCEPT !.node[h][i].v = v], h, v)

GetField(h, i) ==
    /\ Op /\ Room /\ h \in OnStack /\ g.kind[h] \in Tables /\ ~ Empty(g, h, i)
    /\ \E x \in {g.node[h][i].k, g.node[h][i].v} : g' = Push(g, x)

SetUserValue(o, v) ==
    /\ Op /\ {o, v} \subseteq OnStack /\ o \in Obj /\ g.kind[o] = "udata"
    /\ g' = Barrier([g EXCEPT !.node[o][1].v = v], o, v)

SetUpval(f, v) ==
    /\ Op /\ {f, v} \subseteq OnStack /\ f \in Obj /\ g.kind[f] = "lcl"
    /\ LET u == g.up[f] w == g.uv[u]
       IN g' = IF w.th # Nil THEN [g EXCEPT !.stack[w.th][w.at] = v]
               ELSE UpvalBarrier([g EXCEPT !.uv[u].v = v], u)
GetUpval(f) ==
    /\ Op /\ Room /\ f \in OnStack \cap Obj /\ g.kind[f] = "lcl"
    /\ g' = Push(g, UpvalValue(g, g.up[f]))

SetMetatable(o) ==
    /\ Op /\ o \in OnStack \cap Obj /\ g.kind[o] \in Tables \cup {"udata"}
    /\ o \in g.finalizable
    /\ g' = [CheckFinalizer(g, o) EXCEPT !.order = IF g.fin[o] THEN @ ELSE Append(@, o)]

Pop ==
    /\ Op /\ Stack # <<>>
    /\ g' = [CloseUpvals(g, g.running, Len(Stack)) EXCEPT
                !.stack[g.running] = SubSeq(@, 1, Len(Stack) - 1)]

Resume(co, v) ==
    /\ Op /\ g.running = Main /\ {co, v} \subseteq OnStack
    /\ co \in Obj \ {Main} /\ g.kind[co] = "thread"
    /\ g' = Push([g EXCEPT !.running = co], v)
Yield(v) ==
    /\ Op /\ g.running # Main /\ v \in OnStack
    /\ g' = Push([g EXCEPT !.running = Main], v)

Mutate ==
    \/ \E o \in Obj : New(o) \/ Intern(o) \/ GetUpval(o) \/ SetMetatable(o)
    \/ \E f \in Obj, u \in Upv, i \in 1 .. MaxStack : NewClosure(f, u, i)
    \/ \E h \in Obj : \E i \in DOMAIN g.node[h] :
          GetField(h, i) \/ \E k, v \in OnStack \cup {Num, Nil} : SetField(h, i, k, v)
    \/ \E o, v \in OnStack : SetUserValue(o, v) \/ SetUpval(o, v) \/ Resume(o, v)
    \/ \E v \in OnStack : Yield(v)
    \/ Pop

(* luaC_step pays for allocations; a full collection is collectgarbage()   *)
(* or, in an emergency, an allocation that failed.                         *)
Step(n, effect) ==
    /\ g.gcstate # "closed"
    /\ g' = LuaCStep([g EXCEPT !.thrown = FALSE], n, effect)
    /\ UNCHANGED ops
Collect(emergency, effect) ==
    /\ Op /\ (emergency => effect = "drop")
    /\ g' = FullGC([g EXCEPT !.thrown = FALSE], emergency, effect)
Close == Op /\ g.running = Main /\ g' = FreeAllObjects(CloseUpvals(g, Main, 1))

GCStep == \E n \in 1 .. MaxWork, effect \in g.effects : Step(n, effect)
Init == g \in Scenarios /\ ops = 0
Next == Mutate \/ GCStep \/ (\E e \in BOOLEAN, f \in g.effects : Collect(e, f)) \/ Close
Spec == Init /\ [][Next]_vars
(* The program allocates as long as it runs, and allocation runs luaC_step. *)
(* GCStep is enabled until the state is closed, so this is WF_vars(GCStep),  *)
(* written so that ENABLED need not be evaluated: the steps that leave ops   *)
(* unchanged are those of luaC_step.                                         *)
FairSpec == Spec /\ ([]<><<UNCHANGED ops>>_vars \/ <>[](g.gcstate = "closed"))

-----------------------------------------------------------------------------
(* What the program can reach: it gets at a value by its thread, and by    *)
(* what it can reach.  A weak key or value is no way to get anywhere; the  *)
(* value of an ephemeron is, for who has the key.                          *)

RefsOf(s, o, S) ==
    LET n == {s.node[o][i] : i \in {j \in DOMAIN s.node[o] : ~ Empty(s, o, j)}}
        keys == {e.k : e \in n}
        Has(k) == k \notin Obj \/ k \in S \/ IsString(s, k)
        strings == {x \in keys \cup {e.v : e \in n} : IsString(s, x)}
    IN Obj \cap CASE s.kind[o] = "strong" -> keys \cup {e.v : e \in n}
                  [] s.kind[o] = "weakval" -> keys \cup strings
                  [] s.kind[o] = "ephemeron" -> {e.v : e \in {d \in n : Has(d.k)}} \cup strings
                  [] s.kind[o] = "allweak" -> strings
                  [] s.kind[o] = "udata" -> {e.v : e \in n}
                  [] s.kind[o] = "lcl" -> IF s.up[o] = Nil THEN {} ELSE {UpvalValue(s, s.up[o])}
                  [] s.kind[o] = "thread" -> ToSet(s.stack[o])
                  [] OTHER -> {}
RECURSIVE ReachFrom(_, _)
ReachFrom(s, S) ==
    LET T == S \cup UNION {RefsOf(s, o, S) : o \in S}
    IN IF T = S THEN S ELSE ReachFrom(s, T)
Accessible(s) == IF s.gcstate = "closed" THEN {} ELSE ReachFrom(s, {Main, s.running})

(* The lists and stacks hold allocated objects, an object is in one of the *)
(* three lists, and threads with open upvalues are known to the collector. *)
TypeOK ==
    /\ \A o \in Obj : g.mark[o] \in {"w0", "w1", "gray", "black"}
    /\ g.gcstate \in States /\ g.white \in {"w0", "w1"} /\ ops \in 0 .. MaxOps
    /\ IsInjective(g.allgc \o g.finobj \o g.tobefnz)
    /\ g.gcstate # "closed" =>
          /\ g.sweepgc \in Lists \cup {"none"} \cup (Allocated(g) \ {Main})
          /\ g.twups \subseteq Allocated(g)

(* Whatever the program can reach, and whatever an object that waits for   *)
(* its finalizer can reach, has not been freed; and a weak table the       *)
(* program can reach has no entry left for an object that was              *)
(* (reallymarkobject, the barriers, atomic, sweeplist).                    *)
NoDangling ==
    LET A == Accessible(g) \cup ReachFrom(g, ToSet(g.tobefnz))
    IN /\ A \subseteq Allocated(g)
       /\ \A h \in A : g.kind[h] \in Tables =>
             \A i \in DOMAIN g.node[h] :
                ~ Empty(g, h, i) => {g.node[h][i].k, g.node[h][i].v} \cap Obj \subseteq Allocated(g)

(* While marking, a black object never points to a white one (lgc.h); an   *)
(* upvalue open in a stack is the exception, it is remarked later.         *)
TriColor ==
    KeepInvariant(g) =>
       \A o \in Allocated(g) :
          (IsBlack(g, o) /\ ~ (g.up[o] # Nil /\ g.uv[g.up[o]].th # Nil))
             => \A v \in RefsOf(g, o, Obj) : ~ IsWhite(g, v)

(* Only what the program can no longer reach is set aside for its          *)
(* finalizer (separatetobefnz), and of what is set aside together the      *)
(* object that got its finalizer last comes first.                         *)
SetAside ==
    LET new == SelectSeq(g'.tobefnz, LAMBDA o : ~ Contains(g.tobefnz, o))
        When(o) == CHOOSE i \in DOMAIN g.order :
                      g.order[i] = o /\ \A j \in DOMAIN g.order : g.order[j] = o => j <= i
    IN /\ ToSet(new) \cap Accessible(g) = {}
       /\ \A i, j \in DOMAIN new : i < j => When(new[i]) > When(new[j])

\* The collector neither frees nor finalizes what is in use.
OnlyGarbageCollected == [][SetAside]_g /\ []NoDangling

(* What the program drops is freed in the end: cycles, and what only weak  *)
(* tables, finalized objects or dead coroutines refer to, included.        *)
GarbageFreed == <>[](Allocated(g) \ {Main} \subseteq Accessible(g))
=============================================================================
