------------------------------- MODULE Calls -------------------------------
(* Calls, protected calls and coroutines as the interpreter does them        *)
(* (ldo.c, lapi.c, lcorolib.c, lbaselib.c).  A thread has a list of           *)
(* CallInfos.  All threads share the C stack, on which only the calls made    *)
(* by luaD_call and the protected blocks of luaD_rawrunprotected matter: an   *)
(* error or a yield is a longjmp that drops every C call above the innermost  *)
(* block of its thread, so that a resumed coroutine has CallInfos but no C    *)
(* calls, and unroll finishes them through their continuations.               *)
EXTENDS Integers, Sequences, FiniteSets, SequencesExt

CONSTANTS Threads, Main,
          MaxStack, ExtraStack,     \* CallInfos LUAI_MAXSTACK allows, and while handling an overflow
          MaxC, ExtraC              \* LUAI_MAXCCALLS and an eighth of it

ASSUME CallsAssumption ==
    /\ Main \in Threads /\ MaxStack \in Nat \ {0} /\ ExtraStack \in Nat
    /\ MaxC \in Nat \ {0} /\ ExtraC \in Nat \ {0}

VARIABLE s
vars == <<s>>

LuaKinds == {"lua", "handler"}
CKinds == {"pcall", "xpcall", "sort", "dofile", "resume", "wrap", "yield"}

-----------------------------------------------------------------------------
(* CallInfos, threads and the C stack.                                       *)

\* fresh: its return leaves luaV_execute; k: it has a continuation;
\* yp: a protected call that an error recovers to (CIST_YPCALL)
CallInfo(kind) == [kind |-> kind, fresh |-> FALSE, k |-> FALSE, yp |-> FALSE, olderr |-> 0]
NewThread == [ci |-> <<>>, status |-> "ok", nny |-> 1, nC |-> 0, errfunc |-> 0,
              extra |-> FALSE, loaded |-> TRUE]

L(q) == q.th[q.run]
Depth(q) == Len(L(q).ci)
TopCI(q) == L(q).ci[Depth(q)]
WithL(q, f) == [q EXCEPT !.th[q.run] = f]
SetTop(q, c) == [q EXCEPT !.th[q.run].ci[Depth(q)] = c]
DropCI(q) == [q EXCEPT !.th[q.run].ci = Front(@)]
Goto(q, m) == [q EXCEPT !.mode = m]
Top(c) == IF c = <<>> THEN [what |-> "none"] ELSE Last(c)
PopC(q) == [q EXCEPT !.cs = Front(@)]

\* luaD_growstack: the stack may grow a little more while its overflow is handled
Limit(q) == IF L(q).extra THEN MaxStack + ExtraStack ELSE MaxStack

\* next_ci, after the stack check of luaD_precall
Precall(q, kind, fresh) ==
    LET pushed == WithL(q, [L(q) EXCEPT !.ci = Append(@, [CallInfo(kind) EXCEPT !.fresh = fresh])])
    IN  IF Depth(q) < Limit(q) THEN Goto(pushed, IF kind \in LuaKinds THEN "lua" ELSE "cstart")
        ELSE IF L(q).extra THEN [q EXCEPT !.mode = "throw", !.err = "err"]
        ELSE Goto(WithL(q, [L(q) EXCEPT !.extra = TRUE]), "error")

\* luaD_call and luaD_callnoyield; by: who goes on when the callee returns
\* mutant: the count of C calls is not checked twice
CallWithoutLast(q, by, noyield, kind) ==
    LET n == L(q).nC + 1
        entry == [what |-> "call", th |-> q.run, by |-> by, noyield |-> noyield, depth |-> Depth(q)]
        called == [WithL(q, [L(q) EXCEPT !.nC = n, !.nny = @ + (IF noyield THEN 1 ELSE 0)])
                   EXCEPT !.cs = Append(@, entry)]
    IN  IF n = MaxC THEN Goto(called, "error") ELSE Precall(called, kind, kind \in LuaKinds)
LuaDCall(q, by, noyield, kind) ==
    LET n == L(q).nC + 1
        entry == [what |-> "call", th |-> q.run, by |-> by, noyield |-> noyield, depth |-> Depth(q)]
        called == [WithL(q, [L(q) EXCEPT !.nC = n, !.nny = @ + (IF noyield THEN 1 ELSE 0)])
                   EXCEPT !.cs = Append(@, entry)]
    IN  IF n = MaxC THEN Goto(called, "error")
        ELSE IF n >= MaxC + ExtraC THEN [called EXCEPT !.mode = "throw", !.err = "err"]
        ELSE Precall(called, kind, kind \in LuaKinds)

\* the return of a luaD_call
EndCall(q) ==
    LET e == Last(q.cs)
    IN  PopC(WithL(q, [L(q) EXCEPT !.nC = @ - 1, !.nny = @ - (IF e.noyield THEN 1 ELSE 0)]))

-----------------------------------------------------------------------------
(* Protected calls: lua_pcallk, luaD_pcall, luaD_throw.                      *)

\* without a continuation, or where a yield is not possible: a protected block
ConventionalPcall(q, kind, handler) ==
    LET try == [what |-> "try", for |-> "pcall", th |-> q.run, nC |-> L(q).nC, nny |-> L(q).nny,
                err |-> L(q).errfunc, depth |-> Depth(q), from |-> q.run]
    IN  LuaDCall([WithL(q, [L(q) EXCEPT !.errfunc = handler]) EXCEPT !.cs = Append(@, try)],
                 "api", TRUE, kind)

\* in a coroutine that may yield: lua_resume protects the call
ContinuedPcall(q, kind, handler) ==
    LET c == [TopCI(q) EXCEPT !.k = TRUE, !.yp = TRUE, !.olderr = L(q).errfunc]
        r == SetTop(q, c)
    IN  LuaDCall(WithL(r, [L(r) EXCEPT !.errfunc = handler]), "api", FALSE, kind)

Pcall(q, kind, handler) ==
    IF L(q).nny > 0 THEN ConventionalPcall(q, kind, handler) ELSE ContinuedPcall(q, kind, handler)

\* the end of a protected call without error
EndPcall(q) ==
    IF TopCI(q).yp
    THEN LET c == TopCI(q)
             r == SetTop(q, [c EXCEPT !.yp = FALSE])
         IN  WithL(r, [L(r) EXCEPT !.errfunc = c.olderr])
    ELSE PopC(WithL(q, [L(q) EXCEPT !.errfunc = Last(q.cs).err]))

\* luaD_shrinkstack: the extra stack goes when the overflow is over
Shrink(f) == [f EXCEPT !.extra = @ /\ Len(f.ci) > MaxStack]

\* luaG_errormsg: the message handler runs on top of what failed
ErrorMsg(q) ==
    IF L(q).errfunc # 0 THEN LuaDCall(q, "handler", TRUE, "handler")
    ELSE [q EXCEPT !.mode = "throw", !.err = "run"]

\* the innermost protected block of the running thread
BlockOf(q) == CHOOSE n \in 1..Len(q.cs) :
    /\ q.cs[n].what = "try" /\ q.cs[n].th = q.run
    /\ \A m \in (n + 1)..Len(q.cs) : ~(q.cs[m].what = "try" /\ q.cs[m].th = q.run)

\* lua_resume returns to the thread that called it
BackTo(q, try, status, good) ==
    LET r == WithL(q, [L(q) EXCEPT !.nny = try.nny, !.nC = @ - 1, !.status = status])
    IN  [r EXCEPT !.run = try.from, !.ok = good,
                  !.mode = IF ~good /\ Last(q.th[try.from].ci).kind = "wrap" THEN "error" ELSE "cdone"]

\* findpcall and recover: 0 if there is no protected call to go to
FindPcall(f) == SelectLastInSeq(f.ci, LAMBDA c : c.yp)
Recover(q, try) ==
    LET n == FindPcall(L(q))
        f == [L(q) EXCEPT !.ci = SubSeq(@, 1, n), !.nny = 0, !.errfunc = L(q).ci[n].olderr]
    IN  IF n = 0 THEN BackTo(q, try, "dead", FALSE)
        ELSE [WithL(q, Shrink(f)) EXCEPT !.cs = Append(@, try), !.mode = "unroll", !.ok = FALSE]

\* luaD_throw with an error
Throw(q) ==
    LET n == BlockOf(q)
        try == q.cs[n]
        r == [WithL(q, [L(q) EXCEPT !.nC = try.nC]) EXCEPT !.cs = SubSeq(@, 1, n - 1)]
        f == [L(r) EXCEPT !.ci = SubSeq(@, 1, try.depth), !.nny = try.nny, !.errfunc = try.err]
    IN  IF try.for = "resume" THEN Recover(r, try)
        ELSE [WithL(r, Shrink(f)) EXCEPT !.mode = IF try.depth = 0 THEN "end" ELSE "cdone", !.ok = FALSE]

-----------------------------------------------------------------------------
(* Coroutines: lua_resume, lua_yieldk, unroll.                               *)

\* luaB_costatus
Status(q, t) ==
    LET f == q.th[t]
    IN  IF t = q.run THEN "running"
        ELSE IF f.status = "yield" THEN "suspended"
        ELSE IF f.status = "dead" THEN "dead"
        ELSE IF f.ci # <<>> THEN "normal"
        ELSE IF f.loaded THEN "suspended" ELSE "dead"

\* an error of lua_resume itself: the coroutine is not touched
ResumeError(q) == [q EXCEPT !.ok = FALSE,
                            !.mode = IF TopCI(q).kind = "wrap" THEN "error" ELSE "cdone"]

\* auxresume, lua_resume and resume; body: the kind of function of a new coroutine
Resume(q, t, body) ==
    LET f == q.th[t]
        n == L(q).nC + 1
        try == [what |-> "try", for |-> "resume", th |-> t, nC |-> n, nny |-> f.nny,
                err |-> 0, depth |-> 0, from |-> q.run]
        r == [q EXCEPT !.run = t, !.cs = Append(@, try), !.ok = TRUE,
                       !.th[t] = [f EXCEPT !.nC = n, !.nny = 0, !.status = "ok", !.loaded = FALSE]]
    IN  IF f.status = "dead" \/ (f.status = "ok" /\ (f.ci # <<>> \/ ~f.loaded)) THEN ResumeError(q)
        ELSE IF n >= MaxC THEN ResumeError([q EXCEPT !.th[t].nC = n])
        ELSE IF f.status = "ok" THEN Precall(r, body, body \in LuaKinds)
        ELSE Goto(DropCI(r), "unroll")        \* the yield returns; it has no continuation

\* lua_yieldk, thrown to the block of lua_resume
\* mutant: it does not ask whether a C function is in between
YieldAnywhere(q) ==
    IF q.run = Main THEN Goto(q, "error")
    ELSE LET n == BlockOf(q)
             r == [WithL(q, [L(q) EXCEPT !.nC = q.cs[n].nC]) EXCEPT !.cs = SubSeq(@, 1, n - 1)]
         IN  BackTo(r, q.cs[n], "yield", TRUE)
Yield(q) ==
    IF L(q).nny > 0 THEN Goto(q, "error")
    ELSE LET n == BlockOf(q)
             r == [WithL(q, [L(q) EXCEPT !.nC = q.cs[n].nC]) EXCEPT !.cs = SubSeq(@, 1, n - 1)]
         IN  BackTo(r, q.cs[n], "yield", TRUE)

\* finishCcall: the continuation of pcall or dofile returns for it
FinishCcall(q) ==
    LET c == TopCI(q)
        r == IF c.yp THEN WithL(q, [L(q) EXCEPT !.errfunc = c.olderr]) ELSE q
    IN  [DropCI(r) EXCEPT !.ok = TRUE]

\* one turn of the loop of unroll
Unroll(q) ==
    IF Depth(q) = 0 THEN BackTo(PopC(q), Last(q.cs), "ok", TRUE)
    ELSE IF TopCI(q).kind \in LuaKinds THEN Goto(SetTop(q, [TopCI(q) EXCEPT !.fresh = TRUE]), "lua")
    ELSE FinishCcall(q)

-----------------------------------------------------------------------------
(* Steps.                                                                    *)

\* what goes on after a luaD_call has returned
Continue(q) ==
    LET e == Last(q.cs)
        r == EndCall(q)
    IN  CASE e.by = "handler" -> [r EXCEPT !.mode = "throw", !.err = "run"]
          [] e.by = "meta" -> Goto(r, "lua")
          [] e.by = "api" /\ Depth(r) = 0 -> Goto(r, "end")
          [] e.by = "api" /\ Depth(r) > 0 /\ TopCI(r).kind \in {"pcall", "xpcall"} ->
                 Goto(EndPcall(r), "cdone")
          [] OTHER -> Goto(r, "cdone")

\* OP_RETURN: to the loop of the caller, or out of luaV_execute
LuaReturn ==
    LET r == [DropCI(s) EXCEPT !.ok = TRUE]
    IN  /\ s.mode = "lua"
        /\ s' = IF ~TopCI(s).fresh THEN r
                ELSE IF Top(s.cs).what = "call" THEN Continue(r) ELSE Goto(r, "unroll")

\* a C function returns to luaD_call or to the Lua function that called it
CReturn ==
    LET r == [DropCI(s) EXCEPT !.ok = TRUE]
        e == Top(s.cs)
    IN  /\ s.mode = "cdone"
        /\ s' = IF e.what = "call" /\ e.th = s.run /\ e.depth = Depth(r) THEN Continue(r)
                ELSE Goto(r, IF Depth(r) = 0 THEN "unroll" ELSE "lua")

\* OP_CALL, and a metamethod, which luaT_callTM calls with luaD_call
LuaCall == \E kind \in {"lua"} \cup CKinds :
    s.mode = "lua" /\ s' = Precall(s, kind, FALSE)
Metamethod == s.mode = "lua" /\ s' = LuaDCall(s, "meta", FALSE, "lua")
RaiseError == s.mode = "lua" /\ s' = Goto(s, "error")

\* the C functions: luaB_pcall, luaB_xpcall, luaB_dofile, table.sort
CallsBack(f) == s.mode = "cstart" /\ TopCI(s).kind = f
PcallStart == \E kind \in {"lua", "pcall", "yield"} :
    CallsBack("pcall") /\ s' = Pcall(s, kind, 0)
XpcallStart == CallsBack("xpcall") /\ s' = Pcall(s, "lua", Depth(s))
SortStart == \E kind \in {"lua", "yield"} : CallsBack("sort") /\ s' = LuaDCall(s, "api", TRUE, kind)
DofileStart ==
    /\ CallsBack("dofile")
    /\ s' = IF L(s).nny = 0 THEN LuaDCall(SetTop(s, [TopCI(s) EXCEPT !.k = TRUE]), "api", FALSE, "lua")
            ELSE LuaDCall(s, "api", TRUE, "lua")
ResumeStart == \E t \in Threads \ {Main} : \E body \in {"lua", "pcall"} :
    /\ CallsBack("resume") \/ CallsBack("wrap")
    /\ body = "lua" \/ s.th[t].loaded
    /\ s' = Resume(s, t, body)
YieldStart == CallsBack("yield") /\ s' = Yield(s)

UnrollStep == s.mode = "unroll" /\ s' = Unroll(s)
ErrorStep == s.mode = "error" /\ s' = ErrorMsg(s)
ThrowStep == s.mode = "throw" /\ s' = Throw(s)

\* luaB_cocreate: a new thread takes the place of a dead one
Create == \E t \in Threads \ {Main} :
    /\ s.mode = "lua" /\ Status(s, t) = "dead"
    /\ s' = [s EXCEPT !.th[t] = NewThread]

\* the main chunk, under the lua_pcall of lua.c's main (pmain, which sets a
\* message handler of its own, is left out)
Init == s = [th |-> [t \in Threads |-> IF t # Main THEN NewThread ELSE
                       [NewThread EXCEPT !.ci = <<[CallInfo("lua") EXCEPT !.fresh = TRUE]>>,
                                         !.nny = 2, !.nC = 1, !.loaded = FALSE]],
             cs |-> <<[what |-> "try", for |-> "pcall", th |-> Main, nC |-> 0, nny |-> 1,
                       err |-> 0, depth |-> 0, from |-> Main],
                      [what |-> "call", th |-> Main, by |-> "api", noyield |-> TRUE, depth |-> 0]>>,
             run |-> Main, mode |-> "lua", err |-> "run", ok |-> TRUE]

Next == \/ LuaReturn \/ CReturn \/ LuaCall \/ Metamethod \/ RaiseError \/ PcallStart \/ XpcallStart
        \/ SortStart \/ DofileStart \/ ResumeStart \/ YieldStart \/ UnrollStep \/ ErrorStep
        \/ ThrowStep \/ Create
Spec == Init /\ [][Next]_vars

-----------------------------------------------------------------------------
(* Properties.                                                               *)

Entries(q, t, Test(_)) == {n \in 1..Len(q.cs) : q.cs[n].th = t /\ Test(q.cs[n])}
CCalls == Cardinality({n \in 1..Len(s.cs) : s.cs[n].what = "call" \/ s.cs[n].for = "resume"})
Active == {t \in Threads : Status(s, t) \in {"running", "normal"}}

\* The lists, the counters and the C stack are of their kinds.
TypeOK ==
    /\ s.run \in Threads /\ s.err \in {"run", "err"} /\ s.ok \in BOOLEAN
    /\ s.mode \in {"lua", "cstart", "cdone", "unroll", "error", "throw", "end"}
    /\ \A t \in Threads :
         /\ s.th[t].status \in {"ok", "yield", "dead"} /\ s.th[t].nny \in Nat /\ s.th[t].nC \in Nat
         /\ Len(s.th[t].ci) <= MaxStack + ExtraStack
         /\ \A n \in 1..Len(s.th[t].ci) : s.th[t].ci[n].kind \in LuaKinds \cup CKinds

\* lua_isyieldable: nny counts the calls of the thread that must not be
\* unwound.
NnyCounts == \A t \in Active :
    s.th[t].nny = Cardinality(Entries(s, t, LAMBDA e : e.what = "call" /\ e.noyield))
                  + (IF t = Main THEN 1 ELSE 0)

\* nCcalls of the running thread counts the calls and resumptions on the C
\* stack (the assertion of lua_resume: it comes back to what it was).
CCallsCounted == s.mode # "end" => L(s).nC = CCalls

\* After every return, error, recovery and resumption both counters agree with
\* the C stack, which stays below the hard limit, whatever fails in a handler.
CountersMatch == NnyCounts /\ CCallsCounted /\ CCalls <= MaxC + ExtraC

-----------------------------------------------------------------------------
\* The threads, the errors and the results are those of a machine without a C
\* stack: the mapping forgets the C calls, the protected blocks and the marks.
Frames(t) == LET kinds == [n \in 1..Len(s.th[t].ci) |-> s.th[t].ci[n].kind]
             IN  IF s.th[t].status = "dead" THEN <<>> ELSE SelectSeq(kinds, LAMBDA k : k # "yield")
Abstract == INSTANCE Coroutines WITH
    stk <- [t \in Threads |-> Frames(t)],
    st <- [t \in Threads |-> Status(s, t)],
    chain <- LET c == SelectSeq(s.cs, LAMBDA e : e.what = "try" /\ e.for = "resume")
             IN  <<Main>> \o [n \in 1..Len(c) |-> c[n].th],
    raising <- s.mode \in {"error", "throw"},
    ok <- (s.mode \in {"cdone", "unroll"} => s.ok)
IsCoroutines == Abstract!Spec
=============================================================================
