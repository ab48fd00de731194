----------------------------- MODULE Coroutines -----------------------------
(* What Lua promises of calls, errors and coroutines, without the C stack:   *)
(* every thread has a stack of activations; an error goes to the innermost   *)
(* protected call of its thread, or kills the coroutine and is returned to   *)
(* whoever resumed it; a coroutine may yield unless a C function that cannot *)
(* be continued is in between.                                               *)
EXTENDS Integers, Sequences

CONSTANTS Threads, Main

VARIABLES stk,          \* the activations of each thread
          st,           \* what coroutine.status says
          chain,        \* the main thread, ..., the running one
          raising,      \* an error is on its way in the running thread
          ok            \* how the C function on top will return

vars == <<stk, st, chain, raising, ok>>

LuaKinds == {"lua", "handler"}
CKinds == {"pcall", "xpcall", "sort", "dofile", "resume", "wrap"}
Protected == {"pcall", "xpcall"}

Running == chain[Len(chain)]
Resumer == chain[Len(chain) - 1]
Stack == stk[Running]
Top == Stack[Len(Stack)]
But1(q) == SubSeq(q, 1, Len(q) - 1)
With(t, q) == stk' = [stk EXCEPT ![t] = q]

\* the innermost protected call of the running thread, or 0
Catcher == LET c == {n \in 1..Len(Stack) : Stack[n] \in Protected}
           IN  IF c = {} THEN 0 ELSE CHOOSE n \in c : \A m \in c : n >= m
Yieldable == Running # Main /\ \A n \in 1..Len(Stack) : Stack[n] \notin {"sort", "handler"}

Init == /\ stk = [t \in Threads |-> IF t = Main THEN <<"lua">> ELSE <<>>]
        /\ st = [t \in Threads |-> IF t = Main THEN "running" ELSE "suspended"]
        /\ chain = <<Main>> /\ raising = FALSE /\ ok = TRUE

Calm == ~raising /\ Stack # <<>>
\* a call, and how it fails before the function runs
Call == /\ Calm /\ \E k \in LuaKinds \cup CKinds : With(Running, Append(Stack, k))
        /\ UNCHANGED <<st, chain, raising>> /\ ok' = TRUE
Raise == /\ Calm /\ raising' = TRUE /\ UNCHANGED <<stk, st, chain>> /\ ok' = TRUE
Return == /\ Calm /\ Top # "handler"
          /\ With(Running, But1(Stack)) /\ ok' = TRUE /\ UNCHANGED <<st, chain, raising>>

\* the message handler of the innermost xpcall runs before the stack unwinds
Handle == /\ raising /\ Catcher # 0 /\ Stack[Catcher] = "xpcall"
          /\ With(Running, Append(Stack, "handler"))
          /\ raising' = FALSE /\ UNCHANGED <<st, chain>> /\ ok' = TRUE
Handled == /\ Calm /\ Top = "handler" /\ With(Running, But1(Stack))
           /\ raising' = TRUE /\ UNCHANGED <<st, chain>> /\ ok' = TRUE
Catch == /\ raising /\ Catcher # 0 /\ With(Running, SubSeq(Stack, 1, Catcher))
         /\ raising' = FALSE /\ ok' = FALSE /\ UNCHANGED <<st, chain>>
\* an uncaught error kills the coroutine; through coroutine.wrap it goes on
Die == /\ raising /\ Catcher = 0 /\ Running # Main
       /\ With(Running, <<>>)
       /\ st' = [st EXCEPT ![Running] = "dead", ![Resumer] = "running"] /\ chain' = But1(chain)
       /\ LET r == stk[Resumer] IN raising' = (r[Len(r)] = "wrap")
       /\ ok' = raising'
Abort == /\ raising /\ Catcher = 0 /\ Running = Main
         /\ With(Main, <<>>) /\ raising' = FALSE /\ ok' = TRUE /\ UNCHANGED <<st, chain>>

Resume(t) ==
    /\ Calm /\ Top \in {"resume", "wrap"} /\ st[t] = "suspended"
    /\ st' = [st EXCEPT ![t] = "running", ![Running] = "normal"] /\ chain' = Append(chain, t)
    /\ \E k \in {<<>>} \cup (IF stk[t] = <<>> THEN {<<x>> : x \in {"lua", "pcall"}} ELSE {}) :
         /\ k = <<>> => stk[t] # <<>>
         /\ With(t, stk[t] \o k)
    /\ UNCHANGED raising /\ ok' = TRUE
\* resuming what is not suspended, or too deep, is an error of the resumer
Refuse ==
    /\ Calm /\ Top \in {"resume", "wrap"} /\ UNCHANGED <<stk, st, chain>>
    /\ raising' = (Top = "wrap") /\ ok' = raising'
Yield ==
    /\ Calm /\ Yieldable
    /\ st' = [st EXCEPT ![Running] = "suspended", ![Resumer] = "running"]
    /\ chain' = But1(chain) /\ ok' = TRUE /\ UNCHANGED <<stk, raising>>
Finish ==
    /\ ~raising /\ Running # Main /\ Stack = <<>>
    /\ st' = [st EXCEPT ![Running] = "dead", ![Resumer] = "running"]
    /\ chain' = But1(chain) /\ ok' = TRUE /\ UNCHANGED <<stk, raising>>
Create(t) == st[t] = "dead" /\ st' = [st EXCEPT ![t] = "suspended"] /\ UNCHANGED <<stk, chain, raising, ok>>

Next == \/ Call \/ Raise \/ Return \/ Handle \/ Handled \/ Catch \/ Die \/ Abort
        \/ Refuse \/ Yield \/ Finish \/ \E t \in Threads \ {Main} : Resume(t) \/ Create(t)
Spec == Init /\ [][Next]_vars
=============================================================================
