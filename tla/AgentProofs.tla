---------------------------- MODULE AgentProofs ----------------------------
(***************************************************************************)
(* Theorems about Agent, for every policy, every set of outcomes and every *)
(* number of passes.                                                       *)
(***************************************************************************)
EXTENDS Agent, TLAPS

(***************************************************************************)
(* Every variable keeps its type, whatever the promises and the handlers   *)
(* report: cli.try never reads a result that is not there, never makes     *)
(* more passes than -r grants, and never visits an unknown tag.            *)
(***************************************************************************)
THEOREM TypeCorrect == Spec => []TypeOK
<1>1. Init => TypeOK
  BY AgentAssumption DEF Init, TypeOK, CommandLine, Untried, Event
<1>2. TypeOK /\ [Next]_vars => TypeOK'
  <2> SUFFICES ASSUME TypeOK, [Next]_vars PROVE TypeOK'
    OBVIOUS
  <2> USE AgentAssumption DEF TypeOK
  <2>0. opt.runs \in Nat /\ opt.tags \subseteq Tags
    BY DEF CommandLine
  <2>1. CASE Load
    BY <2>1 DEF Load, Exit
  <2>2. CASE LoadFails
    BY <2>2 DEF LoadFails, Exit
  <2>3. CASE StartTry
    BY <2>0, <2>3 DEF StartTry, Untried, Event
  <2>4. CASE NextPass
    BY <2>0, <2>4 DEF NextPass
  <2>5. CASE NoMorePasses
    BY <2>5 DEF NoMorePasses
  <2>6. CASE EndPass
    BY <2>6 DEF EndPass
  <2>7. CASE Main
    <3>1. CASE RunPromise
      BY <3>1 DEF RunPromise
    <3>2. CASE PromiseCrashes
      BY <3>2 DEF PromiseCrashes, Exit
    <3>3. CASE RunDone
      BY <3>3 DEF RunDone
    <3>4. CASE ReadResult
      <4>1. results[i] \in Outcomes
        BY <3>4 DEF ReadResult
      <4>2. Read(NoTag, i, results[i]) \in Event
        BY <4>1, <3>4 DEF ReadResult, Read, Event
      <4>3. Notified(i, results[i]) \in Tags \cup {NoTag}
        BY <3>4 DEF ReadResult, Notified, Flags
      <4>4. AfterResult(results[i]) \in
              [failed : BOOLEAN, repaired : BOOLEAN, kept : BOOLEAN]
        BY DEF AfterResult
      <4> QED BY <3>4, <4>2, <4>3, <4>4 DEF ReadResult
    <3>5. CASE ReadDone
      BY <3>5 DEF ReadDone
    <3> QED BY <2>7, <3>1, <3>2, <3>3, <3>4, <3>5 DEF Main
  <2>8. CASE RunHandlers
    <3>1. CASE UseTags
      BY <2>0, <3>1 DEF UseTags
    <3>2. CASE PickTag
      BY <3>2 DEF PickTag
    <3>3. CASE RunHandler
      <4>1. PICK b \in Borders(rh') \ {0} :
              R' = AfterHandler(rh'[b]) /\ log' = Append(log, Read(tag, Len(rh'), rh'[b]))
        BY <3>3 DEF RunHandler
      <4>2. rh' \in Seq(Outcomes \cup {NoResult})
        BY <3>3 DEF RunHandler
      <4>3. rh'[b] \in Outcomes /\ Len(rh') \in Nat
        BY <4>2 DEF Borders
      <4>4. Read(tag, Len(rh'), rh'[b]) \in Event
        BY <4>3 DEF Read, Event
      <4>5. \A out \in Outcomes :
              AfterHandler(out) \in
                [failed : BOOLEAN, repaired : BOOLEAN, kept : BOOLEAN]
        BY DEF AfterHandler
      <4>6. log' \in Seq(Event)
        BY <4>1, <4>4
      <4> QED BY <3>3, <4>1, <4>2, <4>3, <4>5, <4>6 DEF RunHandler
    <3>4. CASE HandlerCrashes
      BY <3>4 DEF HandlerCrashes, Exit
    <3>5. CASE TagDone
      BY <3>5 DEF TagDone
    <3> QED BY <2>8, <3>1, <3>2, <3>3, <3>4, <3>5 DEF RunHandlers
  <2>9. CASE ReportFailure
    BY <2>9 DEF ReportFailure, Exit
  <2>10. CASE ReportSuccess
    BY <2>10 DEF ReportSuccess, Exit
  <2>11. CASE Sleep
    BY <2>11 DEF Sleep
  <2>12. CASE UNCHANGED vars
    BY <2>12 DEF vars
  <2> QED
    BY <2>1, <2>2, <2>3, <2>4, <2>5, <2>6, <2>7, <2>8, <2>9, <2>10, <2>11, <2>12
    DEF Next, Terminated
<1> QED BY <1>1, <1>2, PTL DEF Spec
(***************************************************************************)
(* The strengthening behind OnlyNotifiedHandlers: the tags cli.hrun is     *)
(* visiting are notified ones, and each of those has its reason in log.    *)
(***************************************************************************)
Reason(l, t, k) == FromMain(l[k]) /\ Notified(l[k].n, l[k].out) = t
Justified(t) == t \in opt.tags \/ \E k \in 1..Len(log) : Reason(log, t, k)

HandlerInv ==
  /\ pc \notin {"handlers", "done"} => todo = {} /\ tag = NoTag
  /\ todo \subseteq tags
  /\ tag # NoTag => tag \in tags
  /\ \A t \in tags : Justified(t)
  /\ OnlyNotifiedHandlers

(***************************************************************************)
(* Adding an entry to log takes no reason away.                            *)
(***************************************************************************)
LEMMA AppendKeepsReasons ==
  ASSUME TypeOK, NEW e, log' = Append(log, e), opt' = opt
  PROVE  /\ Len(log') = Len(log) + 1
         /\ log'[Len(log) + 1] = e
         /\ \A k \in 1..Len(log) : log'[k] = log[k]
         /\ \A t : Justified(t) => Justified(t)'
<1>1. log \in Seq(Event)
  BY DEF TypeOK
<1>2. /\ Len(log') = Len(log) + 1
      /\ log'[Len(log) + 1] = e
      /\ \A k \in 1..Len(log) : log'[k] = log[k]
  BY <1>1
<1>3. \A t : \A k \in 1..Len(log) :
        Reason(log, t, k) => k \in 1..Len(log') /\ Reason(log', t, k)
  BY <1>1, <1>2 DEF Reason
<1> QED BY <1>2, <1>3 DEF Justified

(***************************************************************************)
(* A handler runs only when -g or a result read before it asks for its tag *)
(* (cli.lua 354-357, 382-395).                                             *)
(***************************************************************************)
THEOREM HandlersAreNotified == Spec => []OnlyNotifiedHandlers
<1>1. Init => HandlerInv
  BY AgentAssumption DEF Init, HandlerInv, OnlyNotifiedHandlers
<1>2. TypeOK /\ HandlerInv /\ [Next]_vars => HandlerInv'
  <2> SUFFICES ASSUME TypeOK, HandlerInv, [Next]_vars PROVE HandlerInv'
    OBVIOUS
  <2>0. /\ NoTag \notin Tags /\ tags \subseteq Tags /\ log \in Seq(Event)
        /\ OnlyNotifiedHandlers
    BY AgentAssumption DEF TypeOK, HandlerInv
  <2>a. ASSUME UNCHANGED <<log, opt>>
        PROVE  OnlyNotifiedHandlers' /\ \A t : Justified(t) <=> Justified(t)'
    BY <2>0, <2>a DEF OnlyNotifiedHandlers, Justified, Reason, FromMain
  <2>1. ASSUME UNCHANGED <<log, opt, tags, todo, tag>>,
               pc' \notin {"handlers", "done"} => pc \notin {"handlers", "done"}
                                                  \/ (todo = {} /\ tag = NoTag)
        PROVE  HandlerInv'
    BY <2>a, <2>1 DEF HandlerInv
  <2>2. CASE StartTry
    <3>1. log' = << >> /\ opt' = opt /\ tags' = {} /\ pc' = "next"
          /\ todo' = {} /\ tag' = NoTag
      BY <2>2 DEF StartTry, HandlerInv
    <3> QED BY <3>1 DEF HandlerInv, OnlyNotifiedHandlers
  <2>3. CASE Main
    <3>1. CASE ReadResult
      <4> DEFINE e == Read(NoTag, i, results[i])
                 t == Notified(i, results[i])
      <4>1. /\ log' = Append(log, e) /\ opt' = opt /\ pc' = pc /\ pc = "scan"
            /\ todo' = {} /\ tag' = NoTag /\ tags' = tags \cup ({t} \ {NoTag})
        BY <3>1 DEF ReadResult, HandlerInv
      <4> HIDE DEF e
      <4>2. /\ Len(log') = Len(log) + 1 /\ log'[Len(log) + 1] = e
            /\ \A k \in 1..Len(log) : log'[k] = log[k]
            /\ \A u : Justified(u) => Justified(u)'
        BY <4>1, AppendKeepsReasons
      <4>3. e.tag = NoTag /\ e.n = i /\ e.out = results[i]
        BY DEF e, Read
      <4>4. ASSUME NEW u, u = t PROVE Justified(u)'
        <5>1. Reason(log', u, Len(log) + 1)
          BY <4>2, <4>3, <4>4 DEF Reason, FromMain
        <5> QED BY <2>0, <4>2, <5>1 DEF Justified
      <4>5. OnlyNotifiedHandlers'
        BY <2>0, <4>1, <4>2, <4>3 DEF OnlyNotifiedHandlers, FromMain
      <4>6. \A u \in tags' : Justified(u)'
        BY <4>1, <4>2, <4>4 DEF HandlerInv
      <4>7. pc' \notin {"handlers", "done"} => todo' = {} /\ tag' = NoTag
        BY <4>1
      <4> QED BY <4>1, <4>5, <4>6, <4>7 DEF HandlerInv
    <3>2. CASE ReadDone
      BY <2>a, <3>2 DEF ReadDone, HandlerInv
    <3>3. CASE RunPromise \/ PromiseCrashes \/ RunDone
      BY <2>1, <3>3 DEF RunPromise, PromiseCrashes, RunDone, Exit
    <3> QED BY <2>3, <3>1, <3>2, <3>3 DEF Main
  <2>4. CASE RunHandlers
    <3>1. CASE UseTags
      <4>1. \A t \in opt.tags : Justified(t)
        BY DEF Justified
      <4> QED BY <2>a, <3>1, <4>1 DEF UseTags, HandlerInv
    <3>2. CASE PickTag
      BY <2>a, <3>2 DEF PickTag, HandlerInv
    <3>3. CASE RunHandler
      <4>1. PICK b \in Borders(rh') \ {0} :
              log' = Append(log, Read(tag, Len(rh'), rh'[b]))
        BY <3>3 DEF RunHandler
      <4> DEFINE e == Read(tag, Len(rh'), rh'[b])
      <4>2. /\ log' = Append(log, e) /\ opt' = opt /\ pc' = pc /\ todo' = todo
            /\ tag' = tag /\ tags' = tags /\ tag # NoTag /\ tag \in tags
        BY <3>3, <4>1 DEF RunHandler, HandlerInv
      <4>3. e.tag = tag
        BY DEF Read
      <4> HIDE DEF e
      <4>4. /\ Len(log') = Len(log) + 1 /\ log'[Len(log) + 1] = e
            /\ \A k \in 1..Len(log) : log'[k] = log[k]
            /\ \A u : Justified(u) => Justified(u)'
        BY <4>2, AppendKeepsReasons
      <4>5. Justified(tag)
        BY <4>2 DEF HandlerInv
      <4>6. ASSUME NEW k \in DOMAIN log', ~ FromMain(log'[k])
            PROVE  \/ log'[k].tag \in opt'.tags
                   \/ \E m \in 1..(k - 1) : Reason(log', log'[k].tag, m)
        <5>0. Len(log) \in Nat /\ DOMAIN log = 1..Len(log) /\ DOMAIN log' = 1..(Len(log) + 1)
          BY <2>0, <4>2
        <5>1. CASE k \in 1..Len(log)
          <6>1. log'[k] = log[k] /\ \A m \in 1..(k - 1) : log'[m] = log[m]
            BY <4>4, <5>0, <5>1
          <6> QED
            BY <2>0, <4>2, <4>6, <5>0, <5>1, <6>1
            DEF OnlyNotifiedHandlers, Reason, FromMain
        <5>2. CASE k = Len(log) + 1
          BY <2>0, <4>2, <4>3, <4>4, <4>5, <5>0, <5>2
          DEF Justified, Reason, FromMain
        <5> QED BY <5>0, <5>1, <5>2
      <4>7. OnlyNotifiedHandlers'
        BY <4>6 DEF OnlyNotifiedHandlers, Reason
      <4> QED BY <4>2, <4>4, <4>7 DEF HandlerInv
    <3>4. CASE HandlerCrashes
      BY <2>1, <3>4 DEF HandlerCrashes, Exit
    <3>5. CASE TagDone
      BY <2>a, <3>5 DEF TagDone, HandlerInv
    <3> QED BY <2>4, <3>1, <3>2, <3>3, <3>4, <3>5 DEF RunHandlers
  <2>5. CASE Load \/ LoadFails \/ NextPass \/ NoMorePasses
    BY <2>1, <2>5 DEF Load, LoadFails, NextPass, NoMorePasses, Exit
  <2>6. CASE EndPass
    BY <2>1, <2>6 DEF EndPass
  <2>7. CASE ReportFailure \/ ReportSuccess \/ Sleep
    BY <2>1, <2>7 DEF ReportFailure, ReportSuccess, Sleep, Exit
  <2>8. CASE UNCHANGED vars
    BY <2>1, <2>8 DEF vars, HandlerInv
  <2> QED
    BY <2>2, <2>3, <2>4, <2>5, <2>6, <2>7, <2>8 DEF Next, Terminated
<1>3. HandlerInv => OnlyNotifiedHandlers
  BY DEF HandlerInv
<1> QED BY <1>1, <1>2, <1>3, TypeCorrect, PTL DEF Spec

(***************************************************************************)
(* The strengthening behind PassOrder: nothing in log is of a later pass;  *)
(* until a pass has read its first result nothing is of this one; the main *)
(* queue is read upwards; and the tags still to be visited have not been.  *)
(***************************************************************************)
OrderInv ==
  /\ pc \notin {"handlers", "done"} => tag = NoTag
  /\ \A k \in DOMAIN log : log[k].pass <= this
  /\ pc \in {"main", "tagmode"} => \A k \in DOMAIN log : log[k].pass < this
  /\ pc = "scan" =>
       \A k \in DOMAIN log : log[k].pass = this => FromMain(log[k]) /\ log[k].n < i
  /\ pc = "handlers" =>
       /\ NoTag \notin todo /\ tag \notin todo
       /\ \A k \in DOMAIN log :
            log[k].pass = this =>
              /\ log[k].tag \notin todo
              /\ (tag # NoTag /\ log[k].tag = tag) => log[k].n <= Len(rh)
  /\ PassOrder

(***************************************************************************)
(* What appending an entry to log leaves alone.                            *)
(***************************************************************************)
LEMMA Appended ==
  ASSUME log \in Seq(Event), NEW e, log' = Append(log, e)
  PROVE  /\ Len(log) \in Nat /\ DOMAIN log = 1..Len(log)
         /\ DOMAIN log' = 1..(Len(log) + 1)
         /\ log'[Len(log) + 1] = e
         /\ \A k \in 1..Len(log) : log'[k] = log[k] /\ log[k] \in Event
  OBVIOUS

(***************************************************************************)
(* An entry that comes after all others in the order of the pass keeps it. *)
(***************************************************************************)
LEMMA AppendInOrder ==
  ASSUME log \in Seq(Event), NEW e, log' = Append(log, e), PassOrder,
         \A k \in 1..Len(log) :
           /\ log[k].pass <= e.pass
           /\ log[k].pass = e.pass =>
                /\ FromMain(e) => FromMain(log[k])
                /\ log[k].tag = e.tag => log[k].n < e.n
  PROVE  PassOrder'
<1>1. /\ Len(log) \in Nat /\ DOMAIN log = 1..Len(log)
      /\ DOMAIN log' = 1..(Len(log) + 1)
      /\ log'[Len(log) + 1] = e
      /\ \A k \in 1..Len(log) : log'[k] = log[k]
  BY Appended
<1>2. SUFFICES ASSUME NEW k \in DOMAIN log', NEW m \in DOMAIN log', k < m
               PROVE  /\ log'[k].pass <= log'[m].pass
                      /\ log'[k].pass = log'[m].pass =>
                           /\ FromMain(log'[m]) => FromMain(log'[k])
                           /\ log'[k].tag = log'[m].tag => log'[k].n < log'[m].n
  BY DEF PassOrder, FromMain
<1>3. k \in 1..Len(log) /\ log'[k] = log[k]
  BY <1>1, <1>2
<1>4. CASE m \in 1..Len(log)
  BY <1>1, <1>2, <1>3, <1>4 DEF PassOrder
<1>5. CASE m = Len(log) + 1
  BY <1>1, <1>3, <1>5
<1> QED BY <1>1, <1>4, <1>5

(***************************************************************************)
(* Passes follow one another in log, the handlers of a pass follow its     *)
(* promises, and nothing is read twice (cli.lua 340-391).                  *)
(***************************************************************************)
THEOREM PassesInOrder == Spec => []PassOrder
<1>1. Init => OrderInv
  BY DEF Init, OrderInv, PassOrder
<1>2. TypeOK /\ OrderInv /\ [Next]_vars => OrderInv'
  <2> SUFFICES ASSUME TypeOK, OrderInv, [Next]_vars PROVE OrderInv'
    OBVIOUS
  <2>0. /\ NoTag \notin Tags /\ tags \subseteq Tags /\ log \in Seq(Event) /\ PassOrder
        /\ this \in Nat /\ i \in Nat /\ rh \in Seq(Outcomes \cup {NoResult})
        /\ DOMAIN log = 1..Len(log) /\ Len(log) \in Nat
        /\ \A k \in 1..Len(log) : log[k] \in Event /\ log[k].pass \in Nat /\ log[k].n \in Nat
    <3>1. NoTag \notin Tags /\ tags \subseteq Tags /\ log \in Seq(Event) /\ PassOrder
          /\ this \in Nat /\ rh \in Seq(Outcomes \cup {NoResult})
      BY AgentAssumption DEF TypeOK, OrderInv
    <3>2. i \in Nat
      BY AgentAssumption DEF TypeOK
    <3>3. \A e \in Event : e.pass \in Nat /\ e.n \in Nat
      BY DEF Event
    <3>4. DOMAIN log = 1..Len(log) /\ Len(log) \in Nat /\ \A k \in 1..Len(log) : log[k] \in Event
      BY <3>1
    <3> QED BY <3>1, <3>2, <3>3, <3>4
  <2>b. opt.tags \subseteq Tags
    BY AgentAssumption DEF TypeOK, CommandLine
  <2>a. ASSUME UNCHANGED <<log, this>>,
               pc' \in {"main", "tagmode", "scan", "handlers"} => UNCHANGED <<pc, i, todo, tag, rh>>
        PROVE  (pc' \notin {"handlers", "done"} => tag' = NoTag) => OrderInv'
    BY <2>a DEF OrderInv, PassOrder, FromMain
  <2>1. CASE StartTry
    <3>1. log' = << >> /\ pc' = "next" /\ tag' = NoTag
      BY <2>1 DEF StartTry, OrderInv
    <3> QED BY <3>1 DEF OrderInv, PassOrder
  <2>2. CASE NextPass
    <3>1. /\ log' = log /\ this' = this + 1 /\ pc' \in {"main", "tagmode"} /\ tag' = NoTag
      BY <2>2 DEF NextPass, OrderInv
    <3> QED BY <2>0, <3>1 DEF OrderInv, PassOrder, FromMain
  <2>3. CASE RunPromise \/ PromiseCrashes
    BY <2>a, <2>3 DEF RunPromise, PromiseCrashes, Exit, OrderInv
  <2>4. CASE RunDone
    BY <2>0, <2>4 DEF RunDone, OrderInv, PassOrder, FromMain
  <2>5. CASE ReadResult
    <3> DEFINE e == Read(NoTag, i, results[i])
    <3>1. log' = Append(log, e) /\ pc' = "scan" /\ pc = "scan" /\ this' = this /\ i' = i + 1
          /\ tag' = NoTag
      BY <2>5 DEF ReadResult, OrderInv
    <3>2. e.pass = this /\ e.tag = NoTag /\ e.n = i
      BY DEF Read
    <3> HIDE DEF e
    <3>3. \A k \in 1..Len(log) :
            log[k].pass <= this /\ (log[k].pass = this => FromMain(log[k]) /\ log[k].n < i)
      BY <2>0, <3>1 DEF OrderInv
    <3>4. PassOrder'
      BY <2>0, <3>1, <3>2, <3>3, AppendInOrder DEF FromMain
    <3>5. /\ DOMAIN log' = 1..(Len(log) + 1) /\ log'[Len(log) + 1] = e
          /\ \A k \in 1..Len(log) : log'[k] = log[k]
      BY <2>0, <3>1, Appended
    <3>6. \A k \in DOMAIN log' :
            log'[k].pass <= this /\ (log'[k].pass = this => FromMain(log'[k]) /\ log'[k].n < i + 1)
      BY <2>0, <3>2, <3>3, <3>5 DEF FromMain
    <3> QED BY <3>1, <3>4, <3>6 DEF OrderInv, FromMain
  <2>6. CASE ReadDone
    BY <2>0, <2>6 DEF ReadDone, OrderInv, PassOrder, FromMain
  <2>7. CASE UseTags
    <3>1. /\ log' = log /\ this' = this /\ pc = "tagmode" /\ todo' \subseteq Tags /\ tag' = tag
      BY <2>0, <2>b, <2>7 DEF UseTags
    <3> QED BY <2>0, <2>7, <3>1 DEF UseTags, OrderInv, PassOrder, FromMain
  <2>8. CASE PickTag
    BY <2>0, <2>8 DEF PickTag, OrderInv, PassOrder, FromMain
  <2>9. CASE RunHandler
    <3>1. PICK b \in Borders(rh') \ {0} :
            log' = Append(log, Read(tag, Len(rh'), rh'[b]))
      BY <2>9 DEF RunHandler
    <3> DEFINE e == Read(tag, Len(rh'), rh'[b])
    <3>2. /\ log' = Append(log, e) /\ pc = "handlers" /\ pc' = pc /\ this' = this
          /\ todo' = todo /\ tag' = tag /\ tag # NoTag /\ Len(rh') = Len(rh) + 1 /\ Len(rh) \in Nat
      BY <2>0, <2>9, <3>1 DEF RunHandler
    <3>3. e.pass = this /\ e.tag = tag /\ e.n = Len(rh) + 1
      BY <3>2 DEF Read
    <3> HIDE DEF e
    <3>4. /\ NoTag \notin todo /\ tag \notin todo
          /\ \A k \in 1..Len(log) :
               /\ log[k].pass <= this
               /\ log[k].pass = this =>
                    log[k].tag \notin todo /\ (log[k].tag = tag => log[k].n <= Len(rh))
      BY <2>0, <3>2 DEF OrderInv
    <3>5. PassOrder'
      BY <2>0, <3>2, <3>3, <3>4, AppendInOrder DEF FromMain
    <3>6. /\ DOMAIN log' = 1..(Len(log) + 1) /\ log'[Len(log) + 1] = e
          /\ \A k \in 1..Len(log) : log'[k] = log[k]
      BY <2>0, <3>2, Appended
    <3>7. \A k \in DOMAIN log' :
            /\ log'[k].pass <= this
            /\ log'[k].pass = this =>
                 log'[k].tag \notin todo /\ (log'[k].tag = tag => log'[k].n <= Len(rh) + 1)
      BY <2>0, <3>2, <3>3, <3>4, <3>6
    <3> QED BY <3>2, <3>4, <3>5, <3>7 DEF OrderInv
  <2>10. CASE HandlerCrashes
    BY <2>a, <2>10 DEF HandlerCrashes, Exit, OrderInv
  <2>11. CASE TagDone
    BY <2>0, <2>11 DEF TagDone, OrderInv, PassOrder, FromMain
  <2>12. CASE Load
    <3>1. pc' \in {"run", "done"} /\ UNCHANGED <<log, this>> /\ tag' = NoTag
      BY <2>12 DEF Load, Exit, OrderInv
    <3> QED BY <2>a, <3>1
  <2>13. CASE LoadFails \/ NoMorePasses \/ EndPass
    BY <2>a, <2>13 DEF LoadFails, NoMorePasses, EndPass, Exit, OrderInv
  <2>14. CASE ReportFailure \/ ReportSuccess \/ Sleep
    <3>1. pc' \in {"run", "done", "sleep"} /\ UNCHANGED <<log, this>> /\ tag' = NoTag
      BY <2>14 DEF ReportFailure, ReportSuccess, Sleep, Exit, OrderInv
    <3> QED BY <2>a, <3>1
  <2>15. CASE UNCHANGED vars
    BY <2>a, <2>15 DEF vars, OrderInv
  <2> QED
    BY <2>1, <2>2, <2>3, <2>4, <2>5, <2>6, <2>7, <2>8, <2>9, <2>10, <2>11, <2>12, <2>13, <2>14,
       <2>15
    DEF Next, Main, RunHandlers, Terminated
<1>3. OrderInv => PassOrder
  BY DEF OrderInv
<1> QED BY <1>1, <1>2, <1>3, TypeCorrect, PTL DEF Spec

(***************************************************************************)
(* The strengthening behind NotificationsServed: the tag an entry of log   *)
(* asks for is notified, and once the handlers have begun each notified    *)
(* tag is still to be visited, or has been served in this pass as far as   *)
(* the visit has got.                                                      *)
(***************************************************************************)
Asks(e) == IF FromMain(e) THEN Notified(e.n, e.out) ELSE e.tag
Served(l, pass, t, c) ==
  \A n \in 1..c : \E m \in DOMAIN l : l[m].pass = pass /\ l[m].tag = t /\ l[m].n = n

ServedInv ==
  /\ pc \notin {"handlers", "done"} => todo = {} /\ tag = NoTag
  /\ todo \subseteq tags /\ tag \in tags \cup {NoTag}
  /\ \A k \in DOMAIN log : Asks(log[k]) \in tags \cup {NoTag}
  /\ pc = "handlers" =>
       \A t \in tags \ todo : Served(log, this, t, IF t = tag THEN Len(rh) ELSE HSource[t])

(***************************************************************************)
(* What was served stays served while the pass lasts.                      *)
(***************************************************************************)
LEMMA AppendKeepsServed ==
  ASSUME log \in Seq(Event), NEW e, log' = Append(log, e), this' = this, NEW t, NEW c \in Nat,
         Served(log, this, t, c)
  PROVE  /\ Served(log', this', t, c)
         /\ (e.pass = this /\ e.tag = t /\ e.n = c + 1) => Served(log', this', t, c + 1)
<1>1. /\ Len(log) \in Nat /\ DOMAIN log = 1..Len(log)
      /\ DOMAIN log' = 1..(Len(log) + 1)
      /\ log'[Len(log) + 1] = e
      /\ \A k \in 1..Len(log) : log'[k] = log[k]
  BY Appended
<1>2. \A n \in 1..c : \E m \in DOMAIN log' :
         log'[m].pass = this' /\ log'[m].tag = t /\ log'[m].n = n
  <2>1. SUFFICES ASSUME NEW n \in 1..c
                 PROVE  \E m \in DOMAIN log' :
                           log'[m].pass = this' /\ log'[m].tag = t /\ log'[m].n = n
    OBVIOUS
  <2>2. PICK m \in DOMAIN log : log[m].pass = this /\ log[m].tag = t /\ log[m].n = n
    BY DEF Served
  <2> QED BY <1>1, <2>2
<1>3. ASSUME e.pass = this, e.tag = t, e.n = c + 1
      PROVE  \A n \in 1..(c + 1) : \E m \in DOMAIN log' :
               log'[m].pass = this' /\ log'[m].tag = t /\ log'[m].n = n
  <2>1. \A n \in 1..(c + 1) : n \in 1..c \/ n = c + 1
    OBVIOUS
  <2>2. Len(log) + 1 \in DOMAIN log' /\ log'[Len(log) + 1].pass = this'
        /\ log'[Len(log) + 1].tag = t /\ log'[Len(log) + 1].n = c + 1
    BY <1>1, <1>3
  <2> QED BY <1>2, <2>1, <2>2
<1> QED BY <1>2, <1>3 DEF Served

(***************************************************************************)
(* When a pass is over every handler of every tag notified so far has run  *)
(* in it (cli.lua 354-357, 376-391).                                       *)
(***************************************************************************)
THEOREM NoNotificationLost == Spec => []NotificationsServed
<1>1. Init => ServedInv
  BY DEF Init, ServedInv
<1>2. TypeOK /\ ServedInv /\ [Next]_vars => ServedInv'
  <2> SUFFICES ASSUME TypeOK, ServedInv, [Next]_vars PROVE ServedInv'
    OBVIOUS
  <2>0. /\ NoTag \notin Tags /\ tags \subseteq Tags /\ log \in Seq(Event)
        /\ rh \in Seq(Outcomes \cup {NoResult}) /\ HSource \in [Tags -> Nat]
        /\ todo \subseteq tags /\ tag \in tags \cup {NoTag}
        /\ pc \notin {"handlers", "done"} => todo = {} /\ tag = NoTag
        /\ \A k \in DOMAIN log : Asks(log[k]) \in tags \cup {NoTag}
    BY AgentAssumption DEF TypeOK, ServedInv
  <2>a. ASSUME UNCHANGED <<log, tags, todo, tag>>,
               pc \notin {"handlers", "done"} \/ pc' = "done" \/ (todo = {} /\ tag = NoTag),
               pc' # "handlers"
        PROVE  ServedInv'
    BY <2>0, <2>a DEF ServedInv, Asks, FromMain
  <2>1. CASE StartTry
    <3>1. log' = << >> /\ pc' = "next" /\ tag' = NoTag /\ todo' = {} /\ tags' = {}
      BY <2>0, <2>1 DEF StartTry
    <3> QED BY <3>1 DEF ServedInv
  <2>2. CASE Load \/ LoadFails \/ NextPass \/ NoMorePasses
    BY <2>a, <2>2 DEF Load, LoadFails, NextPass, NoMorePasses, Exit
  <2>3. CASE RunPromise \/ PromiseCrashes \/ RunDone
    BY <2>a, <2>3 DEF RunPromise, PromiseCrashes, RunDone, Exit
  <2>4. CASE ReadResult
    <3> DEFINE e == Read(NoTag, i, results[i])
               t == Notified(i, results[i])
    <3>1. /\ log' = Append(log, e) /\ pc' = "scan" /\ todo' = {} /\ tag' = NoTag
          /\ tags' = tags \cup ({t} \ {NoTag})
      BY <2>0, <2>4 DEF ReadResult
    <3>2. Asks(e) = t
      BY DEF Read, Asks, FromMain
    <3> HIDE DEF e, t
    <3>3. \A k \in DOMAIN log' : log'[k] = e \/ (k \in DOMAIN log /\ log'[k] = log[k])
      BY <2>0, <3>1, Appended
    <3>4. \A k \in DOMAIN log' : Asks(log'[k]) \in tags' \cup {NoTag}
      BY <2>0, <3>1, <3>2, <3>3
    <3> QED BY <3>1, <3>4 DEF ServedInv, Asks, FromMain
  <2>5. CASE ReadDone
    BY <2>0, <2>5 DEF ReadDone, ServedInv, Asks, FromMain
  <2>6. CASE UseTags
    <3>1. /\ log' = log /\ pc' = "handlers" /\ todo' = tags' /\ tags \subseteq tags'
          /\ tag' = NoTag
      BY <2>0, <2>6 DEF UseTags
    <3> QED BY <2>0, <3>1 DEF ServedInv, Asks, FromMain
  <2>7. CASE PickTag
    <3>1. PICK t \in todo : tag' = t /\ todo' = todo \ {t}
      BY <2>7 DEF PickTag
    <3>2. /\ pc = "handlers" /\ pc' = pc /\ log' = log /\ this' = this /\ tags' = tags
          /\ tag = NoTag /\ rh' = << >>
      BY <2>7 DEF PickTag
    <3>3. \A u \in tags : u # NoTag
      BY <2>0
    <3>4. \A u \in tags \ todo : Served(log, this, u, HSource[u])
      BY <3>2, <3>3 DEF ServedInv
    <3>5. \A u, c : Served(log, this, u, c) => Served(log', this', u, c)
      BY <3>2 DEF Served
    <3>6. Served(log', this', t, 0)
      BY DEF Served
    <3>7. \A u \in tags' \ todo' : Served(log', this', u, IF u = tag' THEN Len(rh') ELSE HSource[u])
      BY <3>1, <3>2, <3>4, <3>5, <3>6
    <3> QED BY <2>0, <3>1, <3>2, <3>7 DEF ServedInv, Asks, FromMain
  <2>8. CASE RunHandler
    <3>1. PICK b \in Borders(rh') \ {0} :
            log' = Append(log, Read(tag, Len(rh'), rh'[b]))
      BY <2>8 DEF RunHandler
    <3> DEFINE e == Read(tag, Len(rh'), rh'[b])
    <3>2. /\ log' = Append(log, e) /\ pc = "handlers" /\ pc' = pc /\ this' = this
          /\ todo' = todo /\ tags' = tags /\ tag' = tag /\ tag # NoTag
          /\ Len(rh') = Len(rh) + 1 /\ Len(rh) \in Nat
      BY <2>0, <2>8, <3>1 DEF RunHandler
    <3>3. e.pass = this /\ e.tag = tag /\ e.n = Len(rh) + 1 /\ Asks(e) = tag
      BY <3>2 DEF Read, Asks, FromMain
    <3> HIDE DEF e
    <3>4. \A k \in DOMAIN log' : log'[k] = e \/ (k \in DOMAIN log /\ log'[k] = log[k])
      BY <2>0, <3>2, Appended
    <3>5. \A k \in DOMAIN log' : Asks(log'[k]) \in tags' \cup {NoTag}
      BY <2>0, <3>2, <3>3, <3>4
    <3>6. ASSUME NEW u \in tags' \ todo'
          PROVE  Served(log', this', u, IF u = tag' THEN Len(rh') ELSE HSource[u])
      <4>1. Served(log, this, u, IF u = tag THEN Len(rh) ELSE HSource[u]) /\ HSource[u] \in Nat
        BY <2>0, <3>2, <3>6 DEF ServedInv
      <4>2. CASE u = tag
        <5>1. Served(log, this, u, Len(rh))
          BY <4>1, <4>2
        <5>2. Served(log', this', u, Len(rh) + 1)
          BY <2>0, <3>2, <3>3, <4>2, <5>1, AppendKeepsServed
        <5>3. Served(log', this', u, Len(rh'))
          BY <3>2, <5>2
        <5> QED BY <3>2, <4>2, <5>3
      <4>3. CASE u # tag
        <5>1. Served(log, this, u, HSource[u])
          BY <4>1, <4>3
        <5>2. Served(log', this', u, HSource[u])
          BY <2>0, <3>2, <4>1, <5>1, AppendKeepsServed
        <5> QED BY <3>2, <4>3, <5>2
      <4> QED BY <4>2, <4>3
    <3> QED BY <2>0, <3>2, <3>5, <3>6 DEF ServedInv, Asks, FromMain
  <2>9. CASE HandlerCrashes
    BY <2>a, <2>9 DEF HandlerCrashes, Exit
  <2>10. CASE TagDone
    <3>1. /\ pc = "handlers" /\ pc' = pc /\ log' = log /\ this' = this /\ tags' = tags
          /\ todo' = todo /\ tag' = NoTag /\ rh' = rh /\ Len(rh) = HSource[tag]
      BY <2>10 DEF TagDone
    <3>2. \A u \in tags \ todo : Served(log, this, u, HSource[u]) /\ u # NoTag
      BY <2>0, <3>1 DEF ServedInv
    <3>3. \A u, c : Served(log, this, u, c) => Served(log', this', u, c)
      BY <3>1 DEF Served
    <3>4. \A u \in tags' \ todo' : Served(log', this', u, IF u = tag' THEN Len(rh') ELSE HSource[u])
      BY <3>1, <3>2, <3>3
    <3> QED BY <2>0, <3>1, <3>4 DEF ServedInv, Asks, FromMain
  <2>11. CASE EndPass
    BY <2>a, <2>11 DEF EndPass
  <2>12. CASE ReportFailure \/ ReportSuccess \/ Sleep
    BY <2>a, <2>12 DEF ReportFailure, ReportSuccess, Sleep, Exit
  <2>13. CASE UNCHANGED vars
    BY <2>13 DEF vars, ServedInv, Served, Asks, FromMain
  <2> QED
    BY <2>1, <2>2, <2>3, <2>4, <2>5, <2>6, <2>7, <2>8, <2>9, <2>10, <2>11, <2>12, <2>13
    DEF Next, Main, RunHandlers, Terminated
<1>3. TypeOK /\ ServedInv => NotificationsServed
  <2> SUFFICES ASSUME TypeOK, ServedInv, PassOver, NEW k \in DOMAIN log, Asks(log[k]) # NoTag,
                      NEW n \in 1..HSource[Asks(log[k])]
               PROVE  \E m \in DOMAIN log :
                        log[m].pass = this /\ log[m].tag = Asks(log[k]) /\ log[m].n = n
    BY DEF NotificationsServed, Asks
  <2>1. Asks(log[k]) \in tags \ todo /\ Asks(log[k]) # tag
    BY DEF ServedInv, PassOver
  <2>2. Served(log, this, Asks(log[k]), HSource[Asks(log[k])])
    BY <2>1 DEF ServedInv, PassOver
  <2> QED BY <2>2 DEF Served
<1> QED BY <1>1, <1>2, <1>3, TypeCorrect, PTL DEF Spec

----------------------------------------------------------------------------
(* The verdict of a try and its passes: what R says of the results that    *)
(* were read, when another pass is made, and that the agent implements     *)
(* Retry.                                                                  *)

(***************************************************************************)
(* The verdict a history calls for.                                        *)
(***************************************************************************)
Outstanding(l) ==
  \E k \in DOMAIN l : Fails(l[k]) /\ \A m \in (k + 1)..Len(l) : ~ Overrides(l[m])
Repaired(l) == \E k \in DOMAIN l : "repaired" \in l[k].out

VerdictInv ==
  /\ R.failed <=> Outstanding(log)
  /\ R.repaired <=> Repaired(log)

(***************************************************************************)
(* One more result changes the verdict as cli.try does.                    *)
(***************************************************************************)
LEMMA AppendVerdict ==
  ASSUME NEW S, NEW l \in Seq(S), NEW e \in S
  PROVE  /\ Outstanding(Append(l, e)) <=> Fails(e) \/ (Outstanding(l) /\ ~ Overrides(e))
         /\ Repaired(Append(l, e)) <=> Repaired(l) \/ "repaired" \in e.out
<1> DEFINE n == Len(l)
           a == Append(l, e)
<1>1. /\ n \in Nat /\ Len(a) = n + 1 /\ a[n + 1] = e
      /\ \A k \in 1..n : a[k] = l[k]
      /\ DOMAIN a = 1..(n + 1) /\ DOMAIN l = 1..n
  OBVIOUS
<1> HIDE DEF n, a
<1>2. Outstanding(a) => Fails(e) \/ (Outstanding(l) /\ ~ Overrides(e))
  <2> SUFFICES ASSUME Outstanding(a), ~ Fails(e) PROVE Outstanding(l) /\ ~ Overrides(e)
    OBVIOUS
  <2>1. PICK k \in 1..(n + 1) : Fails(a[k]) /\ \A m \in (k + 1)..(n + 1) : ~ Overrides(a[m])
    BY <1>1 DEF Outstanding
  <2>2. k # n + 1
    BY <1>1, <2>1
  <2>3. k \in 1..n /\ n + 1 \in (k + 1)..(n + 1) /\ \A m \in (k + 1)..n : m \in 1..n /\ m \in (k + 1)..(n + 1)
    BY <1>1, <2>1, <2>2
  <2>4. Fails(l[k]) /\ \A m \in (k + 1)..n : ~ Overrides(l[m])
    BY <1>1, <2>1, <2>3
  <2>5. Outstanding(l)
    BY <1>1, <2>3, <2>4 DEF Outstanding, n
  <2> QED BY <1>1, <2>1, <2>3, <2>5
<1>3. Fails(e) => Outstanding(a)
  <2>1. \A m \in ((n + 1) + 1)..(n + 1) : FALSE
    BY <1>1
  <2> QED BY <1>1, <2>1 DEF Outstanding
<1>4. Outstanding(l) /\ ~ Overrides(e) => Outstanding(a)
  <2> SUFFICES ASSUME Outstanding(l), ~ Overrides(e) PROVE Outstanding(a)
    OBVIOUS
  <2>1. PICK k \in 1..n : Fails(l[k]) /\ \A m \in (k + 1)..n : ~ Overrides(l[m])
    BY <1>1 DEF Outstanding, n
  <2>2. k \in 1..(n + 1) /\ \A m \in (k + 1)..(n + 1) : m = n + 1 \/ (m \in 1..n /\ m \in (k + 1)..n)
    BY <1>1, <2>1
  <2>3. Fails(a[k]) /\ \A m \in (k + 1)..(n + 1) : ~ Overrides(a[m])
    BY <1>1, <2>1, <2>2
  <2> QED BY <1>1, <2>2, <2>3 DEF Outstanding
<1>5. Repaired(a) <=> Repaired(l) \/ "repaired" \in e.out
  <2>1. \A k \in 1..(n + 1) : k = n + 1 \/ k \in 1..n
    BY <1>1
  <2>2. \A k \in 1..n : k \in 1..(n + 1)
    BY <1>1
  <2>3. n + 1 \in 1..(n + 1)
    BY <1>1
  <2> QED BY <1>1, <2>1, <2>2, <2>3 DEF Repaired
<1> QED BY <1>2, <1>3, <1>4, <1>5 DEF a

LEMMA VerdictNext == TypeOK /\ VerdictInv /\ [Next]_vars => VerdictInv'
<1> SUFFICES ASSUME TypeOK, VerdictInv, [Next]_vars PROVE VerdictInv'
  OBVIOUS
<1>0. log \in Seq(Event) /\ R \in [failed : BOOLEAN, repaired : BOOLEAN, kept : BOOLEAN]
  BY DEF TypeOK
<1>1. CASE StartTry
  <2>1. log' = << >> /\ R'.failed = FALSE /\ R'.repaired = FALSE
    BY <1>1 DEF StartTry, Untried
  <2>2. ~ Outstanding(<< >>) /\ ~ Repaired(<< >>)
    BY DEF Outstanding, Repaired
  <2> QED BY <2>1, <2>2 DEF VerdictInv
<1>2. CASE ReadResult
  <2> DEFINE e == Read(NoTag, i, results[i])
  <2>1. log' = Append(log, e) /\ R' = AfterResult(results[i]) /\ e \in Event
    BY <1>2 DEF ReadResult, TypeOK, Read, Event
  <2>2. /\ Outstanding(Append(log, e)) <=> Fails(e) \/ (Outstanding(log) /\ ~ Overrides(e))
        /\ Repaired(Append(log, e)) <=> Repaired(log) \/ "repaired" \in e.out
    BY <1>0, <2>1, AppendVerdict
  <2>3. e.out = results[i] /\ e.tag = NoTag
    BY DEF Read
  <2>4. /\ R'.failed <=> "failed" \in results[i] \/ (R.failed /\ "repaired" \notin results[i])
        /\ R'.repaired <=> R.repaired \/ "repaired" \in results[i]
    BY <2>1 DEF AfterResult
  <2> HIDE DEF e
  <2>5. /\ Fails(e) <=> "failed" \in results[i]
        /\ ~ Overrides(e) <=> Fails(e) \/ "repaired" \notin results[i]
    BY <2>3 DEF Fails, Overrides, FromMain
  <2> QED BY <2>1, <2>2, <2>3, <2>4, <2>5 DEF VerdictInv
<1>3. CASE RunHandler
  <2>1. PICK b \in Borders(rh') \ {0} :
          R' = AfterHandler(rh'[b]) /\ log' = Append(log, Read(tag, Len(rh'), rh'[b]))
    BY <1>3 DEF RunHandler
  <2> DEFINE e == Read(tag, Len(rh'), rh'[b])
  <2>2. e \in Event
    <3>1. rh' \in Seq(Outcomes \cup {NoResult}) /\ tag \in Tags \cup {NoTag} /\ this \in Nat
      BY <1>3 DEF RunHandler, TypeOK
    <3>2. rh'[b] \in Outcomes /\ Len(rh') \in Nat
      BY <3>1 DEF Borders
    <3> QED BY <3>1, <3>2 DEF Read, Event
  <2>3. /\ Outstanding(Append(log, e)) <=> Fails(e) \/ (Outstanding(log) /\ ~ Overrides(e))
        /\ Repaired(Append(log, e)) <=> Repaired(log) \/ "repaired" \in e.out
    BY <1>0, <2>2, AppendVerdict
  <2>4. e.out = rh'[b] /\ e.tag = tag /\ tag # NoTag
    BY <1>3 DEF Read, RunHandler
  <2>5. /\ R'.failed <=> "failed" \in rh'[b]
        /\ R'.repaired <=> R.repaired \/ "repaired" \in rh'[b]
    BY <2>1 DEF AfterHandler
  <2>6. log' = Append(log, e)
    BY <2>1
  <2> HIDE DEF e
  <2>7. Fails(e) <=> "failed" \in rh'[b]
    BY <2>4 DEF Fails
  <2>8. ~ Overrides(e) <=> Fails(e)
    BY <2>4 DEF Overrides, FromMain
  <2> QED BY <2>3, <2>4, <2>5, <2>6, <2>7, <2>8 DEF VerdictInv
<1>4. CASE ReportSuccess
  <2>1. log' = log /\ R' = [R EXCEPT !.kept = ~ R.failed /\ ~ R.repaired]
    BY <1>4 DEF ReportSuccess
  <2>2. R'.failed = R.failed /\ R'.repaired = R.repaired
    BY <1>0, <2>1
  <2> QED BY <2>1, <2>2 DEF VerdictInv
<1>5. CASE UNCHANGED <<R, log>>
  BY <1>5 DEF VerdictInv
<1> QED
  BY <1>1, <1>2, <1>3, <1>4, <1>5
  DEF Next, Main, RunHandlers, Load, LoadFails, NextPass, NoMorePasses, EndPass,
      RunPromise, PromiseCrashes, RunDone, ReadDone, UseTags, PickTag,
      HandlerCrashes, TagDone, ReportFailure, Sleep, Terminated, vars

LEMMA VerdictAlways == Spec => []VerdictInv
<1>1. Init => VerdictInv
  BY DEF Init, VerdictInv, Untried, Outstanding, Repaired
<1> QED BY <1>1, VerdictNext, TypeCorrect, PTL DEF Spec

(***************************************************************************)
(* `failed' is the last word of the try (cli.lua 346-352, 384-388), for    *)
(* every policy and whatever its promises and handlers report.             *)
(***************************************************************************)
THEOREM LastWord == Spec => []VerdictIsLastWord
<1>1. VerdictInv => VerdictIsLastWord
  BY DEF VerdictInv, VerdictIsLastWord, Outstanding
<1> QED BY <1>1, VerdictAlways, PTL

(***************************************************************************)
(* `repaired' tells exactly whether something was repaired in the try.     *)
(***************************************************************************)
THEOREM RepairsKept == Spec => []RepairsRemembered
<1>1. VerdictInv => RepairsRemembered
  BY DEF VerdictInv, RepairsRemembered, Repaired
<1> QED BY <1>1, VerdictAlways, PTL

----------------------------------------------------------------------------
(***************************************************************************)
(* Between two passes the verdict is a failure exactly if there was a pass *)
(* before, and a try that ends with one has made all its passes.           *)
(***************************************************************************)
PassInv ==
  /\ InPass => this > 0
  /\ pc = "next" => (R.failed <=> this > 0)
  /\ (pc = "report" /\ R.failed) => this = opt.runs

\* The steps inside a pass: from one of its locations to another, or a crash.
WithinPass == RunPromise \/ RunDone \/ ReadResult \/ ReadDone \/ UseTags \/ PickTag
                \/ RunHandler \/ TagDone
Crash == PromiseCrashes \/ HandlerCrashes

LEMMA WithinPassStays ==
  ASSUME WithinPass
  PROVE  InPass /\ InPass' /\ UNCHANGED <<opt, this, exit>>
BY DEF WithinPass, InPass, RunPromise, RunDone, ReadResult, ReadDone, UseTags, PickTag,
       RunHandler, TagDone

LEMMA CrashEnds ==
  ASSUME Crash
  PROVE  InPass /\ pc' = "done" /\ exit' = "1" /\ opt' = opt
BY DEF Crash, InPass, PromiseCrashes, HandlerCrashes, Exit

LEMMA NextSplit ==
  ASSUME [Next]_vars
  PROVE  \/ Load \/ LoadFails \/ StartTry \/ NextPass \/ NoMorePasses \/ EndPass
         \/ WithinPass \/ Crash \/ ReportFailure \/ ReportSuccess \/ Sleep
         \/ UNCHANGED vars
BY DEF Next, Main, RunHandlers, WithinPass, Crash, Terminated

LEMMA PassNext == TypeOK /\ PassInv /\ [Next]_vars => PassInv'
<1> SUFFICES ASSUME TypeOK, PassInv, [Next]_vars PROVE PassInv'
  OBVIOUS
<1>0. this \in Nat /\ this <= opt.runs /\ opt.runs \in Nat
  BY AgentAssumption DEF TypeOK, CommandLine
<1>1. CASE Load
  BY <1>1 DEF Load, Exit, PassInv, InPass
<1>2. CASE LoadFails
  BY <1>2 DEF LoadFails, Exit, PassInv, InPass
<1>3. CASE StartTry
  BY <1>3 DEF StartTry, PassInv, InPass, Untried
<1>4. CASE NextPass
  BY <1>0, <1>4 DEF NextPass, PassInv, InPass
<1>5. CASE NoMorePasses
  BY <1>0, <1>5 DEF NoMorePasses, PassInv, InPass
<1>6. CASE EndPass
  BY <1>0, <1>6 DEF EndPass, PassInv, InPass
<1>7. CASE WithinPass
  <2>1. InPass /\ InPass' /\ this' = this
    BY <1>7, WithinPassStays
  <2>2. pc' \notin {"next", "report"}
    BY <2>1 DEF InPass
  <2> QED BY <2>1, <2>2 DEF PassInv
<1>8. CASE Crash
  BY <1>8, CrashEnds DEF PassInv, InPass
<1>9. CASE ReportFailure
  BY <1>9 DEF ReportFailure, Exit, PassInv, InPass
<1>10. CASE ReportSuccess
  BY <1>10 DEF ReportSuccess, Exit, PassInv, InPass
<1>11. CASE Sleep
  BY <1>11 DEF Sleep, PassInv, InPass
<1>12. CASE UNCHANGED vars
  BY <1>12 DEF vars, PassInv, InPass
<1> QED
  BY NextSplit, <1>1, <1>2, <1>3, <1>4, <1>5, <1>6, <1>7, <1>8, <1>9, <1>10, <1>11, <1>12

LEMMA PassAlways == Spec => []PassInv
<1>1. Init => PassInv
  BY DEF Init, PassInv, InPass
<1> QED BY <1>1, PassNext, TypeCorrect, PTL DEF Spec

(***************************************************************************)
(* A pass is repeated only after a failure, and only the last one -r       *)
(* grants may leave one (cli.lua 336 and 396).                             *)
(***************************************************************************)
THEOREM RetryEarned == Spec => RetryOnlyAfterFailure
<1>1. ASSUME TypeOK, PassInv, [Next]_vars
      PROVE  [/\ (pc = "next" /\ pc' \in {"main", "tagmode"} /\ this > 0) => R.failed
              /\ (pc' = "report" /\ R.failed) => this = opt.runs]_vars
  <2>0. this \in Nat /\ this <= opt.runs /\ opt.runs \in Nat
    BY <1>1, AgentAssumption DEF TypeOK, CommandLine
  <2>1. (pc = "next" /\ pc' \in {"main", "tagmode"} /\ this > 0) => R.failed
    BY <1>1 DEF PassInv
  <2>2. (pc' = "report" /\ R.failed) => this = opt.runs \/ UNCHANGED vars
    <3>1. CASE Load \/ LoadFails \/ StartTry \/ NextPass \/ ReportFailure \/ ReportSuccess \/ Sleep
      <4>1. pc' # "report"
        BY <3>1 DEF Load, LoadFails, StartTry, NextPass, ReportFailure, ReportSuccess, Sleep, Exit
      <4> QED BY <4>1
    <3>2. CASE NoMorePasses
      BY <2>0, <3>2 DEF NoMorePasses
    <3>3. CASE EndPass
      BY <3>3 DEF EndPass
    <3>4. CASE WithinPass
      BY <3>4, WithinPassStays DEF InPass
    <3>5. CASE Crash
      BY <3>5, CrashEnds
    <3>6. CASE UNCHANGED vars
      BY <3>6
    <3> QED BY <1>1, <3>1, <3>2, <3>3, <3>4, <3>5, <3>6, NextSplit
  <2> QED BY <2>1, <2>2
<1> QED BY <1>1, TypeCorrect, PassAlways, PTL DEF Spec, RetryOnlyAfterFailure

(***************************************************************************)
(* Every step of the agent is a step of Retry, or none.                    *)
(***************************************************************************)
LEMMA StepMaps == TypeOK /\ PassInv /\ [Next]_vars => [Abstract!RetryNext]_(Abstract!retryVars)
<1> SUFFICES ASSUME TypeOK, PassInv, [Next]_vars
             PROVE  Abstract!RetryNext \/ UNCHANGED Abstract!retryVars
  OBVIOUS
<1>0. this \in Nat /\ this <= opt.runs /\ opt.runs \in Nat
  BY AgentAssumption DEF TypeOK, CommandLine
<1> USE DEF phaseBar, passesBar, failedBar
<1>1. CASE Load
  <2>1. CASE Given \cap {"h", "V", "d"} # {}
    <3>1. Abstract!Break
      BY <1>1, <2>1 DEF Load, Exit, InPass, Abstract!Break, Abstract!Stop
    <3> QED BY <3>1 DEF Abstract!RetryNext
  <2>2. CASE Given \cap {"h", "V", "d"} = {}
    BY <1>1, <2>2 DEF Load, InPass, Abstract!retryVars
  <2> QED BY <2>1, <2>2
<1>2. CASE LoadFails
  <2>1. Abstract!Break
    BY <1>2 DEF LoadFails, Exit, InPass, Abstract!Break, Abstract!Stop
  <2> QED BY <2>1 DEF Abstract!RetryNext
<1>3. CASE StartTry
  <2>1. Abstract!Apply
    BY <1>3 DEF StartTry, InPass, Untried, Abstract!Apply
  <2> QED BY <2>1 DEF Abstract!RetryNext
<1>4. CASE NextPass
  BY <1>0, <1>4 DEF NextPass, PassInv, InPass, Abstract!retryVars
<1>5. CASE NoMorePasses
  <2>1. Abstract!GiveUp
    BY <1>0, <1>5 DEF NoMorePasses, InPass, Abstract!GiveUp
  <2> QED BY <2>1 DEF Abstract!RetryNext
<1>6. CASE EndPass
  <2>0. this - 1 \in Nat /\ this - 1 < opt.runs /\ (this - 1) + 1 = this
    BY <1>0, <1>6 DEF EndPass, PassInv, InPass
  <2>1. CASE R.failed
    <3>1. Abstract!FailingPass
      BY <1>6, <2>0, <2>1 DEF EndPass, InPass, Abstract!FailingPass
    <3> QED BY <3>1 DEF Abstract!RetryNext
  <2>2. CASE ~ R.failed
    <3>1. Abstract!CleanPass
      BY <1>6, <2>0, <2>2 DEF EndPass, InPass, Abstract!CleanPass
    <3> QED BY <3>1 DEF Abstract!RetryNext
  <2> QED BY <2>1, <2>2
<1>7. CASE WithinPass
  <2>1. InPass /\ InPass' /\ opt' = opt /\ this' = this /\ exit' = exit
    BY <1>7, WithinPassStays
  <2>2. phaseBar = "trying" /\ phaseBar' = "trying"
    BY <2>1 DEF InPass
  <2> QED BY <2>1, <2>2 DEF Abstract!retryVars
<1>8. CASE Crash
  <2>1. InPass /\ pc' = "done" /\ exit' = "1" /\ opt' = opt
    BY <1>8, CrashEnds
  <2>2. Abstract!Break
    BY <2>1 DEF InPass, Abstract!Break, Abstract!Stop
  <2> QED BY <2>2 DEF Abstract!RetryNext
<1>9. CASE ReportFailure
  <2>1. Abstract!Finish
    BY <1>9 DEF ReportFailure, Exit, InPass, Abstract!Finish, Abstract!Stop
  <2> QED BY <2>1 DEF Abstract!RetryNext
<1>10. CASE ReportSuccess
  <2>1. CASE "p" \in Given
    <3>1. Abstract!Again
      BY <1>10, <2>1 DEF ReportSuccess, InPass, Abstract!Again
    <3> QED BY <3>1 DEF Abstract!RetryNext
  <2>2. CASE "p" \notin Given
    <3>1. Abstract!Finish
      BY <1>10, <2>2 DEF ReportSuccess, Exit, InPass, Abstract!Finish, Abstract!Stop
    <3> QED BY <3>1 DEF Abstract!RetryNext
  <2> QED BY <2>1, <2>2
<1>11. CASE Sleep
  BY <1>11 DEF Sleep, InPass, Abstract!retryVars
<1>12. CASE UNCHANGED vars
  BY <1>12 DEF vars, InPass, Abstract!retryVars
<1> QED
  BY NextSplit, <1>1, <1>2, <1>3, <1>4, <1>5, <1>6, <1>7, <1>8, <1>9, <1>10, <1>11, <1>12

(***************************************************************************)
(* The agent implements Retry: what a user may rely on of -r, of repeated  *)
(* passes and of the exit status holds whatever the policy is.             *)
(***************************************************************************)
THEOREM AgentImplementsRetry == Spec => ImplementsRetry
<1>1. Init => Abstract!RetryInit
  BY AgentAssumption DEF Init, Abstract!RetryInit, CommandLine, phaseBar, passesBar, failedBar, InPass
<1> QED BY <1>1, StepMaps, TypeCorrect, PassAlways, PTL DEF Spec, ImplementsRetry, Abstract!RetrySpec
=============================================================================
