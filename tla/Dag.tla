-------------------------------- MODULE Dag --------------------------------
(***************************************************************************)
(* The end of cli.main: from the queue of promises, in the order they were *)
(* declared, to the order they are run in.  The nodes are positions in the *)
(* queue: the code uses the promise tables themselves, so two promises of  *)
(* the same name are two nodes.                                            *)
(***************************************************************************)
EXTENDS TSort

CONSTANTS
  Names,     \* the names (module, function, promiser) of promises: `res'
  NoName,    \* require or before not given
  BadName,   \* one that does not parse as Lua, or fails when it is run
  Policies   \* the queues explored

Given == Names \cup {NoName, BadName}
Promise == [res : Names, req : Given, bef : Given]

ASSUME DagAssumption ==
  /\ NoName \notin Names /\ BadName \notin Names \cup {NoName}
  /\ Policies \subseteq Seq(Promise)
  /\ \A q \in Policies : DOMAIN q \subseteq Nodes

VARIABLES
  source,  \* the queue
  n,       \* position being added to the graph, from the last to the first
  x        \* position compared with its require and before; 0 outside the loop

vars == <<source, n, x, graph, mark, stack, next, sorted, result>>

Plain(k) == source[k].req = NoName /\ source[k].bef = NoName

Init ==
  /\ source \in Policies
  /\ n = Len(source)
  /\ x = 0
  /\ graph = EmptyGraph
  /\ SortInit

\* Mutant of AddPlain: a plain promise is not tied to the one above.
AddPlainAlone ==
  /\ n > 0 /\ x = 0
  /\ Plain(n)
  /\ graph' = Add(graph, << n >>)
  /\ n' = n - 1
  /\ UNCHANGED <<source, x>> /\ UNCHANGED sortVars

\* Mutant of AddPlain: whatever is above comes first.
AddPlainAlways ==
  /\ n > 0 /\ x = 0
  /\ Plain(n)
  /\ graph' = IF n # 1 THEN Add(graph, << n - 1, n >>) ELSE Add(graph, << n >>)
  /\ n' = n - 1
  /\ UNCHANGED <<source, x>> /\ UNCHANGED sortVars

\* A promise with neither require nor before follows a plain one above it.
AddPlain ==
  /\ n > 0 /\ x = 0
  /\ Plain(n)
  /\ graph' = IF n # 1 /\ Plain(n - 1) THEN Add(graph, << n - 1, n >>)
                                       ELSE Add(graph, << n >>)
  /\ n' = n - 1
  /\ UNCHANGED <<source, x>> /\ UNCHANGED sortVars

\* `R=...;B=...' is loaded and run: an error ends the agent there.
StartLinks ==
  /\ n > 0 /\ x = 0 /\ result = "busy"
  /\ ~ Plain(n)
  /\ IF BadName \in {source[n].req, source[n].bef}
     THEN result' = "panic" /\ UNCHANGED <<x, mark, stack, next, sorted>>
     ELSE x' = 1 /\ UNCHANGED sortVars
  /\ UNCHANGED <<source, n, graph>>

\* Mutant of Link: require and before exclude each other.
LinkOneOrTheOther ==
  /\ x > 0
  /\ x <= Len(source)
  /\ graph' = IF source[x].res = source[n].req THEN Add(graph, << x, n >>)
              ELSE IF source[n].req = NoName /\ source[x].res = source[n].bef
              THEN Add(graph, << n, x >>)
              ELSE graph
  /\ x' = x + 1
  /\ UNCHANGED <<source, n>> /\ UNCHANGED sortVars

\* One turn of `for x = 1, #source': every promise of the name is linked.
Link ==
  /\ x > 0
  /\ x <= Len(source)
  /\ LET required == IF source[x].res = source[n].req
                     THEN Add(graph, << x, n >>) ELSE graph
     IN  graph' = IF source[x].res = source[n].bef
                  THEN Add(required, << n, x >>) ELSE required
  /\ x' = x + 1
  /\ UNCHANGED <<source, n>> /\ UNCHANGED sortVars

EndLinks ==
  /\ x > Len(source)
  /\ x' = 0
  /\ n' = n - 1
  /\ UNCHANGED <<source, graph>> /\ UNCHANGED sortVars

Sort == n = 0 /\ SortNext /\ UNCHANGED <<source, n, x>>

Terminated == result # "busy" /\ UNCHANGED vars

Next == AddPlain \/ StartLinks \/ Link \/ EndLinks \/ Sort \/ Terminated

Spec == Init /\ [][Next]_vars

----------------------------------------------------------------------------
TypeOK ==
  /\ source \in Seq(Promise) /\ DOMAIN source \subseteq Nodes
  /\ n \in 0..Len(source)
  /\ x \in 0..(Len(source) + 1)
  /\ x > 0 => n > 0
  /\ IsGraph(graph)
  /\ SortTypeOK

(***************************************************************************)
(* What the policy asks for: k after j because k requires it, j is to be   *)
(* before k, or both are plain neighbours.                                 *)
(***************************************************************************)
Declared(j, k) ==
  \/ source[k].req = source[j].res
  \/ source[j].bef = source[k].res
  \/ j = k - 1 /\ Plain(j) /\ Plain(k)

Runs(j, k) == \E p, q \in DOMAIN sorted : p < q /\ sorted[p] = j /\ sorted[q] = k

(***************************************************************************)
(* Every policy that is accepted runs in an order that honours each        *)
(* require, each before, with every promise of the name they give, and the *)
(* declared order of plain neighbours.                                     *)
(***************************************************************************)
OrderHonoured ==
  result = "sorted" =>
    \A j, k \in DOMAIN source : Declared(j, k) => Runs(j, k)

(***************************************************************************)
(* A promise is left out only if it has a require or a before, none of     *)
(* them names a promise of the policy, and no promise names it: nothing    *)
(* else is lost between the queue and the graph.                           *)
(***************************************************************************)
Dangling(k) ==
  /\ ~ Plain(k)
  /\ \A j \in DOMAIN source : ~ Declared(j, k) /\ ~ Declared(k, j)

OnlyDanglingDropped ==
  result = "sorted" =>
    {k \in DOMAIN source : ~ Dangling(k)} = {sorted[p] : p \in DOMAIN sorted}

(***************************************************************************)
(* A policy is refused only if its declarations, the order of plain        *)
(* neighbours included, cannot be met by any order.                        *)
(***************************************************************************)
RefusedOnlyIfImpossible ==
  result = "cycle" =>
    \E S \in SUBSET DOMAIN source :
      S # {} /\ \A k \in S : \E j \in S : Declared(j, k)
=============================================================================
