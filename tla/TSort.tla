------------------------------- MODULE TSort -------------------------------
(***************************************************************************)
(* vendor/lua/tsort.lua: a depth-first topological sort.  A graph maps     *)
(* each node to the sequence of nodes that must come before it.  The       *)
(* recursion of visit is an explicit stack; `next' holds the loop variable *)
(* of each visit under way.  pairs(n) yields the roots in any order.       *)
(***************************************************************************)
EXTENDS Naturals, Sequences, FiniteSets

CONSTANT Nodes

VARIABLES
  graph,   \* n: the dependencies of each node added
  mark,    \* m: "new" (nil), "open" (0) or "closed" (1)
  stack,   \* the nodes whose visit is under way, outermost first
  next,    \* i in the loop of each visit
  sorted,  \* s
  result   \* "busy", "sorted" or "cycle"; "panic": given up before the sort

sortVars == <<mark, stack, next, sorted, result>>

EmptyGraph == [k \in {} |-> << >>]

(***************************************************************************)
(* tsort:add{x} declares a node; tsort:add{x, y} makes x come before y.    *)
(***************************************************************************)
Add(g, p) ==
  LET nodes == DOMAIN g \cup {p[i] : i \in DOMAIN p}
      Old(k) == IF k \in DOMAIN g THEN g[k] ELSE << >>
  IN  [k \in nodes |-> IF Len(p) = 2 /\ k = p[2] THEN Append(Old(k), p[1])
                                                 ELSE Old(k)]

Top == stack[Len(stack)]
Pop == SubSeq(stack, 1, Len(stack) - 1)

SortInit ==
  /\ mark = [k \in Nodes |-> "new"]
  /\ stack = << >>
  /\ next = [k \in Nodes |-> 1]
  /\ sorted = << >>
  /\ result = "busy"

\* visit(k) past its first two tests.
Enter(k) ==
  /\ mark' = [mark EXCEPT ![k] = "open"]
  /\ stack' = Append(stack, k)
  /\ next' = [next EXCEPT ![k] = 1]
  /\ UNCHANGED <<sorted, result>>

Root ==
  /\ result = "busy"
  /\ stack = << >>
  /\ \E k \in DOMAIN graph : mark[k] = "new" /\ Enter(k)

Looking == result = "busy" /\ stack # << >> /\ next[Top] <= Len(graph[Top])
Dependency == graph[Top][next[Top]]

Descend ==
  /\ Looking
  /\ mark[Dependency] = "new"
  /\ Enter(Dependency)

\* visit(f[i]) returns at once: the dependency is in place already.
Skip ==
  /\ Looking
  /\ mark[Dependency] = "closed"
  /\ next' = [next EXCEPT ![Top] = @ + 1]
  /\ UNCHANGED <<mark, stack, sorted, result>>

\* Mutant of Cycle: a node met again on the way is taken for a cycle.
CycleOnRevisit ==
  /\ Looking
  /\ mark[Dependency] # "new"
  /\ result' = "cycle"
  /\ UNCHANGED <<mark, stack, next, sorted>>

\* visit(f[i]) returns 1, and so does every visit under way.
Cycle ==
  /\ Looking
  /\ mark[Dependency] = "open"
  /\ result' = "cycle"
  /\ UNCHANGED <<mark, stack, next, sorted>>

\* Mutant of Leave: the last dependency is not waited for.
LeaveEarly ==
  /\ result = "busy"
  /\ stack # << >>
  /\ next[Top] >= Len(graph[Top])
  /\ mark' = [mark EXCEPT ![Top] = "closed"]
  /\ sorted' = Append(sorted, Top)
  /\ stack' = Pop
  /\ UNCHANGED <<next, result>>

(***************************************************************************)
(* The loop over the dependencies is over; the caller goes on to its next  *)
(* one when it looks at this node again and finds it closed (Skip).        *)
(***************************************************************************)
Leave ==
  /\ result = "busy"
  /\ stack # << >>
  /\ next[Top] > Len(graph[Top])
  /\ mark' = [mark EXCEPT ![Top] = "closed"]
  /\ sorted' = Append(sorted, Top)
  /\ stack' = Pop
  /\ UNCHANGED <<next, result>>

Finish ==
  /\ result = "busy"
  /\ stack = << >>
  /\ \A k \in DOMAIN graph : mark[k] # "new"
  /\ result' = "sorted"
  /\ UNCHANGED <<mark, stack, next, sorted>>

SortNext ==
  (Root \/ Descend \/ Skip \/ Cycle \/ Leave \/ Finish) /\ UNCHANGED graph

----------------------------------------------------------------------------
\* Every dependency has been declared a node.
IsGraph(g) == DOMAIN g \subseteq Nodes /\ g \in [DOMAIN g -> Seq(DOMAIN g)]

SortTypeOK ==
  /\ mark \in [Nodes -> {"new", "open", "closed"}]
  /\ stack \in Seq(DOMAIN graph)
  /\ next \in [Nodes -> Nat \ {0}]
  /\ sorted \in Seq(DOMAIN graph)
  /\ result \in {"busy", "sorted", "cycle", "panic"}

\* a must come before b.
Edge(g, a, b) == b \in DOMAIN g /\ \E j \in DOMAIN g[b] : g[b][j] = a

(***************************************************************************)
(* Whatever the order of the roots, a node is put out after everything it  *)
(* depends on, and only once.                                              *)
(***************************************************************************)
DependenciesFirst ==
  /\ \A p \in DOMAIN sorted : \A a \in DOMAIN graph :
        Edge(graph, a, sorted[p]) => \E q \in 1..(p - 1) : sorted[q] = a
  /\ \A p, q \in DOMAIN sorted : sorted[p] = sorted[q] => p = q

(***************************************************************************)
(* A circular dependency is reported only when there is one: the nodes on  *)
(* the stack from the offending dependency on form it.                     *)
(***************************************************************************)
CycleIsReal ==
  result = "cycle" =>
    \E j \in DOMAIN stack :
      /\ Edge(graph, stack[j], Top)
      /\ \A l \in j..(Len(stack) - 1) : Edge(graph, stack[l + 1], stack[l])
=============================================================================
