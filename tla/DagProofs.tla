----------------------------- MODULE DagProofs -----------------------------
(***************************************************************************)
(* Theorems about Dag, for policies of any size: the order cli.main hands  *)
(* to cli.try honours what the policy declares.                            *)
(***************************************************************************)
EXTENDS Dag, SequenceTheorems, TLAPS

(***************************************************************************)
(* tsort:add declares its nodes and adds the edge asked for to the edges   *)
(* already there, and no other.                                            *)
(***************************************************************************)
LEMMA AddNode ==
  ASSUME NEW g, IsGraph(g), NEW b \in Nodes
  PROVE  /\ IsGraph(Add(g, <<b>>))
         /\ DOMAIN Add(g, <<b>>) = DOMAIN g \cup {b}
         /\ \A c, d : Edge(g, c, d) <=> Edge(Add(g, <<b>>), c, d)
<1>1. Len(<<b>>) = 1 /\ {<<b>>[i] : i \in DOMAIN <<b>>} = {b}
  OBVIOUS
<1>2. Add(g, <<b>>) = [k \in DOMAIN g \cup {b} |-> IF k \in DOMAIN g THEN g[k] ELSE << >>]
  BY <1>1 DEF Add
<1> DEFINE D == DOMAIN g \cup {b}
           G == [k \in D |-> IF k \in DOMAIN g THEN g[k] ELSE << >>]
<1>3. \A k \in D : G[k] \in Seq(D)
  BY DEF IsGraph
<1>4. IsGraph(G)
  BY <1>3 DEF IsGraph
<1>5. ASSUME NEW c, NEW d PROVE Edge(g, c, d) <=> Edge(G, c, d)
  <2>1. CASE d \in DOMAIN g
    BY <2>1 DEF Edge
  <2>2. CASE d \notin DOMAIN g
    <3>1. d \in D => G[d] = << >> /\ DOMAIN << >> = {}
      BY <2>2
    <3>2. ~ Edge(G, c, d)
      BY <3>1 DEF Edge
    <3> QED BY <2>2, <3>2 DEF Edge
  <2> QED BY <2>1, <2>2
<1> QED BY <1>2, <1>4, <1>5

LEMMA AddEdge ==
  ASSUME NEW g, IsGraph(g), NEW a \in Nodes, NEW b \in Nodes
  PROVE  /\ IsGraph(Add(g, <<a, b>>))
         /\ DOMAIN Add(g, <<a, b>>) = DOMAIN g \cup {a, b}
         /\ Edge(Add(g, <<a, b>>), a, b)
         /\ \A c, d : Edge(g, c, d) => Edge(Add(g, <<a, b>>), c, d)
         /\ \A c, d : Edge(Add(g, <<a, b>>), c, d) => Edge(g, c, d) \/ (c = a /\ d = b)
<1> DEFINE D == DOMAIN g \cup {a, b}
           Old(k) == IF k \in DOMAIN g THEN g[k] ELSE << >>
           G == [k \in D |-> IF k = b THEN Append(Old(k), a) ELSE Old(k)]
<1>1. Len(<<a, b>>) = 2 /\ {<<a, b>>[i] : i \in DOMAIN <<a, b>>} = {a, b}
  OBVIOUS
<1>2. Add(g, <<a, b>>) = G
  BY <1>1 DEF Add
<1>3. \A k \in D : Old(k) \in Seq(D)
  BY DEF IsGraph
<1>4. \A k \in D : G[k] \in Seq(D)
  BY <1>3
<1>5. IsGraph(G)
  BY <1>4 DEF IsGraph
<1>6. Edge(G, a, b)
  <2>1. G[b] = Append(Old(b), a) /\ Old(b) \in Seq(D)
    BY <1>3
  <2>2. Len(Old(b)) + 1 \in DOMAIN G[b] /\ G[b][Len(Old(b)) + 1] = a
    BY <2>1
  <2> QED BY <2>2 DEF Edge
<1>7. ASSUME NEW c, NEW d, Edge(g, c, d) PROVE Edge(G, c, d)
  <2>1. PICK j \in DOMAIN g[d] : d \in DOMAIN g /\ g[d][j] = c
    BY <1>7 DEF Edge
  <2>2. g[d] \in Seq(DOMAIN g) /\ Old(d) = g[d] /\ d \in D
    BY <2>1 DEF IsGraph
  <2>3. j \in DOMAIN G[d] /\ G[d][j] = c
    <3>1. CASE d = b
      BY <2>1, <2>2, <3>1
    <3>2. CASE d # b
      BY <2>1, <2>2, <3>2
    <3> QED BY <3>1, <3>2
  <2> QED BY <2>2, <2>3 DEF Edge
<1>8. ASSUME NEW c, NEW d, Edge(G, c, d) PROVE Edge(g, c, d) \/ (c = a /\ d = b)
  <2>1. PICK j \in DOMAIN G[d] : d \in D /\ G[d][j] = c
    BY <1>8 DEF Edge
  <2>2. Old(d) \in Seq(D) /\ (d \notin DOMAIN g => Old(d) = << >>)
    BY <1>3, <2>1
  <2>3. CASE d = b
    <3>1. G[d] = Append(Old(d), a)
      BY <2>1, <2>3
    <3>2. (j \in DOMAIN Old(d) /\ Old(d)[j] = c) \/ c = a
      BY <2>1, <2>2, <3>1
    <3>3. j \in DOMAIN Old(d) => d \in DOMAIN g
      BY <2>2
    <3> QED BY <2>3, <3>2, <3>3 DEF Edge
  <2>4. CASE d # b
    <3>1. G[d] = Old(d) /\ d \in DOMAIN g
      BY <2>1, <2>2, <2>4
    <3> QED BY <2>1, <3>1 DEF Edge
  <2> QED BY <2>3, <2>4
<1> QED BY <1>2, <1>5, <1>6, <1>7, <1>8

(***************************************************************************)
(* The invariant of the sort.  A node is open exactly while its visit is   *)
(* under way and closed exactly when it is out; a visit has closed the     *)
(* dependencies it has passed, and waits for the one above it on the       *)
(* stack.                                                                  *)
(***************************************************************************)
Passed(k) == \A j \in 1..(next[k] - 1) : mark[graph[k][j]] = "closed"

StackInv ==
  /\ \A l \in 1..Len(stack) : mark[stack[l]] = "open" /\ Passed(stack[l])
                              /\ next[stack[l]] <= Len(graph[stack[l]]) + 1
  /\ \A l, q \in 1..Len(stack) : stack[l] = stack[q] => l = q
  /\ \A k \in Nodes : mark[k] = "open" => \E l \in 1..Len(stack) : stack[l] = k
  /\ \A l \in 1..(Len(stack) - 1) :
        /\ next[stack[l]] <= Len(graph[stack[l]])
        /\ graph[stack[l]][next[stack[l]]] = stack[l + 1]

SortedInv ==
  /\ \A k \in Nodes :
        mark[k] = "closed" <=> \E p \in 1..Len(sorted) : sorted[p] = k
  /\ DependenciesFirst

Untouched ==
  /\ mark = [k \in Nodes |-> "new"] /\ stack = << >> /\ sorted = << >>
  /\ result \in {"busy", "panic"}

SortInv ==
  /\ n > 0 => Untouched
  /\ n = 0 => x = 0
  /\ StackInv
  /\ SortedInv
  /\ result = "sorted" => \A k \in DOMAIN graph : mark[k] = "closed"
  /\ CycleIsReal

(***************************************************************************)
(* The variables keep their types: visit never meets a node that was not   *)
(* declared (its table would be nil), and the loops of cli.main stay       *)
(* inside the queue.                                                       *)
(***************************************************************************)
THEOREM TypeCorrect == Spec => []TypeOK
<1>1. Init => TypeOK
  <2> SUFFICES ASSUME Init PROVE TypeOK
    OBVIOUS
  <2>1. source \in Seq(Promise) /\ DOMAIN source \subseteq Nodes
    BY DagAssumption DEF Init
  <2>2. IsGraph(EmptyGraph)
    BY DEF IsGraph, EmptyGraph
  <2> QED BY <2>1, <2>2 DEF Init, TypeOK, SortInit, SortTypeOK
<1>2. TypeOK /\ [Next]_vars => TypeOK'
  <2> SUFFICES ASSUME TypeOK, [Next]_vars PROVE TypeOK'
    OBVIOUS
  <2>0. /\ source \in Seq(Promise) /\ DOMAIN source = 1..Len(source)
        /\ Len(source) \in Nat /\ 1..Len(source) \subseteq Nodes
        /\ n \in 0..Len(source) /\ x \in 0..(Len(source) + 1)
    BY DEF TypeOK
  <2>b. IsGraph(graph)
    BY DEF TypeOK
  <2>a. ASSUME UNCHANGED sortVars, IsGraph(graph'), DOMAIN graph \subseteq DOMAIN graph'
        PROVE  SortTypeOK'
    BY <2>a DEF TypeOK, SortTypeOK, sortVars
  <2>1. CASE AddPlain
    <3>1. IsGraph(graph') /\ DOMAIN graph \subseteq DOMAIN graph'
      <4>1. n \in Nodes
        BY <2>0, <2>1 DEF AddPlain
      <4>2. n # 1 => n - 1 \in Nodes
        BY <2>0, <2>1 DEF AddPlain
      <4>3. /\ IsGraph(Add(graph, <<n>>))
            /\ DOMAIN graph \subseteq DOMAIN Add(graph, <<n>>)
        BY <2>b, <4>1, AddNode
      <4>4. ASSUME NEW a \in Nodes
            PROVE  /\ IsGraph(Add(graph, <<a, n>>))
                   /\ DOMAIN Add(graph, <<a, n>>) = DOMAIN graph \cup {a, n}
        BY <2>b, <4>1, AddEdge
      <4> QED BY <2>1, <4>2, <4>3, <4>4 DEF AddPlain
    <3> QED BY <2>0, <2>1, <2>a, <3>1 DEF AddPlain, TypeOK
  <2>2. CASE StartLinks
    BY <2>0, <2>2, <2>a DEF StartLinks, TypeOK, SortTypeOK
  <2>3. CASE Link
    <3>1. x \in Nodes /\ n \in Nodes
      BY <2>0, <2>3 DEF Link, TypeOK
    <3>2. PICK g : /\ g = IF source[x].res = source[n].req
                          THEN Add(graph, <<x, n>>) ELSE graph
                   /\ graph' = IF source[x].res = source[n].bef
                               THEN Add(g, <<n, x>>) ELSE g
      BY <2>3 DEF Link
    <3>3. IsGraph(g) /\ DOMAIN graph \subseteq DOMAIN g
      <4>1. /\ IsGraph(Add(graph, <<x, n>>))
            /\ DOMAIN Add(graph, <<x, n>>) = DOMAIN graph \cup {x, n}
        BY <2>b, <3>1, AddEdge
      <4> QED BY <2>b, <3>2, <4>1
    <3>4. IsGraph(graph') /\ DOMAIN g \subseteq DOMAIN graph'
      <4>1. /\ IsGraph(Add(g, <<n, x>>))
            /\ DOMAIN Add(g, <<n, x>>) = DOMAIN g \cup {n, x}
        BY <3>1, <3>3, AddEdge
      <4> QED BY <3>2, <3>3, <4>1
    <3>5. SortTypeOK'
      BY <2>3, <2>a, <3>3, <3>4 DEF Link
    <3> QED BY <2>0, <2>3, <3>4, <3>5 DEF Link, TypeOK
  <2>4. CASE EndLinks
    BY <2>0, <2>4, <2>a DEF EndLinks, TypeOK
  <2>5. CASE Sort
    <3>0. /\ stack \in Seq(DOMAIN graph) /\ sorted \in Seq(DOMAIN graph)
          /\ mark \in [Nodes -> {"new", "open", "closed"}]
          /\ next \in [Nodes -> Nat \ {0}]
          /\ result \in {"busy", "sorted", "cycle", "panic"}
          /\ DOMAIN graph \subseteq Nodes
      BY DEF TypeOK, SortTypeOK, IsGraph
    <3>1. ASSUME NEW k \in DOMAIN graph, Enter(k), UNCHANGED graph PROVE SortTypeOK'
      BY <3>0, <3>1 DEF Enter, SortTypeOK
    <3>2. Looking => Dependency \in DOMAIN graph
      BY <3>0, <2>b DEF Looking, Dependency, Top, IsGraph
    <3>9. SortTypeOK'
      <4>3. CASE Root
        BY <2>5, <3>1, <4>3 DEF Root, Sort, SortNext
      <4>4. CASE Descend
        BY <2>5, <3>1, <3>2, <4>4 DEF Descend, Sort, SortNext
      <4>5. CASE Skip
        <5>1. next' = [next EXCEPT ![Top] = @ + 1] /\ Top \in Nodes
          BY <3>0, <4>5 DEF Skip, Looking, Top
        <5>2. next' \in [Nodes -> Nat \ {0}]
          BY <3>0, <5>1
        <5> QED BY <2>5, <3>0, <4>5, <5>2 DEF Skip, Sort, SortNext, SortTypeOK
      <4>6. CASE Cycle
        BY <2>5, <3>0, <4>6 DEF Cycle, Sort, SortNext, SortTypeOK
      <4>7. CASE Leave
        <5>1. stack # << >> /\ Top \in DOMAIN graph /\ Pop \in Seq(DOMAIN graph)
          BY <3>0, <4>7 DEF Leave, Top, Pop
        <5> QED BY <2>5, <3>0, <4>7, <5>1 DEF Leave, Sort, SortNext, SortTypeOK
      <4>8. CASE Finish
        BY <2>5, <3>0, <4>8 DEF Finish, Sort, SortNext, SortTypeOK
      <4> QED BY <2>5, <4>3, <4>4, <4>5, <4>6, <4>7, <4>8 DEF Sort, SortNext
    <3> QED BY <2>5, <3>9 DEF Sort, SortNext, TypeOK
  <2>6. CASE UNCHANGED vars
    BY <2>6, <2>a DEF vars, TypeOK, sortVars
  <2> QED BY <2>1, <2>2, <2>3, <2>4, <2>5, <2>6 DEF Next, Terminated
<1> QED BY <1>1, <1>2, PTL DEF Spec

(***************************************************************************)
(* The steps of the sort keep SortInv.                                     *)
(***************************************************************************)
LEMMA EnterKeeps ==
  ASSUME TypeOK, SortInv, n = 0, result = "busy",
         NEW k \in DOMAIN graph, mark[k] = "new", Enter(k),
         stack # << >> => next[Top] <= Len(graph[Top]) /\ graph[Top][next[Top]] = k,
         UNCHANGED <<graph, source, n, x>>
  PROVE  SortInv'
<1>1. /\ stack \in Seq(DOMAIN graph) /\ sorted \in Seq(DOMAIN graph)
      /\ mark \in [Nodes -> {"new", "open", "closed"}]
      /\ next \in [Nodes -> Nat \ {0}] /\ DOMAIN graph \subseteq Nodes
      /\ Len(stack) \in Nat
  BY DEF TypeOK, SortTypeOK, IsGraph
<1>2. /\ Len(stack') = Len(stack) + 1 /\ stack'[Len(stack) + 1] = k
      /\ \A l \in 1..Len(stack) : stack'[l] = stack[l] /\ stack[l] \in DOMAIN graph
  BY <1>1 DEF Enter
<1>3. /\ mark'[k] = "open" /\ next'[k] = 1
      /\ \A j \in Nodes \ {k} : mark'[j] = mark[j] /\ next'[j] = next[j]
      /\ sorted' = sorted /\ result' = "busy"
  BY <1>1 DEF Enter
<1>4. \A l \in 1..Len(stack) : stack[l] # k
  BY DEF SortInv, StackInv
<1>5. \A j \in Nodes : mark[j] = "closed" <=> mark'[j] = "closed"
  BY <1>1, <1>3
<1>6. \A d \in DOMAIN graph : \A j \in 1..Len(graph[d]) : graph[d][j] \in Nodes
  BY <1>1 DEF TypeOK, IsGraph
<1>a. Len(stack) \in Nat /\ k \in Nodes
  BY <1>1
<1>b. /\ \A l, q \in 1..Len(stack) : stack[l] = stack[q] => l = q
      /\ \A j \in Nodes : mark[j] = "open" => \E l \in 1..Len(stack) : stack[l] = j
  BY DEF SortInv, StackInv
<1>7. StackInv'
  <2>1. ASSUME NEW l \in 1..Len(stack')
        PROVE  /\ mark'[stack'[l]] = "open"
               /\ Passed(stack[l])'
               /\ next'[stack'[l]] <= Len(graph[stack'[l]]) + 1
    <3>1. CASE l = Len(stack) + 1
      <4>1. stack'[l] = k /\ Len(graph[k]) \in Nat
        BY <1>2, <3>1 DEF TypeOK, IsGraph
      <4>2. \A j \in 1..(next'[k] - 1) : FALSE
        BY <1>3
      <4> QED BY <1>3, <4>1, <4>2 DEF Passed
    <3>2. CASE l \in 1..Len(stack)
      <4> DEFINE d == stack[l]
      <4>1. d \in DOMAIN graph /\ d # k /\ d \in Nodes /\ stack'[l] = d
        BY <1>1, <1>2, <1>4, <3>2
      <4>2. mark[d] = "open" /\ Passed(d) /\ next[d] <= Len(graph[d]) + 1
        BY <3>2 DEF SortInv, StackInv
      <4>3. \A j \in 1..(next[d] - 1) : j \in 1..Len(graph[d])
        BY <1>1, <4>1, <4>2 DEF TypeOK, IsGraph
      <4>4. \A j \in 1..(next[d] - 1) : mark'[graph[d][j]] = "closed"
        BY <1>5, <1>6, <4>1, <4>2, <4>3 DEF Passed
      <4> QED BY <1>3, <4>1, <4>2, <4>4 DEF Passed
    <3> QED BY <1>a, <1>2, <3>1, <3>2
  <2>2. ASSUME NEW l \in 1..Len(stack'), NEW q \in 1..Len(stack'), stack'[l] = stack'[q]
        PROVE  l = q
    <3>1. \A m \in 1..Len(stack') : m \in 1..Len(stack) \/ m = Len(stack) + 1
      BY <1>a, <1>2
    <3> QED BY <1>b, <1>2, <1>4, <2>2, <3>1
  <2>3. ASSUME NEW j \in Nodes, mark'[j] = "open"
        PROVE  \E l \in 1..Len(stack') : stack'[l] = j
    <3>1. CASE j = k
      <4>1. Len(stack) + 1 \in 1..Len(stack')
        BY <1>a, <1>2
      <4> QED BY <1>2, <3>1, <4>1
    <3>2. CASE j # k
      <4>1. PICK l \in 1..Len(stack) : stack[l] = j
        BY <1>b, <1>3, <2>3, <3>2
      <4>2. l \in 1..Len(stack')
        BY <1>a, <1>2
      <4> QED BY <1>2, <4>1, <4>2
    <3> QED BY <3>1, <3>2
  <2>4. ASSUME NEW l \in 1..(Len(stack') - 1)
        PROVE  /\ next'[stack'[l]] <= Len(graph[stack'[l]])
               /\ graph[stack'[l]][next'[stack'[l]]] = stack'[l + 1]
    <3>1. l \in 1..Len(stack) /\ stack'[l] = stack[l] /\ stack[l] # k /\ stack[l] \in Nodes
      BY <1>1, <1>2, <1>4, <2>4
    <3>2. next'[stack[l]] = next[stack[l]]
      BY <1>3, <3>1
    <3>3. CASE l = Len(stack)
      <4>1. Top = stack[l] /\ stack # << >> /\ stack'[l + 1] = k
        BY <1>1, <1>2, <3>1, <3>3 DEF Top
      <4> QED BY <3>1, <3>2, <4>1
    <3>4. CASE l # Len(stack)
      <4>1. l \in 1..(Len(stack) - 1) /\ stack'[l + 1] = stack[l + 1]
        BY <1>a, <1>2, <3>1, <3>4
      <4> QED BY <3>1, <3>2, <4>1 DEF SortInv, StackInv
    <3> QED BY <3>3, <3>4
  <2> QED BY <2>1, <2>2, <2>3, <2>4 DEF StackInv
<1>8. SortedInv'
  BY <1>1, <1>3, <1>5 DEF SortInv, SortedInv, DependenciesFirst, Edge
<1> QED BY <1>3, <1>7, <1>8 DEF SortInv, CycleIsReal

LEMMA PopKeepsRest ==
  ASSUME NEW S, NEW s \in Seq(S), s # << >>
  PROVE  /\ Len(SubSeq(s, 1, Len(s) - 1)) = Len(s) - 1
         /\ \A l \in 1..(Len(s) - 1) : SubSeq(s, 1, Len(s) - 1)[l] = s[l]
<1>1. Len(s) \in Nat \ {0} /\ \A l \in 1..(Len(s) - 1) : s[l] \in S
  OBVIOUS
<1> DEFINE m == Len(s) - 1
<1>2. m \in Nat
  BY <1>1
<1> HIDE DEF m
<1>3. \A l \in 1..m : s[l] \in S
  BY <1>1 DEF m
<1>4. /\ Len(SubSeq(s, 1, m)) = m
      /\ \A l \in 1..m : SubSeq(s, 1, m)[l] = s[l]
  BY <1>2, <1>3, SubSeqProperties
<1> QED BY <1>4 DEF m

LEMMA LeaveKeeps ==
  ASSUME TypeOK, SortInv, n = 0, Leave, UNCHANGED <<graph, source, n, x>>
  PROVE  SortInv'
<1> DEFINE k == stack[Len(stack)]
           N == Len(sorted)
<1>1. /\ stack \in Seq(DOMAIN graph) /\ sorted \in Seq(DOMAIN graph)
      /\ mark \in [Nodes -> {"new", "open", "closed"}]
      /\ DOMAIN graph \subseteq Nodes /\ stack # << >>
  BY DEF TypeOK, SortTypeOK, IsGraph, Leave
<1>a. Len(stack) \in Nat \ {0} /\ k \in DOMAIN graph /\ k \in Nodes /\ N \in Nat
  BY <1>1
<1>2. /\ Len(stack') = Len(stack) - 1
      /\ \A l \in 1..Len(stack') : l \in 1..(Len(stack) - 1) /\ stack'[l] = stack[l]
  <2>1. stack' = SubSeq(stack, 1, Len(stack) - 1)
    BY DEF Leave, Pop
  <2> QED BY <1>1, <2>1, PopKeepsRest
<1>3. /\ mark'[k] = "closed" /\ \A j \in Nodes \ {k} : mark'[j] = mark[j]
      /\ next' = next /\ result' = "busy" /\ next[k] > Len(graph[k])
  BY <1>1, <1>a DEF Leave, Top
<1>4. /\ Len(sorted') = N + 1 /\ sorted'[N + 1] = k
      /\ \A p \in 1..N : sorted'[p] = sorted[p] /\ sorted[p] \in DOMAIN graph
  BY <1>1 DEF Leave, Top
<1>5. \A l \in 1..(Len(stack) - 1) : stack[l] # k /\ stack[l] \in DOMAIN graph
  BY <1>1, <1>a DEF SortInv, StackInv
<1>6. mark[k] = "open" /\ Passed(k) /\ next[k] <= Len(graph[k]) + 1
  BY <1>a DEF SortInv, StackInv
<1>7. \A j \in Nodes : mark[j] = "closed" => mark'[j] = "closed"
  BY <1>3
<1>b. graph[k] \in Seq(DOMAIN graph) /\ next[k] = Len(graph[k]) + 1
  BY <1>1, <1>a, <1>3, <1>6 DEF TypeOK, SortTypeOK, IsGraph
<1>8. \A j \in DOMAIN graph[k] : mark[graph[k][j]] = "closed" /\ graph[k][j] \in Nodes
  BY <1>1, <1>6, <1>b DEF Passed
<1>9. \A j \in Nodes : mark[j] = "closed" <=> \E p \in 1..N : sorted[p] = j
  BY DEF SortInv, SortedInv
<1>10. StackInv'
  <2>1. ASSUME NEW l \in 1..Len(stack')
        PROVE  /\ mark'[stack'[l]] = "open"
               /\ Passed(stack[l])'
               /\ next'[stack'[l]] <= Len(graph[stack'[l]]) + 1
    <3> DEFINE d == stack[l]
    <3>1. l \in 1..Len(stack) /\ stack'[l] = d /\ d # k /\ d \in DOMAIN graph /\ d \in Nodes
      BY <1>1, <1>a, <1>2, <1>5
    <3>2. mark[d] = "open" /\ Passed(d) /\ next[d] <= Len(graph[d]) + 1
      BY <3>1 DEF SortInv, StackInv
    <3>3. \A j \in 1..(next[d] - 1) : graph[d][j] \in Nodes
      BY <1>1, <3>1, <3>2 DEF TypeOK, SortTypeOK, IsGraph
    <3>4. \A j \in 1..(next[d] - 1) : mark'[graph[d][j]] = "closed"
      BY <1>7, <3>2, <3>3 DEF Passed
    <3> QED BY <1>2, <1>3, <3>1, <3>2, <3>4 DEF Passed
  <2>2. \A l, q \in 1..Len(stack') : stack'[l] = stack'[q] => l = q
    BY <1>a, <1>2 DEF SortInv, StackInv
  <2>3. ASSUME NEW j \in Nodes, mark'[j] = "open"
        PROVE  \E l \in 1..Len(stack') : stack'[l] = j
    <3>1. j # k /\ mark[j] = "open"
      BY <1>3, <2>3
    <3>2. PICK l \in 1..Len(stack) : stack[l] = j
      BY <3>1 DEF SortInv, StackInv
    <3>3. l \in 1..Len(stack')
      BY <1>a, <1>2, <3>1, <3>2
    <3> QED BY <1>2, <3>2, <3>3
  <2>4. ASSUME NEW l \in 1..(Len(stack') - 1)
        PROVE  /\ next'[stack'[l]] <= Len(graph[stack'[l]])
               /\ graph[stack'[l]][next'[stack'[l]]] = stack'[l + 1]
    <3>1. /\ l \in 1..Len(stack') /\ l + 1 \in 1..Len(stack')
          /\ l \in 1..(Len(stack) - 1)
      BY <1>a, <1>2
    <3>2. stack'[l] = stack[l] /\ stack'[l + 1] = stack[l + 1]
      BY <1>2, <3>1
    <3> QED BY <1>3, <3>1, <3>2 DEF SortInv, StackInv
  <2> QED BY <1>3, <2>1, <2>2, <2>3, <2>4 DEF StackInv
<1>11. \A j \in Nodes : mark'[j] = "closed" <=> \E p \in 1..Len(sorted') : sorted'[p] = j
  <2> SUFFICES ASSUME NEW j \in Nodes
               PROVE  mark'[j] = "closed" <=> \E p \in 1..Len(sorted') : sorted'[p] = j
    OBVIOUS
  <2>1. CASE j = k
    <3>1. N + 1 \in 1..Len(sorted')
      BY <1>a, <1>4
    <3> QED BY <1>3, <1>4, <2>1, <3>1
  <2>2. CASE j # k
    <3>1. mark'[j] = mark[j]
      BY <1>3, <2>2
    <3>2. \A p \in 1..Len(sorted') : p \in 1..N \/ p = N + 1
      BY <1>a, <1>4
    <3>3. \A p \in 1..N : p \in 1..Len(sorted')
      BY <1>a, <1>4
    <3> QED BY <1>4, <1>9, <2>2, <3>1, <3>2, <3>3
  <2> QED BY <2>1, <2>2
<1>12. DependenciesFirst'
  <2>0. DOMAIN sorted' = 1..(N + 1) /\ DOMAIN sorted = 1..N
    BY <1>1, <1>4 DEF Leave
  <2>1. ASSUME NEW p \in DOMAIN sorted', NEW a \in DOMAIN graph, Edge(graph, a, sorted'[p])
        PROVE  \E q \in 1..(p - 1) : sorted'[q] = a
    <3>1. CASE p \in 1..N
      <4>1. PICK q \in 1..(p - 1) : sorted[q] = a
        BY <1>4, <2>0, <2>1, <3>1 DEF SortInv, SortedInv, DependenciesFirst
      <4>2. q \in 1..N
        BY <1>a, <3>1
      <4> QED BY <1>4, <4>1, <4>2
    <3>2. CASE p = N + 1
      <4>1. mark[a] = "closed" /\ a \in Nodes
        BY <1>4, <1>8, <2>1, <3>2 DEF Edge
      <4>2. PICK q \in 1..N : sorted[q] = a
        BY <1>9, <4>1
      <4>3. q \in 1..(p - 1)
        BY <1>a, <3>2
      <4> QED BY <1>4, <4>2, <4>3
    <3> QED BY <1>a, <2>0, <3>1, <3>2
  <2>2. \A p \in 1..N : sorted'[p] # k
    BY <1>4, <1>6, <1>9, <1>a
  <2>3. ASSUME NEW p \in DOMAIN sorted', NEW q \in DOMAIN sorted', sorted'[p] = sorted'[q]
        PROVE  p = q
    <3>1. (p \in 1..N \/ p = N + 1) /\ (q \in 1..N \/ q = N + 1)
      BY <1>a, <2>0
    <3> QED
      BY <1>4, <2>0, <2>2, <2>3, <3>1 DEF SortInv, SortedInv, DependenciesFirst
  <2> QED BY <2>1, <2>3 DEF DependenciesFirst
<1> QED BY <1>3, <1>10, <1>11, <1>12 DEF SortInv, SortedInv, CycleIsReal

LEMMA SkipKeeps ==
  ASSUME TypeOK, SortInv, n = 0, Skip, UNCHANGED <<graph, source, n, x>>
  PROVE  SortInv'
<1> DEFINE k == stack[Len(stack)]
<1>1. /\ stack \in Seq(DOMAIN graph) /\ next \in [Nodes -> Nat \ {0}]
      /\ DOMAIN graph \subseteq Nodes /\ stack # << >>
  BY DEF TypeOK, SortTypeOK, IsGraph, Skip, Looking
<1>a. Len(stack) \in Nat \ {0} /\ k \in DOMAIN graph /\ k \in Nodes
  BY <1>1
<1>2. /\ next[k] <= Len(graph[k]) /\ mark[graph[k][next[k]]] = "closed"
      /\ next'[k] = next[k] + 1 /\ \A j \in Nodes \ {k} : next'[j] = next[j]
      /\ mark' = mark /\ stack' = stack /\ sorted' = sorted /\ result' = "busy"
  BY <1>1, <1>a DEF Skip, Looking, Dependency, Top
<1>3. next[k] \in Nat /\ Len(graph[k]) \in Nat
  BY <1>1, <1>a DEF TypeOK, IsGraph
<1>4. \A l \in 1..(Len(stack) - 1) : stack[l] # k /\ stack[l] \in Nodes
  BY <1>1, <1>a DEF SortInv, StackInv
<1>5. ASSUME NEW l \in 1..Len(stack)
      PROVE  Passed(stack[l])' /\ next'[stack[l]] <= Len(graph[stack[l]]) + 1
  <2>1. Passed(stack[l]) /\ next[stack[l]] <= Len(graph[stack[l]]) + 1
    BY DEF SortInv, StackInv
  <2>2. CASE l = Len(stack)
    <3>1. \A j \in 1..(next'[k] - 1) : j \in 1..(next[k] - 1) \/ j = next[k]
      BY <1>2, <1>3
    <3>2. \A j \in 1..(next'[k] - 1) : mark[graph[k][j]] = "closed"
      BY <1>2, <2>1, <2>2, <3>1 DEF Passed
    <3> QED BY <1>2, <1>3, <2>2, <3>2 DEF Passed
  <2>3. CASE l # Len(stack)
    <3>1. l \in 1..(Len(stack) - 1)
      BY <1>a, <2>3
    <3> QED BY <1>2, <1>4, <2>1, <3>1 DEF Passed
  <2> QED BY <2>2, <2>3
<1>6. \A l \in 1..(Len(stack) - 1) : next'[stack[l]] = next[stack[l]]
  BY <1>2, <1>4
<1>7. StackInv'
  BY <1>2, <1>5, <1>6 DEF SortInv, StackInv
<1>8. SortedInv'
  BY <1>2 DEF SortInv, SortedInv, DependenciesFirst, Edge
<1> QED BY <1>2, <1>7, <1>8 DEF SortInv, CycleIsReal

(***************************************************************************)
(* The node that is met open is on the stack, and each visit from it on    *)
(* waits for the next: the circle that tsort reports.                      *)
(***************************************************************************)
LEMMA CycleKeeps ==
  ASSUME TypeOK, SortInv, n = 0, Cycle, UNCHANGED <<graph, source, n, x>>
  PROVE  SortInv'
<1> DEFINE k == stack[Len(stack)]
<1>1. /\ stack \in Seq(DOMAIN graph) /\ next \in [Nodes -> Nat \ {0}]
      /\ DOMAIN graph \subseteq Nodes /\ stack # << >>
  BY DEF TypeOK, SortTypeOK, IsGraph, Cycle, Looking
<1>a. Len(stack) \in Nat \ {0} /\ k \in DOMAIN graph /\ k \in Nodes
  BY <1>1
<1>b. graph[k] \in Seq(DOMAIN graph) /\ next[k] \in Nat \ {0}
  BY <1>1, <1>a DEF TypeOK, IsGraph
<1>2. /\ next[k] <= Len(graph[k]) /\ mark[graph[k][next[k]]] = "open"
      /\ mark' = mark /\ stack' = stack /\ next' = next /\ sorted' = sorted
      /\ result' = "cycle"
  BY DEF Cycle, Looking, Dependency, Top
<1>3. next[k] \in DOMAIN graph[k] /\ graph[k][next[k]] \in Nodes
  BY <1>1, <1>b, <1>2
<1>4. PICK j \in 1..Len(stack) : stack[j] = graph[k][next[k]]
  BY <1>2, <1>3 DEF SortInv, StackInv
<1>5. Edge(graph, stack[j], k)
  BY <1>a, <1>3, <1>4 DEF Edge
<1>6. ASSUME NEW l \in j..(Len(stack) - 1)
      PROVE  Edge(graph, stack[l + 1], stack[l])
  <2>1. l \in 1..(Len(stack) - 1) /\ l \in 1..Len(stack)
    BY <1>a, <1>4
  <2>2. stack[l] \in DOMAIN graph
    BY <1>1, <2>1
  <2>3. graph[stack[l]] \in Seq(DOMAIN graph) /\ next[stack[l]] \in Nat \ {0}
    BY <1>1, <2>2 DEF TypeOK, IsGraph
  <2>4. /\ next[stack[l]] <= Len(graph[stack[l]])
        /\ graph[stack[l]][next[stack[l]]] = stack[l + 1]
    BY <2>1 DEF SortInv, StackInv
  <2>5. next[stack[l]] \in DOMAIN graph[stack[l]]
    BY <2>3, <2>4
  <2> QED BY <2>2, <2>4, <2>5 DEF Edge
<1>7. CycleIsReal'
  <2>1. j \in DOMAIN stack
    BY <1>1, <1>4
  <2> QED BY <1>2, <1>5, <1>6, <2>1 DEF CycleIsReal, Top
<1>8. StackInv' /\ SortedInv'
  BY <1>2 DEF SortInv, StackInv, SortedInv, DependenciesFirst, Edge, Passed
<1> QED BY <1>2, <1>7, <1>8 DEF SortInv

LEMMA FinishKeeps ==
  ASSUME TypeOK, SortInv, n = 0, Finish, UNCHANGED <<graph, source, n, x>>
  PROVE  SortInv'
<1>1. /\ UNCHANGED <<mark, stack, next, sorted>> /\ result' = "sorted"
      /\ stack = << >> /\ \A k \in DOMAIN graph : mark[k] # "new"
  BY DEF Finish
<1>2. /\ mark \in [Nodes -> {"new", "open", "closed"}] /\ DOMAIN graph \subseteq Nodes
  BY DEF TypeOK, SortTypeOK, IsGraph
<1>3. \A k \in Nodes : mark[k] # "open"
  <2>1. \A l \in 1..Len(stack) : FALSE
    BY <1>1
  <2> QED BY <2>1 DEF SortInv, StackInv
<1>4. \A k \in DOMAIN graph : mark[k] = "closed"
  BY <1>1, <1>2, <1>3
<1>5. StackInv' /\ SortedInv'
  BY <1>1 DEF SortInv, StackInv, SortedInv, DependenciesFirst, Edge, Passed
<1> QED BY <1>1, <1>4, <1>5 DEF SortInv, CycleIsReal

LEMMA SortInvInductive ==
  /\ Init => SortInv
  /\ TypeOK /\ SortInv /\ [Next]_vars => SortInv'
<1>1. Init => SortInv
  <2> SUFFICES ASSUME Init PROVE SortInv
    OBVIOUS
  <2>1. Untouched /\ x = 0
    BY DEF Init, SortInit, Untouched
  <2> QED
    BY <2>1
    DEF Untouched, SortInv, StackInv, SortedInv, DependenciesFirst, CycleIsReal
<1>2. TypeOK /\ SortInv /\ [Next]_vars => SortInv'
  <2> SUFFICES ASSUME TypeOK, SortInv, [Next]_vars PROVE SortInv'
    OBVIOUS
  <2>1. ASSUME Untouched', n' = 0 => x' = 0 PROVE SortInv'
    BY <2>1
    DEF Untouched, SortInv, StackInv, SortedInv, DependenciesFirst, CycleIsReal
  <2>2. ASSUME n > 0, UNCHANGED sortVars PROVE Untouched'
    BY <2>2 DEF SortInv, Untouched, sortVars
  <2>3. CASE AddPlain
    BY <2>1, <2>2, <2>3 DEF AddPlain
  <2>4. CASE StartLinks
    <3>1. n > 0 /\ UNCHANGED <<mark, stack, next, sorted>> /\ (result' = result \/ result' = "panic")
      BY <2>4 DEF StartLinks, sortVars
    <3>2. Untouched'
      BY <3>1 DEF SortInv, Untouched
    <3> QED BY <2>1, <2>4, <3>1, <3>2 DEF StartLinks
  <2>5. CASE Link
    BY <2>1, <2>2, <2>5 DEF Link, TypeOK
  <2>6. CASE EndLinks
    <3>1. n > 0
      BY <2>6 DEF EndLinks, TypeOK
    <3> QED BY <2>1, <2>2, <2>6, <3>1 DEF EndLinks
  <2>7. CASE Sort
    <3>0. n = 0 /\ UNCHANGED <<graph, source, n, x>>
      BY <2>7 DEF Sort, SortNext
    <3>1. CASE Root
      BY <3>0, <3>1, EnterKeeps DEF Root
    <3>2. CASE Descend
      <4>1. /\ stack # << >> /\ next[Top] <= Len(graph[Top])
            /\ graph[Top][next[Top]] = Dependency /\ mark[Dependency] = "new"
            /\ result = "busy" /\ Enter(Dependency)
        BY <3>2 DEF Descend, Looking, Dependency
      <4>2. Dependency \in DOMAIN graph
        <5>1. Top \in DOMAIN graph /\ next[Top] \in Nat \ {0}
          BY <4>1 DEF Top, TypeOK, SortTypeOK, IsGraph
        <5> QED BY <4>1, <5>1 DEF Dependency, TypeOK, IsGraph
      <4> QED BY <3>0, <4>1, <4>2, EnterKeeps
    <3>3. CASE Skip
      BY <3>0, <3>3, SkipKeeps
    <3>4. CASE Cycle
      BY <3>0, <3>4, CycleKeeps
    <3>5. CASE Leave
      BY <3>0, <3>5, LeaveKeeps
    <3>6. CASE Finish
      BY <3>0, <3>6, FinishKeeps
    <3> QED BY <2>7, <3>1, <3>2, <3>3, <3>4, <3>5, <3>6 DEF Sort, SortNext
  <2>8. CASE UNCHANGED vars
    BY <2>8
    DEF vars, SortInv, Untouched, StackInv, SortedInv, DependenciesFirst,
        CycleIsReal, Edge, Passed, Top
  <2> QED BY <2>3, <2>4, <2>5, <2>6, <2>7, <2>8 DEF Next, Terminated
<1> QED BY <1>1, <1>2

(***************************************************************************)
(* tsort puts a node out once, after everything it depends on, whatever    *)
(* the graph and the order of traversal.                                   *)
(***************************************************************************)
THEOREM SortSound == Spec => []DependenciesFirst
<1>1. SortInv => DependenciesFirst
  BY DEF SortInv, SortedInv
<1> QED BY <1>1, SortInvInductive, TypeCorrect, PTL DEF Spec

(***************************************************************************)
(* tsort reports a circular dependency only when the graph has one.        *)
(***************************************************************************)
THEOREM CycleSound == Spec => []CycleIsReal
<1>1. SortInv => CycleIsReal
  BY DEF SortInv
<1> QED BY <1>1, SortInvInductive, TypeCorrect, PTL DEF Spec

(***************************************************************************)
(* The invariant of the construction: the positions already considered     *)
(* have all the edges they ask for, and the one being considered has those *)
(* towards the positions already compared.                                 *)
(***************************************************************************)
Tied(k, j) ==
  /\ source[j].res = source[k].req => Edge(graph, j, k)
  /\ source[j].res = source[k].bef => Edge(graph, k, j)

Linked(k) ==
  IF Plain(k) THEN /\ k \in DOMAIN graph
                   /\ k # 1 /\ Plain(k - 1) => Edge(graph, k - 1, k)
  ELSE \A j \in DOMAIN source : Tied(k, j)

BuildInv ==
  /\ \A k \in DOMAIN source : k > n => Linked(k)
  /\ x > 0 => ~ Plain(n) /\ \A j \in DOMAIN source : j < x => Tied(n, j)

\* A graph that only grows keeps every link.
LEMMA GrowthKeepsLinks ==
  ASSUME DOMAIN graph \subseteq DOMAIN graph', source' = source,
         \A c, d : Edge(graph, c, d) => Edge(graph', c, d)
  PROVE  /\ \A k, j : Tied(k, j) => Tied(k, j)'
         /\ \A k : Linked(k) => Linked(k)'
         /\ \A k : Plain(k) <=> Plain(k)'
<1>1. \A k, j : Tied(k, j) => Tied(k, j)'
  BY DEF Tied
<1>2. \A k : Plain(k) <=> Plain(k)'
  BY DEF Plain
<1>3. \A k : Linked(k) => Linked(k)'
  BY <1>1, <1>2 DEF Linked
<1> QED BY <1>1, <1>2, <1>3

LEMMA BuildInvInductive ==
  /\ Init => BuildInv
  /\ TypeOK /\ BuildInv /\ [Next]_vars => BuildInv'
<1>1. Init => BuildInv
  <2> SUFFICES ASSUME Init PROVE BuildInv
    OBVIOUS
  <2>1. source \in Seq(Promise)
    BY DagAssumption DEF Init
  <2> QED BY <2>1 DEF Init, BuildInv
<1>2. TypeOK /\ BuildInv /\ [Next]_vars => BuildInv'
  <2> SUFFICES ASSUME TypeOK, BuildInv, [Next]_vars PROVE BuildInv'
    OBVIOUS
  <2>0. /\ DOMAIN source = 1..Len(source) /\ DOMAIN source \subseteq Nodes
        /\ Len(source) \in Nat
        /\ n \in 0..Len(source) /\ x \in 0..(Len(source) + 1)
    BY DEF TypeOK
  <2>b. IsGraph(graph)
    BY DEF TypeOK
  <2>1. CASE AddPlain
    <3>1. n \in DOMAIN source /\ source' = source /\ x' = 0 /\ n' = n - 1
      BY <2>0, <2>1 DEF AddPlain
    <3>a. n \in Nodes
      BY <2>0, <3>1
    <3>2. /\ DOMAIN Add(graph, <<n>>) = DOMAIN graph \cup {n}
          /\ \A c, d : Edge(graph, c, d) => Edge(Add(graph, <<n>>), c, d)
      BY <2>b, <3>a, AddNode
    <3>3. ASSUME NEW a \in Nodes
          PROVE  /\ DOMAIN Add(graph, <<a, n>>) = DOMAIN graph \cup {a, n}
                 /\ Edge(Add(graph, <<a, n>>), a, n)
                 /\ \A c, d : Edge(graph, c, d) => Edge(Add(graph, <<a, n>>), c, d)
      BY <2>b, <3>a, AddEdge
    <3>4. n # 1 => n - 1 \in Nodes
      BY <2>0, <3>1
    <3>5. /\ DOMAIN graph \subseteq DOMAIN graph' /\ n \in DOMAIN graph'
          /\ \A c, d : Edge(graph, c, d) => Edge(graph', c, d)
          /\ n # 1 /\ Plain(n - 1) => Edge(graph', n - 1, n)
      BY <2>1, <3>2, <3>3, <3>4 DEF AddPlain
    <3>6. \A k : Linked(k) => Linked(k)'
      BY <3>1, <3>5, GrowthKeepsLinks
    <3>7. ASSUME NEW k, k = n PROVE Linked(k)'
      BY <2>1, <3>1, <3>5, <3>7 DEF Linked, AddPlain, Plain
    <3>8. ASSUME NEW k \in DOMAIN source, k > n' PROVE Linked(k)'
      <4>1. k = n \/ k > n
        BY <2>0, <3>1, <3>8
      <4> QED BY <3>6, <3>7, <4>1 DEF BuildInv
    <3> QED BY <3>1, <3>8 DEF BuildInv
  <2>2. CASE StartLinks
    BY <2>0, <2>2 DEF StartLinks, BuildInv, Linked, Tied, Plain
  <2>3. CASE Link
    <3>1. /\ n \in Nodes /\ x \in Nodes /\ x \in DOMAIN source /\ source' = source
          /\ x' = x + 1 /\ n' = n
      BY <2>0, <2>3 DEF Link, TypeOK
    <3>2. PICK g : /\ g = IF source[x].res = source[n].req
                          THEN Add(graph, <<x, n>>) ELSE graph
                   /\ graph' = IF source[x].res = source[n].bef
                               THEN Add(g, <<n, x>>) ELSE g
      BY <2>3 DEF Link
    <3>3. /\ IsGraph(g) /\ DOMAIN graph \subseteq DOMAIN g
          /\ source[x].res = source[n].req => Edge(g, x, n)
          /\ \A c, d : Edge(graph, c, d) => Edge(g, c, d)
      <4>1. /\ IsGraph(Add(graph, <<x, n>>)) /\ Edge(Add(graph, <<x, n>>), x, n)
            /\ DOMAIN Add(graph, <<x, n>>) = DOMAIN graph \cup {x, n}
            /\ \A c, d : Edge(graph, c, d) => Edge(Add(graph, <<x, n>>), c, d)
        BY <2>b, <3>1, AddEdge
      <4> QED BY <2>b, <3>2, <4>1
    <3>4. /\ DOMAIN g \subseteq DOMAIN graph'
          /\ source[x].res = source[n].bef => Edge(graph', n, x)
          /\ \A c, d : Edge(g, c, d) => Edge(graph', c, d)
      <4>1. /\ Edge(Add(g, <<n, x>>), n, x)
            /\ DOMAIN Add(g, <<n, x>>) = DOMAIN g \cup {n, x}
            /\ \A c, d : Edge(g, c, d) => Edge(Add(g, <<n, x>>), c, d)
        BY <3>1, <3>3, AddEdge
      <4> QED BY <3>2, <4>1
    <3>5. /\ \A k, j : Tied(k, j) => Tied(k, j)'
          /\ \A k : Linked(k) => Linked(k)'
          /\ \A k : Plain(k) <=> Plain(k)'
      BY <3>1, <3>3, <3>4, GrowthKeepsLinks
    <3>6. ASSUME NEW k, NEW j, k = n, j = x PROVE Tied(k, j)'
      BY <3>1, <3>3, <3>4, <3>6 DEF Tied
    <3>7. ASSUME NEW j \in DOMAIN source, j < x', NEW k, k = n PROVE Tied(k, j)'
      <4>1. j < x \/ j = x
        BY <2>0, <3>1, <3>7
      <4>2. x > 0
        BY <2>3 DEF Link
      <4> QED BY <3>5, <3>6, <3>7, <4>1, <4>2 DEF BuildInv
    <3>8. ~ Plain(n)
      BY <2>3 DEF Link, BuildInv
    <3>9. \A k \in DOMAIN source : k > n => Linked(k)'
      BY <3>5 DEF BuildInv
    <3> QED BY <3>1, <3>5, <3>7, <3>8, <3>9 DEF BuildInv
  <2>4. CASE EndLinks
    <3>1. /\ x' = 0 /\ n' = n - 1 /\ graph' = graph /\ source' = source
          /\ \A j \in DOMAIN source : j < x
      BY <2>0, <2>4 DEF EndLinks
    <3>2. x > 0
      BY <2>0, <2>4 DEF EndLinks
    <3>3. Linked(n)
      BY <3>1, <3>2 DEF BuildInv, Linked
    <3>4. \A k : Linked(k) => Linked(k)'
      BY <3>1, GrowthKeepsLinks
    <3>5. ASSUME NEW k \in DOMAIN source, k > n' PROVE Linked(k)'
      <4>1. k = n \/ k > n
        BY <2>0, <3>1, <3>5
      <4> QED BY <3>3, <3>4, <4>1 DEF BuildInv
    <3> QED BY <3>1, <3>5 DEF BuildInv
  <2>5. CASE Sort \/ UNCHANGED vars
    BY <2>5 DEF Sort, SortNext, vars, BuildInv, Linked, Tied, Plain
  <2> QED BY <2>1, <2>2, <2>3, <2>4, <2>5 DEF Next, Terminated
<1> QED BY <1>1, <1>2

\* Once the graph is built every declaration between two promises is an edge.
LEMMA DeclaredIsEdge ==
  ASSUME TypeOK, BuildInv, n = 0,
         NEW j \in DOMAIN source, NEW k \in DOMAIN source, Declared(j, k)
  PROVE  Edge(graph, j, k)
<1>1. /\ DOMAIN source = 1..Len(source) /\ Len(source) \in Nat
      /\ source[j] \in Promise /\ source[k] \in Promise
  BY DEF TypeOK
<1>2. Linked(j) /\ Linked(k)
  BY <1>1 DEF BuildInv
<1>3. CASE source[k].req = source[j].res
  <2>1. ~ Plain(k)
    BY <1>1, <1>3, DagAssumption DEF Plain, Promise
  <2> QED BY <1>2, <1>3, <2>1 DEF Linked, Tied
<1>4. CASE source[j].bef = source[k].res
  <2>1. ~ Plain(j)
    BY <1>1, <1>4, DagAssumption DEF Plain, Promise
  <2> QED BY <1>2, <1>4, <2>1 DEF Linked, Tied
<1>5. CASE j = k - 1 /\ Plain(j) /\ Plain(k)
  <2>1. k # 1
    BY <1>1, <1>5
  <2> QED BY <1>2, <1>5, <2>1 DEF Linked
<1> QED BY <1>3, <1>4, <1>5 DEF Declared

(***************************************************************************)
(* A policy that is accepted, of any size, runs in an order that honours   *)
(* every require, every before and the order of plain neighbours (cli.lua  *)
(* 174-230).  BuildInv says each of them is an edge, SortInv that the sort *)
(* left no node out and put the target of each edge after its source.      *)
(***************************************************************************)
THEOREM PolicyOrder == Spec => []OrderHonoured
<1>1. TypeOK /\ SortInv /\ BuildInv => OrderHonoured
  <2> SUFFICES ASSUME TypeOK, SortInv, BuildInv, result = "sorted",
                      NEW j \in DOMAIN source, NEW k \in DOMAIN source, Declared(j, k)
               PROVE  Runs(j, k)
    BY DEF OrderHonoured
  <2>0. /\ DOMAIN source = 1..Len(source) /\ Len(source) \in Nat
        /\ source[j] \in Promise /\ source[k] \in Promise
        /\ n \in 0..Len(source) /\ sorted \in Seq(DOMAIN graph)
    BY DEF TypeOK, SortTypeOK
  <2>1. n = 0
    BY <2>0 DEF SortInv, Untouched
  <2>3. Edge(graph, j, k)
    BY <2>1, DeclaredIsEdge
  <2>4. j \in DOMAIN graph /\ k \in DOMAIN graph /\ k \in Nodes
    BY <2>3 DEF TypeOK, IsGraph, Edge
  <2>5. PICK q \in 1..Len(sorted) : sorted[q] = k
    BY <2>4 DEF SortInv, SortedInv
  <2>6. q \in DOMAIN sorted
    BY <2>0, <2>5
  <2>7. PICK p \in 1..(q - 1) : sorted[p] = j
    BY <2>3, <2>4, <2>5, <2>6 DEF SortInv, SortedInv, DependenciesFirst
  <2>8. p \in DOMAIN sorted /\ p < q
    BY <2>0, <2>5, <2>7
  <2> QED BY <2>5, <2>6, <2>7, <2>8 DEF Runs
<1> QED
  BY <1>1, TypeCorrect, SortInvInductive, BuildInvInductive, PTL DEF Spec

(***************************************************************************)
(* The other half of the construction: the graph has no node but those of  *)
(* the policy that are plain or that a declaration ties to another, and no *)
(* edge that is not declared.                                              *)
(***************************************************************************)
ExactInv ==
  /\ \A k \in DOMAIN graph : k \in DOMAIN source /\ ~ Dangling(k)
  /\ \A j, k : Edge(graph, j, k) => j \in DOMAIN source /\ k \in DOMAIN source /\ Declared(j, k)

\* A declared edge adds nothing else.
LEMMA DeclaredEdgeIsExact ==
  ASSUME NEW g, IsGraph(g), DOMAIN source \subseteq Nodes,
         \A k \in DOMAIN g : k \in DOMAIN source /\ ~ Dangling(k),
         \A j, k : Edge(g, j, k) =>
                     j \in DOMAIN source /\ k \in DOMAIN source /\ Declared(j, k),
         NEW a \in DOMAIN source, NEW b \in DOMAIN source, Declared(a, b)
  PROVE  /\ IsGraph(Add(g, <<a, b>>))
         /\ \A k \in DOMAIN Add(g, <<a, b>>) : k \in DOMAIN source /\ ~ Dangling(k)
         /\ \A j, k : Edge(Add(g, <<a, b>>), j, k) =>
                        j \in DOMAIN source /\ k \in DOMAIN source /\ Declared(j, k)
<1>1. a \in Nodes /\ b \in Nodes /\ ~ Dangling(a) /\ ~ Dangling(b)
  BY DEF Dangling
<1>2. /\ IsGraph(Add(g, <<a, b>>))
      /\ DOMAIN Add(g, <<a, b>>) = DOMAIN g \cup {a, b}
      /\ \A c, d : Edge(Add(g, <<a, b>>), c, d) => Edge(g, c, d) \/ (c = a /\ d = b)
  BY <1>1, AddEdge
<1>3. \A k \in DOMAIN Add(g, <<a, b>>) : k \in DOMAIN source /\ ~ Dangling(k)
  BY <1>1, <1>2
<1> QED BY <1>2, <1>3

LEMMA ExactInvInductive ==
  /\ Init => ExactInv
  /\ TypeOK /\ ExactInv /\ [Next]_vars => ExactInv'
<1>1. Init => ExactInv
  BY DEF Init, ExactInv, EmptyGraph, Edge
<1>2. TypeOK /\ ExactInv /\ [Next]_vars => ExactInv'
  <2> SUFFICES ASSUME TypeOK, ExactInv, [Next]_vars PROVE ExactInv'
    OBVIOUS
  <2>0. /\ DOMAIN source = 1..Len(source) /\ DOMAIN source \subseteq Nodes
        /\ Len(source) \in Nat /\ IsGraph(graph)
        /\ n \in 0..Len(source) /\ x \in 0..(Len(source) + 1) /\ (x > 0 => n > 0)
    BY DEF TypeOK
  <2>1. CASE AddPlain
    <3>1. n \in DOMAIN source /\ n \in Nodes /\ source' = source /\ ~ Dangling(n)
      BY <2>0, <2>1 DEF AddPlain, Dangling
    <3>2. CASE n # 1 /\ Plain(n - 1)
      <4>1. n - 1 \in DOMAIN source /\ Declared(n - 1, n)
        BY <2>0, <2>1, <3>1, <3>2 DEF AddPlain, Declared
      <4>2. graph' = Add(graph, <<n - 1, n>>)
        BY <2>1, <3>2 DEF AddPlain
      <4>3. /\ \A k \in DOMAIN Add(graph, <<n - 1, n>>) : k \in DOMAIN source /\ ~ Dangling(k)
            /\ \A j, k : Edge(Add(graph, <<n - 1, n>>), j, k) =>
                  j \in DOMAIN source /\ k \in DOMAIN source /\ Declared(j, k)
        BY <2>0, <3>1, <4>1, DeclaredEdgeIsExact DEF ExactInv
      <4> QED BY <3>1, <4>2, <4>3 DEF ExactInv, Dangling, Declared, Plain
    <3>3. CASE ~ (n # 1 /\ Plain(n - 1))
      <4>1. graph' = Add(graph, <<n>>)
        BY <2>1, <3>3 DEF AddPlain
      <4>2. /\ DOMAIN graph' = DOMAIN graph \cup {n}
            /\ \A c, d : Edge(graph, c, d) <=> Edge(graph', c, d)
        BY <2>0, <3>1, <4>1, AddNode
      <4> QED BY <3>1, <4>2 DEF ExactInv, Dangling, Declared, Plain
    <3> QED BY <3>2, <3>3
  <2>2. CASE Link
    <3>1. n \in DOMAIN source /\ x \in DOMAIN source /\ source' = source
      BY <2>0, <2>2 DEF Link
    <3>2. PICK g : /\ g = IF source[x].res = source[n].req
                          THEN Add(graph, <<x, n>>) ELSE graph
                   /\ graph' = IF source[x].res = source[n].bef
                               THEN Add(g, <<n, x>>) ELSE g
      BY <2>2 DEF Link
    <3>3. /\ IsGraph(g)
          /\ \A k \in DOMAIN g : k \in DOMAIN source /\ ~ Dangling(k)
          /\ \A j, k : Edge(g, j, k) =>
                j \in DOMAIN source /\ k \in DOMAIN source /\ Declared(j, k)
      <4>1. CASE source[x].res = source[n].req
        <5>1. Declared(x, n)
          BY <4>1 DEF Declared
        <5> QED BY <2>0, <3>1, <3>2, <4>1, <5>1, DeclaredEdgeIsExact DEF ExactInv
      <4>2. CASE source[x].res # source[n].req
        BY <2>0, <3>2, <4>2 DEF ExactInv
      <4> QED BY <4>1, <4>2
    <3>4. /\ \A k \in DOMAIN graph' : k \in DOMAIN source /\ ~ Dangling(k)
          /\ \A j, k : Edge(graph', j, k) =>
                j \in DOMAIN source /\ k \in DOMAIN source /\ Declared(j, k)
      <4>1. CASE source[x].res = source[n].bef
        <5>1. Declared(n, x)
          BY <4>1 DEF Declared
        <5> QED BY <2>0, <3>1, <3>2, <3>3, <4>1, <5>1, DeclaredEdgeIsExact
      <4>2. CASE source[x].res # source[n].bef
        BY <3>2, <3>3, <4>2
      <4> QED BY <4>1, <4>2
    <3> QED BY <3>1, <3>4 DEF ExactInv, Dangling, Declared, Plain
  <2>3. CASE StartLinks \/ EndLinks \/ Sort \/ UNCHANGED vars
    <3>1. graph' = graph /\ source' = source
      BY <2>3 DEF StartLinks, EndLinks, Sort, SortNext, vars
    <3> QED BY <3>1 DEF ExactInv, Dangling, Declared, Plain
  <2> QED BY <2>1, <2>2, <2>3 DEF Next, Terminated
<1> QED BY <1>1, <1>2

(***************************************************************************)
(* An accepted policy loses the promises nothing ties to another and no    *)
(* others (cli.lua 174-230): what is sorted is what the graph has, which   *)
(* is every promise but those.                                             *)
(***************************************************************************)
THEOREM NothingElseDropped == Spec => []OnlyDanglingDropped
<1>1. TypeOK /\ SortInv /\ BuildInv /\ ExactInv => OnlyDanglingDropped
  <2> SUFFICES ASSUME TypeOK, SortInv, BuildInv, ExactInv, result = "sorted"
               PROVE  {k \in DOMAIN source : ~ Dangling(k)} = {sorted[p] : p \in DOMAIN sorted}
    BY DEF OnlyDanglingDropped
  <2>0. /\ DOMAIN source = 1..Len(source) /\ Len(source) \in Nat /\ n \in 0..Len(source)
        /\ sorted \in Seq(DOMAIN graph) /\ DOMAIN sorted = 1..Len(sorted)
        /\ IsGraph(graph)
    BY DEF TypeOK, SortTypeOK
  <2>1. n = 0
    BY <2>0 DEF SortInv, Untouched
  <2>2. \A p \in DOMAIN sorted : sorted[p] \in DOMAIN source /\ ~ Dangling(sorted[p])
    BY <2>0 DEF ExactInv
  <2>3. ASSUME NEW k \in DOMAIN source, ~ Dangling(k) PROVE k \in DOMAIN graph
    <3>1. CASE Plain(k)
      BY <2>0, <2>1, <3>1 DEF BuildInv, Linked
    <3>2. CASE ~ Plain(k)
      <4>1. PICK j \in DOMAIN source : Declared(j, k) \/ Declared(k, j)
        BY <2>3, <3>2 DEF Dangling
      <4>2. Edge(graph, j, k) \/ Edge(graph, k, j)
        BY <2>1, <4>1, DeclaredIsEdge
      <4> QED BY <2>0, <4>2 DEF Edge, IsGraph
    <3> QED BY <3>1, <3>2
  <2>4. ASSUME NEW k \in DOMAIN graph PROVE \E p \in DOMAIN sorted : sorted[p] = k
    BY <2>0 DEF SortInv, SortedInv, IsGraph
  <2> QED BY <2>2, <2>3, <2>4
<1> QED
  BY <1>1, TypeCorrect, SortInvInductive, BuildInvInductive, ExactInvInductive, PTL DEF Spec

(***************************************************************************)
(* A policy is refused only if no order at all meets its declarations: the *)
(* circle tsort found is one of declarations (cli.lua 225-228).            *)
(***************************************************************************)
THEOREM RefusalJustified == Spec => []RefusedOnlyIfImpossible
<1>1. TypeOK /\ SortInv /\ ExactInv => RefusedOnlyIfImpossible
  <2> SUFFICES ASSUME TypeOK, SortInv, ExactInv, result = "cycle"
               PROVE  \E S \in SUBSET DOMAIN source :
                        S # {} /\ \A k \in S : \E j \in S : Declared(j, k)
    BY DEF RefusedOnlyIfImpossible
  <2>0. stack \in Seq(DOMAIN graph) /\ DOMAIN stack = 1..Len(stack) /\ Len(stack) \in Nat
    BY DEF TypeOK, SortTypeOK
  <2>1. PICK j \in DOMAIN stack :
          /\ Edge(graph, stack[j], Top)
          /\ \A l \in j..(Len(stack) - 1) : Edge(graph, stack[l + 1], stack[l])
    BY DEF SortInv, CycleIsReal
  <2> DEFINE S == {stack[l] : l \in j..Len(stack)}
  <2>2. j \in j..Len(stack) /\ Len(stack) \in j..Len(stack) /\ j \in Nat
    BY <2>0, <2>1
  <2>3. \A l \in j..Len(stack) : l \in DOMAIN stack /\ stack[l] \in DOMAIN source
    BY <2>0, <2>1, <2>2 DEF ExactInv
  <2>4. S \in SUBSET DOMAIN source /\ S # {}
    BY <2>2, <2>3
  <2>5. ASSUME NEW k \in S PROVE \E i \in S : Declared(i, k)
    <3>1. PICK l \in j..Len(stack) : k = stack[l]
      OBVIOUS
    <3>2. CASE l = Len(stack)
      <4>1. stack[j] \in S /\ Edge(graph, stack[j], k)
        BY <2>1, <2>2, <3>1, <3>2 DEF Top
      <4> QED BY <4>1 DEF ExactInv
    <3>3. CASE l # Len(stack)
      <4>1. l \in j..(Len(stack) - 1) /\ l + 1 \in j..Len(stack)
        BY <2>0, <2>2, <3>1, <3>3
      <4>2. stack[l + 1] \in S /\ Edge(graph, stack[l + 1], k)
        BY <2>1, <3>1, <4>1
      <4> QED BY <4>2 DEF ExactInv
    <3> QED BY <3>2, <3>3
  <2> QED BY <2>4, <2>5
<1> QED BY <1>1, TypeCorrect, SortInvInductive, ExactInvInductive, PTL DEF Spec
=============================================================================
