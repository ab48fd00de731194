---------------------------- MODULE MCCollector ----------------------------
(* Small heaps for the collector of Lua: one for each of the mechanisms    *)
(* that make its marking hard, with a few operations left to the program.  *)
EXTENDS Collector

CONSTANTS a, b, c, d, u1

MCObj == {Main, a, b, c, d}
MCUpv == {u1}

Heap(kind, node, stack, allgc, finobj) ==
    [kind |-> kind, mark |-> [o \in Obj |-> "w0"],
     fin |-> [o \in Obj |-> Contains(finobj, o)],
     node |-> [o \in Obj |-> IF o \in DOMAIN node THEN node[o] ELSE <<>>],
     stack |-> [o \in Obj |-> IF o = Main THEN stack ELSE <<>>],
     up |-> [o \in Obj |-> Nil], uv |-> [w \in Upv |-> NoUpval], twups |-> {},
     allgc |-> allgc, finobj |-> finobj, tobefnz |-> <<>>, order |-> Reverse(finobj),
     gray |-> <<>>, grayagain |-> <<>>, weak |-> <<>>, allweak |-> <<>>,
     ephemeron |-> <<>>, gcstate |-> "pause", white |-> "w0", finnum |-> 0,
     sweepgc |-> "none", emergency |-> FALSE, thrown |-> FALSE, log |-> <<>>,
     running |-> Main, sweepmax |-> 4, finalizable |-> ToSet(finobj), effects |-> {"drop"}]

K(p, q, r, s) == [o \in Obj |-> CASE o = a -> p [] o = b -> q [] o = c -> r [] o = d -> s
                                  [] OTHER -> "thread"]
E(k, v) == [k |-> k, v |-> v]

\* a table and userdata whose fields the program changes while they are marked
Barriers == Heap(K("strong", "udata", "strong", "string"),
                 a :> <<E(Num, b), NoNode>> @@ b :> <<NoNode>> @@ c :> <<NoNode>>,
                 <<a, b>>, <<a, b, d>>, <<>>)
\* two ephemerons: the value of one, which is its own key, is the key of the other
Ephemerons == Heap(K("ephemeron", "ephemeron", "strong", "strong"),
                   a :> <<E(c, d), E(d, Num)>> @@ b :> <<E(b, c)>> @@ c :> <<NoNode>> @@ d :> <<NoNode>>,
                   <<b, a>>, <<a, b, c, d>>, <<>>)
\* weak values and an all-weak table, one of the values a string
WeakTables == Heap(K("weakval", "allweak", "strong", "string"),
                   a :> <<E(Num, c), E(c, d)>> @@ b :> <<E(c, c)>> @@ c :> <<NoNode>>,
                   <<a, b, c>>, <<d, c, b, a>>, <<>>)
\* a coroutine and a closure over one of its locals
Coroutine == [Heap(K("thread", "lcl", "strong", "strong"),
                   c :> <<NoNode>> @@ d :> <<NoNode>>,
                   <<b, a>>, <<b, c, a, d>>, <<>>)
              EXCEPT !.stack[a] = <<c>>, !.up[b] = u1, !.twups = {a},
                     !.uv[u1] = [th |-> a, at |-> 1, v |-> Nil, touched |-> TRUE]]
\* objects with finalizers that refer to each other and sit in weak tables
Finalizers == [Heap(K("udata", "strong", "ephemeron", "weakval"),
                    a :> <<E(Num, b)>> @@ b :> <<E(Num, a)>> @@ c :> <<E(a, b)>> @@ d :> <<E(Num, a)>>,
                    <<c, d, a>>, <<c, d>>, <<b, a>>)
               EXCEPT !.effects = Effects]
\* nothing but a table yet: closures over the local variable that holds it
Closures == Heap(K("lcl", "lcl", "strong", "string"), c :> <<NoNode>>, <<c>>, <<c>>, <<>>)
MCScenarios == {Barriers, Ephemerons, WeakTables, Coroutine, Closures, Finalizers}

=============================================================================
