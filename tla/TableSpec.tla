----------------------------- MODULE TableSpec -----------------------------
(* What a Lua table promises, without its array, its hash and its           *)
(* collisions: a finite map from keys to values, in which nil is absence,   *)
(* a length that is some border, a traversal that sees every key once, and  *)
(* the functions of the table library as whole assignments.                 *)
EXTENDS Integers, FiniteSets

CONSTANTS Keys,         \* the normalised keys: pairs of a type and a number
          Values,       \* the values but nil
          Nil

IntKey(i) == <<"int", i>>
Indices == {k[2] : k \in {x \in Keys : x[1] = "int"}}
Cell == Values \cup {Nil}

VARIABLES map,          \* from Keys to Cell
          trav,         \* a traversal by next is going on
          seen          \* the keys it has returned

vars == <<map, trav, seen>>

Present == {k \in Keys : map[k] # Nil}
At(i) == IF i \in Indices THEN map[IntKey(i)] ELSE Nil
\* the lengths the # operator may answer
Borders == {n \in Indices \cup {0} : (n = 0 \/ At(n) # Nil) /\ At(n + 1) = Nil}
Shifted(f(_), S) == [k \in Keys |-> IF k[1] = "int" /\ k[2] \in S THEN f(k[2]) ELSE map[k]]

Init == map \in [Keys -> {Nil}] /\ trav = FALSE /\ seen = {}

Assign(k, v) == map' = [map EXCEPT ![k] = v] /\ UNCHANGED <<trav, seen>>
\* a field that exists may be assigned, also nil, while the table is traversed
Store == \E k \in Keys :
    (trav => k \in Present) /\ \E v \in Cell : Assign(k, v)

Begin == ~trav /\ trav' = TRUE /\ seen' = {} /\ UNCHANGED map
Visit == trav /\ (\E k \in Present \ seen : seen' = seen \cup {k}) /\ UNCHANGED <<map, trav>>
Finish == trav /\ Present \subseteq seen /\ trav' = FALSE /\ seen' = {} /\ UNCHANGED map

SetList == \E n \in Indices \cup {0}, v \in Cell :
    ~trav /\ map' = Shifted(LAMBDA i : v, 1..n) /\ UNCHANGED <<trav, seen>>
Insert == \E n \in Borders, v \in Values : \E pos \in 1..(n + 1) :
    /\ ~trav /\ n + 1 \in Indices
    /\ map' = Shifted(LAMBDA i : IF i = pos THEN v ELSE At(i - 1), pos..(n + 1))
    /\ UNCHANGED <<trav, seen>>
Remove == \E n \in Borders : \E pos \in (1..(n + 1)) \cup {n} :
    /\ ~trav
    /\ map' = Shifted(LAMBDA i : IF i < n THEN At(i + 1) ELSE Nil, pos..(IF pos > n THEN pos ELSE n))
    /\ UNCHANGED <<trav, seen>>
Move == \E f \in Indices, t \in Indices : \E e \in {x \in Indices : x >= f} :
    /\ ~trav /\ t + (e - f) \in Indices
    /\ map' = Shifted(LAMBDA i : At(f + (i - t)), t..(t + (e - f)))
    /\ UNCHANGED <<trav, seen>>

Next == Begin \/ Visit \/ Finish \/ Store \/ SetList \/ Insert \/ Remove \/ Move
Spec == Init /\ [][Next]_vars
=============================================================================
