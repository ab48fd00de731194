-------------------------------- MODULE Sort --------------------------------
(* table.sort (ltablib.c): quicksort with a middle or a random pivot, the    *)
(* shorter part in a call of its own and the longer one in a loop.  Each     *)
(* comparison is a step, and calls the order function of the program, which  *)
(* may be no order at all or raise an error.                                 *)
EXTENDS Integers, Sequences

CONSTANTS N,            \* elements of the array
          RanLimit,     \* longer intervals take a random pivot, RANLIMIT
          Imbalance,    \* the ratio of the parts that asks for one, 128
          Keys          \* what the elements are compared by

ASSUME SortAssumption == /\ N \in Nat /\ Keys \subseteq Int
                         /\ RanLimit \in Nat /\ RanLimit >= 4 /\ Imbalance \in Nat \ {0}

VARIABLES a,            \* the array: which of the elements 1..N lies where
          key,          \* the key of each element
          honest,       \* the order function is "less" on the keys
          pc, lo, up,   \* the interval of the running call
          p, i, j,      \* its pivot and the two scans
          piv,          \* the element that is the pivot
          rnd,          \* randomized pivots are on
          stack         \* intervals left for the loops of the callers

vars == <<a, key, honest, pc, lo, up, p, i, j, piv, rnd, stack>>

Interval == [lo : 1..(N + 1), up : 0..N, rnd : BOOLEAN]

\* sort_comp: what the order function answers, here for elements x and y
Less(x, y) == IF honest THEN {key[x] < key[y]} ELSE BOOLEAN

\* set2
Swapped(x, y) == [a EXCEPT ![x] = a[y], ![y] = a[x]]

Init ==
    /\ a = [x \in 1..N |-> x] /\ key \in [1..N -> Keys] /\ honest \in BOOLEAN
    /\ ~honest => \A x, y \in 1..N : key[x] = key[y]    \* it ignores the keys
    /\ pc = "loop" /\ lo = 1 /\ up = N
    /\ p = 1 /\ i = 1 /\ j = 1 /\ piv = 1 /\ rnd = FALSE /\ stack = <<>>

-----------------------------------------------------------------------------
(* auxsort.                                                                 *)

\* a return: the loop of the caller goes on with the longer part
Loop ==
    /\ pc = "loop"
    /\ IF lo < up THEN pc' = "ends" /\ UNCHANGED <<lo, up, rnd, stack>>
       ELSE IF stack = <<>> THEN pc' = "done" /\ UNCHANGED <<lo, up, rnd, stack>>
       ELSE /\ lo' = Head(stack).lo /\ up' = Head(stack).up /\ rnd' = Head(stack).rnd
            /\ stack' = Tail(stack) /\ UNCHANGED pc
    /\ UNCHANGED <<a, key, honest, p, i, j, piv>>

\* the pivots choosePivot may take: in the second and third quarters
Pivots ==
    IF up - lo < RanLimit \/ ~rnd THEN {(lo + up) \div 2}
    ELSE LET r4 == (up - lo) \div 4 IN (lo + r4)..(lo + 3 * r4 - 1)

\* nothing is left of an interval of two or three elements once these are in order
Returns(n) == IF up - lo = n THEN /\ lo' = 1 /\ up' = 0
              ELSE UNCHANGED <<lo, up>>

Ends ==
    /\ pc = "ends"
    /\ \E less \in Less(a[up], a[lo]) : a' = IF less THEN Swapped(lo, up) ELSE a
    /\ p' \in Pivots
    /\ pc' = IF up - lo = 1 THEN "loop" ELSE "mid_lo"
    /\ Returns(1)
    /\ UNCHANGED <<key, honest, i, j, piv, rnd, stack>>

\* the pivot is put next to the upper end, and the scans start at the ends
StartScan(b) ==
    /\ pc' = IF up - lo = 2 THEN "loop" ELSE "scan_up"
    /\ IF up - lo = 2 THEN a' = b /\ UNCHANGED <<i, j, piv>>
       ELSE /\ piv' = b[p] /\ a' = [b EXCEPT ![p] = b[up - 1], ![up - 1] = b[p]]
            /\ i' = lo /\ j' = up - 1
    /\ Returns(2)

MidLo ==
    /\ pc = "mid_lo"
    /\ \E less \in Less(a[p], a[lo]) :
         IF less THEN StartScan(Swapped(p, lo))
         ELSE pc' = "mid_up" /\ UNCHANGED <<a, lo, up, i, j, piv>>
    /\ UNCHANGED <<key, honest, p, rnd, stack>>

MidUp ==
    /\ pc = "mid_up"
    /\ \E less \in Less(a[up], a[p]) : StartScan(IF less THEN Swapped(p, up) ELSE a)
    /\ UNCHANGED <<key, honest, p, rnd, stack>>

-----------------------------------------------------------------------------
(* partition.                                                               *)

\* mutant: the limit of the upward scan is one further
ScanUpFar ==
    /\ pc = "scan_up" /\ i' = i + 1
    /\ \E less \in Less(a[i'], piv) :
         pc' = IF ~less THEN "scan_down" ELSE IF i' = up THEN "error" ELSE "scan_up"
    /\ UNCHANGED <<a, key, honest, lo, up, p, j, piv, rnd, stack>>
ScanUp ==
    /\ pc = "scan_up" /\ i' = i + 1
    /\ \E less \in Less(a[i'], piv) :
         pc' = IF ~less THEN "scan_down" ELSE IF i' = up - 1 THEN "error" ELSE "scan_up"
    /\ UNCHANGED <<a, key, honest, lo, up, p, j, piv, rnd, stack>>

\* the parts around p: the shorter one is sorted by a call, and the loop goes
\* on with the other; a new randomization when they are too unequal
Divide(q) ==
    LET lower == q - lo < up - q
        n == IF lower THEN q - lo ELSE up - q
        rest == IF lower THEN [lo |-> q + 1, up |-> up] ELSE [lo |-> lo, up |-> q - 1]
        uneven == rest.up < rest.lo \/ (rest.up - rest.lo) \div Imbalance > n
    IN  \E r \in IF uneven THEN BOOLEAN ELSE {rnd} :
          /\ lo' = (IF lower THEN lo ELSE q + 1)
          /\ up' = (IF lower THEN q - 1 ELSE up)
          /\ stack' = <<[lo |-> rest.lo, up |-> rest.up, rnd |-> r]>> \o stack
          /\ UNCHANGED rnd

\* mutant: the pivot is not put back between the parts
ScanDownUnplaced ==
    /\ pc = "scan_down" /\ j' = j - 1
    /\ \E less \in Less(piv, a[j']) :
         \/ less /\ pc' = (IF j' < i THEN "error" ELSE "scan_down")
                 /\ UNCHANGED <<a, lo, up, p, rnd, stack>>
         \/ ~less /\ j' < i /\ a' = a
                  /\ p' = i /\ Divide(i) /\ pc' = "loop"
         \/ ~less /\ j' >= i /\ a' = Swapped(i, j') /\ pc' = "scan_up"
                  /\ UNCHANGED <<lo, up, p, rnd, stack>>
    /\ UNCHANGED <<key, honest, i, piv>>
\* mutant: the second swap writes one element twice
ScanDownTwice ==
    /\ pc = "scan_down" /\ j' = j - 1
    /\ \E less \in Less(piv, a[j']) :
         \/ less /\ pc' = (IF j' < i THEN "error" ELSE "scan_down")
                 /\ UNCHANGED <<a, lo, up, p, rnd, stack>>
         \/ ~less /\ j' < i /\ a' = Swapped(up - 1, i)
                  /\ p' = i /\ Divide(i) /\ pc' = "loop"
         \/ ~less /\ j' >= i /\ a' = [a EXCEPT ![i] = a[j']] /\ pc' = "scan_up"
                  /\ UNCHANGED <<lo, up, p, rnd, stack>>
    /\ UNCHANGED <<key, honest, i, piv>>
ScanDown ==
    /\ pc = "scan_down" /\ j' = j - 1
    /\ \E less \in Less(piv, a[j']) :
         \/ less /\ pc' = (IF j' < i THEN "error" ELSE "scan_down")
                 /\ UNCHANGED <<a, lo, up, p, rnd, stack>>
         \/ ~less /\ j' < i /\ a' = Swapped(up - 1, i)
                  /\ p' = i /\ Divide(i) /\ pc' = "loop"
         \/ ~less /\ j' >= i /\ a' = Swapped(i, j') /\ pc' = "scan_up"
                  /\ UNCHANGED <<lo, up, p, rnd, stack>>
    /\ UNCHANGED <<key, honest, i, piv>>

\* the order function raises an error
Raise ==
    /\ ~honest /\ pc \in {"ends", "mid_lo", "mid_up", "scan_up", "scan_down"}
    /\ pc' = "error"
    /\ UNCHANGED <<a, key, honest, lo, up, p, i, j, piv, rnd, stack>>

Next == Loop \/ Ends \/ MidLo \/ MidUp \/ ScanUp \/ ScanDown \/ Raise
Spec == Init /\ [][Next]_vars
FairSpec == Spec /\ WF_vars(Next)

-----------------------------------------------------------------------------
(* Properties.                                                              *)

\* The array holds its elements, and every interval and index lies in it.
TypeOK ==
    /\ a \in [1..N -> 1..N] /\ key \in [1..N -> Keys] /\ honest \in BOOLEAN
    /\ pc \in {"loop", "ends", "mid_lo", "mid_up", "scan_up", "scan_down", "done", "error"}
    /\ lo \in 1..(N + 1) /\ up \in 0..N /\ rnd \in BOOLEAN /\ stack \in Seq(Interval)
    /\ p \in 1..(N + 1) /\ i \in 1..(N + 1) /\ j \in 0..(N + 1) /\ piv \in 1..(N + 1)

\* Whatever the order function answers, the comparison that comes next reads
\* inside the interval: the checks for an invalid order function come in time.
ReadsInside ==
    /\ pc # "loop" /\ pc \notin {"done", "error"} => 1 <= lo /\ lo < up /\ up <= N
    /\ pc \in {"mid_lo", "mid_up"} => lo < p /\ p < up
    /\ pc = "scan_up" => lo <= i /\ i + 1 <= up - 1
    /\ pc = "scan_down" => lo <= j - 1 /\ j - 1 < up

\* Whatever the order function answers, and if it raises an error: no element
\* is lost or doubled.
Permuted == \A x, y \in 1..N : a[x] = a[y] => x = y

\* An order that is one sorts, and is never called invalid.
SortedAtEnd == honest => /\ pc # "error"
                         /\ pc = "done" => \A x \in 1..(N - 1) : key[a[x]] <= key[a[x + 1]]

\* Sorting ends, also with an order function that is no order.
Terminates == <>(pc \in {"done", "error"})
=============================================================================
