---------------------------- MODULE LuaLibProofs ----------------------------
(***************************************************************************)
(* Theorems about three libraries, which share no state: table.sort        *)
(* (module Sort), require with package.loadlib (module Require) and exec   *)
(* of vendor/lua/lib.lua (module Exec).                                    *)
(***************************************************************************)
EXTENDS Sort, Require, Exec, SequenceTheorems, TLAPS

(***************************************************************************)
(* table.sort, for every number of elements and every order function: its  *)
(* indices stay inside the interval, no element is lost, and with an order *)
(* the array is sorted.                                                    *)
(***************************************************************************)

\* Where the scans stand: what the two limits of partition, and the choice of
\* a pivot strictly inside, make of the interval.
ScansOK ==
    /\ pc \in {"ends", "mid_lo", "mid_up", "scan_up", "scan_down"} => 1 <= lo /\ lo < up /\ up <= N
    /\ pc \in {"mid_lo", "mid_up"} => lo < p /\ p < up
    /\ pc \in {"scan_up", "scan_down"} => lo + 3 <= up /\ lo < j /\ j < up
    /\ pc = "scan_up" => lo <= i /\ i + 2 <= up
    /\ pc = "scan_down" => lo < i /\ i < up

Inv == TypeOK /\ ScansOK /\ Permuted

\* A random pivot leaves a quarter on both sides.
LEMMA PivotInside ==
    ASSUME NEW l \in Nat, NEW u \in Nat, l + 2 <= u
    PROVE  /\ l < (l + u) \div 2 /\ (l + u) \div 2 < u
           /\ l + 4 <= u => /\ (u - l) \div 4 >= 1
                            /\ 4 * ((u - l) \div 4) <= u - l
  OBVIOUS

\* The pivot auxsort takes lies strictly between the ends.
LEMMA PivotsInside ==
    ASSUME TypeOK, 1 <= lo, lo + 2 <= up
    PROVE  \A q \in Pivots : q \in Int /\ lo < q /\ q < up
<1>0. lo \in Nat /\ up \in Nat BY DEF TypeOK
<1>1. CASE up - lo < RanLimit \/ ~rnd
  <2>1. Pivots = {(lo + up) \div 2} BY <1>1 DEF Pivots
  <2> QED BY <1>0, <2>1, PivotInside
<1>2. CASE ~(up - lo < RanLimit \/ ~rnd)
  <2> DEFINE r4 == (up - lo) \div 4
  <2>1. Pivots = (lo + r4)..(lo + 3 * r4 - 1) BY <1>2 DEF Pivots
  <2>2. lo + 4 <= up BY <1>0, <1>2, SortAssumption
  <2>3. r4 \in Int /\ r4 >= 1 /\ 4 * r4 <= up - lo BY <1>0, <2>2, PivotInside
  <2> HIDE DEF r4
  <2> QED BY <1>0, <2>1, <2>3
<1> QED BY <1>1, <1>2

\* set2 keeps the array a permutation.
LEMMA SwapPermutes ==
    ASSUME NEW b \in [1..N -> 1..N], \A x, y \in 1..N : b[x] = b[y] => x = y,
           NEW m \in 1..N, NEW n \in 1..N,
           NEW c, c = [b EXCEPT ![m] = b[n], ![n] = b[m]]
    PROVE  c \in [1..N -> 1..N] /\ \A x, y \in 1..N : c[x] = c[y] => x = y
<1>1. c \in [1..N -> 1..N] OBVIOUS
<1>2. \A x \in 1..N : c[x] = IF x = n THEN b[m] ELSE IF x = m THEN b[n] ELSE b[x] OBVIOUS
<1> QED BY <1>1, <1>2

LEMMA InitInv == Init => Inv
<1> SUFFICES ASSUME Init PROVE Inv OBVIOUS
<1>0. N \in Nat BY SortAssumption
<1>1. TypeOK
  <2>1. a \in [1..N -> 1..N] /\ key \in [1..N -> Keys] BY DEF Init
  <2>2. stack \in Seq(Interval) BY DEF Init
  <2>3. rnd \in BOOLEAN /\ honest \in BOOLEAN BY DEF Init
  <2> QED BY <1>0, <2>1, <2>2, <2>3 DEF Init, TypeOK
<1> QED BY <1>1 DEF Init, Inv, ScansOK, Permuted

LEMMA LoopInv == Inv /\ Loop => Inv'
<1> SUFFICES ASSUME Inv, Loop PROVE Inv' OBVIOUS
<1> USE DEF Inv
<1>0. N \in Nat BY SortAssumption
<1>1. CASE lo < up
  <2>1. TypeOK' BY <1>0, <1>1 DEF TypeOK, Loop
  <2>2. ScansOK' BY <1>0, <1>1 DEF TypeOK, Loop, ScansOK
  <2> QED BY <2>1, <2>2, <1>1 DEF Loop, Permuted
<1>2. CASE ~(lo < up) /\ stack = <<>>
  <2>1. TypeOK' BY <1>2 DEF TypeOK, Loop
  <2>2. ScansOK' BY <1>2 DEF TypeOK, Loop, ScansOK
  <2> QED BY <2>1, <2>2, <1>2 DEF Loop, Permuted
<1>3. CASE ~(lo < up) /\ stack # <<>>
  <2>1. Head(stack) \in Interval /\ Tail(stack) \in Seq(Interval) BY <1>3 DEF TypeOK
  <2>2. Head(stack).lo \in 1..(N + 1) /\ Head(stack).up \in 0..N /\ Head(stack).rnd \in BOOLEAN
    BY <2>1 DEF Interval
  <2>3. TypeOK' BY <1>3, <2>1, <2>2 DEF TypeOK, Loop
  <2>4. ScansOK' BY <1>3 DEF Loop, ScansOK
  <2> QED BY <2>3, <2>4, <1>3 DEF Loop, Permuted
<1> QED BY <1>1, <1>2, <1>3

LEMMA EndsInv == Inv /\ Ends => Inv'
<1> SUFFICES ASSUME Inv, Ends PROVE Inv' OBVIOUS
<1> USE DEF Inv
<1>0. N \in Nat /\ pc = "ends" BY SortAssumption DEF Ends
<1>1. lo \in 1..N /\ up \in 1..N /\ lo < up BY <1>0 DEF TypeOK, ScansOK
<1>2. a' = a \/ a' = Swapped(lo, up) BY DEF Ends
<1>3. a' \in [1..N -> 1..N] /\ Permuted'
  <2>1. CASE a' = a BY <2>1 DEF TypeOK, Permuted
  <2>2. CASE a' = Swapped(lo, up)
    <3>1. a \in [1..N -> 1..N] /\ \A x, y \in 1..N : a[x] = a[y] => x = y BY DEF TypeOK, Permuted
    <3>2. a' = [a EXCEPT ![lo] = a[up], ![up] = a[lo]] BY <2>2 DEF Swapped
    <3>3. a' \in [1..N -> 1..N] /\ \A x, y \in 1..N : a'[x] = a'[y] => x = y
      BY <3>1, <3>2, <1>1, SwapPermutes
    <3> QED BY <3>3 DEF Permuted
  <2> QED BY <1>2, <2>1, <2>2
<1>4. CASE up - lo = 1
  <2>1. Pivots = {(lo + up) \div 2} BY <1>1, <1>4, SortAssumption DEF Pivots
  <2>2. (lo + up) \div 2 \in 1..(N + 1) BY <1>0, <1>1, <1>4
  <2>3. p' \in 1..(N + 1) /\ pc' = "loop" /\ lo' = 1 /\ up' = 0
    BY <2>1, <2>2, <1>4 DEF Ends, Returns
  <2>4. /\ UNCHANGED <<key, honest, i, j, piv, rnd, stack>>
        /\ lo' \in 1..(N + 1) /\ up' \in 0..N
    BY <1>0, <2>3 DEF Ends
  <2>5. TypeOK' BY <1>3, <2>3, <2>4 DEF TypeOK
  <2> QED BY <1>3, <2>3, <2>5 DEF ScansOK
<1>5. CASE up - lo # 1
  <2>1. lo + 2 <= up BY <1>1, <1>5
  <2>2. p' \in Int /\ lo < p' /\ p' < up BY <1>1, <2>1, PivotsInside DEF Ends
  <2>3. pc' = "mid_lo" /\ lo' = lo /\ up' = up BY <1>5 DEF Ends, Returns
  <2>4. TypeOK'
    <3>1. UNCHANGED <<key, honest, i, j, piv, rnd, stack>> BY DEF Ends
    <3>2. p' \in 1..(N + 1) BY <1>0, <1>1, <2>2
    <3> QED BY <1>3, <2>3, <3>1, <3>2 DEF TypeOK
  <2>5. ScansOK' BY <1>1, <2>2, <2>3 DEF ScansOK
  <2> QED BY <1>3, <2>4, <2>5
<1> QED BY <1>4, <1>5

\* The pivot goes next to the upper end: three elements are in order by now.
LEMMA StartScanInv ==
    ASSUME Inv, pc \in {"mid_lo", "mid_up"}, NEW b \in [1..N -> 1..N],
           \A x, y \in 1..N : b[x] = b[y] => x = y, StartScan(b),
           UNCHANGED <<key, honest, p, rnd, stack>>
    PROVE  Inv'
<1> USE DEF Inv
<1>0. N \in Nat BY SortAssumption
<1>1. /\ lo \in 1..N /\ up \in 1..N /\ p \in 1..N /\ up - 1 \in 1..N
      /\ lo < p /\ p < up /\ lo + 2 <= up
  BY <1>0 DEF TypeOK, ScansOK
<1>2. CASE up - lo = 2
  <2>1. pc' = "loop" /\ a' = b /\ lo' = 1 /\ up' = 0 /\ i' = i /\ j' = j /\ piv' = piv
    BY <1>2 DEF StartScan, Returns
  <2>2. TypeOK' BY <1>0, <2>1 DEF TypeOK
  <2> QED BY <2>1, <2>2 DEF ScansOK, Permuted
<1>3. CASE up - lo # 2
  <2>1. /\ pc' = "scan_up" /\ piv' = b[p] /\ i' = lo /\ j' = up - 1 /\ lo' = lo /\ up' = up
        /\ a' = [b EXCEPT ![p] = b[up - 1], ![up - 1] = b[p]]
    BY <1>3 DEF StartScan, Returns
  <2>2. a' \in [1..N -> 1..N] /\ Permuted' BY <1>1, <2>1, SwapPermutes DEF Permuted
  <2>3. b[p] \in 1..(N + 1) BY <1>0, <1>1
  <2>4. TypeOK'
    <3>1. i' \in 1..(N + 1) /\ j' \in 0..(N + 1) BY <1>0, <1>1, <2>1
    <3> QED BY <2>1, <2>2, <2>3, <3>1 DEF TypeOK
  <2>5. ScansOK' BY <1>1, <1>3, <2>1 DEF ScansOK
  <2> QED BY <2>2, <2>4, <2>5
<1> QED BY <1>2, <1>3

LEMMA MidLoInv == Inv /\ MidLo => Inv'
<1> SUFFICES ASSUME Inv, MidLo PROVE Inv' OBVIOUS
<1>1. N \in Nat /\ pc = "mid_lo" BY SortAssumption DEF MidLo
<1>2. lo \in 1..N /\ p \in 1..N BY <1>1 DEF Inv, TypeOK, ScansOK
<1>3. CASE StartScan(Swapped(p, lo)) /\ UNCHANGED <<key, honest, p, rnd, stack>>
  <2>1. /\ Swapped(p, lo) \in [1..N -> 1..N]
        /\ \A x, y \in 1..N : Swapped(p, lo)[x] = Swapped(p, lo)[y] => x = y
    BY <1>2, SwapPermutes DEF Inv, TypeOK, Permuted, Swapped
  <2> QED BY <1>1, <1>3, <2>1, StartScanInv
<1>4. CASE pc' = "mid_up" /\ UNCHANGED <<a, key, honest, lo, up, p, i, j, piv, rnd, stack>>
  <2>1. TypeOK' BY <1>4 DEF Inv, TypeOK
  <2>2. ScansOK' BY <1>1, <1>4 DEF Inv, ScansOK
  <2> QED BY <1>4, <2>1, <2>2 DEF Inv, Permuted
<1> QED BY <1>3, <1>4 DEF MidLo

LEMMA MidUpInv == Inv /\ MidUp => Inv'
<1> SUFFICES ASSUME Inv, MidUp PROVE Inv' OBVIOUS
<1>1. N \in Nat /\ pc = "mid_up" BY SortAssumption DEF MidUp
<1>2. up \in 1..N /\ p \in 1..N BY <1>1 DEF Inv, TypeOK, ScansOK
<1>3. CASE StartScan(Swapped(p, up))
  <2>1. /\ Swapped(p, up) \in [1..N -> 1..N]
        /\ \A x, y \in 1..N : Swapped(p, up)[x] = Swapped(p, up)[y] => x = y
    BY <1>2, SwapPermutes DEF Inv, TypeOK, Permuted, Swapped
  <2> QED BY <1>1, <1>3, <2>1, StartScanInv DEF MidUp
<1>4. CASE StartScan(a)
  <2>1. a \in [1..N -> 1..N] /\ \A x, y \in 1..N : a[x] = a[y] => x = y
    BY DEF Inv, TypeOK, Permuted
  <2> QED BY <1>1, <1>4, <2>1, StartScanInv DEF MidUp
<1> QED BY <1>3, <1>4 DEF MidUp

LEMMA ScanUpInv == Inv /\ ScanUp => Inv'
<1> SUFFICES ASSUME Inv, ScanUp PROVE Inv' OBVIOUS
<1> USE DEF Inv
<1>0. N \in Nat /\ pc = "scan_up" /\ i' = i + 1 BY SortAssumption DEF ScanUp
<1>1. /\ lo \in 1..N /\ up \in 1..N /\ i \in 1..N /\ j \in 1..N
      /\ lo + 3 <= up /\ lo < j /\ j < up /\ lo <= i /\ i + 2 <= up
  BY <1>0 DEF TypeOK, ScansOK
<1>2. /\ UNCHANGED <<a, key, honest, lo, up, p, j, piv, rnd, stack>>
      /\ \/ pc' = "scan_down" \/ pc' = "error"
         \/ pc' = "scan_up" /\ i' # up - 1
  BY DEF ScanUp
<1>3. TypeOK' BY <1>0, <1>1, <1>2 DEF TypeOK
<1>4. ScansOK'
  <2>1. CASE pc' = "scan_down" BY <2>1, <1>0, <1>1, <1>2 DEF ScansOK
  <2>2. CASE pc' = "error" BY <2>2, <1>2 DEF ScansOK
  <2>3. CASE pc' = "scan_up" /\ i' # up - 1 BY <2>3, <1>0, <1>1, <1>2 DEF ScansOK
  <2> QED BY <1>2, <2>1, <2>2, <2>3
<1> QED BY <1>2, <1>3, <1>4 DEF Permuted

LEMMA ScanDownInv == Inv /\ ScanDown => Inv'
<1> SUFFICES ASSUME Inv, ScanDown PROVE Inv' OBVIOUS
<1> USE DEF Inv
<1>0. N \in Nat /\ pc = "scan_down" /\ j' = j - 1 BY SortAssumption DEF ScanDown
<1>1. /\ lo \in 1..N /\ up \in 1..N /\ i \in 1..N /\ j \in 1..N
      /\ lo + 3 <= up /\ lo < j /\ j < up /\ lo < i /\ i < up
  BY <1>0 DEF TypeOK, ScansOK
<1>2. UNCHANGED <<key, honest, i, piv>> BY DEF ScanDown
<1>6. a \in [1..N -> 1..N] /\ \A x, y \in 1..N : a[x] = a[y] => x = y BY DEF TypeOK, Permuted
<1>3. CASE /\ pc' = IF j' < i THEN "error" ELSE "scan_down"
           /\ UNCHANGED <<a, lo, up, p, rnd, stack>>
  <2>1. TypeOK' BY <1>0, <1>1, <1>2, <1>3 DEF TypeOK
  <2>2. ScansOK' BY <1>0, <1>1, <1>2, <1>3 DEF ScansOK
  <2> QED BY <2>1, <2>2, <1>3 DEF Permuted
<1>4. CASE j' < i /\ a' = Swapped(up - 1, i) /\ p' = i /\ Divide(i) /\ pc' = "loop"
  <2>1. up - 1 \in 1..N BY <1>0, <1>1
  <2>2. a' = [a EXCEPT ![up - 1] = a[i], ![i] = a[up - 1]] BY <1>4 DEF Swapped
  <2>7. i \in 1..N BY <1>1
  <2>3. a' \in [1..N -> 1..N] /\ \A x, y \in 1..N : a'[x] = a'[y] => x = y
    BY <1>6, <2>1, <2>2, <2>7, SwapPermutes
  <2>4. /\ lo' \in 1..(N + 1) /\ up' \in 0..N
        /\ stack' \in Seq(Interval) /\ rnd' = rnd
    <3>1. PICK r \in BOOLEAN :
            /\ lo' = IF i - lo < up - i THEN lo ELSE i + 1
            /\ up' = IF i - lo < up - i THEN i - 1 ELSE up
            /\ rnd' = rnd
            /\ \/ i - lo < up - i /\ stack' = <<[lo |-> i + 1, up |-> up, rnd |-> r]>> \o stack
               \/ ~(i - lo < up - i) /\ stack' = <<[lo |-> lo, up |-> i - 1, rnd |-> r]>> \o stack
      BY <1>4 DEF Divide, TypeOK
    <3>2. lo' \in 1..(N + 1) /\ up' \in 0..N BY <1>0, <1>1, <3>1
    <3>3. [lo |-> i + 1, up |-> up, rnd |-> r] \in Interval BY <1>0, <1>1 DEF Interval
    <3>4. [lo |-> lo, up |-> i - 1, rnd |-> r] \in Interval BY <1>0, <1>1 DEF Interval
    <3>5. stack \in Seq(Interval) BY DEF TypeOK
    <3>7. \A e \in Interval : <<e>> \o stack \in Seq(Interval) BY <3>5
    <3>6. stack' \in Seq(Interval) BY <3>1, <3>3, <3>4, <3>7
    <3> QED BY <3>1, <3>2, <3>6
  <2>5. TypeOK'
    <3>1. p' \in 1..(N + 1) /\ j' \in 0..(N + 1) BY <1>0, <1>1, <1>4
    <3> QED BY <1>2, <1>4, <2>3, <2>4, <3>1 DEF TypeOK
  <2>6. ScansOK' BY <1>4 DEF ScansOK
  <2> QED BY <2>3, <2>5, <2>6 DEF Permuted
<1>5. CASE /\ j' >= i /\ a' = Swapped(i, j') /\ pc' = "scan_up"
           /\ UNCHANGED <<lo, up, p, rnd, stack>>
  <2>1. j' \in 1..N BY <1>0, <1>1, <1>5
  <2>2. a' = [a EXCEPT ![i] = a[j'], ![j'] = a[i]] BY <1>5 DEF Swapped
  <2>7. i \in 1..N BY <1>1
  <2>3. a' \in [1..N -> 1..N] /\ \A x, y \in 1..N : a'[x] = a'[y] => x = y
    BY <1>6, <2>1, <2>2, <2>7, SwapPermutes
  <2>4. TypeOK'
    <3>1. j' \in 0..(N + 1) BY <1>0, <2>1
    <3> QED BY <1>2, <1>5, <2>3, <3>1 DEF TypeOK
  <2>5. ScansOK' BY <1>0, <1>1, <1>2, <1>5 DEF ScansOK
  <2> QED BY <2>3, <2>4, <2>5 DEF Permuted
<1> QED BY <1>3, <1>4, <1>5 DEF ScanDown

LEMMA NextInv == Inv /\ [Next]_vars => Inv'
<1> SUFFICES ASSUME Inv, [Next]_vars PROVE Inv' OBVIOUS
<1>1. CASE Raise
  <2>1. TypeOK' BY <1>1 DEF Inv, TypeOK, Raise
  <2> QED BY <1>1, <2>1 DEF Inv, ScansOK, Permuted, Raise
<1>2. CASE UNCHANGED vars
  <2>1. TypeOK' BY <1>2 DEF Inv, TypeOK, vars
  <2> QED BY <1>2, <2>1 DEF Inv, ScansOK, Permuted, vars
<1> QED BY <1>1, <1>2, LoopInv, EndsInv, MidLoInv, MidUpInv, ScanUpInv, ScanDownInv DEF Next

\* For every number of elements and every order function, consistent or not,
\* the next comparison of table.sort reads inside the interval it sorts.
THEOREM SortReadsInside == Spec => []ReadsInside
<1>1. Inv => ReadsInside
  <2> SUFFICES ASSUME Inv PROVE ReadsInside OBVIOUS
  <2>1. lo \in Int /\ up \in Int /\ i \in Int /\ j \in Int
    BY SortAssumption DEF Inv, TypeOK
  <2> QED BY <2>1 DEF Inv, TypeOK, ScansOK, ReadsInside
<1> QED BY <1>1, InitInv, NextInv, PTL DEF Spec

\* The same sorts lose and double no element, also when the order function
\* raises an error in the middle.
THEOREM SortPermutes == Spec => [](TypeOK /\ Permuted)
<1>1. Inv => TypeOK /\ Permuted BY DEF Inv
<1> QED BY <1>1, InitInv, NextInv, PTL DEF Spec

-----------------------------------------------------------------------------
(* What an order function that is an order makes of the array.              *)

K(b, x) == key[b[x]]

\* x and y lie in one of the intervals that are still to be sorted
Together(x, y) == \/ lo <= x /\ y <= up
                  \/ \E n \in 1..Len(stack) : stack[n].lo <= x /\ y <= stack[n].up
Settled(b) == \A x, y \in 1..N : x < y => K(b, x) <= K(b, y) \/ Together(x, y)

Disjoint ==
    /\ \A n \in 1..Len(stack) : stack[n].up < lo \/ up < stack[n].lo
    /\ \A m, n \in 1..Len(stack) : m < n => stack[m].up < stack[n].lo \/ stack[n].up < stack[m].lo

\* What the comparisons made in this interval have shown: what lies behind
\* the upward scan is no greater than the pivot, behind the other no less.
Compared ==
    /\ pc \in {"mid_lo", "mid_up"} => K(a, lo) <= K(a, up)
    /\ pc = "mid_up" => K(a, lo) <= K(a, p)
    /\ pc \in {"scan_up", "scan_down"} => a[up - 1] = piv /\ \A y \in j..up : key[piv] <= K(a, y)
    /\ pc = "scan_up" => \A x \in lo..i : K(a, x) <= key[piv]
    /\ pc = "scan_down" => key[piv] <= K(a, i) /\ \A x \in lo..(i - 1) : K(a, x) <= key[piv]

OrderInv ==
    /\ Disjoint
    /\ pc = "done" => stack = <<>> /\ ~(lo < up)
    /\ honest => pc # "error" /\ Settled(a) /\ Compared

LEMMA KeysCompare ==
    ASSUME TypeOK, NEW b \in [1..N -> 1..N]
    PROVE  \A x \in 1..N : b[x] \in 1..N /\ K(b, x) \in Int
  BY SortAssumption DEF TypeOK, K

LEMMA StackHolds ==
    ASSUME TypeOK
    PROVE  /\ Len(stack) \in Nat
           /\ \A n \in 1..Len(stack) : stack[n] \in Interval /\ stack[n].lo \in Nat /\ stack[n].up \in Nat
<1>1. stack \in Seq(Interval) /\ N \in Nat BY SortAssumption DEF TypeOK
<1>2. \A e \in Interval : e.lo \in Nat /\ e.up \in Nat BY <1>1 DEF Interval
<1>3. Len(stack) \in Nat /\ \A n \in 1..Len(stack) : stack[n] \in Interval BY <1>1
<1> QED BY <1>2, <1>3

LEMMA Pushed ==
    ASSUME NEW s \in Seq(Interval), NEW e \in Interval, NEW u, u = <<e>> \o s
    PROVE  /\ Len(u) = Len(s) + 1 /\ Len(s) \in Nat
           /\ \A n \in 1..Len(u) : u[n] = IF n = 1 THEN e ELSE s[n - 1]
           /\ \A n \in 1..Len(s) : s[n] = u[n + 1]
  OBVIOUS

LEMMA Popped ==
    ASSUME NEW s \in Seq(Interval), s # <<>>
    PROVE  /\ Len(Tail(s)) = Len(s) - 1 /\ Len(s) \in Nat /\ Len(s) >= 1
           /\ Head(s) = s[1] /\ \A n \in 1..Len(Tail(s)) : Tail(s)[n] = s[n + 1]
           /\ \A n \in 2..Len(s) : s[n] = Tail(s)[n - 1]
  OBVIOUS

\* A place outside the interval is in no pending one with a place inside.
LEMMA Outside ==
    ASSUME TypeOK, Disjoint, NEW m \in 1..N, NEW n \in 1..N, lo <= m, m <= up, lo <= n, n <= up,
           NEW y \in 1..N, ~(lo <= y /\ y <= up)
    PROVE  /\ ~Together(m, y) \/ y < m
           /\ ~Together(y, m) \/ m < y
           /\ (Together(m, y) <=> Together(n, y)) \/ y < m
           /\ (Together(y, m) <=> Together(y, n)) \/ m < y
<1>1. \A k \in 1..Len(stack) : stack[k].lo \in Nat /\ stack[k].up \in Nat BY StackHolds
<1>2. lo \in Nat /\ up \in Nat /\ N \in Nat BY SortAssumption DEF TypeOK
<1>3. ASSUME NEW k \in 1..Len(stack), NEW z \in {m, n} PROVE ~(stack[k].lo <= z /\ z <= stack[k].up)
  BY <1>1, <1>2, <1>3 DEF Disjoint
<1>4. ASSUME y >= m PROVE ~Together(m, y) /\ ~Together(n, y)
  <2>1. ~Together(m, y) BY <1>1, <1>2, <1>3, <1>4 DEF Together
  <2>2. ~Together(n, y)
    <3>1. \A k \in 1..Len(stack) : ~(stack[k].lo <= n /\ n <= stack[k].up) BY <1>3
    <3> QED BY <1>1, <1>2, <1>4, <3>1 DEF Together
  <2> QED BY <2>1, <2>2
<1>5. ASSUME m >= y PROVE ~Together(y, m) /\ ~Together(y, n)
  <2>1. ~Together(y, m) BY <1>1, <1>2, <1>3, <1>5 DEF Together
  <2>2. ~Together(y, n)
    <3>1. \A k \in 1..Len(stack) : ~(stack[k].lo <= n /\ n <= stack[k].up) BY <1>3
    <3> QED BY <1>1, <1>2, <1>5, <3>1 DEF Together
  <2> QED BY <2>1, <2>2
<1> QED BY <1>2, <1>4, <1>5

\* Two elements of one interval may change places.
LEMMA SwapSettled ==
    ASSUME TypeOK, Disjoint, NEW b \in [1..N -> 1..N], Settled(b),
           NEW m \in 1..N, NEW n \in 1..N, lo <= m, m <= up, lo <= n, n <= up,
           NEW c, c = [b EXCEPT ![m] = b[n], ![n] = b[m]]
    PROVE  Settled(c)
<1>0. lo \in Nat /\ up \in Nat /\ N \in Nat BY SortAssumption DEF TypeOK
<1>1. \A x \in 1..N : K(c, x) = IF x = n THEN K(b, m) ELSE IF x = m THEN K(b, n) ELSE K(b, x)
  BY DEF K
<1>2. ASSUME NEW x \in 1..N, NEW y \in 1..N, x < y, ~Together(x, y) PROVE K(c, x) <= K(c, y)
  <2>1. ~(lo <= x /\ y <= up) BY <1>2 DEF Together
  <2>2. K(b, x) <= K(b, y) BY <1>2 DEF Settled
  <2>3. CASE x \in {m, n}
    <3>1. y > up BY <1>0, <2>1, <2>3
    <3>2. ~Together(m, y) /\ ~Together(n, y) BY <1>0, <3>1, Outside
    <3>3. K(b, m) <= K(b, y) /\ K(b, n) <= K(b, y) BY <1>0, <3>1, <3>2 DEF Settled
    <3>6. y # m /\ y # n BY <1>0, <3>1
    <3>4. K(c, y) = K(b, y) BY <1>1, <3>6
    <3>5. K(c, x) = K(b, m) \/ K(c, x) = K(b, n) BY <1>1, <2>3
    <3> QED BY <3>3, <3>4, <3>5
  <2>4. CASE y \in {m, n}
    <3>1. x < lo BY <1>0, <2>1, <2>4
    <3>2. ~Together(x, m) /\ ~Together(x, n) BY <1>0, <3>1, Outside
    <3>3. K(b, x) <= K(b, m) /\ K(b, x) <= K(b, n) BY <1>0, <3>1, <3>2 DEF Settled
    <3>6. x # m /\ x # n BY <1>0, <3>1
    <3>4. K(c, x) = K(b, x) BY <1>1, <3>6
    <3>5. K(c, y) = K(b, m) \/ K(c, y) = K(b, n) BY <1>1, <2>4
    <3> QED BY <3>3, <3>4, <3>5
  <2>5. CASE x \notin {m, n} /\ y \notin {m, n}
    BY <1>1, <2>2, <2>5
  <2> QED BY <2>3, <2>4, <2>5
<1> QED BY <1>2 DEF Settled

LEMMA InitOrder == Init => OrderInv
<1> SUFFICES ASSUME Init PROVE OrderInv OBVIOUS
<1>0. N \in Nat BY SortAssumption
<1>1. stack = <<>> /\ Len(stack) = 0 /\ pc = "loop" /\ lo = 1 /\ up = N BY DEF Init
<1>2. Disjoint BY <1>1 DEF Disjoint
<1>3. \A x, y \in 1..N : Together(x, y) BY <1>0, <1>1 DEF Together
<1> QED BY <1>1, <1>2, <1>3 DEF OrderInv, Settled, Compared

LEMMA LoopOrder == Inv /\ OrderInv /\ Loop => OrderInv'
<1> SUFFICES ASSUME Inv, OrderInv, Loop PROVE OrderInv' OBVIOUS
<1>0. /\ N \in Nat /\ lo \in Nat /\ up \in Nat /\ pc = "loop" /\ stack \in Seq(Interval)
      /\ a' = a /\ key' = key /\ honest' = honest
  BY SortAssumption DEF Inv, TypeOK, Loop
<1>1. CASE lo < up
  <2>1. lo' = lo /\ up' = up /\ stack' = stack /\ pc' = "ends" BY <1>1 DEF Loop
  <2> QED BY <1>0, <2>1 DEF OrderInv, Disjoint, Settled, Together, K, Compared
<1>2. CASE ~(lo < up) /\ stack = <<>>
  <2>1. lo' = lo /\ up' = up /\ stack' = stack /\ pc' = "done" BY <1>2 DEF Loop
  <2> QED BY <1>0, <1>2, <2>1 DEF OrderInv, Disjoint, Settled, Together, K, Compared
<1>3. CASE ~(lo < up) /\ stack # <<>>
  <2>1. lo' = Head(stack).lo /\ up' = Head(stack).up /\ stack' = Tail(stack) /\ pc' = "loop"
    BY <1>0, <1>3 DEF Loop
  <2>2. /\ Len(stack') = Len(stack) - 1 /\ Len(stack) \in Nat /\ Len(stack) >= 1
        /\ Head(stack) = stack[1] /\ \A n \in 1..Len(stack') : stack'[n] = stack[n + 1]
        /\ \A n \in 2..Len(stack) : stack[n] = stack'[n - 1]
    BY <1>0, <1>3, <2>1, Popped
  <2>3. lo' = stack[1].lo /\ up' = stack[1].up BY <2>1, <2>2
  <2>4. Disjoint'
    <3>1. ASSUME NEW n \in 1..Len(stack') PROVE stack'[n].up < lo' \/ up' < stack'[n].lo
      <4>1. n + 1 \in 1..Len(stack) /\ 1 < n + 1 /\ stack'[n] = stack[n + 1] /\ 1 \in 1..Len(stack) BY <2>2
      <4>2. stack[1].up < stack[n + 1].lo \/ stack[n + 1].up < stack[1].lo
        BY <4>1 DEF OrderInv, Disjoint
      <4> QED BY <2>3, <4>1, <4>2
    <3>2. ASSUME NEW m \in 1..Len(stack'), NEW n \in 1..Len(stack'), m < n
          PROVE  stack'[m].up < stack'[n].lo \/ stack'[n].up < stack'[m].lo
      <4>1. m + 1 \in 1..Len(stack) /\ n + 1 \in 1..Len(stack) /\ m + 1 < n + 1 BY <2>2, <3>2
      <4>2. stack'[m] = stack[m + 1] /\ stack'[n] = stack[n + 1] BY <2>2
      <4> QED BY <4>1, <4>2 DEF OrderInv, Disjoint
    <3> QED BY <3>1, <3>2 DEF Disjoint
  <2>5. ASSUME honest PROVE Settled(a)'
    <3>1. ASSUME NEW x \in 1..N, NEW y \in 1..N, x < y, Together(x, y) PROVE Together(x, y)'
      <4>1. ~(lo <= x /\ y <= up) BY <1>0, <1>3, <3>1
      <4>2. PICK n \in 1..Len(stack) : stack[n].lo <= x /\ y <= stack[n].up BY <3>1, <4>1 DEF Together
      <4>3. CASE n = 1 BY <2>3, <4>2, <4>3 DEF Together
      <4>4. CASE n # 1
        <5>1. n - 1 \in 1..Len(stack') /\ stack'[n - 1] = stack[n] BY <2>2, <4>4
        <5> QED BY <4>2, <5>1 DEF Together
      <4> QED BY <4>3, <4>4
    <3>2. Settled(a) BY <2>5 DEF OrderInv
    <3>3. ASSUME NEW x \in 1..N, NEW y \in 1..N, x < y PROVE (K(a, x) <= K(a, y) \/ Together(x, y))'
      BY <1>0, <3>1, <3>2, <3>3 DEF Settled, K
    <3> QED BY <3>3 DEF Settled
  <2> QED BY <1>0, <2>1, <2>4, <2>5 DEF OrderInv, Compared
<1> QED BY <1>1, <1>2, <1>3

\* Nothing is left of an interval whose elements are in order.
LEMMA Returned ==
    ASSUME TypeOK, Disjoint, lo' = 1, up' = 0, stack' = stack, key' = key, honest' = honest,
           honest => /\ Settled(a')
                     /\ \A x, y \in lo..up : x < y => K(a', x) <= K(a', y)
    PROVE  Disjoint' /\ (honest => Settled(a)')
<1>0. N \in Nat /\ lo \in Nat /\ up \in Nat BY SortAssumption DEF TypeOK
<1>1. Disjoint'
  <2>1. \A n \in 1..Len(stack) : stack[n].lo >= 1 /\ stack[n].lo \in Nat
    BY <1>0, StackHolds DEF Interval
  <2> QED BY <2>1 DEF Disjoint
<1>2. ASSUME honest, NEW x \in 1..N, NEW y \in 1..N, x < y PROVE (K(a, x) <= K(a, y) \/ Together(x, y))'
  <2>1. K(a', x) <= K(a', y) \/ Together(x, y) BY <1>2 DEF Settled
  <2>2. CASE lo <= x /\ y <= up BY <1>0, <1>2, <2>2 DEF K
  <2>3. CASE ~(lo <= x /\ y <= up) BY <2>1, <2>3 DEF Together, K
  <2> QED BY <2>2, <2>3
<1> QED BY <1>1, <1>2 DEF Settled

LEMMA EndsOrder == Inv /\ OrderInv /\ Ends => OrderInv'
<1> SUFFICES ASSUME Inv, OrderInv, Ends PROVE OrderInv' OBVIOUS
<1>0. /\ N \in Nat /\ pc = "ends" /\ TypeOK /\ Disjoint
      /\ key' = key /\ honest' = honest /\ stack' = stack /\ Keys \subseteq Int
  BY SortAssumption DEF Ends, Inv, OrderInv
<1>1. lo \in 1..N /\ up \in 1..N /\ lo < up BY <1>0 DEF Inv, TypeOK, ScansOK
<1>2. ASSUME honest PROVE Settled(a') /\ K(a', lo) <= K(a', up)
  <2>1. Settled(a) /\ a \in [1..N -> 1..N] BY <1>0, <1>2 DEF OrderInv, TypeOK
  <2>2. K(a, lo) \in Int /\ K(a, up) \in Int BY <1>0, <1>1, <2>1, KeysCompare
  <2>3. a' = IF K(a, up) < K(a, lo) THEN Swapped(lo, up) ELSE a BY <1>2 DEF Ends, Less, K
  <2>4. CASE K(a, up) < K(a, lo)
    <3>1. a' = [a EXCEPT ![lo] = a[up], ![up] = a[lo]] BY <2>3, <2>4 DEF Swapped
    <3>4. lo <= lo /\ up <= up /\ lo <= up BY <1>1
    <3>2. Settled(a') BY ONLY <1>0, <1>1, <2>1, <3>1, <3>4, SwapSettled
    <3>3. K(a', lo) = K(a, up) /\ K(a', up) = K(a, lo) BY <1>1, <2>1, <3>1 DEF K
    <3> QED BY <2>2, <2>4, <3>2, <3>3
  <2>5. CASE ~(K(a, up) < K(a, lo))
    BY <2>1, <2>2, <2>3, <2>5
  <2> QED BY <2>4, <2>5
<1>3. CASE up - lo = 1
  <2>1. lo' = 1 /\ up' = 0 /\ pc' = "loop" BY <1>3 DEF Ends, Returns
  <2>2. \A x, y \in lo..up : x < y => x = lo /\ y = up BY <1>1, <1>3
  <2>3. Disjoint' /\ (honest => Settled(a)') BY <1>0, <1>2, <2>1, <2>2, Returned
  <2> QED BY <1>0, <2>1, <2>3 DEF OrderInv, Compared
<1>4. CASE up - lo # 1
  <2>1. lo' = lo /\ up' = up /\ pc' = "mid_lo" BY <1>4 DEF Ends, Returns
  <2>2. Disjoint' BY <1>0, <2>1 DEF Disjoint
  <2>3. ASSUME honest PROVE Settled(a)' /\ (K(a, lo) <= K(a, up))'
    BY <1>0, <1>2, <2>1, <2>3 DEF Settled, Together, K
  <2> QED BY <1>0, <2>1, <2>2, <2>3 DEF OrderInv, Compared
<1> QED BY <1>3, <1>4

\* The three elements at the ends and in the middle are in order by now.
LEMMA StartScanOrder ==
    ASSUME Inv, OrderInv, pc \in {"mid_lo", "mid_up"}, NEW b \in [1..N -> 1..N],
           honest => Settled(b) /\ K(b, lo) <= K(b, p) /\ K(b, p) <= K(b, up),
           StartScan(b), UNCHANGED <<key, honest, p, rnd, stack>>
    PROVE  OrderInv'
<1>0. /\ N \in Nat /\ TypeOK /\ Disjoint /\ key' = key /\ honest' = honest /\ stack' = stack
  BY SortAssumption DEF Inv, OrderInv
<1>1. /\ lo \in 1..N /\ up \in 1..N /\ p \in 1..N /\ up - 1 \in 1..N
      /\ lo < p /\ p < up /\ lo + 2 <= up
  BY <1>0 DEF Inv, TypeOK, ScansOK
<1>2. \A x \in 1..N : b[x] \in 1..N /\ K(b, x) \in Int BY <1>0, KeysCompare
<1>3. CASE up - lo = 2
  <2>1. pc' = "loop" /\ a' = b /\ lo' = 1 /\ up' = 0 BY <1>3 DEF StartScan, Returns
  <2>2. ASSUME honest PROVE \A x, y \in lo..up : x < y => K(b, x) <= K(b, y)
    <3>1. p = lo + 1 /\ up = lo + 2 BY <1>1, <1>3
    <3>2. \A x, y \in lo..up : x < y => (x = lo /\ y = p) \/ (x = lo /\ y = up) \/ (x = p /\ y = up)
      BY <1>1, <3>1
    <3>3. K(b, lo) <= K(b, up) BY <1>1, <1>2, <2>2
    <3> QED BY <2>2, <3>2, <3>3
  <2>3. Disjoint' /\ (honest => Settled(a)') BY <1>0, <2>1, <2>2, Returned
  <2> QED BY <1>0, <2>1, <2>3 DEF OrderInv, Compared
<1>4. CASE up - lo # 2
  <2>1. /\ pc' = "scan_up" /\ piv' = b[p] /\ i' = lo /\ j' = up - 1 /\ lo' = lo /\ up' = up
        /\ a' = [b EXCEPT ![p] = b[up - 1], ![up - 1] = b[p]]
    BY <1>4 DEF StartScan, Returns
  <2>2. Disjoint' BY <1>0, <2>1 DEF Disjoint
  <2>3. ASSUME honest PROVE Settled(a)' /\ Compared'
    <3>8. lo <= p /\ p <= up /\ lo <= up - 1 /\ up - 1 <= up BY <1>1
    <3>9. Settled(b) /\ b \in [1..N -> 1..N] BY <2>3
    <3>1. Settled(a') BY ONLY <1>0, <1>1, <2>1, <3>8, <3>9, SwapSettled
    <3>2. Settled(a)' BY <1>0, <2>1, <3>1 DEF Settled, Together, K
    <3>4. a'[up - 1] = b[p] BY <1>1, <2>1
    <3>5. a'[lo] = b[lo] /\ a'[up] = b[up] BY <1>1, <1>4, <2>1
    <3>3. key[b[p]] \in Int /\ key[b[p]] <= key[b[up]] /\ key[b[lo]] <= key[b[p]]
      BY <1>1, <1>2, <2>3 DEF K
    <3>6. (\A y \in j..up : key[piv] <= K(a, y))'
      <4>1. \A y \in (up - 1)..up : y = up - 1 \/ y = up BY <1>1
      <4>2. key[b[p]] <= key[a'[up]] /\ key[b[p]] <= key[a'[up - 1]]
        BY <3>3, <3>4, <3>5
      <4> QED BY <1>0, <2>1, <4>1, <4>2 DEF K
    <3>7. (\A x \in lo..i : K(a, x) <= key[piv])'
      <4>1. \A x \in lo..lo : x = lo BY <1>1
      <4> QED BY <1>0, <2>1, <3>3, <3>5, <4>1 DEF K
    <3> QED BY <2>1, <3>2, <3>4, <3>6, <3>7 DEF Compared
  <2> QED BY <1>0, <2>1, <2>2, <2>3 DEF OrderInv
<1> QED BY <1>3, <1>4

LEMMA MidLoOrder == Inv /\ OrderInv /\ MidLo => OrderInv'
<1> SUFFICES ASSUME Inv, OrderInv, MidLo PROVE OrderInv' OBVIOUS
<1>0. /\ N \in Nat /\ pc = "mid_lo" /\ TypeOK /\ Disjoint /\ a \in [1..N -> 1..N]
      /\ UNCHANGED <<key, honest, p, rnd, stack>>
  BY SortAssumption DEF MidLo, Inv, OrderInv, TypeOK
<1>1. lo \in 1..N /\ p \in 1..N /\ up \in 1..N /\ lo < p /\ p < up BY <1>0 DEF Inv, TypeOK, ScansOK
<1>2. K(a, lo) \in Int /\ K(a, p) \in Int /\ K(a, up) \in Int BY <1>0, <1>1, KeysCompare
<1>3. PICK less \in Less(a[p], a[lo]) :
        IF less THEN StartScan(Swapped(p, lo))
        ELSE pc' = "mid_up" /\ UNCHANGED <<a, lo, up, i, j, piv>>
  BY DEF MidLo
<1>4. honest => /\ less <=> K(a, p) < K(a, lo)
                /\ Settled(a) /\ K(a, lo) <= K(a, up)
  BY <1>0, <1>3 DEF Less, K, OrderInv, Compared
<1>5. CASE less
  <2> DEFINE b == Swapped(p, lo)
  <2>1. b = [a EXCEPT ![p] = a[lo], ![lo] = a[p]] BY DEF Swapped
  <2>2. b \in [1..N -> 1..N] BY <1>0, <1>1, <2>1
  <2>3. StartScan(b) BY <1>3, <1>5
  <2> HIDE DEF b
  <2>4. b[p] = a[lo] /\ b[lo] = a[p] /\ b[up] = a[up] BY <1>0, <1>1, <2>1
  <2>5. K(b, p) = K(a, lo) /\ K(b, lo) = K(a, p) /\ K(b, up) = K(a, up) BY <2>4 DEF K
  <2>6. honest => K(b, lo) <= K(b, p) /\ K(b, p) <= K(b, up) BY <1>2, <1>4, <1>5, <2>5
  <2>8. lo <= p /\ p <= up /\ lo <= lo /\ up <= up /\ lo <= up BY <1>1
  <2>7. honest => Settled(b) BY ONLY <1>0, <1>1, <1>4, <2>1, <2>8, SwapSettled
  <2> QED BY <1>0, <2>2, <2>3, <2>6, <2>7, StartScanOrder
<1>6. CASE ~less
  <2>1. pc' = "mid_up" /\ UNCHANGED <<a, lo, up, i, j, piv, key, honest, p, stack>> BY <1>0, <1>3, <1>6
  <2>2. honest => K(a, lo) <= K(a, p) BY <1>2, <1>4, <1>6
  <2>3. Disjoint' BY <1>0, <2>1 DEF Disjoint
  <2>4. honest => Settled(a)' /\ Compared'
    BY <1>4, <2>1, <2>2 DEF Settled, Together, K, Compared
  <2> QED BY <2>1, <2>3, <2>4 DEF OrderInv
<1> QED BY <1>5, <1>6

LEMMA MidUpOrder == Inv /\ OrderInv /\ MidUp => OrderInv'
<1> SUFFICES ASSUME Inv, OrderInv, MidUp PROVE OrderInv' OBVIOUS
<1>0. /\ N \in Nat /\ pc = "mid_up" /\ TypeOK /\ Disjoint /\ a \in [1..N -> 1..N]
      /\ UNCHANGED <<key, honest, p, rnd, stack>>
  BY SortAssumption DEF MidUp, Inv, OrderInv, TypeOK
<1>1. lo \in 1..N /\ p \in 1..N /\ up \in 1..N /\ lo < p /\ p < up BY <1>0 DEF Inv, TypeOK, ScansOK
<1>2. K(a, lo) \in Int /\ K(a, p) \in Int /\ K(a, up) \in Int BY <1>0, <1>1, KeysCompare
<1>3. PICK less \in Less(a[up], a[p]) : StartScan(IF less THEN Swapped(p, up) ELSE a)
  BY DEF MidUp
<1>4. honest => /\ less <=> K(a, up) < K(a, p)
                /\ Settled(a) /\ K(a, lo) <= K(a, up) /\ K(a, lo) <= K(a, p)
  BY <1>0, <1>3 DEF Less, K, OrderInv, Compared
<1>5. CASE less
  <2> DEFINE b == Swapped(p, up)
  <2>1. b = [a EXCEPT ![p] = a[up], ![up] = a[p]] BY DEF Swapped
  <2>2. b \in [1..N -> 1..N] BY <1>0, <1>1, <2>1
  <2>3. StartScan(b) BY <1>3, <1>5
  <2> HIDE DEF b
  <2>4. b[p] = a[up] /\ b[up] = a[p] /\ b[lo] = a[lo] BY <1>0, <1>1, <2>1
  <2>5. K(b, p) = K(a, up) /\ K(b, up) = K(a, p) /\ K(b, lo) = K(a, lo) BY <2>4 DEF K
  <2>6. honest => K(b, lo) <= K(b, p) /\ K(b, p) <= K(b, up) BY <1>2, <1>4, <1>5, <2>5
  <2>8. lo <= p /\ p <= up /\ lo <= lo /\ up <= up /\ lo <= up BY <1>1
  <2>7. honest => Settled(b) BY ONLY <1>0, <1>1, <1>4, <2>1, <2>8, SwapSettled
  <2> QED BY <1>0, <2>2, <2>3, <2>6, <2>7, StartScanOrder
<1>6. CASE ~less
  <2>1. StartScan(a) BY <1>3, <1>6
  <2>2. honest => K(a, p) <= K(a, up) BY <1>2, <1>4, <1>6
  <2> QED BY <1>0, <1>4, <2>1, <2>2, StartScanOrder
<1> QED BY <1>5, <1>6

\* With an order the upward scan stops at the pivot at the latest.
LEMMA ScanUpOrder == Inv /\ OrderInv /\ ScanUp => OrderInv'
<1> SUFFICES ASSUME Inv, OrderInv, ScanUp PROVE OrderInv' OBVIOUS
<1>0. /\ N \in Nat /\ pc = "scan_up" /\ i' = i + 1 /\ TypeOK /\ Disjoint /\ a \in [1..N -> 1..N]
      /\ UNCHANGED <<a, key, honest, lo, up, p, j, piv, rnd, stack>>
  BY SortAssumption DEF ScanUp, Inv, OrderInv, TypeOK
<1>1. /\ lo \in 1..N /\ up \in 1..N /\ i \in 1..N /\ j \in 1..N /\ i + 1 \in 1..N
      /\ lo + 3 <= up /\ lo < j /\ j < up /\ lo <= i /\ i + 2 <= up
  BY <1>0 DEF Inv, TypeOK, ScansOK
<1>2. PICK less \in Less(a[i + 1], piv) :
        pc' = IF ~less THEN "scan_down" ELSE IF i' = up - 1 THEN "error" ELSE "scan_up"
  BY <1>0 DEF ScanUp
<1>3. Disjoint' BY <1>0 DEF Disjoint
<1>4. ASSUME honest PROVE pc' # "error" /\ Settled(a)' /\ Compared'
  <2>1. /\ Settled(a) /\ a[up - 1] = piv /\ \A y \in j..up : key[piv] <= K(a, y)
        /\ \A x \in lo..i : K(a, x) <= key[piv]
    BY <1>0, <1>4 DEF OrderInv, Compared
  <2>2. less <=> K(a, i + 1) < key[piv] BY <1>2, <1>4 DEF Less, K
  <2>3. up - 1 \in 1..N BY <1>0, <1>1
  <2>4. key[piv] = K(a, up - 1) BY <2>1 DEF K
  <2>5. key[piv] \in Int /\ K(a, i + 1) \in Int BY <1>0, <1>1, <2>3, <2>4, KeysCompare
  <2>6. Settled(a)' BY <1>0, <2>1 DEF Settled, Together, K
  <2>7. CASE less
    <3>1. i + 1 # up - 1 BY <2>2, <2>4, <2>5, <2>7
    <3>2. pc' = "scan_up" BY <1>0, <1>2, <2>7, <3>1
    <3>3. \A x \in lo..(i + 1) : K(a, x) <= key[piv]
      <4>1. \A x \in lo..(i + 1) : x \in lo..i \/ x = i + 1 BY <1>1
      <4>2. K(a, i + 1) <= key[piv] BY <2>2, <2>5, <2>7
      <4> QED BY <2>1, <4>1, <4>2
    <3> QED BY <1>0, <2>1, <2>6, <3>2, <3>3 DEF Compared, K
  <2>8. CASE ~less
    <3>1. pc' = "scan_down" BY <1>2, <2>8
    <3>2. key[piv] <= K(a, i + 1) BY <2>2, <2>5, <2>8
    <3>3. lo..(i' - 1) = lo..i BY <1>0, <1>1
    <3> QED BY <1>0, <2>1, <2>6, <3>1, <3>2, <3>3 DEF Compared, K
  <2> QED BY <2>7, <2>8
<1>5. pc' # "done" BY <1>2
<1> QED BY <1>0, <1>3, <1>4, <1>5 DEF OrderInv

\* The pivot between the parts: what is left are the two parts.
LEMMA DivideOrder ==
    ASSUME Inv, OrderInv, pc = "scan_down", honest' = honest, key' = key, Divide(i),
           honest => /\ Settled(a')
                     /\ \A x \in lo..i : \A y \in i..up : K(a', x) <= K(a', y)
    PROVE  Disjoint' /\ (honest => Settled(a)')
<1>0. /\ N \in Nat /\ TypeOK /\ Disjoint /\ stack \in Seq(Interval)
  BY SortAssumption DEF Inv, OrderInv, TypeOK
<1>1. /\ lo \in 1..N /\ up \in 1..N /\ i \in 1..N /\ lo < i /\ i < up
  BY <1>0 DEF Inv, TypeOK, ScansOK
<1>2. PICK e \in Interval :
        /\ stack' = <<e>> \o stack
        /\ \/ lo' = lo /\ up' = i - 1 /\ e.lo = i + 1 /\ e.up = up
           \/ lo' = i + 1 /\ up' = up /\ e.lo = lo /\ e.up = i - 1
  <2>1. PICK r \in BOOLEAN :
          /\ lo' = IF i - lo < up - i THEN lo ELSE i + 1
          /\ up' = IF i - lo < up - i THEN i - 1 ELSE up
          /\ \/ i - lo < up - i /\ stack' = <<[lo |-> i + 1, up |-> up, rnd |-> r]>> \o stack
             \/ ~(i - lo < up - i) /\ stack' = <<[lo |-> lo, up |-> i - 1, rnd |-> r]>> \o stack
    BY <1>0 DEF Divide, TypeOK
  <2>2. [lo |-> i + 1, up |-> up, rnd |-> r] \in Interval BY <1>0, <1>1 DEF Interval
  <2>3. [lo |-> lo, up |-> i - 1, rnd |-> r] \in Interval BY <1>0, <1>1 DEF Interval
  <2> QED BY <2>1, <2>2, <2>3
<1>3. /\ Len(stack') = Len(stack) + 1 /\ Len(stack) \in Nat
      /\ \A n \in 1..Len(stack') : stack'[n] = IF n = 1 THEN e ELSE stack[n - 1]
      /\ \A n \in 1..Len(stack) : stack[n] = stack'[n + 1]
  BY <1>0, <1>2, Pushed
<1>4. /\ \A n \in 1..Len(stack) : stack[n].lo \in Nat /\ stack[n].up \in Nat
      /\ \A n \in 1..Len(stack) : stack[n].up < lo \/ up < stack[n].lo
  BY <1>0, StackHolds DEF Disjoint
<1>5. \A n \in 1..Len(stack) : /\ stack[n].up < lo' \/ up' < stack[n].lo
                               /\ stack[n].up < e.lo \/ e.up < stack[n].lo
  BY <1>1, <1>2, <1>4
<1>6. e.up < lo' \/ up' < e.lo BY <1>1, <1>2
<1>7. Disjoint'
  <2>1. ASSUME NEW n \in 1..Len(stack') PROVE stack'[n].up < lo' \/ up' < stack'[n].lo
    <3>1. CASE n = 1 BY <1>3, <1>6, <3>1
    <3>2. CASE n # 1
      <4>1. n - 1 \in 1..Len(stack) /\ stack'[n] = stack[n - 1] BY <1>3, <3>2
      <4> QED BY <1>5, <4>1
    <3> QED BY <3>1, <3>2
  <2>2. ASSUME NEW m \in 1..Len(stack'), NEW n \in 1..Len(stack'), m < n
        PROVE  stack'[m].up < stack'[n].lo \/ stack'[n].up < stack'[m].lo
    <3>1. n - 1 \in 1..Len(stack) /\ stack'[n] = stack[n - 1] BY <1>3, <2>2
    <3>2. CASE m = 1 BY <1>3, <1>5, <3>1, <3>2
    <3>3. CASE m # 1
      <4>1. m - 1 \in 1..Len(stack) /\ stack'[m] = stack[m - 1] /\ m - 1 < n - 1 BY <1>3, <2>2, <3>3
      <4> QED BY <1>0, <3>1, <4>1 DEF Disjoint
    <3> QED BY <3>2, <3>3
  <2> QED BY <2>1, <2>2 DEF Disjoint
<1>8. ASSUME honest PROVE Settled(a)'
  <2>1. ASSUME NEW x \in 1..N, NEW y \in 1..N, x < y PROVE K(a', x) <= K(a', y) \/ Together(x, y)'
    <3>1. K(a', x) <= K(a', y) \/ Together(x, y) BY <1>8, <2>1 DEF Settled
    <3>2. CASE lo <= x /\ y <= up
      <4>1. CASE x <= i /\ i <= y BY <1>1, <1>8, <3>2, <4>1
      <4>2. CASE ~(x <= i /\ i <= y)
        <5>1. (lo' <= x /\ y <= up') \/ (e.lo <= x /\ y <= e.up)
          BY <1>1, <1>2, <2>1, <3>2, <4>2
        <5>2. 1 \in 1..Len(stack') /\ stack'[1] = e BY <1>3
        <5> QED BY <5>1, <5>2 DEF Together
      <4> QED BY <4>1, <4>2
    <3>3. ASSUME NEW n \in 1..Len(stack), stack[n].lo <= x, y <= stack[n].up PROVE Together(x, y)'
      <4>1. n + 1 \in 1..Len(stack') /\ stack'[n + 1] = stack[n] BY <1>3
      <4> QED BY <3>3, <4>1 DEF Together
    <3> QED BY <3>1, <3>2, <3>3 DEF Together
  <2>2. ASSUME NEW x \in 1..N, NEW y \in 1..N, x < y PROVE (K(a, x) <= K(a, y) \/ Together(x, y))'
    BY <2>1, <2>2 DEF K
  <2> QED BY <1>0, <2>2 DEF Settled
<1> QED BY <1>7, <1>8

\* With an order the downward scan stops at what the other one has passed.
LEMMA ScanDownOrder == Inv /\ OrderInv /\ ScanDown => OrderInv'
<1> SUFFICES ASSUME Inv, OrderInv, ScanDown PROVE OrderInv' OBVIOUS
<1>0. /\ N \in Nat /\ pc = "scan_down" /\ j' = j - 1 /\ TypeOK /\ Disjoint /\ a \in [1..N -> 1..N]
      /\ UNCHANGED <<key, honest, i, piv>>
  BY SortAssumption DEF ScanDown, Inv, OrderInv, TypeOK
<1>1. /\ lo \in 1..N /\ up \in 1..N /\ i \in 1..N /\ j \in 1..N
      /\ lo + 3 <= up /\ lo < j /\ j < up /\ lo < i /\ i < up
  BY <1>0 DEF Inv, TypeOK, ScansOK
<1>2. j - 1 \in 1..N /\ up - 1 \in 1..N /\ lo <= j - 1 BY <1>0, <1>1
<1>3. honest => /\ Settled(a) /\ a[up - 1] = piv /\ key[piv] <= K(a, i)
                /\ \A y \in j..up : key[piv] <= K(a, y)
                /\ \A x \in lo..(i - 1) : K(a, x) <= key[piv]
  BY <1>0 DEF OrderInv, Compared
<1>4. honest => key[piv] \in Int
  <2>1. K(a, up - 1) \in Int BY <1>0, <1>2, KeysCompare
  <2> QED BY <1>3, <2>1 DEF K
<1>5. \A x \in 1..N : K(a, x) \in Int BY <1>0, KeysCompare
<1>6. PICK less \in Less(piv, a[j - 1]) :
        \/ less /\ pc' = (IF j' < i THEN "error" ELSE "scan_down")
                /\ UNCHANGED <<a, lo, up, p, rnd, stack>>
        \/ ~less /\ j' < i /\ a' = Swapped(up - 1, i)
                 /\ p' = i /\ Divide(i) /\ pc' = "loop"
        \/ ~less /\ j' >= i /\ a' = Swapped(i, j') /\ pc' = "scan_up"
                 /\ UNCHANGED <<lo, up, p, rnd, stack>>
  BY <1>0 DEF ScanDown
<1>7. honest => (less <=> key[piv] < K(a, j - 1)) BY <1>6 DEF Less, K
<1>8. CASE less
  <2>1. pc' = (IF j - 1 < i THEN "error" ELSE "scan_down") /\ UNCHANGED <<a, lo, up, stack>>
    BY <1>0, <1>6, <1>8
  <2>2. Disjoint' BY <1>0, <2>1 DEF Disjoint
  <2>3. ASSUME honest PROVE pc' = "scan_down" /\ Settled(a)' /\ Compared'
    <3>1. ~(j - 1 < i)
      <4>1. SUFFICES ASSUME j - 1 < i PROVE FALSE OBVIOUS
      <4>2. j - 1 \in lo..(i - 1) BY <1>0, <1>1, <1>2, <4>1
      <4>3. K(a, j - 1) <= key[piv] BY <1>3, <2>3, <4>2
      <4> QED BY <1>2, <1>4, <1>5, <1>7, <1>8, <2>3, <4>3
    <3>2. Settled(a)' BY <1>0, <1>3, <2>1, <2>3 DEF Settled, Together, K
    <3>3. \A y \in (j - 1)..up : key[piv] <= K(a, y)
      <4>1. \A y \in (j - 1)..up : y = j - 1 \/ y \in j..up BY <1>1
      <4>2. key[piv] <= K(a, j - 1) BY <1>2, <1>4, <1>5, <1>7, <1>8, <2>3
      <4> QED BY <1>3, <2>3, <4>1, <4>2
    <3> QED BY <1>0, <1>3, <2>1, <2>3, <3>1, <3>2, <3>3 DEF Compared, K
  <2> QED BY <1>0, <2>1, <2>2, <2>3 DEF OrderInv
<1>9. CASE ~less /\ j - 1 < i
  <2>1. a' = [a EXCEPT ![up - 1] = a[i], ![i] = a[up - 1]] /\ Divide(i) /\ pc' = "loop"
    BY <1>0, <1>1, <1>2, <1>6, <1>9 DEF Swapped
  <2>2. ASSUME honest PROVE Settled(a') /\ \A x \in lo..i : \A y \in i..up : K(a', x) <= K(a', y)
    <3>1. lo <= up - 1 /\ up - 1 <= up /\ lo <= i /\ i <= up BY <1>1
    <3>2. Settled(a) BY <1>3, <2>2
    <3>3. Settled(a') BY ONLY <1>0, <1>1, <1>2, <2>1, <3>1, <3>2, SwapSettled
    <3>4. \A x \in 1..N : K(a', x) = IF x = i THEN key[piv]
                                     ELSE IF x = up - 1 THEN K(a, i) ELSE K(a, x)
      BY <1>0, <1>1, <1>2, <1>3, <2>1, <2>2 DEF K
    <3>5. ASSUME NEW x \in lo..i PROVE x \in 1..N /\ K(a', x) \in Int /\ K(a', x) <= key[piv]
      <4>1. x \in 1..N /\ (x = i \/ x \in lo..(i - 1)) BY <1>0, <1>1
      <4>2. x # i => x # up - 1 BY <1>1, <4>1
      <4> QED BY <1>3, <1>4, <1>5, <2>2, <3>4, <4>1, <4>2
    <3>6. ASSUME NEW y \in i..up PROVE y \in 1..N /\ K(a', y) \in Int /\ key[piv] <= K(a', y)
      <4>1. y \in 1..N /\ y \in j..up BY <1>0, <1>1, <1>9
      <4> QED BY <1>1, <1>3, <1>4, <1>5, <2>2, <3>4, <4>1
    <3>7. ASSUME NEW x \in lo..i, NEW y \in i..up PROVE K(a', x) <= K(a', y)
      BY <1>4, <2>2, <3>5, <3>6
    <3> QED BY <3>3, <3>7
  <2>3. Disjoint' /\ (honest => Settled(a)') BY <1>0, <2>1, <2>2, DivideOrder
  <2> QED BY <1>0, <2>1, <2>3 DEF OrderInv, Compared
<1>10. CASE ~less /\ j - 1 >= i
  <2>1. /\ a' = [a EXCEPT ![i] = a[j - 1], ![j - 1] = a[i]] /\ pc' = "scan_up"
        /\ UNCHANGED <<lo, up, p, rnd, stack>>
    BY <1>0, <1>1, <1>2, <1>6, <1>10 DEF Swapped
  <2>2. Disjoint' BY <1>0, <2>1 DEF Disjoint
  <2>3. ASSUME honest PROVE Settled(a)' /\ Compared'
    <3>1. lo <= j - 1 /\ j - 1 <= up /\ lo <= i /\ i <= up BY <1>1
    <3>2. Settled(a) BY <1>3, <2>3
    <3>3. Settled(a') BY ONLY <1>0, <1>1, <1>2, <2>1, <3>1, <3>2, SwapSettled
    <3>4. Settled(a)' BY <1>0, <2>1, <3>3 DEF Settled, Together, K
    <3>5. \A x \in 1..N : K(a', x) = IF x = j - 1 THEN K(a, i)
                                     ELSE IF x = i THEN K(a, j - 1) ELSE K(a, x)
      BY <1>0, <1>1, <1>2, <2>1 DEF K
    <3>6. a'[up - 1] = piv
      <4>1. up - 1 # i /\ up - 1 # j - 1 BY <1>1, <1>10
      <4> QED BY <1>0, <1>2, <1>3, <2>1, <2>3, <4>1
    <3>7. K(a, j - 1) <= key[piv] BY <1>2, <1>4, <1>5, <1>7, <1>10, <2>3
    <3>8. ASSUME NEW y \in (j - 1)..up PROVE key[piv] <= K(a', y)
      <4>1. y \in 1..N /\ (y = j - 1 \/ y \in j..up) BY <1>0, <1>1
      <4>2. y # j - 1 => y # i BY <1>1, <1>10, <4>1
      <4> QED BY <1>3, <2>3, <3>5, <4>1, <4>2
    <3>9. ASSUME NEW x \in lo..i PROVE K(a', x) <= key[piv]
      <4>1. x \in 1..N /\ (x = i \/ x \in lo..(i - 1)) BY <1>0, <1>1
      <4>2. CASE x = i
        <5>1. K(a', x) = K(a, j - 1) BY <3>5, <4>1, <4>2
        <5> QED BY <3>7, <5>1
      <4>3. CASE x # i
        <5>1. x # j - 1 /\ x \in lo..(i - 1) BY <1>1, <1>10, <4>1, <4>3
        <5>2. K(a', x) = K(a, x) BY <3>5, <4>1, <4>3, <5>1
        <5> QED BY <1>3, <2>3, <5>1, <5>2
      <4> QED BY <4>2, <4>3
    <3> QED BY <1>0, <2>1, <3>4, <3>6, <3>8, <3>9 DEF Compared, K
  <2> QED BY <1>0, <2>1, <2>2, <2>3 DEF OrderInv
<1> QED BY <1>0, <1>1, <1>8, <1>9, <1>10

LEMMA NextOrder == Inv /\ OrderInv /\ [Next]_vars => OrderInv'
<1> SUFFICES ASSUME Inv, OrderInv, [Next]_vars PROVE OrderInv' OBVIOUS
<1>1. CASE Raise
  <2>1. Disjoint' BY <1>1 DEF OrderInv, Disjoint, Raise
  <2> QED BY <1>1, <2>1 DEF OrderInv, Raise
<1>2. CASE UNCHANGED vars
  BY <1>2 DEF OrderInv, Disjoint, Settled, Together, Compared, K, vars
<1> QED BY <1>1, <1>2, LoopOrder, EndsOrder, MidLoOrder, MidUpOrder, ScanUpOrder, ScanDownOrder DEF Next

\* For every number of elements and all keys: an order function that is an
\* order is never called invalid, and when table.sort returns, the array is
\* sorted by it, whatever pivots were drawn.
THEOREM SortSorts == Spec => []SortedAtEnd
<1>1. Inv /\ OrderInv => SortedAtEnd
  <2> SUFFICES ASSUME Inv, OrderInv, honest PROVE pc # "error" /\
        (pc = "done" => \A x \in 1..(N - 1) : key[a[x]] <= key[a[x + 1]])
    BY DEF SortedAtEnd
  <2>1. N \in Nat /\ lo \in Nat /\ up \in Nat BY SortAssumption DEF Inv, TypeOK
  <2>2. ASSUME pc = "done", NEW x \in 1..(N - 1) PROVE key[a[x]] <= key[a[x + 1]]
    <3>1. x \in 1..N /\ x + 1 \in 1..N /\ x < x + 1 BY <2>1
    <3>2. ~Together(x, x + 1)
      <4>1. Len(stack) = 0 /\ ~(lo < up) BY <2>2 DEF OrderInv
      <4>2. ~(lo <= x /\ x + 1 <= up) BY <2>1, <3>1, <4>1
      <4> QED BY <4>1, <4>2 DEF Together
    <3>3. Settled(a) BY DEF OrderInv
    <3> QED BY <3>1, <3>2, <3>3 DEF Settled, K
  <2> QED BY <2>2 DEF OrderInv
<1>2. Init => Inv /\ OrderInv BY InitInv, InitOrder
<1>3. Inv /\ OrderInv /\ [Next]_vars => (Inv /\ OrderInv)' BY NextInv, NextOrder
<1> QED BY <1>1, <1>2, <1>3, PTL DEF Spec

----------------------------------------------------------------------------
(***************************************************************************)
(* require, for all names, paths, files and bounds: what runs, and what a  *)
(* finalizer has still to call, is in a library that is open.              *)
(***************************************************************************)

(***************************************************************************)
(* A state of the search has a list of libraries and their handles.        *)
(***************************************************************************)
State == [clibs : Seq(Libs), handles : [Libs -> Int]]

(***************************************************************************)
(* A search leaves the libraries alone or opens one that was not open, and *)
(* a loader in a library is in one that is open then (lookforfunc).        *)
(***************************************************************************)
Sound(r, S) ==
  /\ r.S = S \/ \E f \in Libs : ~Known(S, f) /\ r.S = AddToClib(S, f)
  /\ r.file # CLIBS => r.file \in Libs /\ Known(r.S, r.file)

LEMMA OpenedSound ==
  ASSUME NEW S \in State, NEW f \in Libs
  PROVE  /\ Opened(S, f) = S \/ (~Known(S, f) /\ Opened(S, f) = AddToClib(S, f))
         /\ Known(Opened(S, f), f)
<1>1. CASE Known(S, f)
  BY <1>1 DEF Opened
<1>2. CASE ~Known(S, f)
  <2>1. Opened(S, f) = AddToClib(S, f)
    BY <1>2 DEF Opened
  <2>2. AddToClib(S, f).clibs = Append(S.clibs, f)
    BY DEF AddToClib
  <2>3. Len(S.clibs) + 1 \in DOMAIN Append(S.clibs, f) /\ Append(S.clibs, f)[Len(S.clibs) + 1] = f
    BY DEF State
  <2> QED BY <1>2, <2>1, <2>2, <2>3 DEF Known
<1> QED BY <1>1, <1>2

LEMMA NoneSound == ASSUME NEW S PROVE Sound(None(S), S) /\ Sound(Error(S), S)
BY DEF Sound, None, Error, Search

LEMMA InLibrarySound ==
  ASSUME NEW S \in State, NEW files, NEW name, NEW missing
  PROVE  Sound(InLibrary(files, name, missing, S), S)
<1>1. CASE files = {}
  BY <1>1, NoneSound DEF InLibrary
<1>2. CASE files # {}
  <2> DEFINE f == CHOOSE x \in files : TRUE
  <2>1. CASE f \notin Libs
    BY <1>2, <2>1, NoneSound DEF InLibrary
  <2>2. CASE f \in Libs
    <3>1. PICK what : InLibrary(files, name, missing, S) = Search(what, f, Opened(S, f))
      BY <1>2, <2>2 DEF InLibrary
    <3> HIDE DEF f
    <3>2. Search(what, f, Opened(S, f)).S = Opened(S, f) /\ Search(what, f, Opened(S, f)).file = f
      BY DEF Search
    <3> QED BY <2>2, <3>1, <3>2, OpenedSound DEF Sound
  <2> QED BY <2>1, <2>2
<1> QED BY <1>1, <1>2

LEMMA FindLoaderSound ==
  ASSUME NEW S \in State, NEW name
  PROVE  Sound(FindLoader(name, S), S)
<1>1. Sound(Search("loader", CLIBS, S), S)
  BY DEF Sound, Search
<1>2. Sound(SearcherLua(name, S), S)
  BY <1>1, NoneSound DEF SearcherLua
<1>3. Sound(SearcherC(name, S), S)
  BY InLibrarySound DEF SearcherC
<1>4. Sound(SearcherCroot(name, S), S)
  BY InLibrarySound, NoneSound DEF SearcherCroot
<1> QED BY <1>1, <1>2, <1>3, <1>4 DEF FindLoader

----------------------------------------------------------------------------
(***************************************************************************)
(* Sequences without their end, and without one element.                   *)
(***************************************************************************)
LEMMA Prefix ==
  ASSUME NEW T, NEW s \in Seq(T), NEW n \in 0..Len(s)
  PROVE  /\ SubSeq(s, 1, n) \in Seq(T) /\ Len(SubSeq(s, 1, n)) = n
         /\ \A k \in 1..n : SubSeq(s, 1, n)[k] = s[k]
<1>1. n \in Int /\ \A k \in 1..n : s[k] \in T
  BY ElementOfSeq
<1> QED BY <1>1, SubSeqProperties

LEMMA Without ==
  ASSUME NEW T, NEW s \in Seq(T), NEW k \in 1..Len(s), NEW t,
         t = SubSeq(s, 1, k - 1) \o SubSeq(s, k + 1, Len(s))
  PROVE  /\ t \in Seq(T) /\ Len(t) = Len(s) - 1
         /\ \A m \in 1..Len(t) : t[m] = IF m < k THEN s[m] ELSE s[m + 1]
<1> DEFINE u == SubSeq(s, 1, k - 1)
           v == SubSeq(s, k + 1, Len(s))
<1>1. u \in Seq(T) /\ Len(u) = k - 1 /\ \A m \in 1..(k - 1) : u[m] = s[m]
  BY Prefix
<1>2. \A m \in (k + 1)..Len(s) : s[m] \in T
  BY ElementOfSeq
<1>3. v \in Seq(T) /\ Len(v) = Len(s) - k /\ \A m \in 1..(Len(s) - k) : v[m] = s[k + m]
  BY <1>2, SubSeqProperties
<1>4. t = u \o v
  OBVIOUS
<1> HIDE DEF u, v
<1>5. /\ u \o v \in Seq(T) /\ Len(u \o v) = Len(u) + Len(v)
      /\ \A m \in 1..(Len(u) + Len(v)) : (u \o v)[m] = IF m <= Len(u) THEN u[m] ELSE v[m - Len(u)]
  BY <1>1, <1>3, ConcatProperties
<1>6. ASSUME NEW m \in 1..(Len(s) - 1) PROVE (u \o v)[m] = IF m < k THEN s[m] ELSE s[m + 1]
  <2>1. m \in 1..(Len(u) + Len(v))
    BY <1>1, <1>3
  <2>2. (u \o v)[m] = IF m <= Len(u) THEN u[m] ELSE v[m - Len(u)]
    BY <1>5, <2>1
  <2>3. CASE m < k
    <3>1. m <= Len(u) /\ m \in 1..(k - 1)
      BY <1>1, <2>3
    <3> QED BY <1>1, <2>2, <2>3, <3>1
  <2>4. CASE ~(m < k)
    <3>1. ~(m <= Len(u)) /\ m - Len(u) \in 1..(Len(s) - k) /\ k + (m - Len(u)) = m + 1 /\ ~(m < k)
      BY <1>1, <2>4
    <3>2. v[m - Len(u)] = s[k + (m - Len(u))]
      BY <1>3, <3>1
    <3> QED BY <2>2, <3>1, <3>2
  <2> QED BY <2>3, <2>4
<1>7. Len(u) + Len(v) = Len(s) - 1
  BY <1>1, <1>3
<1> QED BY <1>4, <1>5, <1>6, <1>7

----------------------------------------------------------------------------
LEMMA TakeState ==
  ASSUME LibTypeOK, NEW r, Sound(r, Here), Take(r.S)
  PROVE  clibs' \in Seq(Libs) /\ handles' \in [Libs -> Int]
<1>1. CASE r.S = Here
  BY <1>1 DEF LibTypeOK, Take, Here
<1>2. CASE \E f \in Libs : r.S = AddToClib(Here, f)
  BY <1>2 DEF LibTypeOK, Take, Here, AddToClib
<1> QED BY <1>1, <1>2 DEF Sound

LEMMA HereState == LibTypeOK => Here \in State
BY DEF LibTypeOK, Here, State

LEMMA ThrowKeeps ==
  ASSUME LibTypeOK, Throw
  PROVE  frames' \in Seq(Frame) /\ \A k \in DOMAIN frames' : k \in DOMAIN frames /\ frames'[k] = frames[k]
<1>1. PICK n \in 0..Len(frames) : frames' = SubSeq(frames, 1, n)
  BY DEF Throw
<1>2. frames' \in Seq(Frame) /\ Len(frames') = n /\ \A k \in 1..n : frames'[k] = frames[k]
  BY <1>1, Prefix DEF LibTypeOK
<1> QED BY <1>2 DEF LibTypeOK

(***************************************************************************)
(* Every variable keeps its type: no search leaves require without a list  *)
(* of libraries, and what runs is a loader, a function or a finalizer of   *)
(* an open library or of none.                                             *)
(***************************************************************************)
THEOREM TypeCorrect == LibSpec => []LibTypeOK
<1>1. LibInit => LibTypeOK
  BY DEF LibInit, LibTypeOK, Values
<1>2. LibTypeOK /\ [LibNext]_libvars => LibTypeOK'
  <2> SUFFICES ASSUME LibTypeOK, [LibNext]_libvars PROVE LibTypeOK'
    OBVIOUS
  <2> USE DEF LibTypeOK
  <2>0. ASSUME NEW k \in 1..Len(objects)
        PROVE  SubSeq(objects, 1, k - 1) \o SubSeq(objects, k + 1, Len(objects)) \in Seq(Libs \cup {CLIBS})
    BY Without
  <2>1. CASE UNCHANGED libvars
    BY <2>1 DEF libvars
  <2>2. ASSUME NEW n \in Names, IsLoaded(n) PROVE LibTypeOK'
    BY <2>2 DEF IsLoaded, libvars
  <2>3. ASSUME NEW n \in Names, Require(n) PROVE LibTypeOK'
    <3> DEFINE r == FindLoader(n, Here)
    <3>1. Sound(r, Here)
      BY HereState, FindLoaderSound
    <3>2. Take(r.S) /\ (Enter("loader", n, r.file) \/ Throw)
      BY <2>3 DEF Require
    <3>3. r.file \in Libs \cup {CLIBS}
      BY <3>1 DEF Sound
    <3> HIDE DEF r
    <3>4. clibs' \in Seq(Libs) /\ handles' \in [Libs -> Int]
      BY <3>1, <3>2, TakeState
    <3>5. [kind |-> "loader", name |-> n, file |-> r.file] \in Frame
      BY <3>3 DEF Frame
    <3>6. frames' \in Seq(Frame)
      <4>1. ASSUME Enter("loader", n, r.file) PROVE frames' \in Seq(Frame)
        BY <3>5, <4>1 DEF Enter
      <4> QED BY <3>2, <4>1, ThrowKeeps
    <3> QED BY <2>3, <3>4, <3>6 DEF Require
  <2>4. ASSUME NEW v \in Values \ {"true"}, Return(v) PROVE LibTypeOK'
    <3>1. frames' \in Seq(Frame)
      BY <2>4, Prefix DEF Return
    <3>2. frames[Len(frames)] \in Frame
      BY <2>4 DEF Return
    <3> DEFINE f == frames[Len(frames)]
               set == IF v # "nil" THEN v ELSE loaded[f.name]
               w == IF set = "nil" THEN "true" ELSE set
    <3>3. loaded' = loaded \/ loaded' = [loaded EXCEPT ![f.name] = w]
      BY <2>4 DEF Return
    <3>4. f.name \in Names => w \in Values
      BY DEF Values
    <3> HIDE DEF f, w
    <3>5. loaded' \in [Names -> Values]
      BY <3>3, <3>4
    <3> QED BY <2>4, <3>1, <3>5 DEF Return
  <2>5. CASE SetLoaded("table")
    BY <2>5 DEF SetLoaded, Values
  <2>6. CASE Fail
    BY <2>6, ThrowKeeps DEF Fail
  <2>7. ASSUME NEW f \in Libs, LoadLib(f) PROVE LibTypeOK'
    <3>1. Opened(Here, f) = Here \/ Opened(Here, f) = AddToClib(Here, f)
      BY HereState, OpenedSound
    <3>2. Opened(Here, f).clibs \in Seq(Libs) /\ Opened(Here, f).handles \in [Libs -> Int]
      <4>1. Here.clibs \in Seq(Libs) /\ Here.handles \in [Libs -> Int]
        BY DEF Here
      <4>2. AddToClib(Here, f).clibs \in Seq(Libs) /\ AddToClib(Here, f).handles \in [Libs -> Int]
        BY DEF AddToClib, Here
      <4> QED BY <3>1, <4>1, <4>2
    <3> QED BY <2>7, <3>2 DEF LoadLib, Take
  <2>8. ASSUME NEW f \in Libs, CallC(f) PROVE LibTypeOK'
    <3>1. [kind |-> "C", name |-> <<>>, file |-> f] \in Frame
      BY DEF Frame
    <3>2. frames' \in Seq(Frame)
      BY <2>8, <3>1 DEF CallC, Enter
    <3> QED BY <2>8, <3>2 DEF CallC
  <2>9. CASE NewObject
    <3>1. frames[Len(frames)] \in Frame
      BY <2>9 DEF NewObject
    <3>2. frames[Len(frames)].file \in Libs \cup {CLIBS}
      BY <3>1 DEF Frame
    <3> QED BY <2>9, <3>2 DEF NewObject
  <2>10. CASE Collect
    <3>1. PICK k \in 2..Len(objects) :
            /\ Enter("gc", <<>>, objects[k])
            /\ objects' = SubSeq(objects, 1, k - 1) \o SubSeq(objects, k + 1, Len(objects))
      BY <2>10 DEF Collect
    <3>2. frames' \in Seq(Frame)
      BY <3>1 DEF Enter, Frame
    <3>3. objects' \in Seq(Libs \cup {CLIBS})
      BY <2>0, <3>1
    <3> QED BY <2>10, <3>2, <3>3 DEF Collect
  <2>11. CASE Close
    BY <2>11 DEF Close
  <2>12. CASE Finalize
    <3>1. Len(objects) \in 1..Len(objects)
      BY <2>12 DEF Finalize
    <3>2. frames' \in Seq(Frame)
      BY <2>12, <3>1 DEF Finalize, NextFinalized, Enter, Frame
    <3>3. objects' \in Seq(Libs \cup {CLIBS})
      BY <2>0, <2>12, <3>1 DEF Finalize, NextFinalized
    <3> QED BY <2>12, <3>2, <3>3 DEF Finalize
  <2>13. CASE FinalizeClibs
    <3>1. Len(objects) \in 1..Len(objects)
      BY <2>13 DEF FinalizeClibs
    <3>2. objects' \in Seq(Libs \cup {CLIBS})
      BY <2>0, <2>13, <3>1 DEF FinalizeClibs, NextFinalized
    <3>3. UNCHANGED <<loaded, clibs, handles, frames>> /\ phase' = "unloading" /\ handle' \in Nat
      BY <2>13 DEF FinalizeClibs
    <3> QED BY <3>2, <3>3
  <2>14. CASE UnloadLib
    <3>1. handles' \in [Libs -> Int]
      <4> DEFINE x == clibs[handle]
                 y == handles[x] - 1
      <4>1. handles' = [handles EXCEPT ![x] = y]
        BY <2>14 DEF UnloadLib
      <4>2. x \in Libs => y \in Int
        OBVIOUS
      <4> HIDE DEF x, y
      <4> QED BY <4>1, <4>2
    <3>2. handle' \in Nat
      BY <2>14 DEF UnloadLib
    <3>3. UNCHANGED <<loaded, clibs, frames, objects, phase>>
      BY <2>14 DEF UnloadLib
    <3> QED BY <3>1, <3>2, <3>3
  <2>15. CASE Unloaded
    BY <2>15 DEF Unloaded
  <2> QED BY <2>1, <2>2, <2>3, <2>4, <2>5, <2>6, <2>7, <2>8, <2>9, <2>10, <2>11, <2>12, <2>13, <2>14, <2>15
          DEF LibNext
<1> QED BY <1>1, <1>2, PTL DEF LibSpec

----------------------------------------------------------------------------
(***************************************************************************)
(* Opening a library that was not open puts it at the end of CLIBS and     *)
(* opens it once; all that was in CLIBS stays there.                       *)
(***************************************************************************)
LEMMA OpenKeeps ==
  ASSUME LibTypeOK, OpenOnce, phase \in {"run", "closing"},
         NEW S, S = Here \/ \E f \in Libs : ~Known(Here, f) /\ S = AddToClib(Here, f),
         Take(S), UNCHANGED <<phase, handle>>
  PROVE  OpenOnce' /\ \A f : Known(Here, f) => Known(Here, f)'
<1> USE DEF LibTypeOK
<1>1. CASE S = Here
  <2>1. UNCHANGED <<clibs, handles>>
    BY <1>1 DEF Take, Here
  <2> QED BY <2>1 DEF OpenOnce, Left, Known, Here
<1>2. ASSUME NEW f \in Libs, ~Known(Here, f), S = AddToClib(Here, f)
      PROVE  OpenOnce' /\ \A g : Known(Here, g) => Known(Here, g)'
  <2>1. clibs' = Append(clibs, f) /\ handles' = [handles EXCEPT ![f] = handles[f] + 1]
    BY <1>2 DEF Take, AddToClib, Here
  <2> DEFINE n == Len(clibs)
  <2>2. /\ n \in Nat /\ Len(clibs') = n + 1 /\ clibs'[n + 1] = f
        /\ \A k \in 1..n : clibs'[k] = clibs[k]
        /\ DOMAIN clibs = 1..n /\ DOMAIN clibs' = 1..(n + 1)
    BY <2>1
  <2>3. \A k \in 1..n : clibs[k] # f
    BY <1>2, <2>2 DEF Known, Here
  <2>4. \A k, m \in DOMAIN clibs' : clibs'[k] = clibs'[m] => k = m
    <3> SUFFICES ASSUME NEW k \in 1..(n + 1), NEW m \in 1..(n + 1), clibs'[k] = clibs'[m] PROVE k = m
      BY <2>2
    <3>1. (k \in 1..n \/ k = n + 1) /\ (m \in 1..n \/ m = n + 1)
      BY <2>2
    <3>2. \A x, y \in 1..n : clibs[x] = clibs[y] => x = y
      BY <2>2 DEF OpenOnce
    <3> HIDE DEF n
    <3> QED BY <2>2, <2>3, <3>1, <3>2
  <2>5. Left = n /\ Left' = n + 1
    BY <2>2 DEF Left
  <2>6. ASSUME NEW g \in Libs
        PROVE  handles'[g] = IF \E k \in 1..(n + 1) : clibs'[k] = g THEN 1 ELSE 0
    <3>1. handles[g] = IF \E k \in 1..n : clibs[k] = g THEN 1 ELSE 0
      BY <2>5 DEF OpenOnce
    <3>2. CASE g = f
      <4>1. handles[f] = 0
        BY <2>3, <3>1, <3>2
      <4>2. handles'[f] = 1
        BY <2>1, <4>1
      <4>3. n + 1 \in 1..(n + 1)
        BY <2>2
      <4> QED BY <2>2, <3>2, <4>2, <4>3
    <3>3. CASE g # f
      <4>1. handles'[g] = handles[g]
        BY <2>1, <3>3
      <4>2. (\E k \in 1..(n + 1) : clibs'[k] = g) <=> \E k \in 1..n : clibs[k] = g
        <5>1. \A k \in 1..(n + 1) : k \in 1..n \/ k = n + 1
          BY <2>2
        <5>2. \A k \in 1..n : k \in 1..(n + 1)
          BY <2>2
        <5> HIDE DEF n
        <5> QED BY <2>2, <3>3, <5>1, <5>2
      <4> QED BY <3>1, <4>1, <4>2
    <3> QED BY <3>2, <3>3
  <2>7. handle' <= Len(clibs') /\ (phase' = "closed" => handle' = 0)
    BY <2>2 DEF OpenOnce
  <2>8. OpenOnce'
    BY <2>4, <2>5, <2>6, <2>7 DEF OpenOnce
  <2>9. \A g : Known(Here, g) => Known(Here, g)'
    <3> SUFFICES ASSUME NEW g, Known(Here, g) PROVE Known(Here, g)'
      OBVIOUS
    <3>1. PICK k \in 1..n : clibs[k] = g
      BY <2>2 DEF Known, Here
    <3>2. k \in DOMAIN clibs' /\ clibs'[k] = g
      BY <2>2, <3>1
    <3> QED BY <3>2 DEF Known, Here
  <2> QED BY <2>8, <2>9
<1> QED BY <1>1, <1>2

LEMMA SameLibs ==
  ASSUME UNCHANGED <<clibs, handles, handle>>,
         UNCHANGED phase \/ (phase \in {"run", "closing"} /\ phase' \in {"run", "closing"})
  PROVE  (OpenOnce => OpenOnce') /\ \A f : Known(Here, f) => Known(Here, f)'
BY DEF OpenOnce, Left, Known, Here

(***************************************************************************)
(* One more function runs, or some have ended; an object is gone.          *)
(***************************************************************************)
FramesKnown == \A k \in DOMAIN frames : frames[k].file # CLIBS => Known(Here, frames[k].file)
ObjectsKnown == \A k \in DOMAIN objects : objects[k] # CLIBS => Known(Here, objects[k])

LEMMA EnterKnown ==
  ASSUME LibTypeOK, FramesKnown, \A f : Known(Here, f) => Known(Here, f)',
         NEW kind, NEW name, NEW file, Enter(kind, name, file),
         file # CLIBS => Known(Here, file)'
  PROVE  FramesKnown'
<1> DEFINE e == [kind |-> kind, name |-> name, file |-> file]
<1>1. frames' = Append(frames, e) /\ e.file = file
  BY DEF Enter
<1> HIDE DEF e
<1>2. \A k \in DOMAIN frames' : (k \in DOMAIN frames /\ frames'[k] = frames[k]) \/ frames'[k] = e
  BY <1>1 DEF LibTypeOK
<1>3. ASSUME NEW k \in DOMAIN frames', NEW f, f = frames'[k].file, f # CLIBS PROVE Known(Here, f)'
  BY <1>1, <1>2, <1>3 DEF FramesKnown
<1> QED BY <1>3 DEF FramesKnown, Known, Here

LEMMA FewerKnown ==
  ASSUME FramesKnown, \A f : Known(Here, f) => Known(Here, f)',
         \A k \in DOMAIN frames' : k \in DOMAIN frames /\ frames'[k] = frames[k]
  PROVE  FramesKnown'
<1>1. ASSUME NEW k \in DOMAIN frames', NEW f, f = frames'[k].file, f # CLIBS PROVE Known(Here, f)'
  BY <1>1 DEF FramesKnown
<1> QED BY <1>1 DEF FramesKnown, Known, Here

LEMMA ObjectsStayKnown ==
  ASSUME ObjectsKnown, \A f : Known(Here, f) => Known(Here, f)',
         \A k \in DOMAIN objects' : \E m \in DOMAIN objects : objects'[k] = objects[m]
  PROVE  ObjectsKnown'
<1>1. ASSUME NEW k \in DOMAIN objects', NEW f, f = objects'[k], f # CLIBS PROVE Known(Here, f)'
  BY <1>1 DEF ObjectsKnown
<1> QED BY <1>1 DEF ObjectsKnown, Known, Here

\* An object that was not CLIBS is finalized while the program runs or closes.
LEMMA ObjectGone ==
  ASSUME LibTypeOK, ClibsFirst, ObjectsKnown, phase \in {"run", "closing"}, phase' = phase,
         \A f : Known(Here, f) => Known(Here, f)',
         NEW k \in 2..Len(objects),
         objects' = SubSeq(objects, 1, k - 1) \o SubSeq(objects, k + 1, Len(objects))
  PROVE  ClibsFirst' /\ ObjectsKnown' /\ objects[k] # CLIBS
<1>1. k \in 1..Len(objects) /\ Len(objects) \in Nat /\ 1 < k /\ k <= Len(objects)
  BY DEF LibTypeOK
<1>2. /\ objects' \in Seq(Libs \cup {CLIBS}) /\ Len(objects') = Len(objects) - 1
      /\ \A m \in 1..Len(objects') : objects'[m] = IF m < k THEN objects[m] ELSE objects[m + 1]
  <2>1. objects \in Seq(Libs \cup {CLIBS})
    BY DEF LibTypeOK
  <2>2. k \in 1..Len(objects)
    BY <1>1
  <2>3. ASSUME NEW t, t = SubSeq(objects, 1, k - 1) \o SubSeq(objects, k + 1, Len(objects))
        PROVE  /\ t \in Seq(Libs \cup {CLIBS}) /\ Len(t) = Len(objects) - 1
               /\ \A m \in 1..Len(t) : t[m] = IF m < k THEN objects[m] ELSE objects[m + 1]
    BY ONLY <2>1, <2>2, <2>3, Without
  <2> QED BY ONLY <2>3, objects' = SubSeq(objects, 1, k - 1) \o SubSeq(objects, k + 1, Len(objects))
<1>3. \A m \in DOMAIN objects : objects[m] = CLIBS <=> m = 1
  BY DEF ClibsFirst
<1>4. DOMAIN objects = 1..Len(objects) /\ DOMAIN objects' = 1..Len(objects')
  BY <1>2 DEF LibTypeOK
<1>5. ASSUME NEW m \in DOMAIN objects'
      PROVE  /\ \E x \in DOMAIN objects : objects'[m] = objects[x]
             /\ objects'[m] = CLIBS <=> m = 1
  <2>1. CASE m < k
    BY <1>1, <1>2, <1>3, <1>4, <2>1
  <2>2. CASE ~(m < k)
    <3>1. m \in 1..(Len(objects) - 1)
      BY <1>2, <1>4
    <3>2. m + 1 \in DOMAIN objects /\ m + 1 # 1 /\ m # 1
      BY <1>1, <1>4, <2>2, <3>1
    <3> QED BY <1>2, <1>3, <1>4, <2>2, <3>2
  <2> QED BY <2>1, <2>2
<1>6. objects' # <<>>
  <2>1. Len(objects') # 0
    BY <1>1, <1>2
  <2> QED BY <2>1
<1>7. ClibsFirst'
  BY <1>5, <1>6 DEF ClibsFirst
<1>8. ObjectsKnown'
  BY <1>5, ObjectsStayKnown
<1>9. objects[k] # CLIBS
  BY <1>1, <1>3, <1>4
<1> QED BY <1>7, <1>8, <1>9

----------------------------------------------------------------------------
LEMMA LibStep ==
  ASSUME LibTypeOK, LibTypeOK', LibInv, [LibNext]_libvars PROVE LibInv'
<1>0. OpenOnce /\ FramesKnown /\ ObjectsKnown /\ ClibsFirst
  BY DEF LibInv, InClibs, FramesKnown, ObjectsKnown
<1>a. ASSUME OpenOnce', FramesKnown', ObjectsKnown', ClibsFirst' PROVE LibInv'
  BY <1>a DEF LibInv, InClibs, FramesKnown, ObjectsKnown
<1>b. ASSUME UNCHANGED objects, UNCHANGED phase,
             (phase \in {"run", "closing"}) \/ UNCHANGED frames
      PROVE  ClibsFirst'
  BY <1>0, <1>b DEF ClibsFirst
<1>c. ASSUME UNCHANGED objects, \A f : Known(Here, f) => Known(Here, f)' PROVE ObjectsKnown'
  BY <1>0, <1>c, ObjectsStayKnown
<1>d. ASSUME UNCHANGED frames, \A f : Known(Here, f) => Known(Here, f)' PROVE FramesKnown'
  BY <1>0, <1>d, FewerKnown
<1>e. Running => phase \in {"run", "closing"}
  BY DEF Running
<1>f. frames # <<>> => phase \in {"run", "closing"}
  BY <1>0 DEF ClibsFirst
<1>1. CASE UNCHANGED libvars
  BY <1>1, LibInv DEF LibInv, libvars, OpenOnce, InClibs, ClibsFirst, Left, Known, Here
<1>2. ASSUME NEW n \in Names, IsLoaded(n) PROVE LibInv'
  BY <1>2 DEF IsLoaded, LibInv, libvars, OpenOnce, InClibs, ClibsFirst, Left, Known, Here
<1>3. ASSUME NEW n \in Names, Require(n) PROVE LibInv'
  <2>0. PICK r : r = FindLoader(n, Here)
    OBVIOUS
  <2>1. Sound(r, Here)
    BY <2>0, HereState, FindLoaderSound
  <2>2. /\ Take(r.S) /\ (Enter("loader", n, r.file) \/ Throw)
        /\ UNCHANGED <<phase, handle>> /\ UNCHANGED objects /\ phase \in {"run", "closing"}
    BY <1>3, <1>e, <2>0 DEF Require
  <2>3. r.S = Here \/ \E f \in Libs : ~Known(Here, f) /\ r.S = AddToClib(Here, f)
    BY <2>1 DEF Sound
  <2>4. OpenOnce' /\ \A f : Known(Here, f) => Known(Here, f)'
    BY <1>0, <2>2, <2>3, OpenKeeps
  <2>5. r.file # CLIBS => Known(Here, r.file)'
    <3>1. clibs' = r.S.clibs
      BY <2>2 DEF Take
    <3> QED BY <2>1, <3>1 DEF Sound, Known, Here
  <2>6. FramesKnown'
    <3>1. ASSUME Throw PROVE FramesKnown'
      BY <1>0, <2>4, <3>1, ThrowKeeps, FewerKnown
    <3>2. ASSUME Enter("loader", n, r.file) PROVE FramesKnown'
      BY <1>0, <2>4, <2>5, <3>2, EnterKnown
    <3> QED BY <2>2, <3>1, <3>2
  <2> QED BY <1>a, <1>b, <1>c, <2>2, <2>4, <2>6
<1>4. ASSUME NEW v \in Values \ {"true"}, Return(v) PROVE LibInv'
  <2>1. UNCHANGED <<clibs, handles, objects, phase, handle>> /\ phase \in {"run", "closing"}
    BY <1>4, <1>f DEF Return
  <2>2. OpenOnce' /\ \A f : Known(Here, f) => Known(Here, f)'
    BY <1>0, <2>1, SameLibs
  <2>3. \A k \in DOMAIN frames' : k \in DOMAIN frames /\ frames'[k] = frames[k]
    <3>1. Len(frames) - 1 \in 0..Len(frames) /\ frames' = SubSeq(frames, 1, Len(frames) - 1)
      BY <1>4 DEF Return, LibTypeOK
    <3>2. frames' \in Seq(Frame) /\ Len(frames') = Len(frames) - 1
          /\ \A k \in 1..(Len(frames) - 1) : frames'[k] = frames[k]
      BY <3>1, Prefix DEF LibTypeOK
    <3> QED BY <3>1, <3>2 DEF LibTypeOK
  <2>4. FramesKnown'
    BY <1>0, <2>2, <2>3, FewerKnown
  <2> QED BY <1>a, <1>b, <1>c, <2>1, <2>2, <2>4
<1>5. CASE SetLoaded("table")
  <2>1. UNCHANGED <<clibs, handles, objects, frames, phase, handle>>
    BY <1>5 DEF SetLoaded
  <2>2. OpenOnce' /\ \A f : Known(Here, f) => Known(Here, f)'
    BY <1>0, <2>1, SameLibs
  <2> QED BY <1>a, <1>b, <1>c, <1>d, <2>1, <2>2
<1>6. CASE Fail
  <2>1. UNCHANGED <<clibs, handles, objects, phase, handle>> /\ phase \in {"run", "closing"} /\ Throw
    BY <1>6, <1>e DEF Fail
  <2>2. OpenOnce' /\ \A f : Known(Here, f) => Known(Here, f)'
    BY <1>0, <2>1, SameLibs
  <2>3. FramesKnown'
    BY <1>0, <2>1, <2>2, ThrowKeeps, FewerKnown
  <2> QED BY <1>a, <1>b, <1>c, <2>1, <2>2, <2>3
<1>7. ASSUME NEW f \in Libs, LoadLib(f) PROVE LibInv'
  <2> DEFINE S == Opened(Here, f)
  <2>1. S = Here \/ (~Known(Here, f) /\ S = AddToClib(Here, f))
    BY HereState, OpenedSound
  <2>2. /\ Take(S) /\ UNCHANGED <<phase, handle>> /\ UNCHANGED objects /\ UNCHANGED frames
        /\ phase \in {"run", "closing"}
    BY <1>7, <1>e DEF LoadLib
  <2> HIDE DEF S
  <2>3. OpenOnce' /\ \A g : Known(Here, g) => Known(Here, g)'
    BY <1>0, <2>1, <2>2, OpenKeeps
  <2> QED BY <1>a, <1>b, <1>c, <1>d, <2>2, <2>3
<1>8. ASSUME NEW f \in Libs, CallC(f) PROVE LibInv'
  <2>1. /\ UNCHANGED <<clibs, handles, objects, phase, handle>> /\ phase \in {"run", "closing"}
        /\ Enter("C", <<>>, f) /\ Known(Here, f)
    BY <1>8, <1>e DEF CallC
  <2>2. OpenOnce' /\ \A g : Known(Here, g) => Known(Here, g)'
    BY <1>0, <2>1, SameLibs
  <2>3. FramesKnown'
    BY <1>0, <2>1, <2>2, EnterKnown
  <2> QED BY <1>a, <1>b, <1>c, <2>1, <2>2, <2>3
<1>9. CASE NewObject
  <2>0. PICK f : f = frames[Len(frames)].file
    OBVIOUS
  <2>1. /\ UNCHANGED <<clibs, handles, frames, phase, handle>> /\ phase \in {"run", "closing"}
        /\ f # CLIBS /\ (UNCHANGED objects \/ objects' = Append(objects, f))
        /\ Len(frames) \in DOMAIN frames
    BY <1>9, <1>f, <2>0 DEF NewObject, LibTypeOK
  <2>2. OpenOnce' /\ \A g : Known(Here, g) => Known(Here, g)'
    BY <1>0, <2>1, SameLibs
  <2>3. Known(Here, f)
    BY <1>0, <2>0, <2>1 DEF FramesKnown
  <2>4. Known(Here, f)'
    BY <2>1, <2>3 DEF Known, Here
  <2>5. ASSUME objects' = Append(objects, f) PROVE ObjectsKnown' /\ ClibsFirst'
    <3>1. /\ objects' # <<>> /\ Len(objects) \in Nat
          /\ \A k \in DOMAIN objects' : \/ k \in DOMAIN objects /\ objects'[k] = objects[k]
                                        \/ k = Len(objects) + 1 /\ objects'[k] = f
      <4>1. objects \in Seq(Libs \cup {CLIBS}) /\ Len(objects) \in Nat
        BY DEF LibTypeOK
      <4>2. f \in Libs \cup {CLIBS}
        <5>1. frames[Len(frames)] \in Frame
          BY <2>1 DEF LibTypeOK
        <5> QED BY <2>0, <5>1 DEF Frame
      <4>3. /\ objects' \in Seq(Libs \cup {CLIBS}) /\ objects' # <<>> /\ Len(objects') = Len(objects) + 1
            /\ \A k \in 1..Len(objects) : objects'[k] = objects[k]
            /\ objects'[Len(objects) + 1] = f
        BY <2>5, <4>1, <4>2, AppendProperties
      <4>4. DOMAIN objects = 1..Len(objects) /\ DOMAIN objects' = 1..(Len(objects) + 1)
        BY <4>1, <4>3
      <4> QED BY <4>1, <4>3, <4>4
    <3>2. ASSUME NEW k \in DOMAIN objects', NEW g, g = objects'[k], g # CLIBS PROVE Known(Here, g)'
      BY <1>0, <2>2, <2>4, <3>1, <3>2 DEF ObjectsKnown
    <3>3. ObjectsKnown'
      BY <3>2 DEF ObjectsKnown, Known, Here
    <3>4. \A k \in DOMAIN objects : objects[k] = CLIBS <=> k = 1
      BY <1>0, <2>1 DEF ClibsFirst
    <3>5. Len(objects) + 1 # 1
      BY <1>0, <2>1, <3>1 DEF ClibsFirst, LibTypeOK
    <3>6. \A k \in DOMAIN objects' : objects'[k] = CLIBS <=> k = 1
      BY <2>1, <3>1, <3>4, <3>5
    <3>7. ClibsFirst'
      BY <2>1, <3>1, <3>6 DEF ClibsFirst
    <3> QED BY <3>3, <3>7
  <2> QED BY <1>a, <1>b, <1>c, <1>d, <2>1, <2>2, <2>5
<1>10. CASE Collect
  <2>1. UNCHANGED <<clibs, handles, phase, handle>> /\ phase \in {"run", "closing"}
    BY <1>10 DEF Collect
  <2>2. PICK k \in 2..Len(objects) :
          /\ Enter("gc", <<>>, objects[k])
          /\ objects' = SubSeq(objects, 1, k - 1) \o SubSeq(objects, k + 1, Len(objects))
    BY <1>10 DEF Collect
  <2>3. OpenOnce' /\ \A g : Known(Here, g) => Known(Here, g)'
    BY <1>0, <2>1, SameLibs
  <2>4. ClibsFirst' /\ ObjectsKnown' /\ objects[k] # CLIBS
    BY <1>0, <2>1, <2>2, <2>3, ObjectGone
  <2>f. PICK f : f = objects[k]
    OBVIOUS
  <2>5. Known(Here, f)
    <3>1. k \in DOMAIN objects
      BY DEF LibTypeOK
    <3> QED BY <1>0, <2>4, <2>f, <3>1 DEF ObjectsKnown
  <2>6. Known(Here, f)'
    BY <2>1, <2>5 DEF Known, Here
  <2>7. Enter("gc", <<>>, f)
    BY <2>2, <2>f
  <2>8. FramesKnown'
    BY <1>0, <2>3, <2>6, <2>7, EnterKnown
  <2> QED BY <1>a, <2>3, <2>4, <2>8
<1>11. CASE Close
  <2>1. /\ UNCHANGED <<clibs, handles, objects, handle>> /\ phase = "run" /\ phase' = "closing"
        /\ frames' = <<>>
    BY <1>11 DEF Close
  <2>2. OpenOnce' /\ \A g : Known(Here, g) => Known(Here, g)'
    BY <1>0, <2>1, SameLibs
  <2>3. FramesKnown' /\ ClibsFirst'
    BY <1>0, <2>1 DEF FramesKnown, ClibsFirst
  <2> QED BY <1>a, <1>c, <2>1, <2>2, <2>3
<1>12. CASE Finalize
  <2>k. PICK k : k = Len(objects)
    OBVIOUS
  <2>f. PICK f : f = objects[k]
    OBVIOUS
  <2>1. /\ UNCHANGED <<clibs, handles, phase, handle>> /\ phase \in {"run", "closing"}
        /\ Enter("gc", <<>>, f) /\ f # CLIBS /\ objects # <<>>
        /\ objects' = SubSeq(objects, 1, k - 1) \o SubSeq(objects, k + 1, Len(objects))
    BY <1>12, <2>k, <2>f DEF Finalize, NextFinalized
  <2>2. k \in DOMAIN objects /\ k # 1
    <3>1. k \in DOMAIN objects
      BY <2>1, <2>k DEF LibTypeOK
    <3> QED BY <1>0, <2>1, <2>f, <3>1 DEF ClibsFirst
  <2>3. k \in 2..Len(objects)
    <3>1. Len(objects) \in Nat /\ DOMAIN objects = 1..Len(objects)
      BY DEF LibTypeOK
    <3> QED BY <2>2, <3>1
  <2>4. OpenOnce' /\ \A g : Known(Here, g) => Known(Here, g)'
    BY <1>0, <2>1, SameLibs
  <2>5. Known(Here, f)
    BY <1>0, <2>1, <2>2, <2>f DEF ObjectsKnown
  <2>6. Known(Here, f)'
    BY <2>1, <2>5 DEF Known, Here
  <2>7. ClibsFirst' /\ ObjectsKnown'
    BY <1>0, <2>1, <2>3, <2>4, ObjectGone
  <2>8. FramesKnown'
    BY <1>0, <2>1, <2>4, <2>6, EnterKnown
  <2> QED BY <1>a, <2>4, <2>7, <2>8
<1>13. CASE FinalizeClibs
  <2>1. /\ UNCHANGED <<clibs, handles, frames>> /\ phase = "closing" /\ phase' = "unloading"
        /\ handle' = Len(clibs) /\ frames = <<>> /\ objects # <<>>
        /\ objects[Len(objects)] = CLIBS
        /\ objects' = SubSeq(objects, 1, Len(objects) - 1) \o SubSeq(objects, Len(objects) + 1, Len(objects))
    BY <1>13 DEF FinalizeClibs, NextFinalized
  <2>2. Len(objects) \in 1..Len(objects) /\ Len(objects) \in DOMAIN objects
    BY <2>1 DEF LibTypeOK
  <2>3. Len(objects) = 1
    BY <1>0, <2>1, <2>2 DEF ClibsFirst
  <2>4. objects' \in Seq(Libs \cup {CLIBS}) /\ Len(objects') = 0
    BY <2>1, <2>2, <2>3, Without DEF LibTypeOK
  <2>5. objects' = <<>>
    BY <2>4, EmptySeq
  <2>6. ClibsFirst' /\ ObjectsKnown' /\ FramesKnown'
    BY <2>1, <2>5 DEF ClibsFirst, ObjectsKnown, FramesKnown
  <2>7. Left = Len(clibs) /\ Left' = Len(clibs)
    BY <2>1 DEF Left
  <2>8. OpenOnce'
    BY <1>0, <2>1, <2>7 DEF OpenOnce, LibTypeOK
  <2> QED BY <1>a, <2>6, <2>8
<1>14. CASE UnloadLib
  <2>1. /\ UNCHANGED <<clibs, frames, objects, phase>> /\ phase = "unloading" /\ handle >= 1
        /\ handles' = [handles EXCEPT ![clibs[handle]] = handles[clibs[handle]] - 1] /\ handle' = handle - 1
    BY <1>14 DEF UnloadLib
  <2>2. \A g : Known(Here, g) => Known(Here, g)'
    BY <2>1 DEF Known, Here
  <2>3. /\ Left = handle /\ Left' = handle - 1 /\ handle \in DOMAIN clibs /\ clibs[handle] \in Libs
    BY <1>0, <2>1 DEF Left, OpenOnce, LibTypeOK
  <2> DEFINE f == clibs[handle]
  <2>4. \A k \in 1..(handle - 1) : clibs[k] # f
    BY <1>0, <2>1, <2>3 DEF OpenOnce, LibTypeOK
  <2>5. ASSUME NEW g \in Libs
        PROVE  handles'[g] = IF \E k \in 1..(handle - 1) : clibs[k] = g THEN 1 ELSE 0
    <3>1. handles[g] = IF \E k \in 1..handle : clibs[k] = g THEN 1 ELSE 0
      BY <1>0, <2>3 DEF OpenOnce
    <3>2. /\ \A k \in 1..handle : k \in 1..(handle - 1) \/ k = handle
          /\ \A k \in 1..(handle - 1) : k \in 1..handle
          /\ handle \in 1..handle
      BY <2>1, <2>3 DEF LibTypeOK
    <3>3. CASE g = f
      <4>1. handles[g] = 1
        BY <3>1, <3>2, <3>3
      <4>2. handles'[g] = 0
        BY <2>1, <3>3, <4>1 DEF LibTypeOK
      <4> QED BY <2>4, <3>3, <4>2
    <3>4. CASE g # f
      <4>1. handles'[g] = handles[g]
        BY <2>1, <3>4 DEF LibTypeOK
      <4> QED BY <3>1, <3>2, <3>4, <4>1
    <3> QED BY <3>3, <3>4
  <2>6. OpenOnce'
    BY <1>0, <2>1, <2>3, <2>5 DEF OpenOnce, LibTypeOK
  <2> QED BY <1>a, <1>b, <1>c, <1>d, <2>1, <2>2, <2>6
<1>15. CASE Unloaded
  <2>1. /\ UNCHANGED <<clibs, handles, frames, objects, handle>> /\ handle = 0
        /\ phase = "unloading" /\ phase' = "closed"
    BY <1>15 DEF Unloaded
  <2>2. \A g : Known(Here, g) => Known(Here, g)'
    BY <2>1 DEF Known, Here
  <2>3. OpenOnce'
    BY <1>0, <2>1 DEF OpenOnce, Left
  <2>4. ClibsFirst'
    BY <1>0, <2>1 DEF ClibsFirst
  <2> QED BY <1>a, <1>c, <1>d, <2>1, <2>2, <2>3, <2>4
<1> QED BY <1>1, <1>2, <1>3, <1>4, <1>5, <1>6, <1>7, <1>8, <1>9, <1>10, <1>11, <1>12, <1>13, <1>14, <1>15
        DEF LibNext

(***************************************************************************)
(* No function of a library runs, and no finalizer is left to call one,    *)
(* when the library is closed; each is opened once and closed in the end,  *)
(* whatever fails on the way and whatever finalizers require meanwhile.    *)
(***************************************************************************)
THEOREM LibrariesOpen == LibSpec => []LibrariesStayOpen
<1>1. LibInit => LibInv
  <2> SUFFICES ASSUME LibInit PROVE LibInv
    OBVIOUS
  <2>1. OpenOnce
    BY DEF LibInit, OpenOnce, Left
  <2>2. InClibs /\ ClibsFirst
    BY DEF LibInit, InClibs, ClibsFirst
  <2> QED BY <2>1, <2>2 DEF LibInv
<1>2. LibTypeOK /\ LibTypeOK' /\ LibInv /\ [LibNext]_libvars => LibInv'
  BY LibStep
<1>3. LibTypeOK /\ LibInv => LibrariesStayOpen
  <2> SUFFICES ASSUME LibTypeOK, LibInv PROVE LibrariesStayOpen
    OBVIOUS
  <2>1. ASSUME NEW f, Known(Here, f), phase \in {"run", "closing"} PROVE handles[f] = 1
    <3>1. PICK k \in DOMAIN clibs : clibs[k] = f
      BY <2>1 DEF Known, Here
    <3>2. f \in Libs /\ k \in 1..Left
      BY <2>1, <3>1 DEF LibTypeOK, Left
    <3> QED BY <3>1, <3>2 DEF LibInv, OpenOnce
  <2>2. \A k \in DOMAIN frames : frames[k].file # CLIBS => handles[frames[k].file] = 1
    BY <2>1 DEF LibInv, InClibs, ClibsFirst
  <2>3. \A k \in DOMAIN objects : objects[k] # CLIBS => handles[objects[k]] = 1
    BY <2>1 DEF LibInv, InClibs, ClibsFirst
  <2>4. phase = "closed" => \A f \in Libs : handles[f] = 0
    BY DEF LibInv, OpenOnce, Left
  <2> QED BY <2>2, <2>3, <2>4 DEF LibrariesStayOpen
<1> QED BY <1>1, <1>2, <1>3, TypeCorrect, PTL DEF LibSpec

-----------------------------------------------------------------------------
(***************************************************************************)
(* exec.exec and exec.qexec, for every set of calls, every capacity of the *)
(* pipes and every program.                                                *)
(***************************************************************************)

(***************************************************************************)
(* Two facts about the sequences the pipes hold: a character read moves    *)
(* from one side to the other, and one that is written comes last.         *)
(***************************************************************************)
LEMMA ReadMoves ==
    ASSUME NEW S, NEW g \in Seq(S), NEW q \in Seq(S), q # << >>
    PROVE  /\ Tail(q) \in Seq(S) /\ Len(Tail(q)) <= Len(q)
           /\ Append(g, Head(q)) \in Seq(S)
           /\ Append(g, Head(q)) \o Tail(q) = g \o q
<1> DEFINE h == Head(q)  t == Tail(q)
<1>1. h \in S /\ t \in Seq(S) /\ Len(t) = Len(q) - 1 /\ Len(q) \in Nat \ {0}
  BY HeadTailProperties, EmptySeq, LenProperties
<1>2. <<h>> \in Seq(S) /\ q = <<h>> \o t
  BY <1>1, HeadTailProperties, EmptySeq
<1>3. Append(g, h) = g \o <<h>>
  BY <1>1, AppendIsConcat
<1>4. (g \o <<h>>) \o t = g \o (<<h>> \o t)
  BY <1>1, <1>2, ConcatAssociative
<1>5. Append(g, h) \in Seq(S)
  BY <1>1, AppendProperties
<1>6. Append(g, h) \o t = g \o q
  <2> HIDE DEF h, t
  <2> QED BY <1>2, <1>3, <1>4, Zenon
<1>7. Len(t) <= Len(q)
  BY <1>1
<1> QED BY <1>1, <1>5, <1>6, <1>7

LEMMA WriteIsLast ==
    \A g, q \in Seq(Chars) : \A c \in Chars :
      /\ Append(q, c) \in Seq(Chars) /\ Len(Append(q, c)) = Len(q) + 1
      /\ Append(g \o q, c) = g \o Append(q, c)
<1> SUFFICES ASSUME NEW g \in Seq(Chars), NEW q \in Seq(Chars), NEW c \in Chars
             PROVE  /\ Append(q, c) \in Seq(Chars) /\ Len(Append(q, c)) = Len(q) + 1
                    /\ Append(g \o q, c) = g \o Append(q, c)
  OBVIOUS
<1>1. <<c>> \in Seq(Chars) /\ g \o q \in Seq(Chars)
  BY ConcatProperties
<1>2. Append(q, c) = q \o <<c>> /\ Append(g \o q, c) = (g \o q) \o <<c>>
  BY <1>1, AppendIsConcat
<1>3. (g \o q) \o <<c>> = g \o (q \o <<c>>)
  BY <1>1, ConcatAssociative
<1>4. Append(q, c) \in Seq(Chars) /\ Len(Append(q, c)) = Len(q) + 1
  BY AppendProperties
<1> QED BY <1>2, <1>3, <1>4

(***************************************************************************)
(* What the child wrote has been read or is in the pipe, and what it is    *)
(* bound to use next is a stream it still has.                             *)
(***************************************************************************)
Accounted ==
  /\ \A s \in Streams : made[s] = got[s] \o pipe[s]
  /\ op # "none" => op \in childFds /\ child \in {"program", "agent"}
  /\ child \in {"none", "exited"} => childFds = {}

(***************************************************************************)
(* The agent has the ends its place in the call needs, and no other.       *)
(***************************************************************************)
Descriptors ==
  /\ par = "call" => child = "none" /\ parFds = {} /\ pipe = Empty
  /\ par = "in" => parFds = Std
  /\ par = "out" => parFds = {"out", "err"}
  /\ par = "err" => parFds = {"err"}
  /\ par \in {"wait", "again"} => parFds = {}
  /\ par = "returned" /\ calm => parFds = {}

(***************************************************************************)
(* As long as no signal came and no write failed, the agent leaves a       *)
(* stream when the child has no more to say on it.                         *)
(***************************************************************************)
Silent(s) == pipe[s] = << >> /\ s \notin childFds
Drained ==
  /\ par \in {"err", "wait", "returned"} /\ calm => Silent("out")
  /\ par \in {"wait", "returned"} /\ calm => Silent("err")
  /\ par = "again" => ~ calm

(***************************************************************************)
(* It has then made its lines of what it read there; before, and in a call *)
(* without pipes, there is nothing to make them of.                        *)
(***************************************************************************)
Made(s) == s \notin call.redirect => given[s] = Collected(got[s])
Delivered ==
  /\ par = "call" => given = [s \in Streams |-> {}] /\ got = Silence
  /\ par \in {"err", "wait", "returned"} /\ calm => Made("out")
  /\ par \in {"wait", "returned"} /\ calm => Made("err")

ExecInv == ExecTypeOK /\ Accounted /\ Descriptors /\ Drained /\ Delivered

LEMMA NothingCollected == Collected(<< >>) = {}
  BY DEF Collected

LEMMA CollectedType ==
    ASSUME NEW t \in Seq(Chars) PROVE Collected(t) \subseteq Nat
<1>1. DOMAIN t = 1..Len(t) /\ Len(t) \in Nat
  BY LenProperties
<1> QED BY <1>1 DEF Collected

LEMMA ExecInvInit == ExecInit => ExecInv
<1> SUFFICES ASSUME ExecInit PROVE ExecInv
  OBVIOUS
<1> USE ExecAssumption DEF ExecInit, Empty, Silence, Std, Streams
<1>1. call \in Call /\ call.stdin \in Nat
  BY DEF Call
<1>2. << >> \in Seq(Chars) /\ Len(<< >>) = 0 /\ << >> \o << >> = << >>
  BY EmptySeq, ConcatEmptySeq
<1>3. ExecTypeOK
  <2>1. pipe \in [Std -> Seq(Chars)] /\ \A s \in Std : Len(pipe[s]) <= Cap
    BY <1>2
  <2>2. made \in [Streams -> Seq(Chars)] /\ got \in [Streams -> Seq(Chars)]
    BY <1>2
  <2>3. given \in [Streams -> SUBSET Nat] /\ left \in 0..call.stdin
    BY <1>1
  <2> QED BY <2>1, <2>2, <2>3 DEF ExecTypeOK
<1>4. Accounted
  BY <1>2 DEF Accounted
<1> QED BY <1>3, <1>4 DEF ExecInv, Descriptors, Drained, Delivered

LEMMA ExecInvNext == ExecInv /\ [ExecNext]_execvars => ExecInv'
<1> SUFFICES ASSUME ExecInv, [ExecNext]_execvars PROVE ExecInv'
  OBVIOUS
<1> USE ExecAssumption DEF ExecInv, Std, Streams, Empty, Silence, datavars
<1>0. /\ call \in Call /\ call.stdin \in Nat /\ call.quiet \in BOOLEAN
      /\ call.redirect \subseteq Streams
      /\ Collected(got["out"]) \subseteq Nat /\ Collected(got["err"]) \subseteq Nat
  BY CollectedType DEF Call, ExecTypeOK
<1>r. ASSUME NEW s \in Streams, ReadPipe(s)
      PROVE  /\ pipe' \in [Std -> Seq(Chars)] /\ \A z \in Std : Len(pipe'[z]) <= Cap
             /\ got' \in [Streams -> Seq(Chars)]
             /\ \A z \in Streams : got'[z] \o pipe'[z] = got[z] \o pipe[z]
  <2>0. /\ pipe[s] # << >> /\ pipe' = [pipe EXCEPT ![s] = Tail(pipe[s])]
        /\ got' = [got EXCEPT ![s] = Append(got[s], Head(pipe[s]))]
    BY <1>r DEF ReadPipe
  <2>1. pipe[s] \in Seq(Chars) /\ got[s] \in Seq(Chars) /\ Len(pipe[s]) <= Cap
    BY DEF ExecTypeOK
  <2>2. /\ Tail(pipe[s]) \in Seq(Chars) /\ Len(Tail(pipe[s])) <= Len(pipe[s])
        /\ Append(got[s], Head(pipe[s])) \in Seq(Chars)
        /\ Append(got[s], Head(pipe[s])) \o Tail(pipe[s]) = got[s] \o pipe[s]
    <3>1. pipe[s] # << >>
      BY <2>0
    <3> DEFINE q == pipe[s]  g == got[s]
    <3>2. q \in Seq(Chars) /\ g \in Seq(Chars) /\ q # << >>
      BY <2>1, <3>1
    <3> HIDE DEF q, g
    <3>3. /\ Tail(q) \in Seq(Chars) /\ Len(Tail(q)) <= Len(q)
          /\ Append(g, Head(q)) \in Seq(Chars) /\ Append(g, Head(q)) \o Tail(q) = g \o q
      BY <3>2, ReadMoves
    <3> QED BY <3>3 DEF q, g
  <2>3. Len(Tail(pipe[s])) <= Cap
    BY <2>1, <2>2, LenProperties
  <2> DEFINE t == Tail(pipe[s])  g == Append(got[s], Head(pipe[s]))
  <2>4. t \in Seq(Chars) /\ Len(t) <= Cap /\ g \in Seq(Chars) /\ g \o t = got[s] \o pipe[s]
    BY <2>2, <2>3
  <2>5. pipe' = [pipe EXCEPT ![s] = t] /\ got' = [got EXCEPT ![s] = g]
    BY <2>0
  <2> HIDE DEF t, g
  <2> QED BY <2>4, <2>5 DEF ExecTypeOK
<1>l. ASSUME NEW s \in Streams, NEW then, Leave(s, then)
      PROVE  /\ given' \in [Streams -> SUBSET Nat] /\ parFds' \subseteq Std
             /\ s \notin call.redirect => given'[s] = Collected(got[s])
             /\ \A z \in Streams \ {s} : given'[z] = given[z]
  BY <1>0, <1>l DEF Leave, MakeLines, ExecTypeOK
<1>1. CASE ForkFails
  <2>1. ExecTypeOK'
    BY <1>1 DEF ForkFails, ReturnStatus, ExecTypeOK, Descriptors
  <2>2. Accounted'
    BY <1>1 DEF ForkFails, ReturnStatus, ExecTypeOK, Accounted, Descriptors
  <2>3. Descriptors'
    BY <1>1 DEF ForkFails, ReturnStatus, ExecTypeOK, Descriptors, Accounted
  <2>4. Drained'
    BY <1>1 DEF ForkFails, ReturnStatus, ExecTypeOK, Drained, Silent, Descriptors, Accounted
  <2>5. Delivered'
    BY <1>1, NothingCollected DEF ForkFails, ReturnStatus, ExecTypeOK, Delivered, Made, Descriptors
  <2> QED BY <2>1, <2>2, <2>3, <2>4, <2>5
<1>2. CASE Fork
  <2>1. ExecTypeOK'
    BY <1>2 DEF Fork, ExecTypeOK, Descriptors
  <2>2. Accounted'
    BY <1>2 DEF Fork, ExecTypeOK, Accounted, Descriptors
  <2>3. Descriptors'
    BY <1>2 DEF Fork, ExecTypeOK, Descriptors, Accounted
  <2>4. Drained'
    BY <1>2 DEF Fork, ExecTypeOK, Drained, Silent, Descriptors, Accounted
  <2>5. Delivered'
    BY <1>2, NothingCollected DEF Fork, ExecTypeOK, Delivered, Made, Descriptors
  <2> QED BY <2>1, <2>2, <2>3, <2>4, <2>5
<1>3. CASE WriteStdin
  <2>1. ExecTypeOK'
    <3>1. CASE par' = "killed"
      BY <1>3, <3>1 DEF WriteStdin, ExecTypeOK
    <3>2. CASE par' # "killed"
      <4>1. /\ Len(pipe["in"]) < Cap /\ pipe' = [pipe EXCEPT !["in"] = Append(pipe["in"], "x")]
            /\ left' = left - 1 /\ left > 0 /\ UNCHANGED <<par, parFds>>
        BY <1>3, <3>2 DEF WriteStdin
      <4>2. pipe["in"] \in Seq(Chars) /\ "x" \in Chars
        BY DEF ExecTypeOK, Chars
      <4>3. Append(pipe["in"], "x") \in Seq(Chars) /\ Len(Append(pipe["in"], "x")) = Len(pipe["in"]) + 1
        BY <4>2, AppendProperties
      <4>4. Len(Append(pipe["in"], "x")) <= Cap /\ left' \in 0..call.stdin
        BY <1>0, <4>1, <4>2, <4>3, LenProperties DEF ExecTypeOK
      <4>5. pipe' \in [Std -> Seq(Chars)] /\ \A s \in Std : Len(pipe'[s]) <= Cap
        BY <4>1, <4>3, <4>4 DEF ExecTypeOK
      <4> QED BY <1>3, <4>1, <4>4, <4>5 DEF WriteStdin, ExecTypeOK
    <3> QED BY <3>1, <3>2
  <2>2. Accounted'
    BY <1>3 DEF WriteStdin, ExecTypeOK, Accounted, Descriptors
  <2>3. Descriptors'
    BY <1>3 DEF WriteStdin, ExecTypeOK, Descriptors, Accounted
  <2>4. Drained'
    BY <1>3 DEF WriteStdin, ExecTypeOK, Drained, Silent, Descriptors, Accounted
  <2>5. Delivered'
    BY <1>3, NothingCollected DEF WriteStdin, ExecTypeOK, Delivered, Made, Descriptors
  <2> QED BY <2>1, <2>2, <2>3, <2>4, <2>5
<1>4. CASE StdinFails
  <2>1. ExecTypeOK'
    BY <1>4 DEF StdinFails, ReturnStatus, ExecTypeOK, Descriptors
  <2>2. Accounted'
    BY <1>4 DEF StdinFails, ReturnStatus, ExecTypeOK, Accounted, Descriptors
  <2>3. Descriptors'
    BY <1>4 DEF StdinFails, ReturnStatus, ExecTypeOK, Descriptors, Accounted
  <2>4. Drained'
    BY <1>4 DEF StdinFails, ReturnStatus, ExecTypeOK, Drained, Silent, Descriptors, Accounted
  <2>5. Delivered'
    BY <1>4, NothingCollected DEF StdinFails, ReturnStatus, ExecTypeOK, Delivered, Made, Descriptors
  <2> QED BY <2>1, <2>2, <2>3, <2>4, <2>5
<1>5. CASE CloseStdin
  <2>1. ExecTypeOK'
    BY <1>5 DEF CloseStdin, ExecTypeOK, Descriptors
  <2>2. Accounted'
    BY <1>5 DEF CloseStdin, ExecTypeOK, Accounted, Descriptors
  <2>3. Descriptors'
    BY <1>5 DEF CloseStdin, ExecTypeOK, Descriptors, Accounted
  <2>4. Drained'
    BY <1>5 DEF CloseStdin, ExecTypeOK, Drained, Silent, Descriptors, Accounted
  <2>5. Delivered'
    BY <1>5, NothingCollected DEF CloseStdin, ExecTypeOK, Delivered, Made, Descriptors
  <2> QED BY <2>1, <2>2, <2>3, <2>4, <2>5
<1>6. CASE DrainStdout
  <2>1. ExecTypeOK'
    <3>1. CASE ReadPipe("out") /\ UNCHANGED <<par, parFds, given>>
      BY <1>6, <1>r, <3>1 DEF DrainStdout, Drain, ExecTypeOK
    <3>2. CASE Leave("out", "err") /\ UNCHANGED <<pipe, got>>
      <4>1. given' \in [Streams -> SUBSET Nat] /\ parFds' \subseteq Std
        BY <1>l, <3>2
      <4>2. par' = "err"
        BY <3>2 DEF Leave
      <4> QED BY <1>6, <3>2, <4>1, <4>2 DEF DrainStdout, Drain, ExecTypeOK
    <3> QED BY <1>6, <3>1, <3>2 DEF DrainStdout, Drain
  <2>2. Accounted'
    <3>1. \A z \in Streams : got'[z] \o pipe'[z] = got[z] \o pipe[z]
      <4>1. CASE ReadPipe("out")
        BY <1>r, <4>1
      <4> QED BY <1>6, <4>1 DEF DrainStdout, Drain
    <3> QED BY <1>6, <3>1 DEF DrainStdout, Drain, Accounted
  <2>3. Descriptors'
    BY <1>6 DEF DrainStdout, Drain, Leave, MakeLines, ReadPipe, ExecTypeOK, Descriptors, Accounted
  <2>4. Drained'
    BY <1>6 DEF DrainStdout, Drain, Leave, MakeLines, ReadPipe, ExecTypeOK, Drained, Silent, Descriptors, Accounted
  <2>5. Delivered'
    BY <1>6, NothingCollected DEF DrainStdout, Drain, Leave, MakeLines, ReadPipe, ExecTypeOK, Delivered, Made, Descriptors
  <2> QED BY <2>1, <2>2, <2>3, <2>4, <2>5
<1>7. CASE DrainStderr
  <2>1. ExecTypeOK'
    <3>1. CASE ReadPipe("err") /\ UNCHANGED <<par, parFds, given>>
      BY <1>7, <1>r, <3>1 DEF DrainStderr, Drain, ExecTypeOK
    <3>2. CASE Leave("err", "wait") /\ UNCHANGED <<pipe, got>>
      <4>1. given' \in [Streams -> SUBSET Nat] /\ parFds' \subseteq Std
        BY <1>l, <3>2
      <4>2. par' = "wait"
        BY <3>2 DEF Leave
      <4> QED BY <1>7, <3>2, <4>1, <4>2 DEF DrainStderr, Drain, ExecTypeOK
    <3> QED BY <1>7, <3>1, <3>2 DEF DrainStderr, Drain
  <2>2. Accounted'
    <3>1. \A z \in Streams : got'[z] \o pipe'[z] = got[z] \o pipe[z]
      <4>1. CASE ReadPipe("err")
        BY <1>r, <4>1
      <4> QED BY <1>7, <4>1 DEF DrainStderr, Drain
    <3> QED BY <1>7, <3>1 DEF DrainStderr, Drain, Accounted
  <2>3. Descriptors'
    BY <1>7 DEF DrainStderr, Drain, Leave, MakeLines, ReadPipe, ExecTypeOK, Descriptors, Accounted
  <2>4. Drained'
    BY <1>7 DEF DrainStderr, Drain, Leave, MakeLines, ReadPipe, ExecTypeOK, Drained, Silent, Descriptors, Accounted
  <2>5. Delivered'
    BY <1>7, NothingCollected DEF DrainStderr, Drain, Leave, MakeLines, ReadPipe, ExecTypeOK, Delivered, Made, Descriptors
  <2> QED BY <2>1, <2>2, <2>3, <2>4, <2>5
<1>8. CASE ReadInterrupted
  <2>1. ExecTypeOK'
    <3>1. given' \in [Streams -> SUBSET Nat] /\ parFds' \subseteq Std /\ par' \in {"err", "wait"}
      <4>1. CASE Leave("out", "err")
        BY <1>l, <4>1 DEF Leave
      <4>2. CASE Leave("err", "wait")
        BY <1>l, <4>2 DEF Leave
      <4> QED BY <1>8, <4>1, <4>2 DEF ReadInterrupted
    <3> QED BY <1>8, <3>1 DEF ReadInterrupted, ExecTypeOK
  <2>2. Accounted'
    BY <1>8 DEF ReadInterrupted, Leave, MakeLines, ExecTypeOK, Accounted, Descriptors
  <2>3. Descriptors'
    BY <1>8 DEF ReadInterrupted, Leave, MakeLines, ExecTypeOK, Descriptors, Accounted
  <2>4. Drained'
    BY <1>8 DEF ReadInterrupted, Leave, MakeLines, ExecTypeOK, Drained, Silent, Descriptors, Accounted
  <2>5. Delivered'
    BY <1>8, NothingCollected DEF ReadInterrupted, Leave, MakeLines, ExecTypeOK, Delivered, Made, Descriptors
  <2> QED BY <2>1, <2>2, <2>3, <2>4, <2>5
<1>9. CASE RedirectFails
  <2>1. ExecTypeOK'
    <3>1. par \in Streams
      BY <1>0, <1>9 DEF RedirectFails
    <3>2. /\ pipe' \in [Std -> Seq(Chars)] /\ \A z \in Std : Len(pipe'[z]) <= Cap
          /\ got' \in [Streams -> Seq(Chars)]
      <4>1. CASE ReadPipe(par)
        BY <1>r, <3>1, <4>1
      <4>2. CASE UNCHANGED <<pipe, got>>
        BY <4>2 DEF ExecTypeOK
      <4> QED BY <1>9, <4>1, <4>2 DEF RedirectFails
    <3> QED BY <1>9, <3>2 DEF RedirectFails, ReturnStatus, ExecTypeOK
  <2>2. Accounted'
    <3>1. par \in Streams
      BY <1>0, <1>9 DEF RedirectFails
    <3>2. \A z \in Streams : got'[z] \o pipe'[z] = got[z] \o pipe[z]
      <4>1. CASE ReadPipe(par)
        BY <1>r, <3>1, <4>1
      <4> QED BY <1>9, <4>1 DEF RedirectFails
    <3> QED BY <1>9, <3>2 DEF RedirectFails, Accounted
  <2>3. Descriptors'
    BY <1>9 DEF RedirectFails, ReadPipe, ReturnStatus, ExecTypeOK, Descriptors, Accounted
  <2>4. Drained'
    BY <1>9 DEF RedirectFails, ReadPipe, ReturnStatus, ExecTypeOK, Drained, Silent, Descriptors, Accounted
  <2>5. Delivered'
    BY <1>9, NothingCollected DEF RedirectFails, ReadPipe, ReturnStatus, ExecTypeOK, Delivered, Made, Descriptors
  <2> QED BY <2>1, <2>2, <2>3, <2>4, <2>5
<1>10. CASE Wait
  <2>1. ExecTypeOK'
    BY <1>10 DEF Wait, ReturnStatus, ExecTypeOK, Descriptors
  <2>2. Accounted'
    BY <1>10 DEF Wait, ReturnStatus, ExecTypeOK, Accounted, Descriptors
  <2>3. Descriptors'
    BY <1>10 DEF Wait, ReturnStatus, ExecTypeOK, Descriptors, Accounted
  <2>4. Drained'
    BY <1>10 DEF Wait, ReturnStatus, ExecTypeOK, Drained, Silent, Descriptors, Accounted
  <2>5. Delivered'
    BY <1>10, NothingCollected DEF Wait, ReturnStatus, ExecTypeOK, Delivered, Made, Descriptors
  <2> QED BY <2>1, <2>2, <2>3, <2>4, <2>5
<1>11. CASE WaitInterrupted
  <2>1. ExecTypeOK'
    BY <1>11 DEF WaitInterrupted, ExecTypeOK, Descriptors
  <2>2. Accounted'
    BY <1>11 DEF WaitInterrupted, ExecTypeOK, Accounted, Descriptors
  <2>3. Descriptors'
    BY <1>11 DEF WaitInterrupted, ExecTypeOK, Descriptors, Accounted
  <2>4. Drained'
    BY <1>11 DEF WaitInterrupted, ExecTypeOK, Drained, Silent, Descriptors, Accounted
  <2>5. Delivered'
    BY <1>11, NothingCollected DEF WaitInterrupted, ExecTypeOK, Delivered, Made, Descriptors
  <2> QED BY <2>1, <2>2, <2>3, <2>4, <2>5
<1>12. CASE WaitAgain
  <2>1. ExecTypeOK'
    BY <1>12 DEF WaitAgain, ReturnStatus, ExecTypeOK, Descriptors
  <2>2. Accounted'
    BY <1>12 DEF WaitAgain, ReturnStatus, ExecTypeOK, Accounted, Descriptors
  <2>3. Descriptors'
    BY <1>12 DEF WaitAgain, ReturnStatus, ExecTypeOK, Descriptors, Accounted
  <2>4. Drained'
    BY <1>12 DEF WaitAgain, ReturnStatus, ExecTypeOK, Drained, Silent, Descriptors, Accounted
  <2>5. Delivered'
    BY <1>12 DEF WaitAgain, ReturnStatus, Delivered, Drained
  <2> QED BY <2>1, <2>2, <2>3, <2>4, <2>5
<1>13. CASE ChangeDirectory
  <2>1. ExecTypeOK'
    BY <1>13 DEF ChangeDirectory, ExecTypeOK, Descriptors
  <2>2. Accounted'
    BY <1>13 DEF ChangeDirectory, ExecTypeOK, Accounted, Descriptors
  <2>3. Descriptors'
    BY <1>13 DEF ChangeDirectory, ExecTypeOK, Descriptors, Accounted
  <2>4. Drained'
    BY <1>13 DEF ChangeDirectory, ExecTypeOK, Drained, Silent, Descriptors, Accounted
  <2>5. Delivered'
    BY <1>13, NothingCollected DEF ChangeDirectory, ExecTypeOK, Delivered, Made, Descriptors
  <2> QED BY <2>1, <2>2, <2>3, <2>4, <2>5
<1>14. CASE Execve
  <2>1. ExecTypeOK'
    <3>1. child' \in {"program", "exited"} /\ ran' \in BOOLEAN /\ code' \in Codes \cup {NoCode}
      BY <1>14 DEF Execve, ExecTypeOK
    <3>2. childFds' \subseteq Std
      BY <1>14 DEF Execve, ExecTypeOK
    <3> QED BY <1>14, <3>1, <3>2 DEF Execve, ExecTypeOK
  <2>2. Accounted'
    BY <1>14 DEF Execve, ExecTypeOK, Accounted, Descriptors
  <2>3. Descriptors'
    BY <1>14 DEF Execve, ExecTypeOK, Descriptors, Accounted
  <2>4. Drained'
    BY <1>14 DEF Execve, ExecTypeOK, Drained, Silent, Descriptors, Accounted
  <2>5. Delivered'
    BY <1>14, NothingCollected DEF Execve, ExecTypeOK, Delivered, Made, Descriptors
  <2> QED BY <2>1, <2>2, <2>3, <2>4, <2>5
<1>15. CASE Choose
  <2>1. ExecTypeOK'
    BY <1>15 DEF Choose, ExecTypeOK, Descriptors
  <2>2. Accounted'
    BY <1>15 DEF Choose, ExecTypeOK, Accounted, Descriptors
  <2>3. Descriptors'
    BY <1>15 DEF Choose, ExecTypeOK, Descriptors, Accounted
  <2>4. Drained'
    BY <1>15 DEF Choose, ExecTypeOK, Drained, Silent, Descriptors, Accounted
  <2>5. Delivered'
    BY <1>15, NothingCollected DEF Choose, ExecTypeOK, Delivered, Made, Descriptors
  <2> QED BY <2>1, <2>2, <2>3, <2>4, <2>5
<1>16. CASE ReadStdin
  <2>1. ExecTypeOK'
    <3>1. pipe' \in [Std -> Seq(Chars)] /\ \A s \in Std : Len(pipe'[s]) <= Cap
      <4>1. CASE pipe["in"] # << >> /\ pipe' = [pipe EXCEPT !["in"] = Tail(pipe["in"])]
        <5>1. pipe["in"] \in Seq(Chars) /\ Len(pipe["in"]) <= Cap
          BY DEF ExecTypeOK
        <5>2. Tail(pipe["in"]) \in Seq(Chars) /\ Len(Tail(pipe["in"])) <= Cap
          BY <4>1, <5>1, HeadTailProperties, LenProperties
        <5> QED BY <4>1, <5>2 DEF ExecTypeOK
      <4>2. CASE UNCHANGED pipe
        BY <4>2 DEF ExecTypeOK
      <4> QED BY <1>16, <4>1, <4>2 DEF ReadStdin
    <3>2. childFds' \subseteq Std
      BY <1>16 DEF ReadStdin, ExecTypeOK
    <3> QED BY <1>16, <3>1, <3>2 DEF ReadStdin, ExecTypeOK
  <2>2. Accounted'
    BY <1>16 DEF ReadStdin, ExecTypeOK, Accounted, Descriptors
  <2>3. Descriptors'
    BY <1>16 DEF ReadStdin, ExecTypeOK, Descriptors, Accounted
  <2>4. Drained'
    BY <1>16 DEF ReadStdin, ExecTypeOK, Drained, Silent, Descriptors, Accounted
  <2>5. Delivered'
    BY <1>16, NothingCollected DEF ReadStdin, ExecTypeOK, Delivered, Made, Descriptors
  <2> QED BY <2>1, <2>2, <2>3, <2>4, <2>5
<1>17. CASE WriteOutput
  <2>1. ExecTypeOK'
    <3>1. CASE \E c \in Chars : /\ Len(pipe[op]) < Cap
                               /\ pipe' = [pipe EXCEPT ![op] = Append(pipe[op], c)]
                               /\ made' = [made EXCEPT ![op] = Append(made[op], c)]
                               /\ UNCHANGED <<child, childFds, code>>
      <4>1. PICK c \in Chars : /\ Len(pipe[op]) < Cap
                               /\ pipe' = [pipe EXCEPT ![op] = Append(pipe[op], c)]
                               /\ made' = [made EXCEPT ![op] = Append(made[op], c)]
        BY <3>1
      <4>2. op \in Streams /\ pipe[op] \in Seq(Chars) /\ made[op] \in Seq(Chars) /\ got[op] \in Seq(Chars)
        BY <1>17 DEF WriteOutput, ExecTypeOK
      <4>3. /\ Append(pipe[op], c) \in Seq(Chars) /\ Append(made[op], c) \in Seq(Chars)
            /\ Len(Append(pipe[op], c)) = Len(pipe[op]) + 1
            /\ Append(got[op] \o pipe[op], c) = got[op] \o Append(pipe[op], c)
        <5> DEFINE q == pipe[op]  g == got[op]  m == made[op]
        <5>0. c \in Chars
          BY <4>1
        <5>1. q \in Seq(Chars) /\ g \in Seq(Chars) /\ m \in Seq(Chars)
          BY <4>2
        <5> HIDE DEF q, g, m
        <5>2. /\ Append(q, c) \in Seq(Chars) /\ Len(Append(q, c)) = Len(q) + 1
              /\ Append(g \o q, c) = g \o Append(q, c)
          BY <5>0, <5>1, WriteIsLast
        <5>3. Append(m, c) \in Seq(Chars)
          BY <5>0, <5>1, AppendProperties
        <5> QED BY <5>2, <5>3 DEF q, g, m
      <4>4. Len(Append(pipe[op], c)) <= Cap
        BY <4>1, <4>2, <4>3, LenProperties
      <4>5. /\ pipe' \in [Std -> Seq(Chars)] /\ \A s \in Std : Len(pipe'[s]) <= Cap
            /\ made' \in [Streams -> Seq(Chars)]
        <5> DEFINE q == Append(pipe[op], c)  m == Append(made[op], c)
        <5>1. q \in Seq(Chars) /\ m \in Seq(Chars) /\ Len(q) <= Cap
          BY <4>3, <4>4
        <5>2. pipe' = [pipe EXCEPT ![op] = q] /\ made' = [made EXCEPT ![op] = m]
          BY <4>1
        <5> HIDE DEF q, m
        <5> QED BY <4>2, <5>1, <5>2 DEF ExecTypeOK
      <4>6. UNCHANGED <<call, par, child, parFds, childFds, left, got, given, code>> /\ op' = "none"
        BY <1>17, <3>1 DEF WriteOutput
      <4>7. UNCHANGED <<reaped, result, ran, calm>>
        BY <1>17 DEF WriteOutput
      <4> QED BY <4>5, <4>6, <4>7 DEF ExecTypeOK
    <3>2. CASE child' = "exited" /\ childFds' = {} /\ code' \in Codes \ {0} /\ UNCHANGED <<pipe, made>>
      BY <1>17, <3>2 DEF WriteOutput, ExecTypeOK
    <3> QED BY <1>17, <3>1, <3>2 DEF WriteOutput
  <2>2. Accounted'
    <3>1. CASE \E c \in Chars : /\ Len(pipe[op]) < Cap
                               /\ pipe' = [pipe EXCEPT ![op] = Append(pipe[op], c)]
                               /\ made' = [made EXCEPT ![op] = Append(made[op], c)]
                               /\ UNCHANGED <<child, childFds, code>>
      <4>1. PICK c \in Chars : /\ Len(pipe[op]) < Cap
                               /\ pipe' = [pipe EXCEPT ![op] = Append(pipe[op], c)]
                               /\ made' = [made EXCEPT ![op] = Append(made[op], c)]
        BY <3>1
      <4>2. op \in Streams /\ pipe[op] \in Seq(Chars) /\ made[op] \in Seq(Chars) /\ got[op] \in Seq(Chars)
        BY <1>17 DEF WriteOutput, ExecTypeOK
      <4>3. /\ Append(pipe[op], c) \in Seq(Chars) /\ Append(made[op], c) \in Seq(Chars)
            /\ Len(Append(pipe[op], c)) = Len(pipe[op]) + 1
            /\ Append(got[op] \o pipe[op], c) = got[op] \o Append(pipe[op], c)
        <5> DEFINE q == pipe[op]  g == got[op]  m == made[op]
        <5>0. c \in Chars
          BY <4>1
        <5>1. q \in Seq(Chars) /\ g \in Seq(Chars) /\ m \in Seq(Chars)
          BY <4>2
        <5> HIDE DEF q, g, m
        <5>2. /\ Append(q, c) \in Seq(Chars) /\ Len(Append(q, c)) = Len(q) + 1
              /\ Append(g \o q, c) = g \o Append(q, c)
          BY <5>0, <5>1, WriteIsLast
        <5>3. Append(m, c) \in Seq(Chars)
          BY <5>0, <5>1, AppendProperties
        <5> QED BY <5>2, <5>3 DEF q, g, m
      <4>4. made[op] = got[op] \o pipe[op]
        BY <4>2 DEF Accounted
      <4>5. \A s \in Streams : made'[s] = got'[s] \o pipe'[s]
        <5> DEFINE q == Append(pipe[op], c)  m == Append(made[op], c)
        <5>1. m = got[op] \o q
          BY <4>3, <4>4
        <5>2. pipe' = [pipe EXCEPT ![op] = q] /\ made' = [made EXCEPT ![op] = m] /\ got' = got
          BY <1>17, <4>1 DEF WriteOutput
        <5> HIDE DEF q, m
        <5> QED BY <4>2, <5>1, <5>2 DEF ExecTypeOK, Accounted
      <4> QED BY <1>17, <3>1, <4>5 DEF WriteOutput, Accounted
    <3>2. CASE child' = "exited" /\ childFds' = {} /\ code' \in Codes \ {0} /\ UNCHANGED <<pipe, made>>
      BY <1>17, <3>2 DEF WriteOutput, Accounted
    <3> QED BY <1>17, <3>1, <3>2 DEF WriteOutput
  <2>3. Descriptors'
    BY <1>17 DEF WriteOutput, ExecTypeOK, Descriptors, Accounted
  <2>4. Drained'
    BY <1>17 DEF WriteOutput, ExecTypeOK, Drained, Silent, Descriptors, Accounted
  <2>5. Delivered'
    BY <1>17, NothingCollected DEF WriteOutput, ExecTypeOK, Delivered, Made, Descriptors
  <2> QED BY <2>1, <2>2, <2>3, <2>4, <2>5
<1>18. CASE CloseStream
  <2>1. ExecTypeOK'
    BY <1>18 DEF CloseStream, ExecTypeOK, Descriptors
  <2>2. Accounted'
    BY <1>18 DEF CloseStream, ExecTypeOK, Accounted, Descriptors
  <2>3. Descriptors'
    BY <1>18 DEF CloseStream, ExecTypeOK, Descriptors, Accounted
  <2>4. Drained'
    BY <1>18 DEF CloseStream, ExecTypeOK, Drained, Silent, Descriptors, Accounted
  <2>5. Delivered'
    BY <1>18, NothingCollected DEF CloseStream, ExecTypeOK, Delivered, Made, Descriptors
  <2> QED BY <2>1, <2>2, <2>3, <2>4, <2>5
<1>19. CASE ChildExits
  <2>1. ExecTypeOK'
    BY <1>19 DEF ChildExits, ExecTypeOK, Descriptors
  <2>2. Accounted'
    BY <1>19 DEF ChildExits, ExecTypeOK, Accounted, Descriptors
  <2>3. Descriptors'
    BY <1>19 DEF ChildExits, ExecTypeOK, Descriptors, Accounted
  <2>4. Drained'
    BY <1>19 DEF ChildExits, ExecTypeOK, Drained, Silent, Descriptors, Accounted
  <2>5. Delivered'
    BY <1>19, NothingCollected DEF ChildExits, ExecTypeOK, Delivered, Made, Descriptors
  <2> QED BY <2>1, <2>2, <2>3, <2>4, <2>5
<1>20. CASE Terminated \/ UNCHANGED execvars
  <2>1. /\ UNCHANGED <<call, par, child, op, parFds, childFds, pipe, left, made, got, given>>
        /\ UNCHANGED <<code, reaped, result, ran, calm>>
    BY <1>20 DEF Terminated, execvars
  <2>2. ExecTypeOK'
    BY <2>1 DEF ExecTypeOK
  <2>3. Accounted' /\ Descriptors'
    BY <2>1 DEF Accounted, Descriptors
  <2>4. Drained' /\ Delivered'
    BY <2>1 DEF Drained, Silent, Delivered, Made
  <2> QED BY <2>2, <2>3, <2>4
<1> QED BY <1>1, <1>2, <1>3, <1>4, <1>5, <1>6, <1>7, <1>8, <1>9, <1>10, <1>11,
           <1>12, <1>13, <1>14, <1>15, <1>16, <1>17, <1>18, <1>19, <1>20 DEF ExecNext, AgentNext, ChildNext

(***************************************************************************)
(* The variables keep their types: a pipe never holds more than it can     *)
(* (exec.exec).                                                            *)
(***************************************************************************)
THEOREM ExecTyped == ExecSpec => []ExecTypeOK
<1>1. ExecInv => ExecTypeOK
  BY DEF ExecInv
<1> QED BY <1>1, ExecInvInit, ExecInvNext, PTL DEF ExecSpec

(***************************************************************************)
(* The agent never reads what the child did not write, nor out of order;   *)
(* an undisturbed call has read all of it, on both streams, closed its     *)
(* pipes, and returns every line that is ended, or the whole text if there *)
(* is none, whatever the sizes of the pipes and the order in which the     *)
(* child wrote (lib.lua 278-319).                                          *)
(***************************************************************************)
THEOREM OutputComplete == ExecSpec => []OutputWhole
<1>1. ExecInv => OutputWhole
  <2> SUFFICES ASSUME ExecInv PROVE OutputWhole
    OBVIOUS
  <2>1. \A s \in Streams : made[s] = got[s] \o pipe[s]
    BY DEF ExecInv, Accounted
  <2>2. ASSUME par = "returned", calm
        PROVE  /\ parFds = {} /\ got = made
               /\ \A s \in Streams \ call.redirect :
                    /\ \A n \in DOMAIN made[s] : InLine(made[s], n) => n \in given[s]
                    /\ (\A n \in DOMAIN made[s] : ~ InLine(made[s], n)) =>
                         given[s] = DOMAIN made[s]
    <3>1. \A s \in Streams : pipe[s] = << >> /\ got[s] \in Seq(Chars)
      BY <2>2 DEF ExecInv, ExecTypeOK, Drained, Silent, Streams
    <3>2. \A s \in Streams : got[s] = made[s]
      BY <2>1, <3>1, ConcatEmptySeq
    <3>3. got = made
      BY <3>2 DEF ExecInv, ExecTypeOK
    <3>4. \A s \in Streams \ call.redirect : given[s] = Collected(made[s])
      BY <2>2, <3>3 DEF ExecInv, Delivered, Made, Streams
    <3> QED BY <2>2, <3>3, <3>4 DEF ExecInv, Descriptors, Collected
  <2> QED BY <2>1, <2>2 DEF OutputWhole
<1> QED BY <1>1, ExecInvInit, ExecInvNext, PTL DEF ExecSpec
=============================================================================
