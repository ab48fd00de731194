------------------------------- MODULE Table -------------------------------
(* The tables of the Lua interpreter (ltable.c) and the functions of the    *)
(* table library that move their elements (ltablib.c).  A table has an      *)
(* array part, for the keys 1..sizearray, and a hash part: a vector of      *)
(* nodes in chains, where a collision is settled with Brent's variation.    *)
(* The links between nodes are indices here, 0 for none; in the code they   *)
(* are distances.  A table without a hash part has no node here; in the     *)
(* code it has the one dummynode, whose value is nil for ever.              *)
EXTENDS Integers, Sequences, FiniteSets, SequencesExt

CONSTANTS Keys,         \* normalised keys, <<type, number>>: an int, str or obj
          Floats,       \* numbers of halves: the float keys the program uses
          Values, Nil,
          Hash,         \* of the keys that are not integers
          MaxABits,     \* MAXASIZE is 2^MAXABITS
          MaxInt,       \* MAX_INT of unbound_search
          Sizes         \* what constructors and pack ask for: array and hash

VARIABLES t,            \* the table
          cur,          \* the control variable of a traversal
          trav, seen    \* one is going on; what it has returned

vars == <<t, cur, trav, seen>>

NilKey == <<"nil", 0>>
Dead(k) == <<"dead", k[2]>>
IntKey(i) == <<"int", i>>
IsInt(k) == k[1] = "int"
Cell == Values \cup {Nil}
FreeNode == [key |-> NilKey, val |-> Nil, next |-> 0]
MaxASize == 2^MaxABits
Log2(n) == CHOOSE i \in 0..n : 2^i >= n /\ (i = 0 \/ 2^(i - 1) < n)

\* luaH_newkey and luaH_get: a float with an integral value is that integer
Normal(k) == IF k[1] = "flt" /\ k[2] % 2 = 0 THEN IntKey(k[2] \div 2) ELSE k

-----------------------------------------------------------------------------
(* Looking up.                                                              *)

SizeNode(s) == Len(s.node)
IsDummy(s) == s.node = <<>>

\* hashpow2 for integers and strings, hashmod for floats and pointers
MainPosition(s, k) ==
    1 + (CASE k[1] = "int" -> k[2] % SizeNode(s)
           [] k[1] = "str" -> Hash[k] % SizeNode(s)
           [] OTHER -> Hash[k] % (IF SizeNode(s) = 1 THEN 1 ELSE SizeNode(s) - 1))

\* the nodes from n on, in the order of the chain
Chain(s, n) ==
    LET walk[i \in 0..SizeNode(s)] ==
          IF i = 0 THEN <<>> ELSE <<i>> \o walk[s.node[i].next]
    IN  walk[n]

\* the first node of k's chain that passes Test, or 0
InChain(s, k, Test(_)) ==
    LET find[i \in 0..SizeNode(s)] ==
          IF i = 0 \/ Test(s.node[i].key) THEN i ELSE find[s.node[i].next]
    IN  IF IsDummy(s) THEN 0 ELSE find[MainPosition(s, k)]

ArrayIndex(k) == IF IsInt(k) /\ k[2] \in 1..MaxASize THEN k[2] ELSE 0
InArray(s, k) == IsInt(k) /\ k[2] \in 1..Len(s.array)

\* luaH_getint, luaH_getshortstr, getgeneric
NodeOf(s, k) == InChain(s, k, LAMBDA x : x = k)
HasCell(s, k) == InArray(s, k) \/ NodeOf(s, k) # 0
Get(s, k) == IF InArray(s, k) THEN s.array[k[2]]
             ELSE LET n == NodeOf(s, k) IN IF n # 0 THEN s.node[n].val ELSE Nil
GetInt(s, i) == Get(s, IntKey(i))

-----------------------------------------------------------------------------
(* Storing, and the hash that grows when it is full.                        *)

\* getfreepos: the search goes down from lastfree and never back up
FreePos(s) ==
    LET free == {n \in 1..(s.lastfree - 1) : s.node[n].key = NilKey}
    IN  IF free = {} THEN 0 ELSE CHOOSE n \in free : \A m \in free : n >= m

\* the colliding node in mp is not in its main position: it moves to f
MoveColliding(s, mp, f) ==
    LET othern == MainPosition(s, s.node[mp].key)
        prev == CHOOSE n \in ToSet(Chain(s, othern)) : s.node[n].next = mp
    IN  [s EXCEPT !.node = [@ EXCEPT ![prev].next = f, ![f] = s.node[mp], ![mp] = FreeNode]]

\* the part of luaH_newkey that needs no rehash; the key is not in the table
CanAdd(s, k) == ~IsDummy(s) /\ (s.node[MainPosition(s, k)].val = Nil \/ FreePos(s) # 0)
AddKey(s, k, v) ==
    LET mp == MainPosition(s, k)
        f == FreePos(s)
        at(r, n) == [r EXCEPT !.node[n].key = k, !.node[n].val = v]
    IN  IF s.node[mp].val = Nil THEN at(s, mp)
        ELSE LET r == [s EXCEPT !.lastfree = f]
             IN  IF MainPosition(s, s.node[mp].key) # mp
                 THEN at(MoveColliding(r, mp, f), mp)
                 ELSE at([r EXCEPT !.node[f].next = s.node[mp].next, !.node[mp].next = f], f)

\* luaH_set and the assignment to the slot it returns, where no rehash may
\* happen: a table for which that fails is marked
Put(s, k, v) ==
    IF InArray(s, k) THEN [s EXCEPT !.array[k[2]] = v]
    ELSE LET n == NodeOf(s, k)
         IN  IF n # 0 THEN [s EXCEPT !.node[n].val = v]
             ELSE IF CanAdd(s, k) THEN AddKey(s, k, v)
             ELSE [s EXCEPT !.nested = TRUE]

SetArrayVector(s, n) == [s EXCEPT !.array = [i \in 1..n |-> IF i <= Len(@) THEN @[i] ELSE Nil]]
SetNodeVector(s, n) ==
    LET size == IF n = 0 THEN 0 ELSE 2^Log2(n)
    IN  [s EXCEPT !.node = [i \in 1..size |-> FreeNode], !.lastfree = size + 1]

\* luaH_resize: the elements of the vanishing slice first, then the old nodes
\* from the last to the first
\* mutant: a shrinking array drops its tail instead of moving it to the hash
ResizeDropping(s, na, nh) ==
    LET live == SelectSeq(Reverse(s.node), LAMBDA e : e.val # Nil)
    IN  FoldLeft(LAMBDA r, e : Put(r, e.key, e.val),
                 SetNodeVector(SetArrayVector(s, na), nh), live)
Resize(s, na, nh) ==
    LET entries == [i \in 1..Len(s.array) |-> [key |-> IntKey(i), val |-> s.array[i]]]
        slice == SubSeq(entries, na + 1, Len(entries))
        live == SelectSeq(slice \o Reverse(s.node), LAMBDA e : e.val # Nil)
    IN  FoldLeft(LAMBDA r, e : Put(r, e.key, e.val),
                 SetNodeVector(SetArrayVector(s, na), nh), live)
ResizeArray(s, na) == Resize(s, na, SizeNode(s))

\* rehash counts: the keys in use (numusearray, numusehash)
Used(s) == {IntKey(i) : i \in {j \in 1..Len(s.array) : s.array[j] # Nil}} \cup
           {s.node[n].key : n \in {m \in 1..SizeNode(s) : s.node[m].val # Nil}}
UpTo(S, n) == {k \in S : ArrayIndex(k) \in 1..n}

\* computesizes: the largest power of two more than half of which is in use
ComputeSizes(S) ==
    LET fits == {i \in 0..MaxABits : /\ Cardinality(UpTo(S, MaxASize)) > 2^i \div 2
                                     /\ Cardinality(UpTo(S, 2^i)) > 2^i \div 2}
    IN  IF fits = {} THEN 0 ELSE 2^(CHOOSE i \in fits : \A j \in fits : i >= j)

Rehash(s, k) ==
    LET all == Used(s) \cup {k}
        na == ComputeSizes(all)
    IN  Resize(s, na, Cardinality(all \ UpTo(all, na)))

\* luaH_set with its rehash, and the assignment
Set(s, key, v) ==
    LET k == Normal(key)
    IN  IF HasCell(s, k) \/ CanAdd(s, k) THEN Put(s, k, v) ELSE Put(Rehash(s, k), k, v)

-----------------------------------------------------------------------------
(* The length: a border, by binary search.                                  *)

Halve(s, lo, hi) ==
    LET search[i \in 0..MaxInt, j \in 0..(2 * MaxInt)] ==
          IF j - i <= 1 THEN i
          ELSE LET m == (i + j) \div 2
               IN  IF GetInt(s, m) = Nil THEN search[i, m] ELSE search[m, j]
    IN  search[lo, hi]

\* j doubles until t[j] is nil; past MAX_INT / 2 the search is linear
Unbound(s, j0) ==
    LET probe[i \in 0..MaxInt, j \in 0..(2 * MaxInt)] ==
          IF GetInt(s, j) = Nil THEN Halve(s, i, j)
          ELSE IF j > MaxInt \div 2
          THEN (CHOOSE i1 \in 1..(2 * MaxInt) : /\ GetInt(s, i1) = Nil
                                                /\ \A h \in 1..(i1 - 1) : GetInt(s, h) # Nil) - 1
          ELSE probe[j, 2 * j]
    IN  probe[j0, j0 + 1]

GetN(s) ==
    LET j == Len(s.array)
    IN  IF j > 0 /\ s.array[j] = Nil THEN Halve(s, 0, j)
        ELSE IF IsDummy(s) THEN j ELSE Unbound(s, j)

-----------------------------------------------------------------------------
(* Traversal: the array part, then the nodes.                               *)

\* findindex; -1 is the error "invalid key to 'next'"
\* mutant: a key the collector has marked dead is not recognised
FindIndexLive(s, k) ==
    IF k = NilKey THEN 0
    ELSE IF InArray(s, k) THEN k[2]
    ELSE LET n == InChain(s, k, LAMBDA x : x = k)
         IN  IF n = 0 THEN -1 ELSE Len(s.array) + n
FindIndex(s, k) ==
    IF k = NilKey THEN 0
    ELSE IF InArray(s, k) THEN k[2]
    ELSE LET n == InChain(s, k, LAMBDA x : x = k \/ (k[1] = "obj" /\ x = Dead(k)))
         IN  IF n = 0 THEN -1 ELSE Len(s.array) + n

ElementKey(s, i) == IF i <= Len(s.array) THEN IntKey(i) ELSE s.node[i - Len(s.array)].key
ElementVal(s, i) == IF i <= Len(s.array) THEN s.array[i] ELSE s.node[i - Len(s.array)].val

\* luaH_next: the next key with a value, or nil at the end
NextKey(s, k) ==
    LET more == {i \in (FindIndex(s, k) + 1)..(Len(s.array) + SizeNode(s)) : ElementVal(s, i) # Nil}
    IN  IF more = {} THEN NilKey
        ELSE ElementKey(s, CHOOSE i \in more : \A j \in more : i <= j)

-----------------------------------------------------------------------------
(* What the program does with the table.                                    *)

\* the indices i..j, in the order of a loop
Up(i, j) == [n \in 1..(IF j >= i THEN j - i + 1 ELSE 0) |-> i + n - 1]
Down(i, j) == Reverse(Up(i, j))

Empty == [array |-> <<>>, node |-> <<>>, lastfree |-> 1, nested |-> FALSE]

\* the state of an empty table: luaH_new, with the sizes its constructor gives
Init == /\ \E z \in Sizes : t = Resize(Empty, z[1], z[2])
        /\ cur = NilKey /\ trav = FALSE /\ seen = {}

ProgramKeys == Keys \cup {<<"flt", n>> : n \in Floats}

\* an assignment, of nil too: also that one makes a node for a new key;
\* during a traversal only fields that exist are assigned
Store == \E k \in ProgramKeys, v \in Cell :
    /\ trav => Get(t, Normal(k)) # Nil
    /\ t' = Set(t, k, v)
    /\ UNCHANGED <<cur, trav, seen>>

\* OP_SETLIST: a constructor asks for an array of at least n elements, then
\* stores them from the last to the first
SetList == \E z \in Sizes, v \in Cell :
    LET n == z[1]
        r == IF n > Len(t.array) THEN ResizeArray(t, n) ELSE t
    IN  /\ ~trav
        /\ t' = FoldLeft(LAMBDA q, i : Set(q, IntKey(i), v), r, Down(1, n))
        /\ UNCHANGED <<cur, trav, seen>>

\* the collector marks the dead keys of the entries without a value
Collect == \E k \in {x \in Keys : x[1] = "obj"} :
    /\ \E n \in 1..SizeNode(t) : t.node[n].key = k /\ t.node[n].val = Nil
    /\ t' = [t EXCEPT !.node = [n \in 1..SizeNode(t) |->
                 IF t.node[n].key = k /\ t.node[n].val = Nil
                 THEN [t.node[n] EXCEPT !.key = Dead(k)] ELSE t.node[n]]]
    /\ UNCHANGED <<cur, trav, seen>>

Begin == ~trav /\ trav' = TRUE /\ cur' = NilKey /\ seen' = {} /\ UNCHANGED t

Visit ==
    /\ trav /\ NextKey(t, cur) # NilKey
    /\ cur' = NextKey(t, cur) /\ seen' = seen \cup {cur'}
    /\ UNCHANGED <<t, trav>>
Finish ==
    /\ trav /\ NextKey(t, cur) = NilKey
    /\ trav' = FALSE /\ cur' = NilKey /\ seen' = {}
    /\ UNCHANGED t

-----------------------------------------------------------------------------
(* table.insert, table.remove and table.move: loops of reads and writes.    *)

Copy(s, from, to) == Set(s, IntKey(to), GetInt(s, from))
\* t[to] = t[to + d] for the indices of a sequence, one after the other
CopyAll(s, seq, d) == FoldLeft(LAMBDA r, to : Copy(r, to + d, to), s, seq)
InBounds(i) == IntKey(i) \in Keys

TInsert == \E v \in Values : LET e == GetN(t) + 1 IN \E pos \in 1..e :
    /\ ~trav /\ InBounds(e)
    /\ t' = Set(CopyAll(t, Down(pos + 1, e), -1), IntKey(pos), v)
    /\ UNCHANGED <<cur, trav, seen>>

\* size + 1 is a position too, and an empty table may be asked for 0
TRemove == LET size == GetN(t) IN \E pos \in (1..(size + 1)) \cup {size} :
    /\ ~trav /\ InBounds(pos)
    /\ t' = LET r == CopyAll(t, Up(pos, size - 1), 1)
            IN  Set(r, IntKey(IF pos < size THEN size ELSE pos), Nil)
    /\ UNCHANGED <<cur, trav, seen>>

\* the direction is down when the destination starts inside the range
TMove == \E f, e, d \in {k[2] : k \in {x \in Keys : IsInt(x)}} :
    /\ ~trav /\ e >= f /\ InBounds(d + e - f)
    /\ t' = CopyAll(t, IF d > e \/ d <= f THEN Up(d, d + e - f) ELSE Down(d, d + e - f), f - d)
    /\ UNCHANGED <<cur, trav, seen>>

Next == \/ Store \/ SetList \/ Collect \/ Begin \/ Visit \/ Finish
        \/ TInsert \/ TRemove \/ TMove
Spec == Init /\ [][Next]_vars

-----------------------------------------------------------------------------
(* Properties.                                                              *)

\* A table is an array, nodes with keys, values and links within the vector,
\* and a mark that starts above the last node.
TypeOK ==
    /\ \A i \in 1..Len(t.array) : t.array[i] \in Cell
    /\ \A n \in 1..SizeNode(t) : /\ t.node[n].val \in Cell
                                 /\ t.node[n].next \in (0..SizeNode(t)) \ {n}
    /\ t.lastfree \in 1..(SizeNode(t) + 1)
    /\ trav \in BOOLEAN /\ seen \subseteq Keys

\* The sizes rehash computes hold every old key and the new one: the hash
\* never grows again while it is filled (rehash counts, luaH_resize stores).
RehashSuffices == ~t.nested

\* Assigning to existing fields, clearing them and collecting garbage never
\* make the control variable of a traversal invalid (findindex).
NextNeverFails == trav => FindIndex(t, cur) # -1

\* what the table holds, wherever it lies
Contents == [k \in Keys |-> Get(t, k)]
=============================================================================
