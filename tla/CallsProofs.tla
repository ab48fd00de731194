----------------------------- MODULE CallsProofs -----------------------------
(***************************************************************************)
(* A theorem about Calls, for every set of threads and every limit of the  *)
(* stacks: the two counters of nested C calls agree with the C stack.      *)
(*                                                                         *)
(* The counters alone are not inductive: an error, a yield and a recovery  *)
(* restore them from what an entry of the C stack saved long before, and   *)
(* the return of a function finds its entry only if the CallInfos and the  *)
(* C stack fit together.  The invariant (Good) says how they do.           *)
(***************************************************************************)
EXTENDS Calls, SequenceTheorems, FiniteSetTheorems, WellFoundedInduction, TLAPS

-----------------------------------------------------------------------------
(* The invariant.                                                          *)

\* The kinds of things Calls is about.
CallInfos == [kind : LuaKinds \cup CKinds, fresh : BOOLEAN, k : BOOLEAN, yp : BOOLEAN, olderr : Nat]
ThreadState == [ci : Seq(CallInfos), status : {"ok", "yield", "dead"}, nny : Int, nC : Int, errfunc : Nat,
           extra : BOOLEAN, loaded : BOOLEAN]
CallEntry == [what : {"call"}, th : Threads, by : {"api", "meta", "handler"}, noyield : BOOLEAN,
              depth : Nat]
TryEntry == [what : {"try"}, for : {"pcall", "resume"}, th : Threads, nC : Int, nny : Int,
             err : Nat, depth : Nat, from : Threads]
Entry == CallEntry \cup TryEntry
CallsState == [th : [Threads -> ThreadState], cs : Seq(Entry), run : Threads,
          mode : {"lua", "cstart", "cdone", "unroll", "error", "throw", "end"},
          err : {"run", "err"}, ok : BOOLEAN]

\* An entry of the C stack is a luaD_call, the protected block of a lua_pcall
\* or that of a lua_resume.
IsCall(e) == e.what = "call"
IsBlock(e) == e.what = "try" /\ e.for = "pcall"
IsResume(e) == e.what = "try" /\ e.for = "resume"
IsLua(c) == c.kind \in LuaKinds
\* A pcall or xpcall that put a protected block on the C stack.
Catches(c) == c.kind \in {"pcall", "xpcall"} /\ ~c.yp

\* What nCcalls counts, and what nny counts for a thread.
Counting == {e \in Entry : e.what = "call" \/ e.for = "resume"}
NoYield(t) == {e \in Entry : e.what = "call" /\ e.th = t /\ e.noyield}
Count(cs, n, E) == Cardinality({m \in 1 .. n : cs[m] \in E})
Base(t) == IF t = Main THEN 1 ELSE 0

\* Frame j of ci runs on top of the first n entries: every call of its thread
\* was made below it, and a C function was called by the last of them, by
\* lua_resume, or by the Lua function under it.
Placed(cs, n, ci, j) ==
  /\ j \in 1 .. Len(ci)
  /\ IsCall(cs[n]) => cs[n].depth < j
  /\ ~IsLua(ci[j]) => (IsCall(cs[n]) /\ cs[n].depth = j - 1) \/ j = 1 \/ IsLua(ci[j - 1])

\* The entries of a thread lie together and their depths grow; a thread gets
\* on the stack by its own lua_resume, except the first.
Ordered(cs, n) ==
  /\ \A m \in 1 .. n : cs[m].th = cs[n].th =>
       cs[m].depth <= cs[n].depth /\ \A k \in m .. n : cs[k].th = cs[n].th
  /\ ~IsResume(cs[n]) => n = 1 \/ cs[n - 1].th = cs[n].th
\* What a block of lua_resume saved is what its caller has: the caller waits in
\* a C function, and its counter was the number of calls below the block.
ResumeOK(th, cs, n) ==
  LET e == cs[n]
      u == th[e.from] IN
  /\ n > 1 /\ e.th # Main /\ cs[n - 1].th = e.from /\ e.depth = 0
  /\ \A m \in 1 .. (n - 1) : cs[m].th # e.th
  /\ e.nC < MaxC /\ e.nC = u.nC + 1 /\ u.nC = Count(cs, n - 1, Counting)
  /\ Placed(cs, n - 1, u.ci, Len(u.ci)) /\ ~IsLua(u.ci[Len(u.ci)])
\* On a block of lua_pcall lies the call it protects.
Covered(cs, n) ==
  n < Len(cs) => /\ IsCall(cs[n + 1]) /\ cs[n + 1].by = "api" /\ cs[n + 1].noyield
                 /\ cs[n + 1].depth = cs[n].depth
\* A block of lua_pcall saved the counts of what is below it.
BlockOK(cs, n) ==
  /\ Covered(cs, n)
  /\ cs[n].nC = Count(cs, n - 1, Counting)
  /\ cs[n].nny = Count(cs, n - 1, NoYield(cs[n].th)) + Base(cs[n].th)
\* A call through the API was made by the C function at its depth, and lies on
\* a protected block just when that function waits for one.
ApiOK(ci, cs, n) ==
  LET d == cs[n].depth IN
  n > 1 /\ (d > 0 =>
    /\ d <= Len(ci) /\ ~IsLua(ci[d]) /\ (IsBlock(cs[n - 1]) <=> Catches(ci[d]))
    /\ IsBlock(cs[n - 1]) => n > 2
    /\ Placed(cs, IF IsBlock(cs[n - 1]) THEN n - 2 ELSE n - 1, ci, d))
\* A call of a metamethod was made by the Lua function at its depth.
MetaOK(ci, cs, n) ==
  LET d == cs[n].depth IN
  n > 1 /\ d > 0 /\ d <= Len(ci) /\ IsLua(ci[d]) /\ Placed(cs, n - 1, ci, d)
\* An entry fits the entries below it and the frames of its thread.
EntryOK(th, cs, n) ==
  LET e == cs[n]
      ci == th[e.th].ci IN
  /\ e.depth <= Len(ci)
  /\ Ordered(cs, n)
  /\ IsResume(e) => ResumeOK(th, cs, n)
  /\ IsBlock(e) => BlockOK(cs, n)
  /\ IsCall(e) /\ e.by = "api" => ApiOK(ci, cs, n)
  /\ IsCall(e) /\ e.by = "meta" => MetaOK(ci, cs, n)

\* Where, among its frames, the calls of a thread were made.
CallDepths(cs, t) == {cs[m].depth : m \in {k \in 1 .. Len(cs) : IsCall(cs[k]) /\ cs[k].th = t}}
\* A Lua function whose return leaves luaV_execute was entered by a call, or is
\* below all of them (unroll runs it again); another one by the function below.
FramesOK(ci, D) ==
  \A j \in 1 .. Len(ci) : IsLua(ci[j]) =>
    /\ ci[j].fresh => j - 1 \in D \/ \A d \in D : d >= j
    /\ ~ci[j].fresh => j - 1 \notin D /\ j > 1 /\ IsLua(ci[j - 1])

\* A thread with entries on the C stack is running or waits for the coroutine it
\* resumed, and nny counts its calls; one without has yielded, died or not begun.
OnStack(cs, t) == \E n \in 1 .. Len(cs) : cs[n].th = t
ThreadOK(th, cs, run, t) ==
  /\ OnStack(cs, t) => /\ th[t].status = "ok" /\ (t # run => th[t].ci # << >>)
                       /\ th[t].nny = Count(cs, Len(cs), NoYield(t)) + Base(t)
  /\ ~OnStack(cs, t) => th[t].status # "ok" \/ th[t].ci = << >>
  /\ FramesOK(th[t].ci, CallDepths(cs, t))

\* The C stack, from the block of the main program up, fits the threads.
Core(th, cs, run) ==
  /\ th \in [Threads -> ThreadState] /\ cs \in Seq(Entry) /\ run \in Threads
  /\ Len(cs) >= 1 /\ IsBlock(cs[1]) /\ cs[Len(cs)].th = run
  /\ th[run].nC = Count(cs, Len(cs), Counting) /\ th[run].nC <= MaxC + ExtraC
  /\ \A n \in 1 .. Len(cs) : EntryOK(th, cs, n)
  /\ \A t \in Threads : ThreadOK(th, cs, run, t)

\* What the mode of the machine says of the frame and the entry on top.
ModeOK(q) ==
  /\ q.mode \in {"lua", "cstart", "cdone"} => Placed(q.cs, Len(q.cs), L(q).ci, Depth(q))
  /\ q.mode = "lua" => IsLua(TopCI(q))
  /\ q.mode \in {"cstart", "cdone"} => ~IsLua(TopCI(q))
  /\ q.mode = "cstart" => ~TopCI(q).yp
  /\ q.mode = "unroll" => IsResume(q.cs[Len(q.cs)])
  /\ q.mode # "throw" => L(q).nC < MaxC + ExtraC

\* CountersMatch, in terms of Count (see MatchingCounts).
Matching(q) ==
  /\ \A t \in Threads : Status(q, t) \in {"running", "normal"} =>
       q.th[t].nny = Count(q.cs, Len(q.cs), NoYield(t)) + Base(t)
  /\ q.mode # "end" => L(q).nC = Count(q.cs, Len(q.cs), Counting)
  /\ Count(q.cs, Len(q.cs), Counting) <= MaxC + ExtraC

\* The invariant: once the main program has ended nothing is left to fit.
Struct(q) == Core(q.th, q.cs, q.run) /\ ~IsBlock(q.cs[Len(q.cs)]) /\ ModeOK(q)
Good(q) == q \in CallsState /\ Matching(q) /\ (q.mode # "end" => Struct(q))

-----------------------------------------------------------------------------
(* Counting the entries of the C stack.                                    *)

\* Counting goes on entry by entry.
LEMMA CountStep ==
  ASSUME NEW cs, NEW E, NEW n \in Nat
  PROVE  /\ Count(cs, n, E) \in Nat
         /\ Count(cs, 0, E) = 0
         /\ Count(cs, n + 1, E) = Count(cs, n, E) + (IF cs[n + 1] \in E THEN 1 ELSE 0)
<1> DEFINE P(k) == {m \in 1 .. k : cs[m] \in E}
<1>1. \A k \in Nat : IsFiniteSet(P(k))
  <2> TAKE k \in Nat
  <2>1. IsFiniteSet(1 .. k)
    BY FS_Interval
  <2>2. P(k) \subseteq 1 .. k
    OBVIOUS
  <2> QED BY <2>1, <2>2, FS_Subset
<1>2. P(0) = {}
  OBVIOUS
<1>0. Count(cs, n, E) = Cardinality(P(n)) /\ Count(cs, 0, E) = Cardinality(P(0))
      /\ Count(cs, n + 1, E) = Cardinality(P(n + 1))
  BY DEF Count
<1>3. CASE cs[n + 1] \in E
  <2>1. P(n + 1) = P(n) \cup {n + 1} /\ n + 1 \notin P(n)
    BY <1>3
  <2>2. Cardinality(P(n) \cup {n + 1}) = Cardinality(P(n)) + 1
    BY <1>1, <2>1, FS_AddElement, Zenon
  <2>3. Cardinality(P(n)) \in Nat
    BY <1>1, FS_CardinalityType
  <2>4. Cardinality(P(0)) = 0
    BY <1>2, FS_EmptySet
  <2> HIDE DEF P
  <2> QED BY <1>0, <1>3, <2>1, <2>2, <2>3, <2>4
<1>4. CASE cs[n + 1] \notin E
  <2>1. P(n + 1) = P(n)
    BY <1>4
  <2>2. Cardinality(P(n)) \in Nat
    BY <1>1, FS_CardinalityType
  <2>3. Cardinality(P(0)) = 0
    BY <1>2, FS_EmptySet
  <2> HIDE DEF P
  <2> QED BY <1>0, <1>4, <2>1, <2>2, <2>3
<1> QED
  BY <1>3, <1>4

LEMMA CountAdd ==
  ASSUME NEW cs, NEW E, NEW n \in Nat
  PROVE  Count(cs, n + 1, E) = Count(cs, n, E) + (IF cs[n + 1] \in E THEN 1 ELSE 0)
<1>1. Count(cs, n + 1, E) = Count(cs, n, E) + (IF cs[n + 1] \in E THEN 1 ELSE 0)
  BY CountStep
<1> QED
  BY <1>1, Zenon

\* It depends on the entries counted only.
LEMMA CountSame ==
  ASSUME NEW cs, NEW ds, NEW E, NEW n \in Nat, \A m \in 1 .. n : cs[m] = ds[m]
  PROVE  Count(ds, n, E) = Count(cs, n, E)
<1>1. {m \in 1 .. n : cs[m] \in E} = {m \in 1 .. n : ds[m] \in E}
  OBVIOUS
<1> QED
  BY <1>1 DEF Count

\* Places at which nothing is counted can be left out.
LEMMA CountNone ==
  ASSUME NEW cs, NEW E, NEW n \in Nat, NEW m \in Nat, m <= n,
         \A k \in (m + 1) .. n : cs[k] \notin E
  PROVE  Count(cs, n, E) = Count(cs, m, E)
<1>1. {k \in 1 .. m : cs[k] \in E} = {k \in 1 .. n : cs[k] \in E}
  OBVIOUS
<1> QED
  BY <1>1 DEF Count

\* A count of zero leaves nothing to count.
LEMMA CountZero ==
  ASSUME NEW cs, NEW E, NEW n \in Nat, Count(cs, n, E) = 0
  PROVE  \A m \in 1 .. n : cs[m] \notin E
<1> DEFINE P == {m \in 1 .. n : cs[m] \in E}
<1>1. IsFiniteSet(P)
  <2>1. IsFiniteSet(1 .. n)
    BY FS_Interval
  <2>2. P \subseteq 1 .. n
    OBVIOUS
  <2> QED BY <2>1, <2>2, FS_Subset
<1>2. P = {}
  BY <1>1, FS_EmptySet DEF Count
<1> QED
  BY <1>2

\* A longer part has no smaller count, and a larger one if it has an entry more.
LEMMA CountLess ==
  ASSUME NEW cs, NEW E, NEW n \in Nat, NEW m \in Nat, m <= n
  PROVE  /\ Count(cs, m, E) <= Count(cs, n, E)
         /\ \A k \in (m + 1) .. n : cs[k] \in E => Count(cs, m, E) < Count(cs, n, E)
<1> DEFINE P(k) == {i \in 1 .. k : cs[i] \in E}
<1>1. \A k \in Nat : IsFiniteSet(P(k)) /\ Cardinality(P(k)) \in Nat
  <2> TAKE k \in Nat
  <2>1. IsFiniteSet(1 .. k)
    BY FS_Interval
  <2>2. P(k) \subseteq 1 .. k
    OBVIOUS
  <2> QED BY <2>1, <2>2, FS_Subset, FS_CardinalityType
<1>2. P(m) \subseteq P(n)
  OBVIOUS
<1>3. Cardinality(P(m)) <= Cardinality(P(n))
  BY <1>1, <1>2, FS_Subset
<1>4. ASSUME NEW k \in (m + 1) .. n, cs[k] \in E
      PROVE  Cardinality(P(m)) < Cardinality(P(n))
  <2>1. k \in P(n) /\ k \notin P(m)
    BY <1>4
  <2>2. P(m) # P(n)
    BY <2>1, Zenon
  <2>3. Cardinality(P(m)) # Cardinality(P(n))
    BY <1>1, <1>2, <2>2, FS_Subset
  <2>4. Cardinality(P(n)) \in Nat /\ Cardinality(P(m)) \in Nat
    BY <1>1
  <2> HIDE DEF P
  <2> QED BY <1>3, <2>3, <2>4
<1> QED
  BY <1>3, <1>4 DEF Count

\* The fields of an entry.
LEMMA EntryFields ==
  ASSUME NEW cs \in Seq(Entry), NEW n \in 1 .. Len(cs)
  PROVE  /\ cs[n] \in Entry /\ cs[n].th \in Threads /\ cs[n].depth \in Nat
         /\ IsCall(cs[n]) \/ IsBlock(cs[n]) \/ IsResume(cs[n])
         /\ ~ (IsCall(cs[n]) /\ IsBlock(cs[n])) /\ ~ (IsCall(cs[n]) /\ IsResume(cs[n]))
         /\ ~ (IsBlock(cs[n]) /\ IsResume(cs[n]))
         /\ ~ IsCall(cs[n]) => cs[n].from \in Threads /\ cs[n].nC \in Int /\ cs[n].nny \in Int /\ cs[n].err \in Nat
         /\ IsCall(cs[n]) => cs[n].by \in {"api", "meta", "handler"} /\ cs[n].noyield \in BOOLEAN
<1>1. cs[n] \in Entry
  BY ElementOfSeq
<1>2. CASE cs[n] \in CallEntry
  BY <1>1, <1>2 DEF CallEntry, IsCall, IsBlock, IsResume
<1>3. CASE cs[n] \in TryEntry
  BY <1>1, <1>3 DEF TryEntry, IsCall, IsBlock, IsResume
<1> QED
  BY <1>1, <1>2, <1>3 DEF Entry

\* Placed depends on the kinds of the frames only.
LEMMA PlacedKept ==
  ASSUME NEW cs, NEW ds, NEW n, ds[n] = cs[n], NEW ci \in Seq(CallInfos), NEW di \in Seq(CallInfos),
         NEW j \in Nat, Placed(cs, n, ci, j), j <= Len(di),
         \A k \in 1 .. j : di[k].kind = ci[k].kind
  PROVE  Placed(ds, n, di, j)
<1>1. j \in 1 .. Len(ci) /\ Len(ci) \in Nat /\ Len(di) \in Nat
  BY LenProperties DEF Placed
<1>2. j \in 1 .. Len(di)
  BY <1>1
<1>3. di[j].kind = ci[j].kind /\ (j # 1 => di[j - 1].kind = ci[j - 1].kind)
  BY <1>1
<1> QED
  BY <1>2, <1>3 DEF Placed, IsLua

\* What is known of an entry of the C stack depends on the entries below, and
\* on the frames of its thread up to its own.
LEMMA EntryKept ==
  ASSUME NEW th \in [Threads -> ThreadState], NEW cs \in Seq(Entry),
         NEW tk \in [Threads -> ThreadState], NEW ds \in Seq(Entry),
         NEW n \in 1 .. Len(cs), n <= Len(ds), EntryOK(th, cs, n),
         \A m \in 1 .. n : ds[m] = cs[m],
         IsBlock(cs[n]) => Covered(ds, n),
         cs[n].depth <= Len(tk[cs[n].th].ci),
         \A j \in 1 .. cs[n].depth : /\ tk[cs[n].th].ci[j].kind = th[cs[n].th].ci[j].kind
                                     /\ tk[cs[n].th].ci[j].yp = th[cs[n].th].ci[j].yp,
         IsResume(cs[n]) => /\ tk[cs[n].from].ci = th[cs[n].from].ci
                            /\ tk[cs[n].from].nC = th[cs[n].from].nC
  PROVE  EntryOK(tk, ds, n)
<1> DEFINE e == cs[n]
           ci == th[e.th].ci
           di == tk[e.th].ci
<1>1. /\ n \in Nat /\ n >= 1 /\ ds[n] = e /\ e \in Entry /\ e.th \in Threads /\ e.depth \in Nat
      /\ ci \in Seq(CallInfos) /\ di \in Seq(CallInfos)
      /\ \A m \in 1 .. n : ds[m] = cs[m]
  BY EntryFields, LenProperties DEF ThreadState
<1>2. \A E : Count(ds, n - 1, E) = Count(cs, n - 1, E)
  <2> TAKE E
  <2>1. n - 1 \in Nat /\ \A m \in 1 .. (n - 1) : cs[m] = ds[m]
    BY <1>1
  <2> QED BY <2>1, CountSame
<1>3. Ordered(ds, n)
  <2>1. Ordered(cs, n)
    BY DEF EntryOK
  <2>2. n # 1 => n - 1 \in 1 .. n
    BY <1>1
  <2>3. \A m \in 1 .. n : \A k \in m .. n : k \in 1 .. n
    BY <1>1
  <2> QED BY <1>1, <2>1, <2>2, <2>3 DEF Ordered
<1>4. ASSUME IsResume(e) PROVE ResumeOK(tk, ds, n)
  <2> DEFINE u == th[e.from]
             v == tk[e.from]
  <2>1. ResumeOK(th, cs, n) /\ u.ci = v.ci /\ u.nC = v.nC
    BY <1>4 DEF EntryOK
  <2>2. n > 1
    BY <2>1 DEF ResumeOK
  <2>3. ds[n - 1] = cs[n - 1] /\ \A m \in 1 .. (n - 1) : ds[m] = cs[m]
    BY <1>1, <2>2
  <2>4. Placed(cs, n - 1, u.ci, Len(u.ci)) /\ ~IsLua(u.ci[Len(u.ci)])
    BY <2>1 DEF ResumeOK
  <2>5. Placed(ds, n - 1, v.ci, Len(v.ci)) /\ ~IsLua(v.ci[Len(v.ci)])
    BY <2>1, <2>3, <2>4 DEF Placed
  <2> QED BY <1>1, <1>2, <2>1, <2>3, <2>5 DEF ResumeOK
<1>5. ASSUME IsBlock(e) PROVE BlockOK(ds, n)
  <2>1. BlockOK(cs, n) /\ Covered(ds, n)
    BY <1>5 DEF EntryOK
  <2> QED BY <1>1, <1>2, <2>1 DEF BlockOK
<1>6. ASSUME IsCall(e), e.by = "api" PROVE ApiOK(di, ds, n)
  <2>1. ApiOK(ci, cs, n)
    BY <1>6 DEF EntryOK
  <2>2. n > 1 /\ ds[n - 1] = cs[n - 1]
    BY <1>1, <2>1 DEF ApiOK
  <2> SUFFICES ASSUME e.depth > 0
      PROVE /\ e.depth <= Len(di) /\ ~IsLua(di[e.depth]) /\ (IsBlock(ds[n - 1]) <=> Catches(di[e.depth]))
            /\ IsBlock(ds[n - 1]) => n > 2
            /\ Placed(ds, IF IsBlock(ds[n - 1]) THEN n - 2 ELSE n - 1, di, e.depth)
    BY <1>1, <2>2 DEF ApiOK
  <2>3. /\ e.depth <= Len(ci) /\ ~IsLua(ci[e.depth]) /\ (IsBlock(cs[n - 1]) <=> Catches(ci[e.depth]))
        /\ IsBlock(cs[n - 1]) => n > 2
        /\ Placed(cs, IF IsBlock(cs[n - 1]) THEN n - 2 ELSE n - 1, ci, e.depth)
    BY <2>1 DEF ApiOK
  <2>4. di[e.depth].kind = ci[e.depth].kind /\ di[e.depth].yp = ci[e.depth].yp
    <3>1. e.depth \in 1 .. e.depth
      BY <1>1
    <3> QED BY <3>1
  <2>5. e.depth <= Len(di)
    OBVIOUS
  <2> DEFINE b == IF IsBlock(cs[n - 1]) THEN n - 2 ELSE n - 1
  <2>6. ds[b] = cs[b]
    <3>1. b \in 1 .. n
      <4>1. n \in Nat /\ n > 1 /\ (IsBlock(cs[n - 1]) => n > 2)
        BY <1>1, <2>2, <2>3
      <4> QED BY ONLY <4>1
    <3> QED BY <1>1, <3>1
  <2>7. Placed(ds, b, di, e.depth)
    <3>1. Placed(cs, b, ci, e.depth) /\ e.depth \in Nat /\ \A k \in 1 .. e.depth : di[k].kind = ci[k].kind
      BY <1>1, <2>3
    <3> HIDE DEF b, ci, di, e
    <3> QED BY <1>1, <2>5, <2>6, <3>1, PlacedKept
  <2> QED BY <2>2, <2>3, <2>4, <2>5, <2>7 DEF IsLua, Catches
<1>7. ASSUME IsCall(e), e.by = "meta" PROVE MetaOK(di, ds, n)
  <2>1. MetaOK(ci, cs, n)
    BY <1>7 DEF EntryOK
  <2>2. /\ n > 1 /\ ds[n - 1] = cs[n - 1] /\ e.depth > 0 /\ e.depth <= Len(ci) /\ IsLua(ci[e.depth])
        /\ Placed(cs, n - 1, ci, e.depth)
    <3>1. /\ n > 1 /\ e.depth > 0 /\ e.depth <= Len(ci) /\ IsLua(ci[e.depth])
          /\ Placed(cs, n - 1, ci, e.depth)
      BY ONLY <2>1 DEF MetaOK
    <3>2. n \in Nat /\ \A m \in 1 .. n : ds[m] = cs[m]
      BY <1>1
    <3>3. n - 1 \in 1 .. n
      BY ONLY <3>1, <3>2
    <3> QED BY <3>1, <3>2, <3>3
  <2>3. di[e.depth].kind = ci[e.depth].kind /\ \A k \in 1 .. e.depth : di[k].kind = ci[k].kind
    <3>1. e.depth \in 1 .. e.depth
      <4>1. e.depth \in Nat /\ e.depth > 0
        BY <1>1, <2>2
      <4> QED BY ONLY <4>1
    <3> QED BY <3>1
  <2>4. e.depth <= Len(di)
    OBVIOUS
  <2>5. Placed(ds, n - 1, di, e.depth)
    <3> HIDE DEF ci, di, e
    <3> QED BY <1>1, <2>2, <2>3, <2>4, PlacedKept
  <2> QED BY <1>1, <2>2, <2>3, <2>4, <2>5 DEF MetaOK, IsLua
<1> QED
  BY <1>1, <1>3, <1>4, <1>5, <1>6, <1>7 DEF EntryOK

-----------------------------------------------------------------------------
(* Entries, when others come and go.                                       *)

\* The depths, one by one.
LEMMA DepthIn ==
  ASSUME NEW cs, NEW t, NEW d
  PROVE  d \in CallDepths(cs, t) <=> \E m \in 1 .. Len(cs) : IsCall(cs[m]) /\ cs[m].th = t /\ cs[m].depth = d
  BY DEF CallDepths

\* The C stack with one more entry,
LEMMA Extended ==
  ASSUME NEW cs \in Seq(Entry), NEW e \in Entry, NEW ds \in Seq(Entry), Len(ds) = Len(cs) + 1,
         ds[Len(cs) + 1] = e, \A m \in 1 .. Len(cs) : ds[m] = cs[m]
  PROVE  /\ ds \in Seq(Entry) /\ Len(cs) \in Nat /\ Len(ds) = Len(cs) + 1 /\ ds[Len(ds)] = e
         /\ ds[Len(cs) + 1] = e /\ \A m \in 1 .. Len(cs) : ds[m] = cs[m]
         /\ \A E : Count(ds, Len(ds), E) = Count(cs, Len(cs), E) + (IF e \in E THEN 1 ELSE 0)
         /\ \A E : Count(ds, Len(cs), E) = Count(cs, Len(cs), E)
         /\ \A t : CallDepths(ds, t) = CallDepths(cs, t) \cup (IF IsCall(e) /\ e.th = t THEN {e.depth} ELSE {})
         /\ \A t : OnStack(ds, t) <=> OnStack(cs, t) \/ t = e.th
<1>1. /\ ds \in Seq(Entry) /\ Len(cs) \in Nat /\ Len(ds) = Len(cs) + 1 /\ ds[Len(ds)] = e
      /\ ds[Len(cs) + 1] = e /\ \A m \in 1 .. Len(cs) : ds[m] = cs[m]
  BY LenProperties
<1>2. ASSUME NEW E
      PROVE  /\ Count(ds, Len(ds), E) = Count(cs, Len(cs), E) + (IF e \in E THEN 1 ELSE 0)
             /\ Count(ds, Len(cs), E) = Count(cs, Len(cs), E)
  <2>1. Count(ds, Len(cs) + 1, E) = Count(ds, Len(cs), E) + (IF ds[Len(cs) + 1] \in E THEN 1 ELSE 0)
    BY <1>1, CountAdd
  <2>2. Count(ds, Len(cs), E) = Count(cs, Len(cs), E)
    BY <1>1, CountSame
  <2> QED BY <1>1, <2>1, <2>2
<1>3. ASSUME NEW t
      PROVE  /\ CallDepths(ds, t) = CallDepths(cs, t) \cup (IF IsCall(e) /\ e.th = t THEN {e.depth} ELSE {})
             /\ OnStack(ds, t) <=> OnStack(cs, t) \/ t = e.th
  <2>1. ASSUME NEW d
        PROVE  d \in CallDepths(ds, t) <=> d \in CallDepths(cs, t) \/ (IsCall(e) /\ e.th = t /\ d = e.depth)
    <3>1. \A m \in 1 .. Len(ds) : m \in 1 .. Len(cs) \/ m = Len(cs) + 1
      BY <1>1
    <3>2. Len(cs) + 1 \in 1 .. Len(ds) /\ \A m \in 1 .. Len(cs) : m \in 1 .. Len(ds)
      BY <1>1
    <3>3. d \in CallDepths(ds, t) <=> \E m \in 1 .. Len(ds) : IsCall(ds[m]) /\ ds[m].th = t /\ ds[m].depth = d
      BY DepthIn
    <3>4. d \in CallDepths(cs, t) <=> \E m \in 1 .. Len(cs) : IsCall(cs[m]) /\ cs[m].th = t /\ cs[m].depth = d
      BY DepthIn
    <3> QED BY <1>1, <3>1, <3>2, <3>3, <3>4
  <2>2. OnStack(ds, t) <=> OnStack(cs, t) \/ t = e.th
    <3>1. \A m \in 1 .. Len(ds) : m \in 1 .. Len(cs) \/ m = Len(cs) + 1
      BY <1>1
    <3>2. Len(cs) + 1 \in 1 .. Len(ds) /\ \A m \in 1 .. Len(cs) : m \in 1 .. Len(ds)
      BY <1>1
    <3> QED BY <1>1, <3>1, <3>2 DEF OnStack
  <2> QED BY <2>1, <2>2
<1> QED
  BY <1>1, <1>2, <1>3

\* and with its first entries only.
LEMMA Shortened ==
  ASSUME NEW cs \in Seq(Entry), NEW n \in 0 .. Len(cs), NEW ds \in Seq(Entry), Len(ds) = n,
         \A m \in 1 .. n : ds[m] = cs[m]
  PROVE  /\ ds \in Seq(Entry) /\ Len(ds) = n /\ \A m \in 1 .. n : ds[m] = cs[m]
         /\ \A E : Count(ds, n, E) = Count(cs, n, E)
         /\ \A t : CallDepths(ds, t) \subseteq CallDepths(cs, t)
         /\ \A t, d : d \in CallDepths(ds, t) <=>
              \E m \in 1 .. n : IsCall(cs[m]) /\ cs[m].th = t /\ cs[m].depth = d
         /\ \A t : (\A m \in (n + 1) .. Len(cs) : cs[m].th # t) =>
              /\ CallDepths(ds, t) = CallDepths(cs, t)
              /\ OnStack(ds, t) <=> OnStack(cs, t)
              /\ Count(ds, n, NoYield(t)) = Count(cs, Len(cs), NoYield(t))
<1>1. /\ ds \in Seq(Entry) /\ Len(cs) \in Nat /\ n \in Nat /\ Len(ds) = n
      /\ \A m \in 1 .. n : ds[m] = cs[m]
  BY LenProperties
<1>2. ASSUME NEW E PROVE Count(ds, n, E) = Count(cs, n, E)
  <2>1. \A m \in 1 .. n : cs[m] = ds[m]
    BY <1>1
  <2> QED BY <1>1, <2>1, CountSame
<1>3. \A t, d : d \in CallDepths(ds, t) <=>
              \E m \in 1 .. n : IsCall(cs[m]) /\ cs[m].th = t /\ cs[m].depth = d
  <2> TAKE t, d
  <2>1. d \in CallDepths(ds, t) <=> \E m \in 1 .. Len(ds) : IsCall(ds[m]) /\ ds[m].th = t /\ ds[m].depth = d
    BY DepthIn
  <2> QED BY <1>1, <2>1
<1>4. \A m \in 1 .. n : m \in 1 .. Len(cs)
  BY <1>1
<1>5. \A t : CallDepths(ds, t) \subseteq CallDepths(cs, t)
  <2> SUFFICES ASSUME NEW t, NEW d \in CallDepths(ds, t) PROVE d \in CallDepths(cs, t)
    OBVIOUS
  <2>1. \E m \in 1 .. n : IsCall(cs[m]) /\ cs[m].th = t /\ cs[m].depth = d
    BY <1>3
  <2> QED BY <1>4, <2>1, DepthIn
<1>6. ASSUME NEW t, \A m \in (n + 1) .. Len(cs) : cs[m].th # t
      PROVE  /\ CallDepths(ds, t) = CallDepths(cs, t)
             /\ OnStack(ds, t) <=> OnStack(cs, t)
             /\ Count(ds, n, NoYield(t)) = Count(cs, Len(cs), NoYield(t))
  <2>1. \A m \in 1 .. Len(cs) : m \in 1 .. n \/ cs[m].th # t
    BY <1>1, <1>6
  <2>2. CallDepths(ds, t) = CallDepths(cs, t)
    <3> SUFFICES ASSUME NEW d \in CallDepths(cs, t) PROVE d \in CallDepths(ds, t)
      BY <1>5
    <3>1. \E m \in 1 .. Len(cs) : IsCall(cs[m]) /\ cs[m].th = t /\ cs[m].depth = d
      BY DepthIn
    <3> QED BY <1>3, <2>1, <3>1
  <2>3. OnStack(ds, t) <=> OnStack(cs, t)
    BY <1>1, <1>4, <2>1 DEF OnStack
  <2>4. Count(cs, Len(cs), NoYield(t)) = Count(cs, n, NoYield(t))
    <3>1. \A k \in (n + 1) .. Len(cs) : cs[k] \notin NoYield(t)
      BY <1>6 DEF NoYield
    <3> QED BY <1>1, <3>1, CountNone
  <2> QED BY <1>2, <2>2, <2>3, <2>4
<1> QED
  BY <1>1, <1>2, <1>3, <1>5, <1>6

\* Append, SubSeq and Front in the form in which they are used here.
LEMMA AppendFacts ==
  ASSUME NEW S, NEW cs \in Seq(S), NEW e \in S
  PROVE  /\ Append(cs, e) \in Seq(S) /\ Len(Append(cs, e)) = Len(cs) + 1
         /\ Append(cs, e)[Len(cs) + 1] = e /\ \A m \in 1 .. Len(cs) : Append(cs, e)[m] = cs[m]
  BY AppendProperties, LenProperties

LEMMA CutFacts ==
  ASSUME NEW S, NEW cs \in Seq(S), NEW n \in 0 .. Len(cs)
  PROVE  /\ SubSeq(cs, 1, n) \in Seq(S) /\ Len(SubSeq(cs, 1, n)) = n
         /\ \A m \in 1 .. n : SubSeq(cs, 1, n)[m] = cs[m]
<1>1. Len(cs) \in Nat /\ n \in Nat /\ n <= Len(cs)
  BY LenProperties
<1>2. \A i \in 1 .. n : i \in 1 .. Len(cs) /\ cs[i] \in S
  BY <1>1, ElementOfSeq
<1> QED
  BY <1>1, <1>2, SubSeqProperties

LEMMA FrontFacts ==
  ASSUME NEW S, NEW cs \in Seq(S)
  PROVE  /\ Front(cs) \in Seq(S) /\ Len(Front(cs)) = (IF Len(cs) = 0 THEN 0 ELSE Len(cs) - 1)
         /\ \A m \in 1 .. (Len(cs) - 1) : Front(cs)[m] = cs[m]
         /\ Last(cs) = cs[Len(cs)]
<1>1. CASE Len(cs) > 0
  <2>1. Len(cs) - 1 \in 0 .. Len(cs)
    BY <1>1, LenProperties
  <2> QED BY <1>1, <2>1, CutFacts DEF Front, Last
<1>2. CASE Len(cs) = 0
  <2>1. Front(cs) = << >>
    BY <1>2, EmptySeq DEF Front
  <2> QED BY <1>2, <2>1, EmptySeq DEF Last
<1> QED
  BY <1>1, <1>2, LenProperties

\* What a run of entries of one thread looks like.
LEMMA Below ==
  ASSUME NEW th, NEW cs \in Seq(Entry), \A k \in 1 .. Len(cs) : EntryOK(th, cs, k),
         NEW n \in 1 .. Len(cs), NEW m \in 1 .. n, cs[m].th = cs[n].th
  PROVE  cs[m].depth <= cs[n].depth /\ \A k \in m .. n : cs[k].th = cs[n].th
  BY DEF EntryOK, Ordered

\* The thread that resumed another is not the one on top of the C stack.
LEMMA ResumerWaits ==
  ASSUME NEW th, NEW cs \in Seq(Entry), \A k \in 1 .. Len(cs) : EntryOK(th, cs, k),
         NEW n \in 1 .. Len(cs), NEW m \in 1 .. n, IsResume(cs[m])
  PROVE  /\ m > 1 /\ m - 1 \in 1 .. Len(cs) /\ cs[m].from = cs[m - 1].th
         /\ cs[m].from # cs[n].th /\ cs[m].from # cs[m].th
<1>1. m \in 1 .. Len(cs) /\ n \in Nat /\ Len(cs) \in Nat
  BY LenProperties
<1>2. ResumeOK(th, cs, m)
  BY <1>1 DEF EntryOK
<1>3. m > 1 /\ cs[m].from = cs[m - 1].th /\ cs[m - 1].th # cs[m].th
  BY <1>1, <1>2 DEF ResumeOK
<1>4. m - 1 \in 1 .. n /\ m \in (m - 1) .. n /\ m - 1 \in 1 .. Len(cs)
  BY <1>1, <1>3
<1>5. cs[m - 1].th # cs[n].th
  BY <1>3, <1>4, Below
<1> QED
  BY <1>3, <1>4, <1>5

\* Nor is it the running one.
LEMMA Waiters ==
  ASSUME NEW th, NEW cs, NEW run, Core(th, cs, run)
  PROVE  \A m \in 1 .. Len(cs) : IsResume(cs[m]) => cs[m].from # run
<1>1. /\ cs \in Seq(Entry) /\ \A k \in 1 .. Len(cs) : EntryOK(th, cs, k)
      /\ Len(cs) \in 1 .. Len(cs) /\ cs[Len(cs)].th = run
  BY LenProperties DEF Core
<1> QED
  BY <1>1, ResumerWaits

\* What a thread has on the C stack does not depend on the entries of others.
LEMMA SameCounts ==
  ASSUME NEW cs \in Seq(Entry), NEW ds \in Seq(Entry), NEW k \in 0 .. Len(cs), k <= Len(ds),
         \A m \in 1 .. k : ds[m] = cs[m], NEW u,
         \A m \in (k + 1) .. Len(cs) : cs[m].th # u, \A m \in (k + 1) .. Len(ds) : ds[m].th # u
  PROVE  /\ OnStack(ds, u) <=> OnStack(cs, u)
         /\ CallDepths(ds, u) = CallDepths(cs, u)
         /\ Count(ds, Len(ds), NoYield(u)) = Count(cs, Len(cs), NoYield(u))
<1> DEFINE es == SubSeq(cs, 1, k)
<1>1. /\ es \in Seq(Entry) /\ Len(es) = k /\ k \in 0 .. Len(ds) /\ \A m \in 1 .. k : es[m] = cs[m]
      /\ \A m \in 1 .. k : es[m] = ds[m]
  BY CutFacts, LenProperties
<1> HIDE DEF es
<1>2. /\ CallDepths(es, u) = CallDepths(cs, u)
      /\ OnStack(es, u) <=> OnStack(cs, u)
      /\ Count(es, k, NoYield(u)) = Count(cs, Len(cs), NoYield(u))
  BY <1>1, Shortened
<1>3. /\ CallDepths(es, u) = CallDepths(ds, u)
      /\ OnStack(es, u) <=> OnStack(ds, u)
      /\ Count(es, k, NoYield(u)) = Count(ds, Len(ds), NoYield(u))
  BY <1>1, Shortened
<1> QED
  BY <1>2, <1>3

(***************************************************************************)
(* A step changes one thread t, and the entries of t on top of the C       *)
(* stack.  What is below, and every other thread, is as it was.            *)
(***************************************************************************)
Changed(th, cs, run, tk, ds, new, t, k) ==
  /\ tk \in [Threads -> ThreadState] /\ ds \in Seq(Entry) /\ new \in Threads /\ t \in Threads
  /\ \A u \in Threads \ {t} : tk[u] = th[u]
  /\ k \in 1 .. Len(cs) /\ k <= Len(ds) /\ \A m \in 1 .. k : ds[m] = cs[m]
  /\ \A m \in (k + 1) .. Len(cs) : cs[m].th = t
  /\ \A m \in (k + 1) .. Len(ds) : ds[m].th = t
  /\ \A m \in 1 .. k : cs[m].th = t =>
       /\ cs[m].depth <= Len(tk[t].ci)
       /\ \A j \in 1 .. cs[m].depth : /\ tk[t].ci[j].kind = th[t].ci[j].kind
                                       /\ tk[t].ci[j].yp = th[t].ci[j].yp
  /\ \A m \in 1 .. k : IsResume(cs[m]) => cs[m].from # t
  /\ IsBlock(cs[k]) => Covered(ds, k)
  /\ \A m \in (k + 1) .. Len(ds) : EntryOK(tk, ds, m)
  /\ ThreadOK(tk, ds, new, t)
  /\ run # t /\ run # new => th[run].ci # << >>
  /\ ds[Len(ds)].th = new
  /\ tk[new].nC = Count(ds, Len(ds), Counting) /\ tk[new].nC <= MaxC + ExtraC

\* Such a step keeps Core.
LEMMA Rebuilt ==
  ASSUME NEW th, NEW cs, NEW run, Core(th, cs, run),
         NEW tk, NEW ds, NEW new, NEW t, NEW k, Changed(th, cs, run, tk, ds, new, t, k)
  PROVE  Core(tk, ds, new)
<1>0. /\ tk \in [Threads -> ThreadState] /\ ds \in Seq(Entry) /\ new \in Threads /\ t \in Threads
      /\ \A u \in Threads \ {t} : tk[u] = th[u]
      /\ k \in 1 .. Len(cs) /\ k <= Len(ds) /\ \A m \in 1 .. k : ds[m] = cs[m]
      /\ \A m \in (k + 1) .. Len(cs) : cs[m].th = t
      /\ \A m \in (k + 1) .. Len(ds) : ds[m].th = t
      /\ \A m \in 1 .. k : cs[m].th = t =>
           /\ cs[m].depth <= Len(tk[t].ci)
           /\ \A j \in 1 .. cs[m].depth : /\ tk[t].ci[j].kind = th[t].ci[j].kind
                                           /\ tk[t].ci[j].yp = th[t].ci[j].yp
      /\ \A m \in 1 .. k : IsResume(cs[m]) => cs[m].from # t
      /\ IsBlock(cs[k]) => Covered(ds, k)
      /\ \A m \in (k + 1) .. Len(ds) : EntryOK(tk, ds, m)
      /\ ThreadOK(tk, ds, new, t)
      /\ run # t /\ run # new => th[run].ci # << >>
      /\ ds[Len(ds)].th = new
      /\ tk[new].nC = Count(ds, Len(ds), Counting) /\ tk[new].nC <= MaxC + ExtraC
  BY DEF Changed
<1> USE <1>0
<1>1. /\ th \in [Threads -> ThreadState] /\ cs \in Seq(Entry) /\ IsBlock(cs[1])
      /\ \A n \in 1 .. Len(cs) : EntryOK(th, cs, n)
      /\ \A u \in Threads : ThreadOK(th, cs, run, u)
      /\ Len(cs) \in Nat /\ Len(ds) \in Nat
  BY LenProperties DEF Core
<1>2. ASSUME NEW m \in 1 .. k PROVE EntryOK(tk, ds, m)
  <2>1. /\ m \in 1 .. Len(cs) /\ m <= Len(ds) /\ EntryOK(th, cs, m) /\ cs[m].th \in Threads
        /\ \A i \in 1 .. m : ds[i] = cs[i]
    BY <1>1, EntryFields
  <2>2. IsBlock(cs[m]) => Covered(ds, m)
    <3>1. CASE m = k
      BY <3>1
    <3>2. CASE m < k
      <4>1. m + 1 \in 1 .. k /\ m < Len(cs) /\ ds[m] = cs[m]
        BY <1>1, <3>2
      <4>2. ds[m + 1] = cs[m + 1]
        BY <4>1
      <4> QED BY <2>1, <4>1, <4>2 DEF EntryOK, BlockOK, Covered
    <3> QED BY <3>1, <3>2
  <2>3. /\ cs[m].depth <= Len(tk[cs[m].th].ci)
        /\ \A j \in 1 .. cs[m].depth : /\ tk[cs[m].th].ci[j].kind = th[cs[m].th].ci[j].kind
                                       /\ tk[cs[m].th].ci[j].yp = th[cs[m].th].ci[j].yp
    <3>1. CASE cs[m].th = t
      BY <3>1
    <3>2. CASE cs[m].th # t
      <4>1. tk[cs[m].th] = th[cs[m].th]
        BY <2>1, <3>2
      <4>2. cs[m].depth <= Len(th[cs[m].th].ci)
        BY <2>1 DEF EntryOK
      <4> QED BY <4>1, <4>2
    <3> QED BY <3>1, <3>2
  <2>4. IsResume(cs[m]) => /\ tk[cs[m].from].ci = th[cs[m].from].ci
                           /\ tk[cs[m].from].nC = th[cs[m].from].nC
    <3> SUFFICES ASSUME IsResume(cs[m]) PROVE tk[cs[m].from] = th[cs[m].from]
      OBVIOUS
    <3>1. cs[m].from # t
      OBVIOUS
    <3>2. cs[m].from \in Threads
      BY <1>1, <2>1, EntryFields
    <3> QED BY <3>1, <3>2
  <2> QED BY <1>1, <2>1, <2>2, <2>3, <2>4, EntryKept
<1>3. ASSUME NEW m \in 1 .. Len(ds) PROVE EntryOK(tk, ds, m)
  <2>1. m \in 1 .. k \/ m \in (k + 1) .. Len(ds)
    BY <1>1
  <2> QED BY <1>2, <2>1
<1>4. ASSUME NEW u \in Threads PROVE ThreadOK(tk, ds, new, u)
  <2>1. CASE u = t
    BY <2>1
  <2>2. CASE u # t
    <3>1. k \in 0 .. Len(cs) /\ tk[u] = th[u] /\ ThreadOK(th, cs, run, u)
      BY <1>1, <2>2
    <3>2. /\ \A m \in (k + 1) .. Len(cs) : cs[m].th # u
          /\ \A m \in (k + 1) .. Len(ds) : ds[m].th # u
      BY <2>2
    <3>3. /\ OnStack(ds, u) <=> OnStack(cs, u)
          /\ CallDepths(ds, u) = CallDepths(cs, u)
          /\ Count(ds, Len(ds), NoYield(u)) = Count(cs, Len(cs), NoYield(u))
      BY <1>1, <3>1, <3>2, SameCounts
    <3>4. u # new => u # run \/ th[u].ci # << >>
      BY <2>2
    <3> QED BY <3>1, <3>3, <3>4 DEF ThreadOK
  <2> QED BY <2>1, <2>2
<1>5. IsBlock(ds[1]) /\ Len(ds) >= 1
  <2>1. 1 \in 1 .. k
    BY <1>1
  <2> QED BY <1>1, <2>1
<1> QED
  BY <1>3, <1>4, <1>5 DEF Core

\* What a step that only changes frames above those of the C stack keeps.
Reframed(th, cs, run, tk) ==
  /\ tk \in [Threads -> ThreadState] /\ \A u \in Threads \ {run} : tk[u] = th[u]
  /\ tk[run].status = th[run].status /\ tk[run].nny = th[run].nny /\ tk[run].nC = th[run].nC
  /\ cs[Len(cs)].depth <= Len(tk[run].ci)
  /\ \A j \in 1 .. cs[Len(cs)].depth : /\ tk[run].ci[j].kind = th[run].ci[j].kind
                                        /\ tk[run].ci[j].yp = th[run].ci[j].yp
  /\ FramesOK(tk[run].ci, CallDepths(cs, run))

\* So does one that changes only frames above the calls of the thread,
LEMMA FramesChanged ==
  ASSUME NEW th, NEW cs, NEW run, Core(th, cs, run), NEW tk, Reframed(th, cs, run, tk)
  PROVE  Core(tk, cs, run)
<1>0. /\ tk \in [Threads -> ThreadState] /\ \A u \in Threads \ {run} : tk[u] = th[u]
      /\ tk[run].status = th[run].status /\ tk[run].nny = th[run].nny /\ tk[run].nC = th[run].nC
      /\ cs[Len(cs)].depth <= Len(tk[run].ci)
      /\ \A j \in 1 .. cs[Len(cs)].depth : /\ tk[run].ci[j].kind = th[run].ci[j].kind
                                            /\ tk[run].ci[j].yp = th[run].ci[j].yp
      /\ FramesOK(tk[run].ci, CallDepths(cs, run))
  BY DEF Reframed
<1> USE <1>0
<1>1. /\ th \in [Threads -> ThreadState] /\ cs \in Seq(Entry) /\ run \in Threads
      /\ Len(cs) \in Nat /\ Len(cs) >= 1 /\ cs[Len(cs)].th = run
      /\ th[run].nC = Count(cs, Len(cs), Counting) /\ th[run].nC <= MaxC + ExtraC
      /\ \A n \in 1 .. Len(cs) : EntryOK(th, cs, n)
      /\ ThreadOK(th, cs, run, run)
  BY LenProperties DEF Core
<1> DEFINE n == Len(cs)
<1>2. n \in 1 .. Len(cs) /\ n <= Len(cs) /\ EntryOK(th, cs, n)
  BY <1>1
<1>3. Len(tk[run].ci) \in Nat /\ cs[n].depth \in Nat
  BY <1>1, <1>2, EntryFields, LenProperties DEF ThreadState
<1>4. ASSUME NEW m \in 1 .. n
      PROVE  /\ cs[m].th = run =>
                  /\ cs[m].depth <= Len(tk[run].ci)
                  /\ \A j \in 1 .. cs[m].depth : /\ tk[run].ci[j].kind = th[run].ci[j].kind
                                                 /\ tk[run].ci[j].yp = th[run].ci[j].yp
             /\ IsResume(cs[m]) => cs[m].from # run
  <2>1. IsResume(cs[m]) => cs[m].from # run
    BY <1>1, <1>2, ResumerWaits
  <2>2. ASSUME cs[m].th = run
        PROVE  /\ cs[m].depth <= Len(tk[run].ci)
               /\ \A j \in 1 .. cs[m].depth : /\ tk[run].ci[j].kind = th[run].ci[j].kind
                                              /\ tk[run].ci[j].yp = th[run].ci[j].yp
    <3>1. cs[m].depth \in Nat /\ cs[m].depth <= cs[n].depth
      BY <1>1, <1>2, <2>2, Below, EntryFields
    <3>2. \A j \in 1 .. cs[m].depth : j \in 1 .. cs[n].depth
      BY <1>3, <3>1
    <3> QED BY <1>3, <3>1, <3>2
  <2> QED BY <2>1, <2>2
<1>5. IsBlock(cs[n]) => Covered(cs, n)
  BY <1>1 DEF Covered
<1>6. ThreadOK(tk, cs, run, run)
  <2>1. OnStack(cs, run)
    BY <1>1, <1>2 DEF OnStack
  <2> QED BY <1>1, <2>1 DEF ThreadOK
<1>7. /\ \A m \in (n + 1) .. Len(cs) : cs[m].th = run /\ EntryOK(tk, cs, m)
      /\ \A m \in 1 .. n : cs[m] = cs[m]
  BY <1>1
<1>8. Changed(th, cs, run, tk, cs, run, run, n)
  BY <1>1, <1>2, <1>4, <1>5, <1>6, <1>7 DEF Changed
<1> QED
  BY <1>8, Rebuilt

\* and one that leaves the frames and the counters alone.
LEMMA Unframed ==
  ASSUME NEW th, NEW cs, NEW run, Core(th, cs, run),
         NEW tk \in [Threads -> ThreadState], \A u \in Threads \ {run} : tk[u] = th[u],
         tk[run].status = th[run].status, tk[run].nny = th[run].nny, tk[run].nC = th[run].nC,
         tk[run].ci = th[run].ci
  PROVE  Core(tk, cs, run)
<1>1. /\ Len(cs) \in 1 .. Len(cs) /\ EntryOK(th, cs, Len(cs)) /\ cs[Len(cs)].th = run
      /\ ThreadOK(th, cs, run, run)
  BY LenProperties DEF Core
<1>2. Reframed(th, cs, run, tk)
  BY <1>1 DEF Reframed, EntryOK, ThreadOK
<1> QED
  BY <1>2, FramesChanged

\* Frames and calls that go,
LEMMA FramesCut ==
  ASSUME NEW ci \in Seq(CallInfos), NEW di \in Seq(CallInfos), NEW D, FramesOK(ci, D), Len(di) <= Len(ci),
         \A j \in 1 .. Len(di) : di[j].kind = ci[j].kind /\ di[j].fresh = ci[j].fresh,
         NEW E, E \subseteq D, \A d \in D : d < Len(di) => d \in E
  PROVE  FramesOK(di, E)
<1>1. Len(ci) \in Nat /\ Len(di) \in Nat
  BY LenProperties
<1>2. ASSUME NEW j \in 1 .. Len(di), IsLua(di[j])
      PROVE  /\ di[j].fresh => j - 1 \in E \/ \A d \in E : d >= j
             /\ ~di[j].fresh => j - 1 \notin E /\ j > 1 /\ IsLua(di[j - 1])
  <2>1. j \in 1 .. Len(ci) /\ IsLua(ci[j]) /\ di[j].fresh = ci[j].fresh
    BY <1>1, <1>2 DEF IsLua
  <2>2. /\ ci[j].fresh => j - 1 \in D \/ \A d \in D : d >= j
        /\ ~ci[j].fresh => j - 1 \notin D /\ j > 1 /\ IsLua(ci[j - 1])
    BY <2>1 DEF FramesOK
  <2>3. j > 1 => di[j - 1].kind = ci[j - 1].kind
    BY <1>1
  <2>4. j - 1 < Len(di)
    BY <1>1
  <2> QED BY <2>1, <2>2, <2>3, <2>4 DEF IsLua
<1> QED
  BY <1>2 DEF FramesOK

\* a frame that comes,
LEMMA FramesPushed ==
  ASSUME NEW ci \in Seq(CallInfos), NEW c \in CallInfos, NEW D, FramesOK(ci, D),
         NEW di \in Seq(CallInfos), Len(di) = Len(ci) + 1, di[Len(ci) + 1] = c,
         \A j \in 1 .. Len(ci) : di[j] = ci[j],
         IsLua(c) /\ c.fresh => Len(ci) \in D \/ \A d \in D : d > Len(ci),
         IsLua(c) /\ ~c.fresh => Len(ci) \notin D /\ Len(ci) > 0 /\ IsLua(ci[Len(ci)]),
         D \subseteq Nat
  PROVE  FramesOK(di, D)
<1>1. /\ di \in Seq(CallInfos) /\ Len(ci) \in Nat /\ Len(di) = Len(ci) + 1 /\ di[Len(ci) + 1] = c
      /\ \A j \in 1 .. Len(ci) : di[j] = ci[j]
  BY LenProperties
<1>2. ASSUME NEW j \in 1 .. Len(di), IsLua(di[j])
      PROVE  /\ di[j].fresh => j - 1 \in D \/ \A d \in D : d >= j
             /\ ~di[j].fresh => j - 1 \notin D /\ j > 1 /\ IsLua(di[j - 1])
  <2>1. CASE j = Len(ci) + 1
    <3>1. di[j] = c /\ j - 1 = Len(ci)
      BY <1>1, <2>1
    <3>2. Len(ci) > 0 => di[j - 1] = ci[Len(ci)]
      BY <1>1, <3>1
    <3>3. (\A d \in D : d > Len(ci)) => \A d \in D : d >= j
      BY <1>1, <2>1
    <3>4. IsLua(c) /\ (di[j].fresh <=> c.fresh)
      BY <1>2, <3>1
    <3>5. c.fresh => j - 1 \in D \/ \A d \in D : d >= j
      BY <3>1, <3>3, <3>4
    <3>6. ~c.fresh => j - 1 \notin D /\ j > 1 /\ IsLua(di[j - 1])
      <4>1. ~c.fresh => Len(ci) \notin D /\ Len(ci) > 0 /\ IsLua(ci[Len(ci)])
        BY <3>4
      <4> HIDE DEF IsLua
      <4> QED BY <1>1, <2>1, <3>1, <3>2, <4>1
    <3> QED BY <3>4, <3>5, <3>6
  <2>2. CASE j \in 1 .. Len(ci)
    <3>1. di[j] = ci[j] /\ (j > 1 => di[j - 1] = ci[j - 1])
      BY <1>1, <2>2
    <3> QED BY <1>2, <2>2, <3>1 DEF FramesOK
  <2> QED BY <1>1, <2>1, <2>2
<1> QED
  BY <1>2 DEF FramesOK

-----------------------------------------------------------------------------
(* Steps that keep Core: the thread that is changed, and its frames.       *)

\* and a call that comes on top.
LEMMA FramesMore ==
  ASSUME NEW ci \in Seq(CallInfos), NEW D, FramesOK(ci, D)
  PROVE  FramesOK(ci, D \cup {Len(ci)})
<1>1. Len(ci) \in Nat
  BY LenProperties
<1>2. ASSUME NEW j \in 1 .. Len(ci), IsLua(ci[j])
      PROVE  /\ ci[j].fresh => j - 1 \in D \cup {Len(ci)} \/ \A d \in D \cup {Len(ci)} : d >= j
             /\ ~ci[j].fresh => j - 1 \notin D \cup {Len(ci)} /\ j > 1 /\ IsLua(ci[j - 1])
  <2>1. /\ ci[j].fresh => j - 1 \in D \/ \A d \in D : d >= j
        /\ ~ci[j].fresh => j - 1 \notin D /\ j > 1 /\ IsLua(ci[j - 1])
    BY <1>2 DEF FramesOK
  <2>2. Len(ci) >= j /\ j - 1 # Len(ci)
    BY <1>1
  <2> QED BY <2>1, <2>2
<1> QED
  BY <1>2 DEF FramesOK

\* The entry of a luaD_call made now.
NewCall(ci, cs, e) ==
  LET n == Len(cs)
      d == e.depth IN
  /\ e \in CallEntry /\ e.th = cs[n].th /\ d = Len(ci)
  /\ IsBlock(cs[n]) => e.by = "api" /\ e.noyield /\ cs[n].depth = d
  /\ e.by = "api" /\ d > 0 =>
       /\ ~IsLua(ci[d]) /\ (IsBlock(cs[n]) <=> Catches(ci[d])) /\ (IsBlock(cs[n]) => n > 1)
       /\ Placed(cs, IF IsBlock(cs[n]) THEN n - 1 ELSE n, ci, d)
  /\ e.by = "meta" => d > 0 /\ IsLua(ci[d]) /\ Placed(cs, n, ci, d)

\* An entry is added to the C stack; the frames of the running thread stay.
Stacked(th, cs, run, e, tk, ds) ==
  /\ tk \in [Threads -> ThreadState] /\ \A u \in Threads \ {run} : tk[u] = th[u]
  /\ tk[run].ci = th[run].ci /\ tk[run].status = th[run].status
  /\ ds \in Seq(Entry) /\ Len(ds) = Len(cs) + 1 /\ ds[Len(cs) + 1] = e
  /\ \A m \in 1 .. Len(cs) : ds[m] = cs[m]

\* luaD_call puts its entry on the stack and counts it.
LEMMA CallPushed ==
  ASSUME NEW th, NEW cs, NEW run, Core(th, cs, run), MaxC + ExtraC \in Nat,
         NEW e, NewCall(th[run].ci, cs, e), th[run].nC < MaxC + ExtraC,
         NEW tk, NEW ds, Stacked(th, cs, run, e, tk, ds), tk[run].nC = th[run].nC + 1,
         tk[run].nny = th[run].nny + (IF e.noyield THEN 1 ELSE 0)
  PROVE  /\ Core(tk, ds, run) /\ ds[Len(ds)] = e /\ Len(tk[run].ci) \in CallDepths(ds, run)
<1>0. /\ tk \in [Threads -> ThreadState] /\ \A u \in Threads \ {run} : tk[u] = th[u]
      /\ tk[run].ci = th[run].ci /\ tk[run].status = th[run].status
      /\ ds \in Seq(Entry) /\ Len(ds) = Len(cs) + 1 /\ ds[Len(cs) + 1] = e
      /\ \A m \in 1 .. Len(cs) : ds[m] = cs[m]
  BY DEF Stacked
<1> USE <1>0
<1> DEFINE n == Len(cs)
           ci == th[run].ci
           d == e.depth
<1>1. /\ th \in [Threads -> ThreadState] /\ cs \in Seq(Entry) /\ run \in Threads
      /\ n \in Nat /\ n >= 1 /\ cs[n].th = run /\ n \in 1 .. Len(cs)
      /\ th[run].nC = Count(cs, n, Counting) /\ th[run].nC \in Int /\ th[run].nny \in Int
      /\ \A m \in 1 .. Len(cs) : EntryOK(th, cs, m)
      /\ ThreadOK(th, cs, run, run) /\ ci \in Seq(CallInfos) /\ Len(ci) \in Nat
  BY LenProperties DEF Core, ThreadState
<1>2. /\ e \in CallEntry /\ e \in Entry /\ e.th = run /\ IsCall(e) /\ ~IsResume(e) /\ ~IsBlock(e)
      /\ d = Len(ci) /\ e.noyield \in BOOLEAN
  BY <1>1 DEF NewCall, CallEntry, Entry, IsCall, IsResume, IsBlock
<1>3. /\ ds[Len(ds)] = e /\ ds[n] = cs[n] /\ Len(ds) = n + 1
      /\ \A E : Count(ds, Len(ds), E) = Count(cs, n, E) + (IF e \in E THEN 1 ELSE 0)
      /\ CallDepths(ds, run) = CallDepths(cs, run) \cup {d}
      /\ OnStack(ds, run) /\ OnStack(cs, run)
  <2>1. /\ \A E : Count(ds, Len(ds), E) = Count(cs, Len(cs), E) + (IF e \in E THEN 1 ELSE 0)
        /\ \A t : CallDepths(ds, t) = CallDepths(cs, t) \cup (IF IsCall(e) /\ e.th = t THEN {e.depth} ELSE {})
        /\ \A t : OnStack(ds, t) <=> OnStack(cs, t) \/ t = e.th
        /\ ds[Len(ds)] = e
    <3>1. cs \in Seq(Entry) /\ e \in Entry
      BY <1>1, <1>2
    <3> QED BY ONLY <1>0, <3>1, Extended
  <2>2. OnStack(cs, run)
    BY <1>1 DEF OnStack
  <2> QED BY <1>1, <1>2, <2>1, <2>2
<1>4. \A m \in 1 .. n : cs[m].th = run =>
        cs[m].depth <= Len(ci) /\ \A k \in m .. n : cs[k].th = run
  <2> TAKE m \in 1 .. n
  <2>1. m \in 1 .. Len(cs)
    BY <1>1
  <2>2. cs[m].th = run => cs[m].depth <= Len(ci)
    BY <1>1, <2>1 DEF EntryOK
  <2> QED BY <1>1, <2>1, <2>2, Below
<1>5. EntryOK(tk, ds, n + 1)
  <2>1. Ordered(ds, n + 1)
    <3>1. ASSUME NEW m \in 1 .. (n + 1), ds[m].th = run
          PROVE  ds[m].depth <= d /\ \A k \in m .. (n + 1) : ds[k].th = run
      <4>1. CASE m = n + 1
        BY <1>1, <1>2, <1>3, <4>1
      <4>2. CASE m \in 1 .. n
        <5>1. cs[m].th = run /\ ds[m] = cs[m]
          BY <3>1, <4>2
        <5>2. \A k \in m .. n : ds[k] = cs[k]
          BY <1>1, <4>2
        <5>3. \A k \in m .. (n + 1) : k \in m .. n \/ k = n + 1
          BY <1>1
        <5> QED BY <1>2, <1>4, <4>2, <5>1, <5>2, <5>3
      <4> QED BY <1>1, <4>1, <4>2
    <3>2. ds[n + 1 - 1] = cs[n]
      BY <1>1
    <3> QED BY <1>1, <1>2, <3>1, <3>2 DEF Ordered
  <2>2. ASSUME e.by = "api" PROVE ApiOK(ci, ds, n + 1)
    <3> SUFFICES ASSUME d > 0
        PROVE /\ d <= Len(ci) /\ ~IsLua(ci[d]) /\ (IsBlock(ds[n + 1 - 1]) <=> Catches(ci[d]))
              /\ IsBlock(ds[n + 1 - 1]) => n + 1 > 2
              /\ Placed(ds, IF IsBlock(ds[n + 1 - 1]) THEN n + 1 - 2 ELSE n + 1 - 1, ci, d)
      BY <1>1 DEF ApiOK
    <3>1. n + 1 - 1 = n /\ n + 1 - 2 = n - 1
      BY <1>1
    <3>2. /\ ~IsLua(ci[d]) /\ (IsBlock(cs[n]) <=> Catches(ci[d])) /\ (IsBlock(cs[n]) => n > 1)
          /\ Placed(cs, IF IsBlock(cs[n]) THEN n - 1 ELSE n, ci, d)
      BY <2>2 DEF NewCall
    <3> DEFINE b == IF IsBlock(cs[n]) THEN n - 1 ELSE n
    <3>3. ds[b] = cs[b]
      <4>1. b \in 1 .. n
        BY <1>1, <3>2
      <4> QED BY <4>1
    <3>4. Placed(ds, b, ci, d)
      BY <3>2, <3>3 DEF Placed
    <3>5. IsBlock(cs[n]) => n + 1 > 2
      BY <1>1, <3>2
    <3>6. d <= Len(ci)
      BY <1>1, <1>2
    <3> QED BY <1>3, <3>1, <3>2, <3>4, <3>5, <3>6
  <2>3. ASSUME e.by = "meta" PROVE MetaOK(ci, ds, n + 1)
    <3>1. d > 0 /\ IsLua(ci[d]) /\ Placed(cs, n, ci, d)
      BY <2>3 DEF NewCall
    <3>2. Placed(ds, n + 1 - 1, ci, d)
      <4>1. n + 1 - 1 = n
        BY <1>1
      <4> QED BY <1>3, <3>1, <4>1 DEF Placed
    <3> QED BY <1>1, <1>2, <3>1, <3>2 DEF MetaOK
  <2>4. d <= Len(ci)
    BY <1>1, <1>2
  <2> QED BY <1>1, <1>2, <1>3, <2>1, <2>2, <2>3, <2>4 DEF EntryOK
<1>6. ThreadOK(tk, ds, run, run)
  <2>1. Count(ds, Len(ds), NoYield(run)) = Count(cs, n, NoYield(run)) + (IF e.noyield THEN 1 ELSE 0)
    <3>1. e \in NoYield(run) <=> e.noyield
      BY <1>2 DEF NoYield, IsCall
    <3> QED BY <1>3, <3>1
  <2>2. th[run].status = "ok" /\ th[run].nny = Count(cs, n, NoYield(run)) + Base(run)
        /\ FramesOK(ci, CallDepths(cs, run))
    BY <1>1, <1>3 DEF ThreadOK
  <2>3. FramesOK(ci, CallDepths(ds, run))
    <3>1. FramesOK(ci, CallDepths(cs, run) \cup {Len(ci)})
      <4> HIDE DEF ci
      <4> QED BY <1>1, <2>2, FramesMore
    <3>2. CallDepths(ds, run) = CallDepths(cs, run) \cup {Len(ci)}
      BY <1>2, <1>3
    <3> QED BY <3>1, <3>2
  <2>4. tk[run].nny = Count(ds, Len(ds), NoYield(run)) + Base(run)
    <3>1. Count(cs, n, NoYield(run)) \in Nat /\ Base(run) \in Nat
      BY <1>1, CountStep DEF Base
    <3> QED BY <2>1, <2>2, <3>1
  <2> QED BY <1>3, <2>2, <2>3, <2>4 DEF ThreadOK
<1>7. tk[run].nC = Count(ds, Len(ds), Counting) /\ tk[run].nC <= MaxC + ExtraC
  <2>1. e \in Counting
    BY <1>2 DEF Counting, IsCall
  <2>2. Count(ds, Len(ds), Counting) = Count(cs, n, Counting) + 1
    BY <1>3, <2>1
  <2> QED BY <1>1, <2>2
<1>8. /\ \A m \in 1 .. n : IsResume(cs[m]) => cs[m].from # run
      /\ IsBlock(cs[n]) => Covered(ds, n)
      /\ \A m \in (n + 1) .. Len(cs) : cs[m].th = run
      /\ \A m \in (n + 1) .. Len(ds) : m = n + 1
  <2>1. \A m \in 1 .. n : IsResume(cs[m]) => cs[m].from # run
    BY <1>1, ResumerWaits
  <2>2. IsBlock(cs[n]) => Covered(ds, n)
    BY <1>2, <1>3 DEF NewCall, Covered
  <2> QED BY <1>1, <1>3, <2>1, <2>2
<1>9. Changed(th, cs, run, tk, ds, run, run, n)
  <2> HIDE DEF ci, d
  <2>1. \A m \in 1 .. n : cs[m].th = run =>
          /\ cs[m].depth <= Len(tk[run].ci)
          /\ \A j \in 1 .. cs[m].depth : /\ tk[run].ci[j].kind = th[run].ci[j].kind
                                         /\ tk[run].ci[j].yp = th[run].ci[j].yp
    BY <1>4 DEF ci
  <2>2. \A m \in (n + 1) .. Len(ds) : ds[m].th = run /\ EntryOK(tk, ds, m)
    BY <1>2, <1>5, <1>8
  <2>3. n <= Len(ds)
    BY <1>1, <1>3
  <2> QED BY <1>1, <1>2, <1>3, <1>6, <1>7, <1>8, <2>1, <2>2, <2>3 DEF Changed
<1> QED
  BY <1>2, <1>3, <1>9, Rebuilt

\* luaD_rawrunprotected of a lua_pcall.
LEMMA BlockPushed ==
  ASSUME NEW th, NEW cs, NEW run, Core(th, cs, run), ~IsBlock(cs[Len(cs)]),
         NEW e \in TryEntry, IsBlock(e), e.th = run, e.depth = Len(th[run].ci), e.nC = th[run].nC,
         e.nny = th[run].nny,
         NEW tk, NEW ds, Stacked(th, cs, run, e, tk, ds), tk[run].nC = th[run].nC, tk[run].nny = th[run].nny
  PROVE  Core(tk, ds, run) /\ ds[Len(ds)] = e
<1>0. /\ tk \in [Threads -> ThreadState] /\ \A u \in Threads \ {run} : tk[u] = th[u]
      /\ tk[run].ci = th[run].ci /\ tk[run].status = th[run].status
      /\ ds \in Seq(Entry) /\ Len(ds) = Len(cs) + 1 /\ ds[Len(cs) + 1] = e
      /\ \A m \in 1 .. Len(cs) : ds[m] = cs[m]
  BY DEF Stacked
<1> USE <1>0
<1> DEFINE n == Len(cs)
           ci == th[run].ci
           d == e.depth
<1>1. /\ th \in [Threads -> ThreadState] /\ cs \in Seq(Entry) /\ run \in Threads
      /\ n \in Nat /\ n >= 1 /\ cs[n].th = run /\ n \in 1 .. Len(cs)
      /\ th[run].nC = Count(cs, n, Counting) /\ th[run].nC \in Int /\ th[run].nny \in Int
      /\ th[run].nC <= MaxC + ExtraC
      /\ \A m \in 1 .. Len(cs) : EntryOK(th, cs, m)
      /\ ThreadOK(th, cs, run, run) /\ ci \in Seq(CallInfos) /\ Len(ci) \in Nat
  BY LenProperties DEF Core, ThreadState
<1>2. e \in Entry /\ ~IsCall(e) /\ ~IsResume(e) /\ d = Len(ci) /\ e \notin Counting /\ \A t : e \notin NoYield(t)
  BY DEF TryEntry, Entry, IsCall, IsResume, IsBlock, Counting, NoYield
<1>3. /\ ds[Len(ds)] = e /\ ds[n] = cs[n] /\ Len(ds) = n + 1
      /\ \A E : Count(ds, Len(ds), E) = Count(cs, n, E) + (IF e \in E THEN 1 ELSE 0)
      /\ CallDepths(ds, run) = CallDepths(cs, run)
      /\ OnStack(ds, run) /\ OnStack(cs, run)
  <2>1. /\ \A E : Count(ds, Len(ds), E) = Count(cs, Len(cs), E) + (IF e \in E THEN 1 ELSE 0)
        /\ \A t : CallDepths(ds, t) = CallDepths(cs, t) \cup (IF IsCall(e) /\ e.th = t THEN {e.depth} ELSE {})
        /\ \A t : OnStack(ds, t) <=> OnStack(cs, t) \/ t = e.th
        /\ ds[Len(ds)] = e
    <3>1. cs \in Seq(Entry) /\ e \in Entry
      BY <1>1, <1>2
    <3> QED BY ONLY <1>0, <3>1, Extended
  <2>2. OnStack(cs, run)
    BY <1>1 DEF OnStack
  <2> QED BY <1>1, <1>2, <2>1, <2>2
<1>4. \A m \in 1 .. n : cs[m].th = run =>
        cs[m].depth <= Len(ci) /\ \A k \in m .. n : cs[k].th = run
  <2> TAKE m \in 1 .. n
  <2>1. m \in 1 .. Len(cs)
    BY <1>1
  <2>2. cs[m].th = run => cs[m].depth <= Len(ci)
    BY <1>1, <2>1 DEF EntryOK
  <2> QED BY <1>1, <2>1, <2>2, Below
<1>5. ThreadOK(tk, ds, run, run) /\ e.nny = Count(cs, n, NoYield(run)) + Base(run)
  <2>1. /\ Count(ds, Len(ds), NoYield(run)) = Count(cs, n, NoYield(run))
        /\ Count(ds, Len(ds), Counting) = Count(cs, n, Counting)
    <3>1. Count(cs, n, NoYield(run)) \in Nat /\ Count(cs, n, Counting) \in Nat
      BY <1>1, CountStep
    <3> QED BY <1>2, <1>3, <3>1
  <2> QED BY <1>3, <1>1, <2>1 DEF ThreadOK
<1>6. EntryOK(tk, ds, n + 1)
  <2>1. Ordered(ds, n + 1)
    <3>1. ASSUME NEW m \in 1 .. (n + 1), ds[m].th = run
          PROVE  ds[m].depth <= d /\ \A k \in m .. (n + 1) : ds[k].th = run
      <4>1. CASE m = n + 1
        BY <1>1, <1>2, <1>3, <4>1
      <4>2. CASE m \in 1 .. n
        <5>1. cs[m].th = run /\ ds[m] = cs[m]
          BY <3>1, <4>2
        <5>2. \A k \in m .. n : ds[k] = cs[k]
          BY <1>1, <4>2
        <5>3. \A k \in m .. (n + 1) : k \in m .. n \/ k = n + 1
          BY <1>1
        <5> QED BY <1>2, <1>4, <4>2, <5>1, <5>2, <5>3
      <4> QED BY <1>1, <4>1, <4>2
    <3>2. ds[n + 1 - 1] = cs[n]
      BY <1>1
    <3> QED BY <1>1, <1>2, <3>1, <3>2 DEF Ordered
  <2>2. BlockOK(ds, n + 1)
    <3>1. Covered(ds, n + 1)
      BY <1>1, <1>3 DEF Covered
    <3>2. /\ Count(ds, n, Counting) = Count(cs, n, Counting)
          /\ Count(ds, n, NoYield(run)) = Count(cs, n, NoYield(run))
      BY <1>1, CountSame, SMTT(30)
    <3>3. n + 1 - 1 = n /\ ds[n + 1] = e
      BY <1>1
    <3> QED BY <1>1, <1>5, <3>1, <3>2, <3>3 DEF BlockOK
  <2>3. d <= Len(ci)
    BY <1>1, <1>2
  <2> QED BY <1>1, <1>2, <1>3, <2>1, <2>2, <2>3 DEF EntryOK
<1>7. tk[run].nC = Count(ds, Len(ds), Counting) /\ tk[run].nC <= MaxC + ExtraC
  <2>1. Count(cs, n, Counting) \in Nat
    BY <1>1, CountStep
  <2> QED BY <1>1, <1>2, <1>3, <2>1
<1>8. /\ \A m \in 1 .. n : IsResume(cs[m]) => cs[m].from # run
      /\ \A m \in (n + 1) .. Len(cs) : cs[m].th = run
      /\ \A m \in (n + 1) .. Len(ds) : m = n + 1
  <2>1. \A m \in 1 .. n : IsResume(cs[m]) => cs[m].from # run
    BY Waiters
  <2> QED BY <1>1, <1>3, <2>1
<1>9. Changed(th, cs, run, tk, ds, run, run, n)
  BY <1>1, <1>2, <1>3, <1>4, <1>5, <1>6, <1>7, <1>8 DEF Changed
<1> QED
  BY <1>3, <1>9, Rebuilt

\* The C stack is cut above or below b, an entry of the running thread.
CutAbove(th, cs, run, b, tk, ds) ==
  /\ tk \in [Threads -> ThreadState] /\ \A u \in Threads \ {run} : tk[u] = th[u]
  /\ b \in 1 .. Len(cs) /\ cs[b].th = run
  /\ ds \in Seq(Entry) /\ Len(ds) = b /\ \A m \in 1 .. b : ds[m] = cs[m]
CutBelow(th, cs, run, b, tk, ds) ==
  /\ tk \in [Threads -> ThreadState] /\ \A u \in Threads \ {run} : tk[u] = th[u]
  /\ b \in 1 .. Len(cs) /\ cs[b].th = run
  /\ ds \in Seq(Entry) /\ Len(ds) = b - 1 /\ \A m \in 1 .. (b - 1) : ds[m] = cs[m]

\* The end of a luaD_call, and that of a lua_pcall without error.
LEMMA Popped ==
  ASSUME NEW th, NEW cs, NEW run, Core(th, cs, run), ~IsResume(cs[Len(cs)]), Len(cs) > 1,
         IsCall(cs[Len(cs)]) => cs[Len(cs)].depth = Len(th[run].ci),
         NEW tk, NEW ds, CutBelow(th, cs, run, Len(cs), tk, ds),
         tk[run].ci = th[run].ci, tk[run].status = th[run].status,
         tk[run].nC = th[run].nC - (IF IsCall(cs[Len(cs)]) THEN 1 ELSE 0),
         tk[run].nny = th[run].nny - (IF IsCall(cs[Len(cs)]) /\ cs[Len(cs)].noyield THEN 1 ELSE 0),
         MaxC + ExtraC \in Nat
  PROVE  Core(tk, ds, run)
<1>0. /\ tk \in [Threads -> ThreadState] /\ \A u \in Threads \ {run} : tk[u] = th[u]
      /\ ds \in Seq(Entry) /\ Len(ds) = Len(cs) - 1 /\ \A m \in 1 .. (Len(cs) - 1) : ds[m] = cs[m]
  BY DEF CutBelow
<1> USE <1>0
<1> DEFINE n == Len(cs)
           k == n - 1
           ci == th[run].ci
           e == cs[n]
<1>1. /\ th \in [Threads -> ThreadState] /\ cs \in Seq(Entry) /\ run \in Threads
      /\ n \in Nat /\ n >= 1 /\ e.th = run /\ n \in 1 .. Len(cs) /\ k \in Nat /\ k \in 1 .. Len(cs) /\ n = k + 1
      /\ th[run].nC = Count(cs, n, Counting) /\ th[run].nC \in Int /\ th[run].nny \in Int
      /\ th[run].nC <= MaxC + ExtraC
      /\ \A m \in 1 .. Len(cs) : EntryOK(th, cs, m)
      /\ ThreadOK(th, cs, run, run) /\ ci \in Seq(CallInfos) /\ Len(ci) \in Nat
      /\ e \in Entry /\ (IsCall(e) \/ IsBlock(e)) /\ ~(IsCall(e) /\ IsBlock(e))
  <2>1. /\ th \in [Threads -> ThreadState] /\ cs \in Seq(Entry) /\ run \in Threads
        /\ n \in Nat /\ n >= 1 /\ e.th = run /\ n \in 1 .. Len(cs) /\ k \in Nat /\ k \in 1 .. Len(cs) /\ n = k + 1
        /\ th[run].nC = Count(cs, n, Counting) /\ th[run].nC <= MaxC + ExtraC
        /\ \A m \in 1 .. Len(cs) : EntryOK(th, cs, m)
        /\ ThreadOK(th, cs, run, run)
    BY LenProperties DEF Core
  <2>2. /\ th[run].nC \in Int /\ th[run].nny \in Int /\ ci \in Seq(CallInfos) /\ Len(ci) \in Nat
    BY <2>1, LenProperties DEF ThreadState
  <2>3. e \in Entry /\ (IsCall(e) \/ IsBlock(e)) /\ ~(IsCall(e) /\ IsBlock(e))
    BY <2>1, EntryFields
  <2> QED BY <2>1, <2>2, <2>3
<1>2. /\ ds[k] = cs[k] /\ Len(ds) = k /\ k >= 1 /\ cs[k].th = run
      /\ \A m \in 1 .. k : ds[m] = cs[m]
  <2>1. Ordered(cs, n)
    BY <1>1 DEF EntryOK
  <2> QED BY <1>1, <2>1 DEF Ordered
<1>3. /\ \A E : Count(cs, n, E) = Count(cs, k, E) + (IF e \in E THEN 1 ELSE 0)
      /\ \A E : Count(ds, k, E) = Count(cs, k, E) /\ Count(cs, k, E) \in Nat
  <2>1. \A E : Count(cs, n, E) = Count(cs, k, E) + (IF e \in E THEN 1 ELSE 0)
    <3>1. k + 1 = n
      BY <1>1
    <3> HIDE DEF k
    <3>2. \A E : Count(cs, k + 1, E) = Count(cs, k, E) + (IF cs[k + 1] \in E THEN 1 ELSE 0)
      BY <1>1, CountAdd
    <3> QED BY <3>1, <3>2
  <2>2. ASSUME NEW E PROVE Count(ds, k, E) = Count(cs, k, E)
    <3>1. \A m \in 1 .. k : cs[m] = ds[m]
      BY <1>2
    <3> HIDE DEF k
    <3> QED BY <1>1, <3>1, CountSame
  <2>3. \A E : Count(cs, k, E) \in Nat
    BY <1>1, CountStep
  <2> QED BY <2>1, <2>2, <2>3
<1>4. /\ e \in Counting <=> IsCall(e)
      /\ e \in NoYield(run) <=> IsCall(e) /\ e.noyield
  BY <1>1 DEF Counting, NoYield, IsCall, IsBlock
<1>5. OnStack(cs, run) /\ OnStack(ds, run)
  BY <1>1, <1>2 DEF OnStack
<1>6. FramesOK(ci, CallDepths(ds, run))
  <2>1. FramesOK(ci, CallDepths(cs, run))
    BY <1>1 DEF ThreadOK
  <2>2. CallDepths(ds, run) \subseteq CallDepths(cs, run)
    <3>1. \A m \in 1 .. Len(ds) : m \in 1 .. Len(cs) /\ ds[m] = cs[m]
      BY <1>1, <1>2
    <3> QED BY <3>1 DEF CallDepths
  <2>3. ASSUME NEW d \in CallDepths(cs, run), d < Len(ci) PROVE d \in CallDepths(ds, run)
    <3>1. PICK m \in 1 .. Len(cs) : IsCall(cs[m]) /\ cs[m].th = run /\ cs[m].depth = d
      BY DEF CallDepths
    <3>2. m # n
      BY <1>1, <2>3, <3>1
    <3>3. m \in 1 .. Len(ds) /\ ds[m] = cs[m]
      BY <1>1, <1>2, <3>2
    <3> QED BY <3>1, <3>3 DEF CallDepths
  <2>4. Len(ci) <= Len(ci) /\ \A j \in 1 .. Len(ci) : ci[j].kind = ci[j].kind /\ ci[j].fresh = ci[j].fresh
    BY <1>1
  <2> HIDE DEF ci
  <2> QED BY <1>1, <2>1, <2>2, <2>3, <2>4, FramesCut
<1>7. ThreadOK(tk, ds, run, run)
  <2>1. th[run].status = "ok" /\ th[run].nny = Count(cs, n, NoYield(run)) + Base(run)
    BY <1>1, <1>5 DEF ThreadOK
  <2>2. tk[run].nny = Count(ds, Len(ds), NoYield(run)) + Base(run)
    <3>1. Base(run) \in Nat
      BY DEF Base
    <3> QED BY <1>2, <1>3, <1>4, <2>1, <3>1
  <2> QED BY <1>5, <1>6, <2>1, <2>2 DEF ThreadOK
<1>8. tk[run].nC = Count(ds, Len(ds), Counting) /\ tk[run].nC <= MaxC + ExtraC
  BY <1>1, <1>2, <1>3, <1>4
<1>9. /\ \A m \in 1 .. k : IsResume(cs[m]) => cs[m].from # run
      /\ IsBlock(cs[k]) => Covered(ds, k)
      /\ \A m \in (k + 1) .. Len(cs) : cs[m].th = run
      /\ \A m \in (k + 1) .. Len(ds) : ds[m].th = run /\ EntryOK(tk, ds, m)
      /\ \A m \in 1 .. k : cs[m].th = run => cs[m].depth <= Len(ci)
  <2>1. \A m \in 1 .. k : m \in 1 .. n /\ m \in 1 .. Len(cs)
    BY <1>1
  <2>2. \A m \in 1 .. k : IsResume(cs[m]) => cs[m].from # run
    BY <2>1, Waiters
  <2>3. Covered(ds, k)
    BY <1>1, <1>2 DEF Covered
  <2>4. \A m \in 1 .. k : cs[m].th = run => cs[m].depth <= Len(ci)
    BY <1>1, <2>1 DEF EntryOK
  <2> QED BY <1>1, <1>2, <2>2, <2>3, <2>4
<1>10. Changed(th, cs, run, tk, ds, run, run, k)
  <2> HIDE DEF k
  <2> QED BY <1>1, <1>2, <1>7, <1>8, <1>9 DEF Changed
<1> QED
  BY <1>10, Rebuilt

-----------------------------------------------------------------------------
(* Calls, blocks and jumps on the C stack.                                 *)

\* The part of the stack that a longjmp to entry b drops is of one thread.
LEMMA Dropped ==
  ASSUME NEW th, NEW cs, NEW run, Core(th, cs, run), NEW b \in 1 .. Len(cs), cs[b].th = run,
         MaxC + ExtraC \in Nat
  PROVE  /\ th \in [Threads -> ThreadState] /\ cs \in Seq(Entry) /\ run \in Threads
         /\ Len(cs) \in Nat /\ b \in Nat /\ b >= 1 /\ b <= Len(cs) /\ b - 1 \in Nat
         /\ EntryOK(th, cs, b) /\ ThreadOK(th, cs, run, run) /\ OnStack(cs, run) /\ th[run].ci \in Seq(CallInfos)
         /\ cs[b] \in Entry /\ cs[b].depth \in Nat
         /\ \A m \in 1 .. Len(cs) : cs[m].th \in Threads /\ cs[m].depth \in Nat
         /\ \A m \in b .. Len(cs) : cs[m].th = run /\ cs[b].depth <= cs[m].depth
         /\ \A m \in 1 .. b : cs[m].th = run => cs[m].depth <= cs[b].depth
         /\ \A E : Count(cs, b, E) \in Nat /\ Count(cs, b - 1, E) \in Nat
         /\ \A E : Count(cs, b, E) = Count(cs, b - 1, E) + (IF cs[b] \in E THEN 1 ELSE 0)
         /\ Count(cs, b, Counting) <= MaxC + ExtraC
<1>1. /\ th \in [Threads -> ThreadState] /\ cs \in Seq(Entry) /\ run \in Threads
      /\ Len(cs) \in Nat /\ b \in Nat /\ b >= 1 /\ b <= Len(cs) /\ b - 1 \in Nat
      /\ cs[Len(cs)].th = run /\ Len(cs) \in 1 .. Len(cs)
      /\ \A m \in 1 .. Len(cs) : EntryOK(th, cs, m)
      /\ ThreadOK(th, cs, run, run) /\ OnStack(cs, run)
      /\ Count(cs, Len(cs), Counting) = th[run].nC /\ th[run].nC <= MaxC + ExtraC
  BY LenProperties DEF Core, OnStack
<1>2. th[run].ci \in Seq(CallInfos) /\ th[run].nC \in Int
  BY <1>1 DEF ThreadState
<1>3. \A m \in 1 .. Len(cs) : cs[m] \in Entry /\ cs[m].th \in Threads /\ cs[m].depth \in Nat
  BY <1>1, EntryFields
<1>4. ASSUME NEW m \in b .. Len(cs)
      PROVE  cs[m].th = run /\ cs[b].depth <= cs[m].depth
  <2>1. cs[m].th = run
    BY <1>1, Below
  <2>2. m \in 1 .. Len(cs) /\ b \in 1 .. m
    BY <1>1
  <2> QED BY <1>1, <2>1, <2>2, Below
<1>5. ASSUME NEW m \in 1 .. b, cs[m].th = run
      PROVE  cs[m].depth <= cs[b].depth
  BY <1>1, <1>5, Below
<1>6. \A E : Count(cs, b, E) \in Nat /\ Count(cs, b - 1, E) \in Nat
  BY <1>1, CountStep
<1>7. \A E : Count(cs, b, E) = Count(cs, b - 1, E) + (IF cs[b] \in E THEN 1 ELSE 0)
  <2> DEFINE k == b - 1
  <2>1. k \in Nat /\ k + 1 = b
    BY <1>1
  <2> HIDE DEF k
  <2>2. \A E : Count(cs, k + 1, E) = Count(cs, k, E) + (IF cs[k + 1] \in E THEN 1 ELSE 0)
    BY <2>1, CountAdd
  <2>3. \A E : Count(cs, b, E) = Count(cs, k, E) + (IF cs[b] \in E THEN 1 ELSE 0)
    BY <2>1, <2>2
  <2> QED BY <2>3 DEF k
<1>8. Count(cs, b, Counting) <= MaxC + ExtraC
  <2>1. Count(cs, b, Counting) <= Count(cs, Len(cs), Counting)
    BY <1>1, CountLess
  <2> QED BY <1>1, <1>2, <1>6, <2>1
<1> QED
  BY <1>1, <1>2, <1>3, <1>4, <1>5, <1>6, <1>7, <1>8

\* An error goes to the block of a lua_pcall, which restores what it saved.
LEMMA ThrownTo ==
  ASSUME NEW th, NEW cs, NEW run, Core(th, cs, run), MaxC + ExtraC \in Nat,
         NEW tk, NEW ds, NEW b, CutBelow(th, cs, run, b, tk, ds), b # 1, IsBlock(cs[b]),
         tk[run].status = th[run].status, tk[run].nC = cs[b].nC, tk[run].nny = cs[b].nny,
         Len(tk[run].ci) = cs[b].depth, \A j \in 1 .. cs[b].depth : tk[run].ci[j] = th[run].ci[j]
  PROVE  Core(tk, ds, run) /\ ds[Len(ds)] = cs[b - 1]
<1>0. /\ tk \in [Threads -> ThreadState] /\ \A u \in Threads \ {run} : tk[u] = th[u]
      /\ b \in 2 .. Len(cs) /\ cs[b].th = run
      /\ ds \in Seq(Entry) /\ Len(ds) = b - 1 /\ \A m \in 1 .. (b - 1) : ds[m] = cs[m]
  BY DEF CutBelow
<1> USE <1>0
<1> DEFINE k == b - 1
           ci == th[run].ci
           di == tk[run].ci
<1>1. /\ th \in [Threads -> ThreadState] /\ cs \in Seq(Entry) /\ run \in Threads
      /\ Len(cs) \in Nat /\ b \in Nat /\ b >= 2 /\ b <= Len(cs) /\ k \in Nat /\ k >= 1
      /\ EntryOK(th, cs, b) /\ ThreadOK(th, cs, run, run) /\ OnStack(cs, run) /\ ci \in Seq(CallInfos)
      /\ cs[b] \in Entry /\ cs[b].depth \in Nat
      /\ \A m \in 1 .. Len(cs) : cs[m].th \in Threads /\ cs[m].depth \in Nat
      /\ \A m \in b .. Len(cs) : cs[m].th = run /\ cs[b].depth <= cs[m].depth
      /\ \A m \in 1 .. b : cs[m].th = run => cs[m].depth <= cs[b].depth
      /\ \A E : Count(cs, b, E) \in Nat /\ Count(cs, k, E) \in Nat
      /\ \A E : Count(cs, b, E) = Count(cs, k, E) + (IF cs[b] \in E THEN 1 ELSE 0)
      /\ Count(cs, b, Counting) <= MaxC + ExtraC
  <2>1. b \in 1 .. Len(cs) /\ b >= 2 /\ k \in Nat /\ k >= 1
    OBVIOUS
  <2>2. /\ th \in [Threads -> ThreadState] /\ cs \in Seq(Entry) /\ run \in Threads
        /\ Len(cs) \in Nat /\ b \in Nat /\ b <= Len(cs)
        /\ EntryOK(th, cs, b) /\ ThreadOK(th, cs, run, run) /\ OnStack(cs, run) /\ ci \in Seq(CallInfos)
        /\ cs[b] \in Entry /\ cs[b].depth \in Nat
        /\ \A m \in 1 .. Len(cs) : cs[m].th \in Threads /\ cs[m].depth \in Nat
        /\ Count(cs, b, Counting) <= MaxC + ExtraC
    BY <2>1, Dropped
  <2>3. /\ \A m \in b .. Len(cs) : cs[m].th = run /\ cs[b].depth <= cs[m].depth
        /\ \A m \in 1 .. b : cs[m].th = run => cs[m].depth <= cs[b].depth
    BY <2>1, Dropped, SMTT(30)
  <2>4. /\ \A E : Count(cs, b, E) \in Nat /\ Count(cs, b - 1, E) \in Nat
        /\ \A E : Count(cs, b, E) = Count(cs, b - 1, E) + (IF cs[b] \in E THEN 1 ELSE 0)
    BY <2>1, Dropped, SMTT(30)
  <2> QED BY <2>1, <2>2, <2>3, <2>4
<1>2. /\ cs[k].th = run /\ ds[k] = cs[k] /\ Len(ds) = k
      /\ cs[b].nC = Count(cs, k, Counting) /\ cs[b].nny = Count(cs, k, NoYield(run)) + Base(run)
      /\ cs[b].depth <= Len(ci)
  <2>1. Ordered(cs, b) /\ BlockOK(cs, b) /\ ~IsResume(cs[b])
    BY <1>1 DEF EntryOK, IsBlock, IsResume
  <2> QED BY <1>1, <2>1 DEF Ordered, BlockOK, EntryOK
<1>3. \A E : Count(ds, k, E) = Count(cs, k, E)
  <2> TAKE E
  <2>1. \A m \in 1 .. k : cs[m] = ds[m]
    BY <1>1
  <2> HIDE DEF k
  <2> QED BY <1>1, <2>1, CountSame
<1>4. OnStack(ds, run)
  BY <1>1, <1>2 DEF OnStack
<1>5. FramesOK(di, CallDepths(ds, run))
  <2>1. FramesOK(ci, CallDepths(cs, run))
    BY <1>1 DEF ThreadOK
  <2>2. CallDepths(ds, run) \subseteq CallDepths(cs, run)
    <3>1. \A m \in 1 .. Len(ds) : m \in 1 .. Len(cs) /\ ds[m] = cs[m]
      BY <1>1, <1>2
    <3> QED BY <3>1 DEF CallDepths
  <2>3. ASSUME NEW d \in CallDepths(cs, run), d < Len(di) PROVE d \in CallDepths(ds, run)
    <3>1. PICK m \in 1 .. Len(cs) : IsCall(cs[m]) /\ cs[m].th = run /\ cs[m].depth = d
      BY DEF CallDepths
    <3>2. m \notin b .. Len(cs)
      BY <1>1, <2>3, <3>1
    <3>3. m \in 1 .. (b - 1)
      BY <1>1, <3>2
    <3>4. m \in 1 .. Len(ds) /\ ds[m] = cs[m]
      BY <3>3
    <3> QED BY <3>1, <3>4 DEF CallDepths
  <2>4. /\ di \in Seq(CallInfos) /\ Len(di) <= Len(ci)
        /\ \A j \in 1 .. Len(di) : di[j].kind = ci[j].kind /\ di[j].fresh = ci[j].fresh
    BY <1>1, <1>2 DEF ThreadState
  <2> HIDE DEF ci, di
  <2> QED BY <1>1, <2>1, <2>2, <2>3, <2>4, FramesCut
<1>6. ThreadOK(tk, ds, run, run)
  <2>1. th[run].status = "ok"
    BY <1>1 DEF ThreadOK
  <2> QED BY <1>2, <1>3, <1>4, <1>5, <2>1 DEF ThreadOK
<1>7. tk[run].nC = Count(ds, Len(ds), Counting) /\ tk[run].nC <= MaxC + ExtraC
  <2>1. Count(cs, k, Counting) <= MaxC + ExtraC
    <3>1. /\ Count(cs, b, Counting) = Count(cs, k, Counting) + (IF cs[b] \in Counting THEN 1 ELSE 0)
          /\ Count(cs, k, Counting) \in Nat /\ Count(cs, b, Counting) <= MaxC + ExtraC
      BY <1>1
    <3> QED BY <3>1
  <2> QED BY <1>2, <1>3, <2>1
<1>8. /\ \A m \in 1 .. k : IsResume(cs[m]) => cs[m].from # run
      /\ IsBlock(cs[k]) => Covered(ds, k)
      /\ \A m \in (k + 1) .. Len(cs) : cs[m].th = run
      /\ \A m \in (k + 1) .. Len(ds) : ds[m].th = run /\ EntryOK(tk, ds, m)
  <2>1. \A m \in 1 .. k : IsResume(cs[m]) => cs[m].from # run
    <3>1. \A m \in 1 .. k : m \in 1 .. Len(cs)
      BY <1>1
    <3> QED BY <3>1, Waiters
  <2>2. Covered(ds, k)
    BY <1>1, <1>2 DEF Covered
  <2> QED BY <1>1, <1>2, <2>1, <2>2
<1>9. \A m \in 1 .. k : cs[m].th = run =>
        /\ cs[m].depth <= Len(di)
        /\ \A j \in 1 .. cs[m].depth : di[j].kind = ci[j].kind /\ di[j].yp = ci[j].yp
  <2> SUFFICES ASSUME NEW m \in 1 .. k, cs[m].th = run
      PROVE  /\ cs[m].depth <= Len(di)
             /\ \A j \in 1 .. cs[m].depth : di[j].kind = ci[j].kind /\ di[j].yp = ci[j].yp
    OBVIOUS
  <2>1. m \in 1 .. b /\ m \in 1 .. Len(cs)
    BY <1>1
  <2>2. cs[m].depth <= cs[b].depth /\ cs[m].depth \in Nat
    BY <1>1, <2>1
  <2>3. \A j \in 1 .. cs[m].depth : j \in 1 .. cs[b].depth
    BY <1>1, <2>2, SMTT(30)
  <2> QED BY <2>2, <2>3
<1>10. k \in 1 .. Len(cs) /\ k <= Len(ds) /\ \A m \in 1 .. k : ds[m] = cs[m]
  BY <1>1
<1>11. Changed(th, cs, run, tk, ds, run, run, k)
  <2> HIDE DEF k
  <2> QED BY <1>1, <1>2, <1>6, <1>7, <1>8, <1>9, <1>10 DEF Changed
<1> QED
  BY <1>2, <1>11, Rebuilt

\* An error goes to a pcall of a coroutine: all C calls of the coroutine are lost.
LEMMA Recovered ==
  ASSUME NEW th, NEW cs, NEW run, Core(th, cs, run), MaxC + ExtraC \in Nat,
         NEW tk, NEW ds, NEW b, CutAbove(th, cs, run, b, tk, ds), IsResume(cs[b]),
         tk[run].status = th[run].status, tk[run].nC = cs[b].nC, tk[run].nny = 0,
         FramesOK(tk[run].ci, {})
  PROVE  Core(tk, ds, run) /\ ds[Len(ds)] = cs[b] /\ cs[b].nC < MaxC
<1>0. /\ tk \in [Threads -> ThreadState] /\ \A u \in Threads \ {run} : tk[u] = th[u]
      /\ b \in 1 .. Len(cs) /\ cs[b].th = run
      /\ ds \in Seq(Entry) /\ Len(ds) = b /\ \A m \in 1 .. b : ds[m] = cs[m]
  BY DEF CutAbove
<1> USE <1>0
<1>1. /\ th \in [Threads -> ThreadState] /\ cs \in Seq(Entry) /\ run \in Threads
      /\ Len(cs) \in Nat /\ b \in Nat /\ b >= 1 /\ b <= Len(cs)
      /\ EntryOK(th, cs, b) /\ ThreadOK(th, cs, run, run) /\ OnStack(cs, run)
      /\ \A m \in b .. Len(cs) : cs[m].th = run /\ cs[b].depth <= cs[m].depth
      /\ \A E : Count(cs, b, E) \in Nat /\ Count(cs, b - 1, E) \in Nat
      /\ \A E : Count(cs, b, E) = Count(cs, b - 1, E) + (IF cs[b] \in E THEN 1 ELSE 0)
      /\ Count(cs, b, Counting) <= MaxC + ExtraC
      /\ cs[b] \in Entry /\ cs[b].depth \in Nat
  BY Dropped
<1>2. /\ b > 1 /\ run # Main /\ cs[b].depth = 0 /\ cs[b].nC < MaxC /\ cs[b].nC = Count(cs, b - 1, Counting) + 1
      /\ \A m \in 1 .. (b - 1) : cs[m].th # run
  <2>1. ResumeOK(th, cs, b)
    BY <1>1 DEF EntryOK
  <2> QED BY <1>1, <2>1 DEF ResumeOK
<1>3. /\ ~IsCall(cs[b]) /\ ~IsBlock(cs[b]) /\ cs[b] \in Counting
  BY <1>1 DEF IsCall, IsBlock, IsResume, Counting
<1>4. cs[b].nC = Count(ds, b, Counting) /\ cs[b].nC <= MaxC + ExtraC
  <2>1. Count(ds, b, Counting) = Count(cs, b, Counting)
    BY <1>1, CountSame
  <2>2. Count(cs, b, Counting) = Count(cs, b - 1, Counting) + 1 /\ Count(cs, b, Counting) <= MaxC + ExtraC
    BY <1>1, <1>3
  <2> QED BY <1>2, <2>1, <2>2
<1>5. Count(ds, b, NoYield(run)) = 0
  <2>1. \A m \in (0 + 1) .. b : ds[m] \notin NoYield(run)
    <3>1. \A m \in 1 .. b : m \in 1 .. (b - 1) \/ m = b
      BY <1>1
    <3> QED BY <1>2, <1>3, <3>1 DEF NoYield, IsCall
  <2>2. Count(ds, 0, NoYield(run)) = 0
    BY CountStep
  <2>3. 0 \in Nat /\ 0 <= b
    BY <1>1
  <2>4. Count(ds, b, NoYield(run)) = Count(ds, 0, NoYield(run))
    BY <1>1, <2>1, <2>3, CountNone
  <2> QED BY <2>2, <2>4
<1>6. CallDepths(ds, run) = {}
  <2>1. \A m \in 1 .. Len(ds) : m \in 1 .. (b - 1) \/ m = b
    BY <1>1
  <2> QED BY <1>2, <1>3, <2>1 DEF CallDepths
<1>7. OnStack(ds, run) /\ ds[Len(ds)].th = run
  BY <1>1 DEF OnStack
<1>8. ThreadOK(tk, ds, run, run)
  <2>1. th[run].status = "ok" /\ Base(run) = 0
    BY <1>1, <1>2 DEF ThreadOK, Base
  <2> QED BY <1>5, <1>6, <1>7, <2>1 DEF ThreadOK
<1>9. /\ \A m \in 1 .. b : IsResume(cs[m]) => cs[m].from # run
      /\ \A m \in (b + 1) .. Len(cs) : cs[m].th = run
      /\ \A m \in (b + 1) .. Len(ds) : ds[m].th = run /\ EntryOK(tk, ds, m)
      /\ b <= Len(ds)
  <2>1. \A m \in 1 .. b : IsResume(cs[m]) => cs[m].from # run
    <3>1. \A m \in 1 .. b : m \in 1 .. Len(cs)
      BY <1>1
    <3> QED BY <3>1, Waiters
  <2>2. \A m \in (b + 1) .. Len(cs) : m \in b .. Len(cs)
    BY <1>1
  <2>3. Len(ds) = b
    OBVIOUS
  <2>4. b <= Len(ds) /\ \A m \in (b + 1) .. Len(ds) : FALSE
    BY <1>1, <2>3
  <2> QED BY <1>1, <2>1, <2>2, <2>4
<1>10. \A m \in 1 .. b : cs[m].th = run =>
        /\ cs[m].depth <= Len(tk[run].ci)
        /\ \A j \in 1 .. cs[m].depth : /\ tk[run].ci[j].kind = th[run].ci[j].kind
                                       /\ tk[run].ci[j].yp = th[run].ci[j].yp
  <2>1. \A m \in 1 .. b : m \in 1 .. (b - 1) \/ m = b
    BY <1>1
  <2>2. Len(tk[run].ci) \in Nat
    BY <1>1, LenProperties DEF ThreadState
  <2>3. \A m \in 1 .. b : cs[m].th = run => cs[m].depth = 0
    BY <1>2, <2>1
  <2> QED BY <2>2, <2>3
<1>11. Changed(th, cs, run, tk, ds, run, run, b)
  BY <1>1, <1>2, <1>3, <1>4, <1>7, <1>8, <1>9, <1>10 DEF Changed
<1> QED
  BY <1>2, <1>11, Rebuilt

\* lua_resume returns: the thread that called it goes on where it was.
LEMMA CameBack ==
  ASSUME NEW th, NEW cs, NEW run, Core(th, cs, run), MaxC \in Nat, MaxC + ExtraC \in Nat,
         NEW tk, NEW ds, NEW b, CutBelow(th, cs, run, b, tk, ds), IsResume(cs[b]),
         tk[run].status # "ok" \/ tk[run].ci = << >>, FramesOK(tk[run].ci, {}),
         NEW new, new = cs[b].from
  PROVE  /\ Core(tk, ds, new) /\ ~IsBlock(ds[Len(ds)]) /\ new # run
         /\ tk[new].nC < MaxC
         /\ Placed(ds, Len(ds), tk[new].ci, Len(tk[new].ci)) /\ ~IsLua(tk[new].ci[Len(tk[new].ci)])
<1>0. /\ tk \in [Threads -> ThreadState] /\ \A u \in Threads \ {run} : tk[u] = th[u]
      /\ b \in 1 .. Len(cs) /\ cs[b].th = run
      /\ ds \in Seq(Entry) /\ Len(ds) = b - 1 /\ \A m \in 1 .. (b - 1) : ds[m] = cs[m]
  BY DEF CutBelow
<1> USE <1>0
<1> DEFINE k == b - 1
<1>1. /\ th \in [Threads -> ThreadState] /\ cs \in Seq(Entry) /\ run \in Threads
      /\ Len(cs) \in Nat /\ b \in Nat /\ b >= 1 /\ b <= Len(cs) /\ k \in Nat
      /\ EntryOK(th, cs, b) /\ ThreadOK(th, cs, run, run)
      /\ \A m \in b .. Len(cs) : cs[m].th = run /\ cs[b].depth <= cs[m].depth
      /\ \A E : Count(cs, b, E) \in Nat /\ Count(cs, k, E) \in Nat
      /\ \A E : Count(cs, b, E) = Count(cs, k, E) + (IF cs[b] \in E THEN 1 ELSE 0)
      /\ Count(cs, b, Counting) <= MaxC + ExtraC
  BY Dropped
<1>2. /\ b > 1 /\ cs[k].th = new /\ new \in Threads
      /\ \A m \in 1 .. k : cs[m].th # run
      /\ cs[b].nC < MaxC /\ cs[b].nC = th[new].nC + 1 /\ th[new].nC = Count(cs, k, Counting)
      /\ Placed(cs, k, th[new].ci, Len(th[new].ci)) /\ ~IsLua(th[new].ci[Len(th[new].ci)])
  <2>1. ResumeOK(th, cs, b)
    BY <1>1 DEF EntryOK
  <2>2. cs[b].from \in Threads
    BY <1>1, EntryFields DEF IsResume, IsCall
  <2> QED BY <1>1, <2>1, <2>2 DEF ResumeOK
<1>3. k >= 1 /\ k \in 1 .. Len(cs) /\ k <= Len(ds) /\ Len(ds) = k /\ (\A m \in 1 .. k : ds[m] = cs[m]) /\ ds[k] = cs[k]
      /\ new # run /\ tk[new] = th[new] /\ k + 1 = b
  <2>1. k >= 1 /\ k \in 1 .. Len(cs) /\ k <= Len(ds) /\ Len(ds) = k /\ k + 1 = b /\ k \in 1 .. k
    BY <1>1, <1>2
  <2>2. \A m \in 1 .. k : ds[m] = cs[m]
    OBVIOUS
  <2>3. new # run
    BY <1>2, <2>1
  <2> HIDE DEF k
  <2> QED BY <1>2, <2>1, <2>2, <2>3
<1>4. tk[new].nC = Count(ds, Len(ds), Counting) /\ tk[new].nC <= MaxC + ExtraC /\ tk[new].nC < MaxC
  <2>1. Count(ds, k, Counting) = Count(cs, k, Counting)
    <3> HIDE DEF k
    <3> QED BY <1>1, <1>3, CountSame
  <2>2. Count(cs, k, Counting) \in Nat /\ Count(cs, k, Counting) <= Count(cs, b, Counting)
        /\ Count(cs, b, Counting) \in Nat
    <3>1. /\ Count(cs, b, Counting) = Count(cs, k, Counting) + (IF cs[b] \in Counting THEN 1 ELSE 0)
          /\ Count(cs, k, Counting) \in Nat
      BY <1>1
    <3> QED BY <3>1
  <2>3. th[new].nC < cs[b].nC /\ th[new].nC < MaxC
    <3>1. th[new].nC \in Nat /\ cs[b].nC \in Nat
      BY <1>2, <2>2
    <3>2. cs[b].nC < MaxC /\ MaxC \in Int
      BY <1>2
    <3> QED BY <1>2, <3>1, <3>2
  <2> QED BY <1>1, <1>2, <1>3, <2>1, <2>2, <2>3, SMTT(30)
<1>5. ~OnStack(ds, run) /\ CallDepths(ds, run) = {}
  BY <1>2, <1>3, SMTT(30) DEF OnStack, CallDepths
<1>6. ThreadOK(tk, ds, new, run)
  BY <1>5 DEF ThreadOK
<1>7. /\ \A m \in 1 .. k : IsResume(cs[m]) => cs[m].from # run
      /\ \A m \in (k + 1) .. Len(cs) : cs[m].th = run
      /\ \A m \in (k + 1) .. Len(ds) : ds[m].th = run /\ EntryOK(tk, ds, m)
      /\ Covered(ds, k)
  <2>1. \A m \in 1 .. k : IsResume(cs[m]) => cs[m].from # run
    <3>1. \A m \in 1 .. k : m \in 1 .. Len(cs)
      BY <1>1, <1>3
    <3> QED BY <3>1, Waiters
  <2> QED BY <1>1, <1>3, <2>1 DEF Covered
<1>8. Changed(th, cs, run, tk, ds, new, run, k)
  <2> HIDE DEF k
  <2> QED BY <1>1, <1>2, <1>3, <1>4, <1>6, <1>7 DEF Changed
<1>9. ~IsBlock(ds[k])
  <2>1. EntryOK(th, cs, k)
    BY <1>3 DEF Core
  <2>2. IsBlock(cs[k]) => IsCall(cs[k + 1])
    BY <1>1, <1>3, <2>1 DEF EntryOK, BlockOK, Covered
  <2> QED BY <1>3, <2>2 DEF IsCall, IsResume
<1>10. Placed(ds, Len(ds), tk[new].ci, Len(tk[new].ci)) /\ ~IsLua(tk[new].ci[Len(tk[new].ci)])
  BY <1>2, <1>3 DEF Placed
<1> QED
  BY <1>3, <1>4, <1>8, <1>9, <1>10, Rebuilt

\* A lua_resume has put its block on the stack.
Resumed(th, cs, t, e, tk, ds) ==
  /\ tk \in [Threads -> ThreadState] /\ \A u \in Threads \ {t} : tk[u] = th[u]
  /\ tk[t].ci = th[t].ci /\ tk[t].status = "ok" /\ tk[t].nC = e.nC /\ tk[t].nny = 0
  /\ ds \in Seq(Entry) /\ Len(ds) = Len(cs) + 1 /\ ds[Len(cs) + 1] = e
  /\ \A m \in 1 .. Len(cs) : ds[m] = cs[m]

\* lua_resume enters a coroutine.
LEMMA Entered ==
  ASSUME NEW th, NEW cs, NEW run, Core(th, cs, run), ~IsBlock(cs[Len(cs)]),
         NEW t \in Threads \ {Main}, ~OnStack(cs, t),
         MaxC \in Nat, ExtraC \in Nat,
         NEW e \in TryEntry, IsResume(e), e.th = t, e.depth = 0, e.from = run, e.nC = th[run].nC + 1, e.nC < MaxC,
         Placed(cs, Len(cs), th[run].ci, Len(th[run].ci)), ~IsLua(th[run].ci[Len(th[run].ci)]),
         NEW tk, NEW ds, Resumed(th, cs, t, e, tk, ds)
  PROVE  Core(tk, ds, t) /\ ds[Len(ds)] = e /\ CallDepths(ds, t) = {}
<1>0. /\ tk \in [Threads -> ThreadState] /\ \A u \in Threads \ {t} : tk[u] = th[u]
      /\ tk[t].ci = th[t].ci /\ tk[t].status = "ok" /\ tk[t].nC = e.nC /\ tk[t].nny = 0
      /\ ds \in Seq(Entry) /\ Len(ds) = Len(cs) + 1 /\ ds[Len(cs) + 1] = e
      /\ \A m \in 1 .. Len(cs) : ds[m] = cs[m]
  BY DEF Resumed
<1> USE <1>0
<1> DEFINE n == Len(cs)
<1>1. /\ th \in [Threads -> ThreadState] /\ cs \in Seq(Entry) /\ run \in Threads
      /\ n \in Nat /\ n >= 1 /\ cs[n].th = run /\ n \in 1 .. Len(cs)
      /\ th[run].nC = Count(cs, n, Counting) /\ th[run].nC \in Int
      /\ \A m \in 1 .. Len(cs) : EntryOK(th, cs, m)
      /\ ThreadOK(th, cs, run, t) /\ OnStack(cs, run) /\ t # run
      /\ \A m \in 1 .. n : cs[m].th # t
  <2>1. /\ th \in [Threads -> ThreadState] /\ cs \in Seq(Entry) /\ run \in Threads
        /\ n \in Nat /\ n >= 1 /\ cs[n].th = run /\ n \in 1 .. Len(cs)
        /\ th[run].nC = Count(cs, n, Counting)
        /\ \A m \in 1 .. Len(cs) : EntryOK(th, cs, m)
        /\ ThreadOK(th, cs, run, t)
    BY LenProperties DEF Core
  <2>2. th[run].nC \in Int
    BY <2>1 DEF ThreadState
  <2>3. OnStack(cs, run) /\ t # run /\ \A m \in 1 .. n : cs[m].th # t
    BY <2>1 DEF OnStack
  <2> QED BY <2>1, <2>2, <2>3
<1>2. e \in Entry /\ ~IsCall(e) /\ ~IsBlock(e) /\ e \in Counting /\ e \notin NoYield(t)
  BY DEF TryEntry, Entry, IsCall, IsResume, IsBlock, Counting, NoYield
<1>3. /\ ds[Len(ds)] = e /\ ds[n] = cs[n] /\ Len(ds) = n + 1
      /\ \A E : Count(ds, Len(ds), E) = Count(cs, n, E) + (IF e \in E THEN 1 ELSE 0)
      /\ CallDepths(ds, t) = CallDepths(cs, t)
      /\ OnStack(ds, t)
  <2>1. /\ \A E : Count(ds, Len(ds), E) = Count(cs, Len(cs), E) + (IF e \in E THEN 1 ELSE 0)
        /\ \A u : CallDepths(ds, u) = CallDepths(cs, u) \cup (IF IsCall(e) /\ e.th = u THEN {e.depth} ELSE {})
        /\ \A u : OnStack(ds, u) <=> OnStack(cs, u) \/ u = e.th
        /\ ds[Len(ds)] = e
    BY <1>1, <1>2, Extended
  <2> QED BY <1>1, <1>2, <2>1
<1>4. CallDepths(cs, t) = {} /\ FramesOK(th[t].ci, CallDepths(cs, t))
  BY <1>1 DEF CallDepths, ThreadOK
<1>5. Count(cs, n, NoYield(t)) = 0
  <2>1. \A m \in (0 + 1) .. n : cs[m] \notin NoYield(t)
    BY <1>1 DEF NoYield
  <2>2. Count(cs, 0, NoYield(t)) = 0
    BY CountStep
  <2>3. 0 \in Nat /\ 0 <= n
    BY <1>1
  <2>4. Count(cs, n, NoYield(t)) = Count(cs, 0, NoYield(t))
    BY <1>1, <2>1, <2>3, CountNone
  <2> QED BY <2>2, <2>4
<1>6. ThreadOK(tk, ds, t, t)
  <2>1. Count(ds, Len(ds), NoYield(t)) = 0 /\ Base(t) = 0
    BY <1>2, <1>3, <1>5 DEF Base
  <2> QED BY <1>3, <1>4, <2>1 DEF ThreadOK
<1>7. tk[t].nC = Count(ds, Len(ds), Counting) /\ tk[t].nC <= MaxC + ExtraC
  <2>1. Count(ds, Len(ds), Counting) = Count(cs, n, Counting) + 1
    BY <1>2, <1>3
  <2> QED BY <1>1, <2>1
<1>8. EntryOK(tk, ds, n + 1)
  <2>1. n + 1 - 1 = n /\ ds[n + 1] = e
    BY <1>1
  <2>2. Ordered(ds, n + 1)
    <3>1. ASSUME NEW m \in 1 .. (n + 1), ds[m].th = t
          PROVE  ds[m].depth <= e.depth /\ \A k \in m .. (n + 1) : ds[k].th = t
      <4>1. m = n + 1
        BY <1>1, <3>1
      <4> QED BY <1>1, <2>1, <4>1
    <3> QED BY <2>1, <3>1, SMTT(30) DEF Ordered
  <2>3. ResumeOK(tk, ds, n + 1)
    <3>1. /\ tk[run] = th[run] /\ Count(ds, n, Counting) = Count(cs, n, Counting)
      <4>1. tk[run] = th[run]
        BY <1>1
      <4>2. \A m \in 1 .. n : cs[m] = ds[m]
        OBVIOUS
      <4> HIDE DEF n
      <4>3. Count(ds, n, Counting) = Count(cs, n, Counting)
        BY <1>1, <4>2, CountSame
      <4> QED BY <4>1, <4>3
    <3>2. Placed(ds, n, th[run].ci, Len(th[run].ci))
      BY <1>3 DEF Placed
    <3>3. \A m \in 1 .. n : ds[m].th # t
      BY <1>1
    <3> QED BY <1>1, <1>3, <2>1, <3>1, <3>2, <3>3 DEF ResumeOK
  <2>4. e.depth <= Len(tk[t].ci)
    BY LenProperties DEF ThreadState
  <2> QED BY <1>2, <2>1, <2>2, <2>3, <2>4 DEF EntryOK
<1>9. /\ \A m \in 1 .. n : IsResume(cs[m]) => cs[m].from # t
      /\ \A m \in (n + 1) .. Len(cs) : cs[m].th = t
      /\ \A m \in (n + 1) .. Len(ds) : ds[m].th = t /\ EntryOK(tk, ds, m)
      /\ n <= Len(ds)
  <2>1. \A m \in 1 .. n : IsResume(cs[m]) => cs[m].from # t
    <3> SUFFICES ASSUME NEW m \in 1 .. n, IsResume(cs[m]) PROVE cs[m].from # t
      OBVIOUS
    <3>1. m - 1 \in 1 .. n /\ cs[m].from = cs[m - 1].th
      BY <1>1, ResumerWaits
    <3> QED BY <1>1, <3>1
  <2>2. \A m \in (n + 1) .. Len(ds) : m = n + 1
    BY <1>1
  <2> QED BY <1>1, <1>8, <2>1, <2>2
<1>10. th[run].ci # << >>
  <2>1. Len(th[run].ci) # 0
    BY DEF Placed
  <2> QED BY <2>1
<1>11. Changed(th, cs, run, tk, ds, t, t, n)
  BY <1>1, <1>3, <1>6, <1>7, <1>9, <1>10 DEF Changed
<1> QED
  BY <1>3, <1>4, <1>11, Rebuilt

\* A thread that is not on the C stack may change as it will.
LEMMA IdleChanged ==
  ASSUME NEW th, NEW cs, NEW run, Core(th, cs, run), NEW t \in Threads, ~OnStack(cs, t),
         NEW tk \in [Threads -> ThreadState], \A u \in Threads \ {t} : tk[u] = th[u],
         tk[t].status # "ok" \/ tk[t].ci = << >>, FramesOK(tk[t].ci, {})
  PROVE  Core(tk, cs, run) /\ t # run
<1> DEFINE n == Len(cs)
<1>1. /\ th \in [Threads -> ThreadState] /\ cs \in Seq(Entry) /\ run \in Threads
      /\ n \in Nat /\ n >= 1 /\ cs[n].th = run /\ n \in 1 .. Len(cs) /\ n <= Len(cs)
      /\ th[run].nC = Count(cs, n, Counting) /\ th[run].nC <= MaxC + ExtraC
      /\ \A m \in 1 .. Len(cs) : EntryOK(th, cs, m)
      /\ t # run
      /\ \A m \in 1 .. n : cs[m].th # t
  BY LenProperties DEF Core, OnStack
<1>2. ThreadOK(tk, cs, run, t)
  <2>1. CallDepths(cs, t) = {}
    BY <1>1 DEF CallDepths
  <2> QED BY <2>1 DEF ThreadOK
<1>3. /\ \A m \in 1 .. n : IsResume(cs[m]) => cs[m].from # t
      /\ IsBlock(cs[n]) => Covered(cs, n)
      /\ \A m \in (n + 1) .. Len(cs) : cs[m].th = t /\ EntryOK(tk, cs, m)
  <2>1. \A m \in 1 .. n : IsResume(cs[m]) => cs[m].from # t
    <3> SUFFICES ASSUME NEW m \in 1 .. n, IsResume(cs[m]) PROVE cs[m].from # t
      OBVIOUS
    <3>1. m - 1 \in 1 .. n /\ cs[m].from = cs[m - 1].th
      BY <1>1, ResumerWaits
    <3> QED BY <1>1, <3>1
  <2> QED BY <1>1, <2>1 DEF Covered
<1>4. Changed(th, cs, run, tk, cs, run, t, n)
  BY <1>1, <1>2, <1>3 DEF Changed
<1> QED
  BY <1>1, <1>4, Rebuilt

-----------------------------------------------------------------------------
(* The state as Calls has it.                                              *)

\* The modes of the machine.
Modes == {"lua", "cstart", "cdone", "unroll", "error", "throw", "end"}

\* The fields of a state.
LEMMA Fields ==
  ASSUME NEW q \in CallsState
  PROVE  /\ q.th \in [Threads -> ThreadState] /\ q.cs \in Seq(Entry) /\ q.run \in Threads /\ q.mode \in Modes
         /\ q.err \in {"run", "err"} /\ q.ok \in BOOLEAN
         /\ L(q) = q.th[q.run] /\ L(q) \in ThreadState /\ L(q).ci \in Seq(CallInfos) /\ Depth(q) = Len(L(q).ci)
         /\ Depth(q) \in Nat /\ L(q).nC \in Int /\ L(q).nny \in Int /\ L(q).errfunc \in Nat /\ L(q).extra \in BOOLEAN
         /\ TopCI(q) = L(q).ci[Depth(q)]
         /\ Depth(q) > 0 => TopCI(q) \in CallInfos
<1>1. /\ q.th \in [Threads -> ThreadState] /\ q.cs \in Seq(Entry) /\ q.run \in Threads /\ q.mode \in Modes
      /\ q.err \in {"run", "err"} /\ q.ok \in BOOLEAN
  BY DEF CallsState, Modes
<1>2. L(q) = q.th[q.run] /\ L(q) \in ThreadState
  BY <1>1 DEF L
<1>3. /\ L(q).ci \in Seq(CallInfos) /\ L(q).nC \in Int /\ L(q).nny \in Int /\ L(q).errfunc \in Nat
      /\ L(q).extra \in BOOLEAN
  BY <1>2 DEF ThreadState
<1>4. Depth(q) = Len(L(q).ci) /\ Depth(q) \in Nat /\ TopCI(q) = L(q).ci[Depth(q)]
  BY <1>3, LenProperties DEF Depth, TopCI
<1>5. Depth(q) > 0 => L(q).ci[Depth(q)] \in CallInfos
  <2>1. Depth(q) > 0 => Depth(q) \in 1 .. Len(L(q).ci)
    BY <1>4
  <2> QED BY <1>3, <2>1, ElementOfSeq
<1> QED
  BY <1>1, <1>2, <1>3, <1>4, <1>5

\* r is q with the record of the running thread, the C stack and the mode replaced.
Replaced(q, r, f, cs, mode) ==
  /\ r \in CallsState /\ f \in ThreadState
  /\ r.th \in [Threads -> ThreadState] /\ r.th[q.run] = f /\ \A u \in Threads \ {q.run} : r.th[u] = q.th[u]
  /\ r.cs = cs /\ r.run = q.run /\ r.mode = mode /\ L(r) = f

\* A state made of its fields is such an r.
LEMMA Replacing ==
  ASSUME NEW q \in CallsState, NEW r, NEW f \in ThreadState, NEW cs \in Seq(Entry), NEW mode \in Modes,
         NEW err \in {"run", "err"}, NEW ok \in BOOLEAN,
         r = [th |-> [q.th EXCEPT ![q.run] = f], cs |-> cs, run |-> q.run, mode |-> mode, err |-> err, ok |-> ok]
  PROVE  Replaced(q, r, f, cs, mode)
<1>1. q.th \in [Threads -> ThreadState] /\ q.run \in Threads
  BY Fields
<1> DEFINE th == [q.th EXCEPT ![q.run] = f]
<1>2. th \in [Threads -> ThreadState] /\ th[q.run] = f /\ \A u \in Threads \ {q.run} : th[u] = q.th[u]
  BY <1>1
<1>3. r \in CallsState /\ r.th = th /\ r.cs = cs /\ r.run = q.run /\ r.mode = mode
  <2> HIDE DEF th
  <2> QED BY <1>1, <1>2 DEF CallsState, Modes
<1> QED
  BY <1>2, <1>3 DEF Replaced, L

\* Where the C stack fits, the counters match.
LEMMA CoreMatches ==
  ASSUME NEW q \in CallsState, Core(q.th, q.cs, q.run)
  PROVE  Matching(q)
<1>1. /\ q.cs \in Seq(Entry) /\ Len(q.cs) \in 1 .. Len(q.cs) /\ q.cs[Len(q.cs)].th = q.run
      /\ q.run \in Threads /\ \A t \in Threads : ThreadOK(q.th, q.cs, q.run, t)
      /\ q.th[q.run].nC = Count(q.cs, Len(q.cs), Counting) /\ q.th[q.run].nC <= MaxC + ExtraC
  BY LenProperties DEF Core
<1>2. ASSUME NEW t \in Threads, Status(q, t) \in {"running", "normal"}
      PROVE  q.th[t].nny = Count(q.cs, Len(q.cs), NoYield(t)) + Base(t)
  <2>1. OnStack(q.cs, t)
    <3>1. CASE t = q.run
      BY <1>1, <3>1 DEF OnStack
    <3>2. CASE t # q.run
      <4>1. q.th[t].status = "ok" /\ q.th[t].ci # << >>
        <5>1. q.th[t].status \in {"ok", "yield", "dead"}
          BY Fields DEF ThreadState
        <5> QED BY <1>2, <3>2, <5>1 DEF Status
      <4> QED BY <1>1, <4>1 DEF ThreadOK
    <3> QED BY <3>1, <3>2
  <2> QED BY <1>1, <2>1 DEF ThreadOK
<1> QED
  BY <1>1, <1>2 DEF Matching, L

\* The parts that are to be shown of a state that has not ended.
LEMMA GoodCore ==
  ASSUME NEW q \in CallsState, Core(q.th, q.cs, q.run), ~IsBlock(q.cs[Len(q.cs)]), ModeOK(q)
  PROVE  Good(q)
  BY CoreMatches DEF Good, Struct

\* The kinds of functions.
Kinds == LuaKinds \cup CKinds

\* What the operators of Calls that set fields make.
LEMMA Setting ==
  ASSUME NEW q \in CallsState, NEW f \in ThreadState, NEW mode \in Modes, NEW cs \in Seq(Entry)
  PROVE  /\ Replaced(q, Goto(WithL(q, f), mode), f, q.cs, mode)
         /\ Replaced(q, [WithL(q, f) EXCEPT !.cs = cs], f, cs, q.mode)
         /\ Replaced(q, Goto(q, mode), L(q), q.cs, mode)
         /\ Replaced(q, WithL(q, f), f, q.cs, q.mode)
         /\ \A e \in {"run", "err"} : Replaced(q, [q EXCEPT !.mode = mode, !.err = e], L(q), q.cs, mode)
<1> DEFINE new == [q.th EXCEPT ![q.run] = f]
           R(th, c, m, e) == [th |-> th, cs |-> c, run |-> q.run, mode |-> m, err |-> e, ok |-> q.ok]
<1>1. /\ q.th \in [Threads -> ThreadState] /\ q.cs \in Seq(Entry) /\ q.run \in Threads /\ q.mode \in Modes
      /\ q.err \in {"run", "err"} /\ q.ok \in BOOLEAN /\ L(q) = q.th[q.run] /\ L(q) \in ThreadState
  BY Fields
<1>2. [q.th EXCEPT ![q.run] = L(q)] = q.th
  BY <1>1
<1>3. q = [th |-> q.th, cs |-> q.cs, run |-> q.run, mode |-> q.mode, err |-> q.err, ok |-> q.ok]
  BY DEF CallsState
<1>w. WithL(q, f) = R(new, q.cs, q.mode, q.err)
  BY <1>3 DEF WithL
<1>g. Goto(WithL(q, f), mode) = R(new, q.cs, mode, q.err)
  <2> HIDE DEF new
  <2> QED BY <1>w DEF Goto
<1>c. [WithL(q, f) EXCEPT !.cs = cs] = R(new, cs, q.mode, q.err)
  <2> HIDE DEF new
  <2> QED BY <1>w
<1>q. Goto(q, mode) = R(q.th, q.cs, mode, q.err)
  BY <1>3 DEF Goto
<1>e. ASSUME NEW e \in {"run", "err"}
      PROVE  [q EXCEPT !.mode = mode, !.err = e] = R(q.th, q.cs, mode, e)
  <2> DEFINE a == [q EXCEPT !.mode = mode]
             b == [a EXCEPT !.err = e]
  <2>1. a = R(q.th, q.cs, mode, q.err)
    BY <1>3
  <2>2. b = R(q.th, q.cs, mode, e)
    <3> HIDE DEF a
    <3> QED BY <2>1
  <2>3. [q EXCEPT !.mode = mode, !.err = e] = b
    OBVIOUS
  <2> QED BY <2>2, <2>3
<1>4. Replaced(q, Goto(WithL(q, f), mode), f, q.cs, mode)
  BY <1>1, <1>g, Replacing
<1>5. Replaced(q, [WithL(q, f) EXCEPT !.cs = cs], f, cs, q.mode)
  BY <1>1, <1>c, Replacing
<1>6. Replaced(q, Goto(q, mode), L(q), q.cs, mode)
  BY <1>1, <1>2, <1>q, Replacing
<1>7. Replaced(q, WithL(q, f), f, q.cs, q.mode)
  BY <1>1, <1>w, Replacing
<1>8. \A e \in {"run", "err"} : Replaced(q, [q EXCEPT !.mode = mode, !.err = e], L(q), q.cs, mode)
  BY <1>1, <1>2, <1>e, Replacing
<1> QED
  BY <1>4, <1>5, <1>6, <1>7, <1>8

\* A CallInfo that next_ci has just made.
LEMMA NewCallInfo ==
  ASSUME NEW kind \in Kinds, NEW fresh \in BOOLEAN
  PROVE  /\ [CallInfo(kind) EXCEPT !.fresh = fresh] \in CallInfos
         /\ [CallInfo(kind) EXCEPT !.fresh = fresh].kind = kind
         /\ [CallInfo(kind) EXCEPT !.fresh = fresh].fresh = fresh
         /\ [CallInfo(kind) EXCEPT !.fresh = fresh].yp = FALSE
  BY DEF CallInfo, CallInfos, Kinds

\* luaD_precall: a CallInfo more, or the error of a stack overflow.
LEMMA PrecallGood ==
  ASSUME NEW q \in CallsState, Core(q.th, q.cs, q.run), ~IsBlock(q.cs[Len(q.cs)]),
         L(q).nC < MaxC + ExtraC, NEW kind \in Kinds, NEW fresh \in BOOLEAN,
         kind \notin LuaKinds => \/ IsCall(q.cs[Len(q.cs)]) /\ q.cs[Len(q.cs)].depth = Depth(q)
                                 \/ Depth(q) = 0
                                 \/ IsLua(TopCI(q)),
         kind \in LuaKinds /\ fresh =>
           Depth(q) \in CallDepths(q.cs, q.run) \/ \A d \in CallDepths(q.cs, q.run) : d > Depth(q),
         kind \in LuaKinds /\ ~fresh =>
           Depth(q) \notin CallDepths(q.cs, q.run) /\ Depth(q) > 0 /\ IsLua(TopCI(q))
  PROVE  Good(Precall(q, kind, fresh))
<1> DEFINE c == [CallInfo(kind) EXCEPT !.fresh = fresh]
           ci == L(q).ci
           di == Append(ci, c)
           f == [L(q) EXCEPT !.ci = di]
           g == [L(q) EXCEPT !.extra = TRUE]
           m == IF kind \in LuaKinds THEN "lua" ELSE "cstart"
           D == CallDepths(q.cs, q.run)
           n == Len(q.cs)
           pushed == Goto(WithL(q, f), m)
           raised == Goto(WithL(q, g), "error")
           thrown == [q EXCEPT !.mode = "throw", !.err = "err"]
<1>1. Precall(q, kind, fresh) \in {pushed, raised, thrown}
  BY DEF Precall
<1>2. /\ c \in CallInfos /\ c.kind = kind /\ c.fresh = fresh /\ c.yp = FALSE
  BY NewCallInfo
<1>3. /\ L(q) \in ThreadState /\ ci \in Seq(CallInfos) /\ Depth(q) = Len(ci) /\ Depth(q) \in Nat
      /\ L(q) = q.th[q.run] /\ TopCI(q) = ci[Len(ci)] /\ q.run \in Threads /\ q.cs \in Seq(Entry)
  BY Fields
<1>4. /\ di \in Seq(CallInfos) /\ Len(di) = Len(ci) + 1 /\ di[Len(ci) + 1] = c
      /\ \A j \in 1 .. Len(ci) : di[j] = ci[j]
  <2> HIDE DEF c, ci
  <2> QED BY <1>2, <1>3, AppendFacts
<1>5. /\ f \in ThreadState /\ f.ci = di /\ f.status = L(q).status /\ f.nny = L(q).nny /\ f.nC = L(q).nC
  <2> HIDE DEF di
  <2> QED BY <1>3, <1>4 DEF ThreadState
<1>6. /\ g \in ThreadState /\ g.ci = ci /\ g.status = L(q).status /\ g.nny = L(q).nny /\ g.nC = L(q).nC
  BY <1>3 DEF ThreadState
<1>7. /\ EntryOK(q.th, q.cs, n) /\ n \in Nat /\ n \in 1 .. Len(q.cs) /\ q.cs[n].th = q.run
      /\ FramesOK(ci, D) /\ q.cs[n].depth \in Nat /\ q.cs[n].depth <= Len(ci)
      /\ D \subseteq Nat
  <2>1. n \in Nat /\ n \in 1 .. Len(q.cs) /\ EntryOK(q.th, q.cs, n) /\ q.cs[n].th = q.run
        /\ ThreadOK(q.th, q.cs, q.run, q.run)
    BY LenProperties DEF Core
  <2>2. q.cs[n].depth \in Nat /\ D \subseteq Nat
    BY <1>3, <2>1, EntryFields DEF CallDepths
  <2> QED BY <1>3, <2>1, <2>2 DEF ThreadOK, EntryOK
<1> HIDE DEF c, di, f, g, D
<1>a. /\ q.cs[n].depth \in Nat /\ Len(ci) \in Nat /\ q.cs[n].depth <= Len(ci) /\ Len(di) = Len(ci) + 1
  BY <1>3, <1>4, <1>7
<1>8. Good(pushed)
  <2>1. m \in Modes /\ m \in {"lua", "cstart"}
    BY DEF Modes
  <2>2. Replaced(q, pushed, f, q.cs, m)
    BY <1>3, <1>5, <2>1, Setting
  <2> HIDE DEF pushed
  <2>3. /\ pushed \in CallsState /\ pushed.th \in [Threads -> ThreadState] /\ pushed.th[q.run] = f
        /\ \A u \in Threads \ {q.run} : pushed.th[u] = q.th[u]
        /\ pushed.cs = q.cs /\ pushed.run = q.run /\ pushed.mode = m /\ L(pushed) = f
    BY <2>2 DEF Replaced
  <2>4. FramesOK(di, D)
    <3>1. IsLua(c) <=> kind \in LuaKinds
      BY <1>2 DEF IsLua
    <3>2. kind \in LuaKinds /\ fresh => Len(ci) \in D \/ \A d \in D : d > Len(ci)
      BY <1>3 DEF D
    <3>3. kind \in LuaKinds /\ ~fresh => Len(ci) \notin D /\ Len(ci) > 0 /\ IsLua(ci[Len(ci)])
      BY <1>3 DEF D
    <3> HIDE DEF ci
    <3> QED BY ONLY <1>2, <1>3, <1>4, <1>7, <3>1, <3>2, <3>3, FramesPushed
  <2>5. Core(pushed.th, q.cs, q.run)
    <3>1. Reframed(q.th, q.cs, q.run, pushed.th)
      <4>1. q.cs[n].depth <= Len(di)
        BY ONLY <1>a
      <4>2. \A j \in 1 .. q.cs[n].depth : di[j].kind = ci[j].kind /\ di[j].yp = ci[j].yp
        <5>1. \A j \in 1 .. q.cs[n].depth : j \in 1 .. Len(ci)
          BY ONLY <1>a
        <5> QED BY <1>4, <5>1
      <4> QED BY <1>3, <1>5, <2>3, <2>4, <4>1, <4>2 DEF Reframed, D
    <3> QED BY <3>1, FramesChanged
  <2>6. Depth(pushed) = Len(ci) + 1 /\ TopCI(pushed) = c
    BY <1>4, <1>5, <2>3 DEF Depth, TopCI
  <2>7. Placed(q.cs, n, di, Len(ci) + 1)
    <3>1. Len(ci) + 1 \in 1 .. Len(di) /\ q.cs[n].depth < Len(ci) + 1 /\ Len(ci) + 1 - 1 = Len(ci)
      BY ONLY <1>a
    <3>2. Len(ci) > 0 => di[Len(ci)] = ci[Len(ci)]
      <4>1. \A j \in 1 .. Len(ci) : di[j] = ci[j]
        BY <1>4
      <4> QED BY ONLY <4>1, <1>a
    <3>3. ~IsLua(c) => \/ IsCall(q.cs[n]) /\ q.cs[n].depth = Len(ci)
                       \/ Len(ci) = 0
                       \/ Len(ci) > 0 /\ IsLua(ci[Len(ci)])
      BY <1>2, <1>3 DEF IsLua
    <3>4. ~IsLua(di[Len(ci) + 1]) => \/ IsCall(q.cs[n]) /\ q.cs[n].depth = Len(ci) + 1 - 1
                                     \/ Len(ci) + 1 = 1
                                     \/ IsLua(di[Len(ci) + 1 - 1])
      BY <1>4, <3>1, <3>2, <3>3
    <3> QED BY <3>1, <3>4 DEF Placed
  <2>8. ModeOK(pushed)
    <3>1. m = "lua" <=> IsLua(c)
      BY <1>2 DEF IsLua
    <3>2. L(pushed).ci = di /\ L(pushed).nC = L(q).nC
      BY <1>5, <2>3
    <3> HIDE DEF m
    <3> QED BY <1>2, <2>1, <2>3, <2>6, <2>7, <3>1, <3>2 DEF ModeOK
  <2> QED BY <2>3, <2>5, <2>8, GoodCore
<1>9. Good(raised)
  <2>1. "error" \in Modes
    BY DEF Modes
  <2>2. Replaced(q, raised, g, q.cs, "error")
    BY <1>3, <1>6, <2>1, Setting
  <2> HIDE DEF raised
  <2>3. /\ raised \in CallsState /\ raised.th \in [Threads -> ThreadState] /\ raised.th[q.run] = g
        /\ \A u \in Threads \ {q.run} : raised.th[u] = q.th[u]
        /\ raised.cs = q.cs /\ raised.run = q.run /\ raised.mode = "error" /\ L(raised) = g
    BY <2>2 DEF Replaced
  <2>4. Core(raised.th, q.cs, q.run)
    BY <1>3, <1>6, <2>3, Unframed
  <2>5. ModeOK(raised)
    BY <1>6, <2>3 DEF ModeOK
  <2> QED BY <2>3, <2>4, <2>5, GoodCore
<1>10. Good(thrown)
  <2>1. "throw" \in Modes /\ "err" \in {"run", "err"}
    BY DEF Modes
  <2>2. Replaced(q, thrown, L(q), q.cs, "throw")
    BY <1>3, <2>1, Setting
  <2> HIDE DEF thrown
  <2>3. /\ thrown \in CallsState /\ thrown.th \in [Threads -> ThreadState] /\ thrown.th[q.run] = L(q)
        /\ \A u \in Threads \ {q.run} : thrown.th[u] = q.th[u]
        /\ thrown.cs = q.cs /\ thrown.run = q.run /\ thrown.mode = "throw" /\ L(thrown) = L(q)
    BY <2>2 DEF Replaced
  <2>4. Core(thrown.th, q.cs, q.run)
    BY <1>3, <2>3, Unframed
  <2>5. ModeOK(thrown)
    BY <2>3 DEF ModeOK
  <2> QED BY <2>3, <2>4, <2>5, GoodCore
<1> QED
  BY <1>1, <1>8, <1>9, <1>10

-----------------------------------------------------------------------------
(* Calls: luaD_precall, luaD_call.                                         *)

\* The entry luaD_call adds to the C stack.
CEntry(q, by, noyield) == [what |-> "call", th |-> q.run, by |-> by, noyield |-> noyield, depth |-> Depth(q)]

\* luaD_call and luaD_callnoyield: counted, then too deep, an error, or entered.
LEMMA DCallGood ==
  ASSUME NEW q \in CallsState, Core(q.th, q.cs, q.run), L(q).nC < MaxC + ExtraC,
         NEW by \in {"api", "meta", "handler"}, NEW noyield \in BOOLEAN, NEW kind \in Kinds,
         NewCall(L(q).ci, q.cs, CEntry(q, by, noyield))
  PROVE  Good(LuaDCall(q, by, noyield, kind))
<1> DEFINE e == CEntry(q, by, noyield)
           k == L(q).nC + 1
           y == IF noyield THEN 1 ELSE 0
           f == [L(q) EXCEPT !.nC = k, !.nny = @ + y]
           ds == Append(q.cs, e)
           called == [WithL(q, f) EXCEPT !.cs = ds]
           raised == Goto(called, "error")
           thrown == [called EXCEPT !.mode = "throw", !.err = "err"]
           fresh == kind \in LuaKinds
<1>1. /\ L(q) \in ThreadState /\ L(q).ci \in Seq(CallInfos) /\ Depth(q) = Len(L(q).ci) /\ Depth(q) \in Nat
      /\ L(q) = q.th[q.run] /\ q.run \in Threads /\ q.cs \in Seq(Entry) /\ L(q).nC \in Int /\ L(q).nny \in Int
      /\ q.mode \in Modes /\ MaxC + ExtraC \in Nat /\ MaxC < MaxC + ExtraC /\ MaxC \in Nat /\ ExtraC \in Nat
  BY Fields, CallsAssumption
<1>2. /\ e \in Entry /\ e.noyield = noyield /\ IsCall(e) /\ ~IsBlock(e) /\ e.depth = Depth(q)
  BY <1>1 DEF CEntry, Entry, CallEntry, IsCall, IsBlock
<1>3. /\ f \in ThreadState /\ f.ci = L(q).ci /\ f.status = L(q).status /\ f.nC = k
      /\ f.nny = L(q).nny + y
  <2>1. y \in Int
    OBVIOUS
  <2>2. k \in Int
    BY <1>1
  <2> DEFINE a == [L(q) EXCEPT !.nC = k]
             z == L(q).nny + y
             b == [a EXCEPT !.nny = z]
  <2>3. z \in Int /\ a.nny = L(q).nny
    BY <1>1, <2>1 DEF ThreadState
  <2> HIDE DEF y, k
  <2>4. a \in ThreadState /\ a.ci = L(q).ci /\ a.status = L(q).status /\ a.nC = k
    BY <1>1, <2>2 DEF ThreadState
  <2>5. f = b
    BY <2>3
  <2> HIDE DEF a, z
  <2>6. b \in ThreadState /\ b.ci = a.ci /\ b.status = a.status /\ b.nC = a.nC /\ b.nny = z
    BY <2>3, <2>4 DEF ThreadState
  <2> HIDE DEF f, b
  <2> QED BY <2>4, <2>5, <2>6 DEF z
<1> HIDE DEF e, f
<1>4. /\ ds \in Seq(Entry) /\ Len(ds) = Len(q.cs) + 1 /\ ds[Len(q.cs) + 1] = e
      /\ \A m \in 1 .. Len(q.cs) : ds[m] = q.cs[m]
  BY <1>1, <1>2, AppendFacts
<1>5. LuaDCall(q, by, noyield, kind) =
        IF k = MaxC THEN raised ELSE IF k >= MaxC + ExtraC THEN thrown ELSE Precall(called, kind, fresh)
  <2>1. WithL(q, f).cs = q.cs
    BY DEF WithL, CallsState
  <2> QED BY <2>1 DEF LuaDCall, f, e, CEntry
<1> HIDE DEF ds
<1>6. Replaced(q, called, f, ds, q.mode)
  BY <1>1, <1>3, <1>4, Setting
<1> HIDE DEF called
<1>7. /\ called \in CallsState /\ called.th \in [Threads -> ThreadState] /\ called.th[q.run] = f
      /\ \A u \in Threads \ {q.run} : called.th[u] = q.th[u]
      /\ called.cs = ds /\ called.run = q.run /\ called.mode = q.mode /\ L(called) = f
  BY <1>6 DEF Replaced
<1>8. Core(called.th, ds, q.run) /\ ds[Len(ds)] = e /\ Len(f.ci) \in CallDepths(ds, q.run)
  <2>1. NewCall(q.th[q.run].ci, q.cs, e)
    BY <1>1 DEF e
  <2>2. Stacked(q.th, q.cs, q.run, e, called.th, ds)
    BY <1>1, <1>3, <1>4, <1>7 DEF Stacked
  <2>3. /\ called.th[q.run].nC = q.th[q.run].nC + 1
        /\ called.th[q.run].nny = q.th[q.run].nny + (IF e.noyield THEN 1 ELSE 0)
    BY <1>1, <1>2, <1>3, <1>7
  <2>4. q.th[q.run].nC < MaxC + ExtraC
    BY <1>1
  <2>5. called.th[q.run] = f
    BY <1>7
  <2>6. /\ Core(called.th, ds, q.run) /\ ds[Len(ds)] = e
        /\ Len(called.th[q.run].ci) \in CallDepths(ds, q.run)
    BY <1>1, <2>1, <2>2, <2>3, <2>4, CallPushed
  <2> QED BY <2>5, <2>6
<1>9. Depth(called) = Depth(q)
  BY <1>1, <1>3, <1>7 DEF Depth
<1>10. ASSUME k = MaxC PROVE Good(raised)
  <2>1. "error" \in Modes
    BY DEF Modes
  <2>2. Replaced(called, raised, f, ds, "error")
    BY <1>1, <1>3, <1>4, <1>7, <2>1, Setting
  <2> HIDE DEF raised
  <2>3. /\ raised \in CallsState /\ raised.th \in [Threads -> ThreadState] /\ raised.th[q.run] = f
        /\ \A u \in Threads \ {q.run} : raised.th[u] = called.th[u]
        /\ raised.cs = ds /\ raised.run = q.run /\ raised.mode = "error" /\ L(raised) = f
    BY <1>7, <2>2 DEF Replaced
  <2>4. Core(raised.th, ds, q.run)
    BY <1>7, <1>8, <2>3, Unframed
  <2>5. ModeOK(raised)
    BY <1>1, <1>3, <1>10, <2>3 DEF ModeOK
  <2> QED BY <1>2, <1>8, <2>3, <2>4, <2>5, GoodCore
<1>11. Good(thrown)
  <2>1. "throw" \in Modes /\ "err" \in {"run", "err"}
    BY DEF Modes
  <2>2. Replaced(called, thrown, f, ds, "throw")
    BY <1>1, <1>3, <1>4, <1>7, <2>1, Setting
  <2> HIDE DEF thrown
  <2>3. /\ thrown \in CallsState /\ thrown.th \in [Threads -> ThreadState] /\ thrown.th[q.run] = f
        /\ \A u \in Threads \ {q.run} : thrown.th[u] = called.th[u]
        /\ thrown.cs = ds /\ thrown.run = q.run /\ thrown.mode = "throw" /\ L(thrown) = f
    BY <1>7, <2>2 DEF Replaced
  <2>4. Core(thrown.th, ds, q.run)
    BY <1>7, <1>8, <2>3, Unframed
  <2>5. ModeOK(thrown)
    BY <2>3 DEF ModeOK
  <2> QED BY <1>2, <1>8, <2>3, <2>4, <2>5, GoodCore
<1>12. ASSUME ~(k >= MaxC + ExtraC) PROVE Good(Precall(called, kind, fresh))
  <2>1. L(called).nC < MaxC + ExtraC
    BY <1>1, <1>3, <1>7, <1>12
  <2>2. IsCall(ds[Len(ds)]) /\ ds[Len(ds)].depth = Depth(called) /\ ~IsBlock(ds[Len(ds)])
    BY <1>2, <1>8, <1>9
  <2>3. Depth(called) \in CallDepths(ds, q.run)
    BY <1>1, <1>3, <1>8, <1>9
  <2>4. kind \in LuaKinds /\ ~fresh => FALSE
    OBVIOUS
  <2>5. fresh \in BOOLEAN
    OBVIOUS
  <2> HIDE DEF fresh
  <2> QED BY <1>7, <1>8, <2>1, <2>2, <2>3, <2>4, <2>5, PrecallGood
<1> QED
  BY <1>5, <1>10, <1>11, <1>12

\* What holds as long as the main program has not ended.
LEMMA InMode ==
  ASSUME NEW q, Good(q), q.mode # "end"
  PROVE  /\ q \in CallsState /\ Core(q.th, q.cs, q.run) /\ ~IsBlock(q.cs[Len(q.cs)]) /\ ModeOK(q)
         /\ q.mode # "throw" => L(q).nC < MaxC + ExtraC
         /\ MaxC \in Nat /\ ExtraC \in Nat /\ MaxC + ExtraC \in Nat /\ MaxC < MaxC + ExtraC
         /\ Len(q.cs) \in Nat /\ Len(q.cs) \in 1 .. Len(q.cs) /\ q.cs[Len(q.cs)].th = q.run
         /\ EntryOK(q.th, q.cs, Len(q.cs)) /\ q.cs[Len(q.cs)].depth \in Nat /\ q.cs[Len(q.cs)].depth <= Depth(q)
         /\ IsCall(q.cs[Len(q.cs)]) \/ IsResume(q.cs[Len(q.cs)])
<1>1. q \in CallsState /\ Core(q.th, q.cs, q.run) /\ ~IsBlock(q.cs[Len(q.cs)]) /\ ModeOK(q)
  BY DEF Good, Struct
<1>2. /\ Len(q.cs) \in Nat /\ Len(q.cs) \in 1 .. Len(q.cs) /\ q.cs[Len(q.cs)].th = q.run
      /\ EntryOK(q.th, q.cs, Len(q.cs)) /\ q.cs \in Seq(Entry)
  BY <1>1, LenProperties DEF Core
<1>3. /\ q.cs[Len(q.cs)].depth \in Nat
      /\ IsCall(q.cs[Len(q.cs)]) \/ IsBlock(q.cs[Len(q.cs)]) \/ IsResume(q.cs[Len(q.cs)])
  BY <1>2, EntryFields
<1>4. q.cs[Len(q.cs)].depth <= Depth(q)
  BY <1>2 DEF EntryOK, Depth, L
<1>5. q.mode # "throw" => L(q).nC < MaxC + ExtraC
  BY <1>1 DEF ModeOK
<1>6. MaxC \in Nat /\ ExtraC \in Nat /\ MaxC + ExtraC \in Nat /\ MaxC < MaxC + ExtraC
  BY CallsAssumption
<1> QED
  BY <1>1, <1>2, <1>3, <1>4, <1>5, <1>6

\* Where a function runs, the C calls of its thread were made below it.
LEMMA AboveCalls ==
  ASSUME NEW th, NEW cs, NEW run, Core(th, cs, run), ~IsBlock(cs[Len(cs)]), NEW j \in Nat,
         IsCall(cs[Len(cs)]) => cs[Len(cs)].depth < j
  PROVE  \A d \in CallDepths(cs, run) : d < j
<1> DEFINE n == Len(cs)
<1>1. /\ cs \in Seq(Entry) /\ n \in Nat /\ n \in 1 .. Len(cs) /\ cs[n].th = run
      /\ \A m \in 1 .. Len(cs) : EntryOK(th, cs, m)
  BY LenProperties DEF Core
<1> SUFFICES ASSUME NEW d \in CallDepths(cs, run) PROVE d < j
  OBVIOUS
<1>2. PICK m \in 1 .. Len(cs) : IsCall(cs[m]) /\ cs[m].th = run /\ cs[m].depth = d
  BY DEF CallDepths
<1>3. cs[m].depth <= cs[n].depth /\ cs[m].depth \in Nat /\ cs[n].depth \in Nat
  <2>1. cs[m].depth <= cs[n].depth
    BY <1>1, <1>2, Below
  <2> QED BY <1>1, <2>1, EntryFields
<1>4. IsCall(cs[n])
  <2>1. CASE m = n
    BY <1>2, <2>1
  <2>2. CASE m # n
    <3>1. m \in 1 .. (n - 1)
      BY <1>1, <2>2
    <3>2. ~IsResume(cs[n])
      BY <1>1, <1>2, <3>1 DEF EntryOK, ResumeOK
    <3> QED BY <1>1, <3>2, EntryFields
  <2> QED BY <2>1, <2>2
<1> QED
  BY <1>2, <1>3, <1>4

\* Its fields.
LEMMA CEntryFields ==
  ASSUME NEW q \in CallsState, NEW by \in {"api", "meta", "handler"}, NEW noyield \in BOOLEAN
  PROVE  LET e == CEntry(q, by, noyield) IN
           e \in CallEntry /\ e.th = q.run /\ e.by = by /\ e.noyield = noyield /\ e.depth = Depth(q)
<1>1. q.run \in Threads /\ Depth(q) \in Nat
  BY Fields
<1> QED
  BY <1>1 DEF CEntry, CallEntry

\* An error is raised.
LEMMA GotoGood ==
  ASSUME NEW q, Good(q), q.mode # "end", NEW m \in {"error", "throw"},
         q.mode # "throw"
  PROVE  Good(Goto(q, m))
<1>1. /\ q \in CallsState /\ Core(q.th, q.cs, q.run) /\ ~IsBlock(q.cs[Len(q.cs)])
      /\ L(q).nC < MaxC + ExtraC
  BY InMode
<1> DEFINE r == Goto(q, m)
<1>2. r \in CallsState /\ r.th = q.th /\ r.cs = q.cs /\ r.run = q.run /\ r.mode = m
  BY <1>1 DEF CallsState, Goto
<1>3. L(r) = L(q)
  BY <1>2 DEF L
<1> HIDE DEF r
<1>4. ModeOK(r)
  BY <1>1, <1>2, <1>3 DEF ModeOK
<1> QED
  BY <1>1, <1>2, <1>4, GoodCore DEF r

\* OP_CALL.
LEMMA LuaCallGood ==
  ASSUME NEW q, Good(q), q.mode = "lua", NEW kind \in {"lua"} \cup CKinds
  PROVE  Good(Precall(q, kind, FALSE))
<1>1. /\ q \in CallsState /\ Core(q.th, q.cs, q.run) /\ ~IsBlock(q.cs[Len(q.cs)]) /\ ModeOK(q)
      /\ L(q).nC < MaxC + ExtraC
  BY InMode
<1>2. Placed(q.cs, Len(q.cs), L(q).ci, Depth(q)) /\ IsLua(TopCI(q)) /\ Depth(q) \in Nat
  BY <1>1, Fields DEF ModeOK
<1>3. Depth(q) > 0 /\ (IsCall(q.cs[Len(q.cs)]) => q.cs[Len(q.cs)].depth < Depth(q))
  BY <1>2 DEF Placed
<1>4. \A d \in CallDepths(q.cs, q.run) : d < Depth(q)
  BY <1>1, <1>2, <1>3, AboveCalls
<1>5. Depth(q) \notin CallDepths(q.cs, q.run)
  BY <1>2, <1>4
<1>6. kind \in Kinds /\ FALSE \in BOOLEAN
  BY DEF Kinds, LuaKinds
<1> QED
  BY <1>1, <1>2, <1>3, <1>5, <1>6, PrecallGood

\* A metamethod is called.
LEMMA MetaGood ==
  ASSUME NEW q, Good(q), q.mode = "lua"
  PROVE  Good(LuaDCall(q, "meta", FALSE, "lua"))
<1>1. /\ q \in CallsState /\ Core(q.th, q.cs, q.run) /\ ~IsBlock(q.cs[Len(q.cs)]) /\ ModeOK(q)
      /\ L(q).nC < MaxC + ExtraC /\ q.cs[Len(q.cs)].th = q.run
  BY InMode
<1>2. /\ Placed(q.cs, Len(q.cs), L(q).ci, Depth(q)) /\ IsLua(TopCI(q)) /\ Depth(q) \in Nat
      /\ Depth(q) = Len(L(q).ci) /\ TopCI(q) = L(q).ci[Depth(q)]
  BY <1>1, Fields DEF ModeOK
<1>3. Depth(q) > 0
  BY <1>2 DEF Placed
<1> DEFINE e == CEntry(q, "meta", FALSE)
<1>4. e \in CallEntry /\ e.th = q.run /\ e.by = "meta" /\ e.noyield = FALSE /\ e.depth = Depth(q)
  BY <1>1, CEntryFields
<1> HIDE DEF e
<1>5. NewCall(L(q).ci, q.cs, e)
  BY <1>1, <1>2, <1>3, <1>4 DEF NewCall
<1>6. "lua" \in Kinds
  BY DEF Kinds, LuaKinds
<1> QED
  BY <1>1, <1>5, <1>6, DCallGood DEF e

\* luaG_errormsg: the message handler is called, whatever failed.
LEMMA ErrorGood ==
  ASSUME NEW q, Good(q), q.mode = "error"
  PROVE  Good(ErrorMsg(q))
<1>1. /\ q \in CallsState /\ Core(q.th, q.cs, q.run) /\ ~IsBlock(q.cs[Len(q.cs)]) /\ ModeOK(q)
      /\ L(q).nC < MaxC + ExtraC /\ q.cs[Len(q.cs)].th = q.run
  BY InMode
<1>2. CASE L(q).errfunc # 0
  <2> DEFINE e == CEntry(q, "handler", TRUE)
  <2>1. e \in CallEntry /\ e.th = q.run /\ e.by = "handler" /\ e.noyield = TRUE /\ e.depth = Depth(q)
    BY <1>1, CEntryFields
  <2> HIDE DEF e
  <2>2. Depth(q) = Len(L(q).ci)
    BY <1>1, Fields
  <2>3. NewCall(L(q).ci, q.cs, e)
    BY <1>1, <2>1, <2>2 DEF NewCall
  <2>4. "handler" \in Kinds
    BY DEF Kinds, LuaKinds
  <2> QED BY <1>1, <1>2, <2>3, <2>4, DCallGood DEF e, ErrorMsg
<1>3. CASE L(q).errfunc = 0
  <2> DEFINE r == [q EXCEPT !.mode = "throw", !.err = "run"]
  <2>1. r \in CallsState /\ r.th = q.th /\ r.cs = q.cs /\ r.run = q.run /\ r.mode = "throw"
    BY <1>1 DEF CallsState
  <2> HIDE DEF r
  <2>2. ModeOK(r)
    BY <2>1 DEF ModeOK
  <2> QED BY <1>1, <1>3, <2>1, <2>2, GoodCore DEF r, ErrorMsg
<1> QED
  BY <1>2, <1>3

-----------------------------------------------------------------------------
(* Protected calls.                                                        *)

\* A C function calls back through the API.
LEMMA ApiGood ==
  ASSUME NEW q \in CallsState, Core(q.th, q.cs, q.run), L(q).nC < MaxC + ExtraC,
         NEW noyield \in BOOLEAN, NEW kind \in Kinds,
         Depth(q) > 0, ~IsLua(TopCI(q)),
         IsBlock(q.cs[Len(q.cs)]) <=> Catches(TopCI(q)),
         IsBlock(q.cs[Len(q.cs)]) => noyield /\ Len(q.cs) > 1 /\ q.cs[Len(q.cs)].depth = Depth(q),
         NEW b, b = (IF IsBlock(q.cs[Len(q.cs)]) THEN Len(q.cs) - 1 ELSE Len(q.cs)), Placed(q.cs, b, L(q).ci, Depth(q))
  PROVE  Good(LuaDCall(q, "api", noyield, kind))
<1>1. q.cs[Len(q.cs)].th = q.run /\ Depth(q) = Len(L(q).ci) /\ TopCI(q) = L(q).ci[Depth(q)]
  BY Fields DEF Core
<1> DEFINE e == CEntry(q, "api", noyield)
<1>2. e \in CallEntry /\ e.th = q.run /\ e.by = "api" /\ e.noyield = noyield /\ e.depth = Depth(q)
  BY CEntryFields
<1> HIDE DEF e
<1>3. NewCall(L(q).ci, q.cs, e)
  BY <1>1, <1>2 DEF NewCall
<1> QED
  BY <1>3, DCallGood DEF e

\* r is q but for marks of the running function and the message handler.
Like(q, r) ==
  /\ r \in CallsState /\ r.cs = q.cs /\ r.run = q.run /\ r.mode = q.mode /\ Core(r.th, r.cs, r.run)
  /\ Depth(r) = Depth(q) /\ L(r).nC = L(q).nC /\ L(r).nny = L(q).nny
  /\ \A j \in 1 .. Depth(q) : L(r).ci[j].kind = L(q).ci[j].kind

\* A frame is where it was.
LEMMA LikePlaced ==
  ASSUME NEW q \in CallsState, NEW r, Like(q, r), NEW n, Placed(q.cs, n, L(q).ci, Depth(q))
  PROVE  Placed(r.cs, n, L(r).ci, Depth(r)) /\ (IsLua(TopCI(r)) <=> IsLua(TopCI(q))) /\ Depth(r) > 0
<1>1. /\ L(q).ci \in Seq(CallInfos) /\ Depth(q) = Len(L(q).ci) /\ Depth(q) \in Nat
      /\ TopCI(q) = L(q).ci[Depth(q)]
  BY Fields
<1>2. /\ L(r).ci \in Seq(CallInfos) /\ Depth(r) = Len(L(r).ci) /\ TopCI(r) = L(r).ci[Depth(r)]
      /\ Depth(r) = Depth(q) /\ r.cs[n] = q.cs[n]
      /\ \A j \in 1 .. Depth(q) : L(r).ci[j].kind = L(q).ci[j].kind
  BY Fields DEF Like
<1>3. Depth(q) \in 1 .. Depth(q) /\ Depth(q) > 0
  BY <1>1 DEF Placed
<1>4. Placed(r.cs, n, L(r).ci, Depth(q))
  <2> DEFINE k == Depth(q)
             ci == L(q).ci
             di == L(r).ci
  <2>1. /\ k \in Nat /\ k = Len(ci) /\ k = Len(di) /\ k > 0 /\ r.cs[n] = q.cs[n]
        /\ \A j \in 1 .. k : di[j].kind = ci[j].kind
    BY <1>1, <1>2, <1>3
  <2>2. Placed(q.cs, n, ci, k)
    OBVIOUS
  <2> HIDE DEF k, ci, di
  <2>3. Placed(r.cs, n, di, k)
    <3>1. di[k].kind = ci[k].kind /\ (k # 1 => di[k - 1].kind = ci[k - 1].kind)
      BY <2>1
    <3> QED BY <2>1, <2>2, <3>1 DEF Placed, IsLua
  <2> QED BY <2>3 DEF k, di
<1> QED
  BY <1>1, <1>2, <1>3, <1>4 DEF IsLua

\* Setting the handler, and marking the running function, changes no more.
LEMMA ErrLike ==
  ASSUME NEW q \in CallsState, Core(q.th, q.cs, q.run), NEW x \in Nat
  PROVE  LET r == WithL(q, [L(q) EXCEPT !.errfunc = x]) IN
           Like(q, r) /\ TopCI(r) = TopCI(q) /\ \A u \in Threads \ {q.run} : r.th[u] = q.th[u]
<1> DEFINE f == [L(q) EXCEPT !.errfunc = x]
           r == WithL(q, f)
<1>1. /\ L(q) \in ThreadState /\ L(q) = q.th[q.run] /\ q.run \in Threads /\ q.cs \in Seq(Entry) /\ q.mode \in Modes
  BY Fields
<1>2. f \in ThreadState /\ f.ci = L(q).ci /\ f.nC = L(q).nC /\ f.nny = L(q).nny /\ f.status = L(q).status
  BY <1>1 DEF ThreadState
<1> HIDE DEF f
<1>3. Replaced(q, r, f, q.cs, q.mode)
  BY <1>1, <1>2, Setting
<1> HIDE DEF r
<1>4. /\ r \in CallsState /\ r.th \in [Threads -> ThreadState] /\ r.th[q.run] = f
      /\ \A u \in Threads \ {q.run} : r.th[u] = q.th[u]
      /\ r.cs = q.cs /\ r.run = q.run /\ r.mode = q.mode /\ L(r) = f
  BY <1>3 DEF Replaced
<1>5. Core(r.th, q.cs, q.run)
  BY <1>1, <1>2, <1>4, Unframed
<1>6. Like(q, r) /\ TopCI(r) = TopCI(q)
  BY <1>2, <1>4, <1>5 DEF Like, Depth, TopCI
<1> QED
  BY <1>4, <1>6 DEF r, f

LEMMA TopLike ==
  ASSUME NEW q \in CallsState, Core(q.th, q.cs, q.run), q.cs[Len(q.cs)].depth < Depth(q),
         NEW c \in CallInfos, c.kind = TopCI(q).kind,
         c.fresh = TopCI(q).fresh \/ (c.fresh /\ CallDepths(q.cs, q.run) = {})
  PROVE  LET r == SetTop(q, c) IN Like(q, r) /\ TopCI(r) = c
<1> DEFINE ci == L(q).ci
           k == Depth(q)
           di == [ci EXCEPT ![k] = c]
           f == [L(q) EXCEPT !.ci = di]
           r == WithL(q, f)
           D == CallDepths(q.cs, q.run)
           n == Len(q.cs)
<1>1. /\ L(q) \in ThreadState /\ L(q) = q.th[q.run] /\ q.run \in Threads /\ q.cs \in Seq(Entry) /\ q.mode \in Modes
      /\ ci \in Seq(CallInfos) /\ k = Len(ci) /\ k \in Nat /\ TopCI(q) = ci[k]
  BY Fields
<1>2. /\ ThreadOK(q.th, q.cs, q.run, q.run) /\ q.cs[n].depth \in Nat
  <2>1. n \in 1 .. Len(q.cs)
    BY LenProperties DEF Core
  <2> QED BY <1>1, <2>1, EntryFields DEF Core
<1>3. k > 0 /\ k \in 1 .. Len(ci)
  BY <1>1, <1>2
<1>4. /\ di \in Seq(CallInfos) /\ Len(di) = k /\ di[k] = c
      /\ \A j \in 1 .. k : j # k => di[j] = ci[j]
  <2>1. ci \in [1 .. k -> CallInfos]
    BY <1>1, LenProperties
  <2>2. di \in [1 .. k -> CallInfos]
    BY <2>1
  <2>3. di \in Seq(CallInfos) /\ Len(di) = k
    <3>1. k \in Nat
      BY <1>1
    <3>2. di \in Seq(CallInfos)
      <4> HIDE DEF di
      <4> QED BY ONLY <2>2, <3>1, SeqDef
    <3> HIDE DEF di
    <3> QED BY <2>2, <3>1, <3>2, LenProperties
  <2> QED BY <1>1, <1>3, <2>1, <2>3
<1> HIDE DEF di
<1>5. f \in ThreadState /\ f.ci = di /\ f.nC = L(q).nC /\ f.nny = L(q).nny /\ f.status = L(q).status
  BY <1>1, <1>4 DEF ThreadState
<1> HIDE DEF f
<1>6. Replaced(q, r, f, q.cs, q.mode)
  BY <1>1, <1>5, Setting
<1>7. SetTop(q, c) = r
  BY <1>1 DEF SetTop, WithL, f, di, CallsState, ThreadState
<1> HIDE DEF r
<1>8. /\ r \in CallsState /\ r.th \in [Threads -> ThreadState] /\ r.th[q.run] = f
      /\ \A u \in Threads \ {q.run} : r.th[u] = q.th[u]
      /\ r.cs = q.cs /\ r.run = q.run /\ r.mode = q.mode /\ L(r) = f
  BY <1>6 DEF Replaced
<1>9. \A j \in 1 .. k : di[j].kind = ci[j].kind
  BY <1>1, <1>4
<1>10. FramesOK(di, D)
  <2>1. FramesOK(ci, D)
    BY <1>1, <1>2 DEF ThreadOK
  <2>2. ASSUME NEW j \in 1 .. k, IsLua(di[j])
        PROVE  /\ di[j].fresh => j - 1 \in D \/ \A d \in D : d >= j
               /\ ~di[j].fresh => j - 1 \notin D /\ j > 1 /\ IsLua(di[j - 1])
    <3>1. /\ ci[j].fresh => j - 1 \in D \/ \A d \in D : d >= j
          /\ ~ci[j].fresh => j - 1 \notin D /\ j > 1 /\ IsLua(ci[j - 1])
      BY <1>1, <1>9, <2>1, <2>2 DEF FramesOK, IsLua
    <3>2. j > 1 => di[j - 1].kind = ci[j - 1].kind
      <4>1. j > 1 => j - 1 \in 1 .. k
        BY <1>1
      <4> QED BY <1>9, <4>1
    <3>3. di[j].fresh = ci[j].fresh \/ (di[j].fresh /\ D = {})
      BY <1>1, <1>4
    <3> QED BY <3>1, <3>2, <3>3 DEF IsLua
  <2> QED BY <1>4, <2>2 DEF FramesOK
<1>11. Core(r.th, q.cs, q.run)
  <2>1. Reframed(q.th, q.cs, q.run, r.th)
    <3>1. q.cs[n].depth <= Len(di) /\ \A j \in 1 .. q.cs[n].depth : j \in 1 .. k /\ j # k
      <4>1. q.cs[n].depth < k /\ q.cs[n].depth \in Nat /\ k \in Nat /\ Len(di) = k
        BY <1>1, <1>2, <1>4
      <4> QED BY ONLY <4>1
    <3>2. \A j \in 1 .. q.cs[n].depth : di[j].kind = ci[j].kind /\ di[j].yp = ci[j].yp
      BY <1>4, <3>1
    <3> QED BY <1>1, <1>5, <1>8, <1>10, <3>1, <3>2 DEF Reframed
  <2> QED BY <2>1, FramesChanged
<1>12. Depth(r) = k /\ TopCI(r) = c
  BY <1>4, <1>5, <1>8 DEF Depth, TopCI
<1>13. Like(q, r)
  BY <1>5, <1>8, <1>9, <1>11, <1>12 DEF Like
<1> QED
  BY <1>7, <1>12, <1>13

\* What holds where a C function runs.
LEMMA InC ==
  ASSUME NEW q, Good(q), q.mode \in {"cstart", "cdone"}
  PROVE  /\ q \in CallsState /\ Core(q.th, q.cs, q.run) /\ ~IsBlock(q.cs[Len(q.cs)])
         /\ L(q).nC < MaxC + ExtraC /\ Placed(q.cs, Len(q.cs), L(q).ci, Depth(q)) /\ ~IsLua(TopCI(q))
         /\ Depth(q) > 0 /\ TopCI(q) \in CallInfos /\ TopCI(q).kind \in CKinds
         /\ q.cs[Len(q.cs)].depth < Depth(q)
         /\ q.mode = "cstart" => ~TopCI(q).yp
<1>1. /\ q \in CallsState /\ Core(q.th, q.cs, q.run) /\ ~IsBlock(q.cs[Len(q.cs)]) /\ ModeOK(q)
      /\ L(q).nC < MaxC + ExtraC /\ q.cs[Len(q.cs)].depth \in Nat
      /\ IsCall(q.cs[Len(q.cs)]) \/ IsResume(q.cs[Len(q.cs)])
      /\ EntryOK(q.th, q.cs, Len(q.cs))
  BY InMode
<1>2. /\ Placed(q.cs, Len(q.cs), L(q).ci, Depth(q)) /\ ~IsLua(TopCI(q))
      /\ q.mode = "cstart" => ~TopCI(q).yp
  BY <1>1 DEF ModeOK
<1>3. Depth(q) > 0
  BY <1>2 DEF Placed
<1>4. TopCI(q) \in CallInfos
  BY <1>1, <1>3, Fields
<1>5. TopCI(q).kind \in CKinds
  BY <1>2, <1>4 DEF CallInfos, IsLua
<1>6. q.cs[Len(q.cs)].depth < Depth(q)
  <2>1. IsResume(q.cs[Len(q.cs)]) => q.cs[Len(q.cs)].depth = 0
    BY <1>1 DEF EntryOK, ResumeOK
  <2> QED BY <1>1, <1>2, <1>3, <2>1 DEF Placed
<1> QED
  BY <1>1, <1>2, <1>3, <1>4, <1>5, <1>6

\* The calls of table.sort, dofile and, with and without a block, pcall.
LEMMA SortGood ==
  ASSUME NEW q, Good(q), q.mode = "cstart", TopCI(q).kind \notin {"pcall", "xpcall"},
         NEW kind \in Kinds
  PROVE  Good(LuaDCall(q, "api", TRUE, kind))
<1>1. /\ q \in CallsState /\ Core(q.th, q.cs, q.run) /\ ~IsBlock(q.cs[Len(q.cs)])
      /\ L(q).nC < MaxC + ExtraC /\ Placed(q.cs, Len(q.cs), L(q).ci, Depth(q)) /\ ~IsLua(TopCI(q))
      /\ Depth(q) > 0
  BY InC
<1>2. ~Catches(TopCI(q))
  BY DEF Catches
<1> QED
  BY <1>1, <1>2, ApiGood

LEMMA DofileGood ==
  ASSUME NEW q, Good(q), q.mode = "cstart", TopCI(q).kind \notin {"pcall", "xpcall"},
         NEW kind \in Kinds
  PROVE  Good(LuaDCall(SetTop(q, [TopCI(q) EXCEPT !.k = TRUE]), "api", FALSE, kind))
<1> DEFINE c == [TopCI(q) EXCEPT !.k = TRUE]
           r == SetTop(q, c)
<1>1. /\ q \in CallsState /\ Core(q.th, q.cs, q.run) /\ ~IsBlock(q.cs[Len(q.cs)])
      /\ L(q).nC < MaxC + ExtraC /\ Placed(q.cs, Len(q.cs), L(q).ci, Depth(q)) /\ ~IsLua(TopCI(q))
      /\ TopCI(q) \in CallInfos /\ q.cs[Len(q.cs)].depth < Depth(q)
  BY InC
<1>2. c \in CallInfos /\ c.kind = TopCI(q).kind /\ c.fresh = TopCI(q).fresh
  BY <1>1 DEF CallInfos
<1> HIDE DEF c
<1>3. Like(q, r) /\ TopCI(r) = c
  BY <1>1, <1>2, TopLike
<1> HIDE DEF r
<1>4. Placed(r.cs, Len(q.cs), L(r).ci, Depth(r)) /\ ~IsLua(TopCI(r)) /\ Depth(r) > 0
  BY <1>1, <1>3, LikePlaced
<1>5. r \in CallsState /\ r.cs = q.cs /\ Core(r.th, r.cs, r.run) /\ L(r).nC < MaxC + ExtraC
  BY <1>1, <1>3 DEF Like
<1>6. ~Catches(TopCI(r))
  BY <1>2, <1>3 DEF Catches
<1>7. Good(LuaDCall(r, "api", FALSE, kind))
  BY <1>1, <1>4, <1>5, <1>6, ApiGood
<1> QED
  BY <1>7 DEF r, c

LEMMA ContinuedGood ==
  ASSUME NEW q, Good(q), q.mode = "cstart", NEW kind \in Kinds, NEW handler \in Nat
  PROVE  Good(ContinuedPcall(q, kind, handler))
<1> DEFINE c == [TopCI(q) EXCEPT !.k = TRUE, !.yp = TRUE, !.olderr = L(q).errfunc]
           r == SetTop(q, c)
           t == WithL(r, [L(r) EXCEPT !.errfunc = handler])
<1>1. /\ q \in CallsState /\ Core(q.th, q.cs, q.run) /\ ~IsBlock(q.cs[Len(q.cs)])
      /\ L(q).nC < MaxC + ExtraC /\ Placed(q.cs, Len(q.cs), L(q).ci, Depth(q)) /\ ~IsLua(TopCI(q))
      /\ TopCI(q) \in CallInfos /\ q.cs[Len(q.cs)].depth < Depth(q)
  BY InC
<1>2. c \in CallInfos /\ c.kind = TopCI(q).kind /\ c.fresh = TopCI(q).fresh /\ c.yp
  <2>1. L(q).errfunc \in Nat
    BY <1>1, Fields
  <2> QED BY <1>1, <2>1 DEF CallInfos
<1> HIDE DEF c
<1>3. Like(q, r) /\ TopCI(r) = c
  BY <1>1, <1>2, TopLike
<1> HIDE DEF r
<1>4. Placed(r.cs, Len(q.cs), L(r).ci, Depth(r)) /\ ~IsLua(TopCI(r)) /\ Depth(r) > 0
  BY <1>1, <1>3, LikePlaced
<1>5. r \in CallsState /\ r.cs = q.cs /\ Core(r.th, r.cs, r.run) /\ L(r).nC < MaxC + ExtraC
  BY <1>1, <1>3 DEF Like
<1>6. Like(r, t) /\ TopCI(t) = c
  BY <1>3, <1>5, ErrLike
<1> HIDE DEF t
<1>7. Placed(t.cs, Len(q.cs), L(t).ci, Depth(t)) /\ ~IsLua(TopCI(t)) /\ Depth(t) > 0
  BY <1>4, <1>5, <1>6, LikePlaced
<1>8. t \in CallsState /\ t.cs = q.cs /\ Core(t.th, t.cs, t.run) /\ L(t).nC < MaxC + ExtraC
  BY <1>5, <1>6 DEF Like
<1>9. ~Catches(TopCI(t))
  BY <1>2, <1>6 DEF Catches
<1>10. Good(LuaDCall(t, "api", FALSE, kind))
  BY <1>1, <1>7, <1>8, <1>9, ApiGood
<1> QED
  BY <1>10 DEF t, r, c, ContinuedPcall

LEMMA ConventionalGood ==
  ASSUME NEW q, Good(q), q.mode = "cstart", TopCI(q).kind \in {"pcall", "xpcall"},
         NEW kind \in Kinds, NEW handler \in Nat
  PROVE  Good(ConventionalPcall(q, kind, handler))
<1> DEFINE e == [what |-> "try", for |-> "pcall", th |-> q.run, nC |-> L(q).nC, nny |-> L(q).nny,
                 err |-> L(q).errfunc, depth |-> Depth(q), from |-> q.run]
           f == [L(q) EXCEPT !.errfunc = handler]
           ds == Append(q.cs, e)
           r == [WithL(q, f) EXCEPT !.cs = ds]
           n == Len(q.cs)
<1>1. /\ q \in CallsState /\ Core(q.th, q.cs, q.run) /\ ~IsBlock(q.cs[n])
      /\ L(q).nC < MaxC + ExtraC /\ Placed(q.cs, n, L(q).ci, Depth(q)) /\ ~IsLua(TopCI(q))
      /\ Depth(q) > 0 /\ ~TopCI(q).yp
  BY InC
<1>2. /\ L(q) \in ThreadState /\ L(q) = q.th[q.run] /\ q.run \in Threads /\ q.cs \in Seq(Entry) /\ q.mode \in Modes
      /\ Depth(q) = Len(L(q).ci) /\ Depth(q) \in Nat /\ L(q).nC \in Int /\ L(q).nny \in Int /\ L(q).errfunc \in Nat
      /\ n \in Nat /\ n >= 1 /\ n \in 1 .. n
  BY <1>1, Fields, LenProperties DEF Core
<1>3. /\ e \in TryEntry /\ e \in Entry /\ IsBlock(e) /\ e.th = q.run /\ e.depth = Depth(q) /\ e.nC = L(q).nC
      /\ e.nny = L(q).nny
  BY <1>2 DEF TryEntry, Entry, IsBlock
<1>4. f \in ThreadState /\ f.ci = L(q).ci /\ f.nC = L(q).nC /\ f.nny = L(q).nny /\ f.status = L(q).status
  BY <1>2 DEF ThreadState
<1> HIDE DEF e, f
<1>5. /\ ds \in Seq(Entry) /\ Len(ds) = n + 1 /\ ds[n + 1] = e /\ \A m \in 1 .. n : ds[m] = q.cs[m]
  BY <1>2, <1>3, AppendFacts
<1>6. ConventionalPcall(q, kind, handler) = LuaDCall(r, "api", TRUE, kind)
  <2>1. WithL(q, f).cs = q.cs
    BY <1>1 DEF WithL, CallsState
  <2> QED BY <2>1 DEF ConventionalPcall, f, e
<1> HIDE DEF ds
<1>7. Replaced(q, r, f, ds, q.mode)
  BY <1>1, <1>2, <1>4, <1>5, Setting
<1> HIDE DEF r
<1>8. /\ r \in CallsState /\ r.th \in [Threads -> ThreadState] /\ r.th[q.run] = f
      /\ \A u \in Threads \ {q.run} : r.th[u] = q.th[u]
      /\ r.cs = ds /\ r.run = q.run /\ L(r) = f
  BY <1>7 DEF Replaced
<1>9. Core(r.th, ds, q.run) /\ ds[Len(ds)] = e
  <2>1. Stacked(q.th, q.cs, q.run, e, r.th, ds)
    BY <1>2, <1>4, <1>5, <1>8 DEF Stacked
  <2> QED BY <1>1, <1>2, <1>3, <1>4, <1>8, <2>1, BlockPushed, SMTT(30)
<1>10. Depth(r) = Depth(q) /\ TopCI(r) = TopCI(q) /\ L(r).ci = L(q).ci /\ L(r).nC = L(q).nC
  BY <1>4, <1>8 DEF Depth, TopCI
<1>11. Catches(TopCI(r))
  BY <1>1, <1>10 DEF Catches
<1>12. Placed(ds, n, L(r).ci, Depth(r))
  BY <1>1, <1>2, <1>5, <1>10 DEF Placed
<1>13. n = Len(ds) - 1 /\ Len(ds) > 1
  BY <1>2, <1>5
<1>14. /\ IsBlock(r.cs[Len(r.cs)]) /\ r.cs[Len(r.cs)].depth = Depth(r) /\ Len(r.cs) > 1
       /\ Core(r.th, r.cs, r.run) /\ Placed(r.cs, n, L(r).ci, Depth(r)) /\ n = Len(r.cs) - 1
  BY <1>3, <1>8, <1>9, <1>10, <1>12, <1>13
<1> HIDE DEF n
<1>15. Good(LuaDCall(r, "api", TRUE, kind))
  BY <1>1, <1>8, <1>10, <1>11, <1>14, ApiGood
<1> QED
  BY <1>6, <1>15

-----------------------------------------------------------------------------
(* Returns.                                                                *)

\* r is q without the CallInfo of the running function.
Returned(q, r) ==
  /\ r \in CallsState /\ r.cs = q.cs /\ r.run = q.run /\ Core(r.th, r.cs, r.run)
  /\ Depth(r) = Depth(q) - 1 /\ L(r).nC = L(q).nC /\ L(r).nny = L(q).nny
  /\ \A j \in 1 .. Depth(r) : L(r).ci[j] = L(q).ci[j]
Without(q, mode, ok) ==
  [th |-> [q.th EXCEPT ![q.run] = [L(q) EXCEPT !.ci = Front(@)]], cs |-> q.cs, run |-> q.run, mode |-> mode,
   err |-> q.err, ok |-> ok]

\* The ways in which Calls drops a CallInfo are one.
LEMMA DropForms ==
  ASSUME NEW q \in CallsState
  PROVE  /\ [DropCI(q) EXCEPT !.ok = TRUE] = Without(q, q.mode, TRUE)
         /\ \A m \in Modes : Goto([DropCI(q) EXCEPT !.ok = TRUE], m) = Without(q, m, TRUE)
         /\ \A m \in Modes : Goto(DropCI(q), m) = Without(q, m, q.ok)
<1> DEFINE th == [q.th EXCEPT ![q.run] = [L(q) EXCEPT !.ci = Front(@)]]
           R(m, x) == [th |-> th, cs |-> q.cs, run |-> q.run, mode |-> m, err |-> q.err, ok |-> x]
           r == [DropCI(q) EXCEPT !.ok = TRUE]
<1>1. DropCI(q) = [q EXCEPT !.th = th]
  BY DEF DropCI, L, CallsState, ThreadState
<1>2. q = [th |-> q.th, cs |-> q.cs, run |-> q.run, mode |-> q.mode, err |-> q.err, ok |-> q.ok]
  BY DEF CallsState
<1>3. DropCI(q) = R(q.mode, q.ok)
  <2> HIDE DEF th
  <2>1. [q EXCEPT !.th = th] = R(q.mode, q.ok)
    BY <1>2
  <2> QED BY <1>1, <2>1
<1>4. r = R(q.mode, TRUE)
  <2> DEFINE d == DropCI(q)
  <2>1. d = R(q.mode, q.ok)
    BY <1>3
  <2> HIDE DEF d, th
  <2>2. ASSUME NEW x PROVE [d EXCEPT !.ok = x] = R(q.mode, x)
    BY <2>1
  <2>3. [d EXCEPT !.ok = TRUE] = R(q.mode, TRUE)
    BY <2>2, Zenon
  <2> QED BY <2>3 DEF d
<1>5. ASSUME NEW m \in Modes PROVE Goto(r, m) = R(m, TRUE)
  <2> HIDE DEF r, th
  <2>1. ASSUME NEW x, r = R(q.mode, x) PROVE Goto(r, m) = R(m, x)
    BY <2>1 DEF Goto
  <2> QED BY <1>4, <2>1, Zenon
<1>6. ASSUME NEW m \in Modes PROVE Goto(DropCI(q), m) = R(m, q.ok)
  <2> DEFINE d == DropCI(q)
  <2>1. d = R(q.mode, q.ok)
    BY <1>3
  <2> HIDE DEF d, th
  <2>2. Goto(d, m) = R(m, q.ok)
    BY <2>1 DEF Goto
  <2> QED BY <2>2 DEF d
<1> QED
  BY <1>4, <1>5, <1>6 DEF Without

\* Dropping the CallInfo of a function above all calls keeps Core.
LEMMA Returning ==
  ASSUME NEW q \in CallsState, Core(q.th, q.cs, q.run), q.cs[Len(q.cs)].depth < Depth(q),
         NEW mode \in Modes, NEW ok \in BOOLEAN
  PROVE  Returned(q, Without(q, mode, ok)) /\ Without(q, mode, ok).mode = mode
<1> DEFINE ci == L(q).ci
           k == Depth(q)
           di == Front(ci)
           f == [L(q) EXCEPT !.ci = di]
           r == Without(q, mode, ok)
           D == CallDepths(q.cs, q.run)
           n == Len(q.cs)
<1>1. /\ L(q) \in ThreadState /\ L(q) = q.th[q.run] /\ q.run \in Threads /\ q.cs \in Seq(Entry) /\ q.err \in {"run", "err"}
      /\ ci \in Seq(CallInfos) /\ k = Len(ci) /\ k \in Nat
  BY Fields
<1>2. ThreadOK(q.th, q.cs, q.run, q.run) /\ q.cs[n].depth \in Nat
  <2>1. n \in 1 .. Len(q.cs)
    BY LenProperties DEF Core
  <2> QED BY <1>1, <2>1, EntryFields DEF Core
<1>3. k > 0 /\ k - 1 \in Nat
  BY <1>1, <1>2
<1>4. di \in Seq(CallInfos) /\ Len(di) = k - 1 /\ \A j \in 1 .. (k - 1) : di[j] = ci[j]
  <2> HIDE DEF ci
  <2>1. di \in Seq(CallInfos) /\ Len(di) = Len(ci) - 1 /\ \A j \in 1 .. (Len(ci) - 1) : di[j] = ci[j]
    BY <1>1, <1>3, FrontFacts
  <2> QED BY <1>1, <2>1
<1> HIDE DEF di
<1>5. f \in ThreadState /\ f.ci = di /\ f.nC = L(q).nC /\ f.nny = L(q).nny /\ f.status = L(q).status
  BY <1>1, <1>4 DEF ThreadState
<1>6. Replaced(q, r, f, q.cs, mode)
  <2>1. r = [th |-> [q.th EXCEPT ![q.run] = f], cs |-> q.cs, run |-> q.run, mode |-> mode, err |-> q.err, ok |-> ok]
    BY DEF Without, di
  <2> HIDE DEF f, r
  <2> QED BY <1>1, <1>5, <2>1, Replacing
<1> HIDE DEF f, r
<1>7. /\ r \in CallsState /\ r.th \in [Threads -> ThreadState] /\ r.th[q.run] = f
      /\ \A u \in Threads \ {q.run} : r.th[u] = q.th[u]
      /\ r.cs = q.cs /\ r.run = q.run /\ r.mode = mode /\ L(r) = f
  BY <1>6 DEF Replaced
<1>8. FramesOK(di, D)
  <2>1. FramesOK(ci, D)
    BY <1>1, <1>2 DEF ThreadOK
  <2>2. Len(di) <= Len(ci) /\ \A j \in 1 .. Len(di) : di[j] = ci[j]
    <3> HIDE DEF ci, k
    <3> QED BY <1>1, <1>3, <1>4
  <2>3. \A j \in 1 .. Len(di) : di[j].kind = ci[j].kind /\ di[j].fresh = ci[j].fresh
    BY <2>2
  <2> HIDE DEF ci, D
  <2> QED BY <1>1, <1>4, <2>1, <2>2, <2>3, FramesCut
<1>9. Core(r.th, q.cs, q.run)
  <2>1. Reframed(q.th, q.cs, q.run, r.th)
    <3>1. q.cs[n].depth <= Len(di) /\ \A j \in 1 .. q.cs[n].depth : j \in 1 .. (k - 1)
      BY <1>1, <1>2, <1>3, <1>4, SMTT(30)
    <3>2. \A j \in 1 .. q.cs[n].depth : di[j].kind = ci[j].kind /\ di[j].yp = ci[j].yp
      BY <1>4, <3>1
    <3> QED BY <1>1, <1>5, <1>7, <1>8, <3>1, <3>2 DEF Reframed
  <2> QED BY <2>1, FramesChanged
<1>10. Depth(r) = k - 1 /\ \A j \in 1 .. Depth(r) : L(r).ci[j] = ci[j]
  BY <1>4, <1>5, <1>7 DEF Depth
<1>11. Returned(q, r)
  BY <1>5, <1>7, <1>9, <1>10 DEF Returned
<1> QED
  BY <1>7, <1>11 DEF r

\* What ends a luaD_call leaves, and what is left above it.
Ended(r, x) ==
  LET n == Len(r.cs) IN
  /\ x \in CallsState /\ x.run = r.run /\ L(x).ci = L(r).ci /\ Depth(x) = Depth(r) /\ TopCI(x) = TopCI(r)
  /\ Len(x.cs) = n - 1 /\ \A m \in 1 .. (n - 1) : x.cs[m] = r.cs[m]
  /\ Core(x.th, x.cs, x.run) /\ L(x).nC < MaxC + ExtraC

\* The return of a luaD_call gives back what it counted.
LEMMA EndCallEnds ==
  ASSUME NEW r \in CallsState, Core(r.th, r.cs, r.run), IsCall(r.cs[Len(r.cs)]),
         r.cs[Len(r.cs)].depth = Depth(r)
  PROVE  Ended(r, EndCall(r))
<1> DEFINE n == Len(r.cs)
           e == r.cs[n]
           y == IF e.noyield THEN 1 ELSE 0
           k == L(r).nC - 1
           f == [L(r) EXCEPT !.nC = @ - 1, !.nny = @ - y]
           ds == Front(r.cs)
           x == [WithL(r, f) EXCEPT !.cs = ds]
<1>1. /\ L(r) \in ThreadState /\ L(r) = r.th[r.run] /\ r.run \in Threads /\ r.cs \in Seq(Entry) /\ r.mode \in Modes
      /\ L(r).nC \in Int /\ L(r).nny \in Int /\ Depth(r) = Len(L(r).ci) /\ TopCI(r) = L(r).ci[Depth(r)]
  BY Fields
<1>2. /\ n \in Nat /\ n \in 1 .. Len(r.cs) /\ e.th = r.run /\ IsBlock(r.cs[1]) /\ IsCall(e)
      /\ L(r).nC <= MaxC + ExtraC /\ MaxC + ExtraC \in Nat
  BY <1>1, LenProperties, CallsAssumption DEF Core
<1>3. n > 1 /\ ~IsResume(e)
  BY <1>2 DEF IsBlock, IsResume, IsCall
<1>4. ds \in Seq(Entry) /\ Len(ds) = n - 1 /\ \A m \in 1 .. (n - 1) : ds[m] = r.cs[m]
  BY <1>1, <1>2, FrontFacts
<1>5. EndCall(r) = x
  <2>1. WithL(r, f).cs = r.cs
    BY DEF WithL, CallsState
  <2>2. Last(r.cs) = e
    BY DEF Last
  <2> QED BY <2>1, <2>2 DEF EndCall, PopC
<1>6. f \in ThreadState /\ f.ci = L(r).ci /\ f.status = L(r).status /\ f.nC = k /\ f.nny = L(r).nny - y
  <2>1. y \in Int /\ k \in Int
    BY <1>1
  <2> DEFINE a == [L(r) EXCEPT !.nC = k]
             z == L(r).nny - y
             b == [a EXCEPT !.nny = z]
  <2>2. z \in Int /\ a.nny = L(r).nny
    BY <1>1, <2>1 DEF ThreadState
  <2>3. a \in ThreadState /\ a.ci = L(r).ci /\ a.status = L(r).status /\ a.nC = k
    <3> HIDE DEF k, y
    <3> QED BY <1>1, <2>1 DEF ThreadState
  <2>4. f = b
    <3> HIDE DEF y
    <3> QED BY <1>1, <2>2
  <2> HIDE DEF a, z, y, k
  <2>5. b \in ThreadState /\ b.ci = a.ci /\ b.status = a.status /\ b.nC = a.nC /\ b.nny = z
    BY <2>2, <2>3 DEF ThreadState
  <2> HIDE DEF f, b
  <2> QED BY <2>3, <2>4, <2>5 DEF z
<1> HIDE DEF ds, f
<1>7. Replaced(r, x, f, ds, r.mode)
  BY <1>1, <1>4, <1>6, Setting
<1> HIDE DEF x
<1>8. /\ x \in CallsState /\ x.th \in [Threads -> ThreadState] /\ x.th[r.run] = f
      /\ \A u \in Threads \ {r.run} : x.th[u] = r.th[u]
      /\ x.cs = ds /\ x.run = r.run /\ L(x) = f
  BY <1>7 DEF Replaced
<1>9. Core(x.th, ds, r.run)
  <2>1. CutBelow(r.th, r.cs, r.run, n, x.th, ds)
    BY <1>2, <1>4, <1>8 DEF CutBelow
  <2>2. /\ x.th[r.run].ci = r.th[r.run].ci /\ x.th[r.run].status = r.th[r.run].status
        /\ x.th[r.run].nC = r.th[r.run].nC - 1
        /\ x.th[r.run].nny = r.th[r.run].nny - (IF e.noyield THEN 1 ELSE 0)
    BY <1>1, <1>6, <1>8
  <2>3. e.depth = Len(r.th[r.run].ci)
    BY <1>1
  <2> HIDE DEF n
  <2> QED BY <1>2, <1>3, <2>1, <2>2, <2>3, Popped DEF n
<1>10. Depth(x) = Depth(r) /\ TopCI(x) = TopCI(r) /\ L(x).nC < MaxC + ExtraC
  BY <1>1, <1>2, <1>6, <1>8 DEF Depth, TopCI
<1> QED
  BY <1>4, <1>5, <1>6, <1>8, <1>9, <1>10 DEF Ended

\* The end of a pcall or xpcall without error.
Resting(x) ==
  /\ x \in CallsState /\ Core(x.th, x.cs, x.run) /\ ~IsBlock(x.cs[Len(x.cs)])
  /\ Placed(x.cs, Len(x.cs), L(x).ci, Depth(x))

\* A function that may run goes on.
LEMMA RestingGood ==
  ASSUME NEW x, Resting(x), NEW mode \in {"lua", "cstart", "cdone"}, mode = "lua" <=> IsLua(TopCI(x)),
         mode = "cstart" => ~TopCI(x).yp, L(x).nC < MaxC + ExtraC
  PROVE  Good(Goto(x, mode))
<1> DEFINE r == Goto(x, mode)
<1>1. r \in CallsState /\ r.th = x.th /\ r.cs = x.cs /\ r.run = x.run /\ r.mode = mode
  BY DEF CallsState, Goto, Resting
<1>2. L(r) = L(x) /\ Depth(r) = Depth(x) /\ TopCI(r) = TopCI(x)
  BY <1>1 DEF L, Depth, TopCI
<1> HIDE DEF r
<1>3. ModeOK(r)
  BY <1>1, <1>2 DEF ModeOK, Resting
<1> QED
  BY <1>1, <1>3, GoodCore DEF r, Resting

\* lua_pcallk ends where a continuation would have ended it, or takes its block.
LEMMA EndContinued ==
  ASSUME NEW x, Resting(x), ~IsLua(TopCI(x)), TopCI(x).yp, L(x).nC < MaxC + ExtraC
  PROVE  Good(Goto(EndPcall(x), "cdone"))
<1> DEFINE c == TopCI(x)
           d == [c EXCEPT !.yp = FALSE]
           r == SetTop(x, d)
           t == WithL(r, [L(r) EXCEPT !.errfunc = c.olderr])
           n == Len(x.cs)
<1>1. /\ x \in CallsState /\ Core(x.th, x.cs, x.run) /\ ~IsBlock(x.cs[n]) /\ Placed(x.cs, n, L(x).ci, Depth(x))
  BY DEF Resting
<1>2. /\ Depth(x) > 0 /\ c \in CallInfos /\ Depth(x) \in Nat
  BY <1>1, Fields DEF Placed
<1>3. x.cs[n].depth < Depth(x)
  <2>1. n \in 1 .. Len(x.cs) /\ x.cs \in Seq(Entry) /\ EntryOK(x.th, x.cs, n)
    BY <1>1, LenProperties DEF Core
  <2>2. IsResume(x.cs[n]) => x.cs[n].depth = 0
    BY <2>1 DEF EntryOK, ResumeOK
  <2>3. IsCall(x.cs[n]) \/ IsResume(x.cs[n])
    BY <1>1, <2>1, EntryFields
  <2> QED BY <1>1, <1>2, <2>2, <2>3 DEF Placed
<1>4. d \in CallInfos /\ d.kind = c.kind /\ d.fresh = c.fresh /\ c.olderr \in Nat
  BY <1>2 DEF CallInfos
<1>5. EndPcall(x) = t
  BY DEF EndPcall
<1> HIDE DEF d, c
<1>6. Like(x, r) /\ TopCI(r) = d
  BY <1>1, <1>3, <1>4, TopLike DEF c
<1> HIDE DEF r
<1>7. r \in CallsState /\ Core(r.th, r.cs, r.run) /\ r.cs = x.cs /\ L(r).nC = L(x).nC
  BY <1>6 DEF Like
<1>8. Placed(r.cs, n, L(r).ci, Depth(r)) /\ ~IsLua(TopCI(r))
  BY <1>1, <1>6, LikePlaced DEF c
<1>9. Like(r, t) /\ TopCI(t) = TopCI(r)
  BY <1>4, <1>7, ErrLike
<1> HIDE DEF t
<1>10. Placed(t.cs, n, L(t).ci, Depth(t)) /\ ~IsLua(TopCI(t))
  BY <1>7, <1>8, <1>9, LikePlaced
<1>11. t \in CallsState /\ Core(t.th, t.cs, t.run) /\ t.cs = x.cs /\ L(t).nC = L(x).nC
  BY <1>7, <1>9 DEF Like
<1>12. Resting(t)
  BY <1>1, <1>10, <1>11 DEF Resting
<1> QED
  BY <1>5, <1>10, <1>11, <1>12, RestingGood

LEMMA EndConventional ==
  ASSUME NEW x \in CallsState, Core(x.th, x.cs, x.run), IsBlock(x.cs[Len(x.cs)]), Len(x.cs) > 1,
         Placed(x.cs, Len(x.cs) - 1, L(x).ci, Depth(x)), ~IsLua(TopCI(x)), ~TopCI(x).yp, L(x).nC < MaxC + ExtraC
  PROVE  Good(Goto(EndPcall(x), "cdone"))
<1> DEFINE n == Len(x.cs)
           e == x.cs[n]
           ds == Front(x.cs)
           f == [L(x) EXCEPT !.errfunc = e.err]
           t == [WithL(x, f) EXCEPT !.cs = ds]
<1>1. /\ L(x) \in ThreadState /\ L(x) = x.th[x.run] /\ x.run \in Threads /\ x.cs \in Seq(Entry) /\ x.mode \in Modes
      /\ L(x).nC \in Int /\ Depth(x) = Len(L(x).ci) /\ TopCI(x) = L(x).ci[Depth(x)]
  BY Fields
<1>2. /\ n \in Nat /\ n \in 1 .. Len(x.cs) /\ e.th = x.run /\ MaxC + ExtraC \in Nat
      /\ n - 1 \in 1 .. Len(x.cs) /\ EntryOK(x.th, x.cs, n - 1)
  BY <1>1, LenProperties, CallsAssumption DEF Core
<1>3. ~IsCall(e) /\ ~IsResume(e) /\ e.err \in Nat
  BY <1>1, <1>2, EntryFields
<1>4. ~IsBlock(x.cs[n - 1])
  <2>1. n - 1 < Len(x.cs) /\ n - 1 + 1 = n
    BY <1>2
  <2>2. IsBlock(x.cs[n - 1]) => Covered(x.cs, n - 1)
    BY <1>2 DEF EntryOK, BlockOK
  <2> QED BY <1>3, <2>1, <2>2 DEF Covered
<1>5. ds \in Seq(Entry) /\ Len(ds) = n - 1 /\ \A m \in 1 .. (n - 1) : ds[m] = x.cs[m]
  <2>1. Len(ds) = n - 1
    BY <1>1, <1>2, FrontFacts
  <2>2. ds \in Seq(Entry) /\ \A m \in 1 .. (n - 1) : ds[m] = x.cs[m]
    BY <1>1, FrontFacts
  <2> QED BY <2>1, <2>2
<1>6. EndPcall(x) = t
  <2>1. WithL(x, f).cs = x.cs
    BY DEF WithL, CallsState
  <2>2. Last(x.cs) = e
    BY DEF Last
  <2> QED BY <2>1, <2>2 DEF EndPcall, PopC
<1>7. f \in ThreadState /\ f.ci = L(x).ci /\ f.status = L(x).status /\ f.nC = L(x).nC /\ f.nny = L(x).nny
  BY <1>1, <1>3 DEF ThreadState
<1> HIDE DEF ds, f
<1>8. Replaced(x, t, f, ds, x.mode)
  BY <1>1, <1>5, <1>7, Setting
<1> HIDE DEF t
<1>9. /\ t \in CallsState /\ t.th \in [Threads -> ThreadState] /\ t.th[x.run] = f
      /\ \A u \in Threads \ {x.run} : t.th[u] = x.th[u]
      /\ t.cs = ds /\ t.run = x.run /\ L(t) = f
  BY <1>8 DEF Replaced
<1>10. Core(t.th, ds, x.run)
  <2>1. CutBelow(x.th, x.cs, x.run, n, t.th, ds)
    BY <1>2, <1>5, <1>9 DEF CutBelow
  <2>2. /\ t.th[x.run].ci = x.th[x.run].ci /\ t.th[x.run].status = x.th[x.run].status
        /\ t.th[x.run].nC = x.th[x.run].nC - 0
        /\ t.th[x.run].nny = x.th[x.run].nny - 0
    <3>1. x.th[x.run].nny \in Int /\ x.th[x.run].nC \in Int
      BY <1>1 DEF ThreadState
    <3> QED BY <1>1, <1>7, <1>9, <3>1
  <2> HIDE DEF n
  <2> QED BY <1>2, <1>3, <2>1, <2>2, Popped DEF n
<1>11. Depth(t) = Depth(x) /\ TopCI(t) = TopCI(x) /\ L(t).ci = L(x).ci /\ L(t).nC = L(x).nC
  BY <1>1, <1>7, <1>9 DEF Depth, TopCI
<1>12. Placed(t.cs, Len(t.cs), L(t).ci, Depth(t)) /\ ~IsBlock(t.cs[Len(t.cs)])
  <2>1. Len(t.cs) = n - 1 /\ t.cs[n - 1] = x.cs[n - 1]
    BY <1>2, <1>5, <1>9
  <2> QED BY <1>4, <1>11, <2>1 DEF Placed
<1>13. Resting(t)
  BY <1>9, <1>10, <1>12 DEF Resting
<1> QED
  BY <1>6, <1>11, <1>13, RestingGood

\* What goes on after a luaD_call has returned.
LEMMA ContinueGood ==
  ASSUME NEW r \in CallsState, Core(r.th, r.cs, r.run), IsCall(r.cs[Len(r.cs)]),
         r.cs[Len(r.cs)].depth = Depth(r)
  PROVE  Good(Continue(r))
<1> DEFINE n == Len(r.cs)
           e == r.cs[n]
           x == EndCall(r)
           ci == L(r).ci
           d == Depth(r)
           thrown == [x EXCEPT !.mode = "throw", !.err = "run"]
<1>1. /\ x \in CallsState /\ x.run = r.run /\ L(x).ci = ci /\ Depth(x) = d /\ TopCI(x) = TopCI(r)
      /\ Len(x.cs) = n - 1 /\ \A m \in 1 .. (n - 1) : x.cs[m] = r.cs[m]
      /\ Core(x.th, x.cs, x.run) /\ L(x).nC < MaxC + ExtraC
  BY EndCallEnds DEF Ended
<1> HIDE DEF x
<1>2. /\ r.cs \in Seq(Entry) /\ n \in Nat /\ n \in 1 .. Len(r.cs) /\ e.th = r.run /\ ci = r.th[e.th].ci
      /\ IsBlock(r.cs[1]) /\ \A m \in 1 .. n : EntryOK(r.th, r.cs, m)
      /\ d \in Nat /\ d = Len(ci) /\ TopCI(r) = ci[d] /\ ci \in Seq(CallInfos) /\ Len(x.cs) \in Nat
  BY <1>1, Fields, LenProperties DEF Core
<1>3. n > 1 /\ n - 1 \in 1 .. n /\ n - 1 \in Nat
  BY <1>2 DEF IsBlock, IsCall
<1>4. e.by \in {"api", "meta", "handler"} /\ EntryOK(r.th, r.cs, n)
  BY <1>2, EntryFields
<1>5. IsBlock(r.cs[n - 1]) => e.by = "api"
  <2>1. IsBlock(r.cs[n - 1]) => Covered(r.cs, n - 1)
    BY <1>2, <1>3 DEF EntryOK, BlockOK
  <2>2. n - 1 < Len(r.cs) /\ n - 1 + 1 = n
    BY <1>2, <1>3
  <2> QED BY <2>1, <2>2 DEF Covered
<1>6. x.cs[Len(x.cs)] = r.cs[n - 1]
  BY <1>1, <1>3
<1>7. ASSUME NEW j, Placed(r.cs, j, ci, d), j \in 1 .. (n - 1) PROVE Placed(x.cs, j, L(x).ci, Depth(x))
  BY <1>1, <1>7 DEF Placed
<1>8. Len(x.cs) = n - 1 /\ n - 1 \in 1 .. (n - 1)
  BY <1>1, <1>3
<1>9. CASE e.by = "handler"
  <2>1. Continue(r) = thrown
    BY <1>9 DEF Continue, Last, x
  <2>2. thrown \in CallsState /\ thrown.th = x.th /\ thrown.cs = x.cs /\ thrown.run = x.run /\ thrown.mode = "throw"
    BY <1>1 DEF CallsState
  <2> HIDE DEF thrown
  <2>3. ModeOK(thrown)
    BY <2>2 DEF ModeOK
  <2>4. ~IsBlock(thrown.cs[Len(thrown.cs)])
    BY <1>5, <1>6, <1>9, <2>2
  <2> QED BY <1>1, <2>1, <2>2, <2>3, <2>4, GoodCore
<1>10. CASE e.by = "meta"
  <2>1. Continue(r) = Goto(x, "lua")
    BY <1>10 DEF Continue, Last, x
  <2>2. IsLua(ci[d]) /\ Placed(r.cs, n - 1, ci, d)
    BY <1>2, <1>4, <1>10 DEF EntryOK, MetaOK
  <2>3. Resting(x)
    BY <1>1, <1>5, <1>6, <1>7, <1>8, <1>10, <2>2 DEF Resting
  <2>4. IsLua(TopCI(x))
    BY <1>1, <1>2, <2>2
  <2> QED BY <1>1, <2>1, <2>3, <2>4, RestingGood
<1>11. CASE e.by = "api" /\ d = 0
  <2> DEFINE y == Goto(x, "end")
  <2>1. Continue(r) = y
    BY <1>1, <1>11 DEF Continue, Last, x
  <2>2. y \in CallsState /\ y.th = x.th /\ y.cs = x.cs /\ y.run = x.run /\ y.mode = "end"
    BY <1>1 DEF CallsState, Goto
  <2> HIDE DEF y
  <2>3. Matching(y)
    BY <1>1, <2>2, CoreMatches
  <2> QED BY <2>1, <2>2, <2>3 DEF Good
<1>12. CASE e.by = "api" /\ d > 0
  <2>1. /\ ~IsLua(ci[d]) /\ (IsBlock(r.cs[n - 1]) <=> Catches(ci[d]))
        /\ IsBlock(r.cs[n - 1]) => n > 2
        /\ Placed(r.cs, IF IsBlock(r.cs[n - 1]) THEN n - 2 ELSE n - 1, ci, d)
    BY <1>2, <1>4, <1>12 DEF EntryOK, ApiOK
  <2>2. TopCI(x) = ci[d] /\ ci[d] \in CallInfos
    BY <1>1, <1>2, <1>12, Fields
  <2>3. CASE ~IsBlock(r.cs[n - 1])
    <3>1. Resting(x)
      BY <1>1, <1>6, <1>7, <1>8, <2>1, <2>3 DEF Resting
    <3>2. CASE TopCI(x).kind \in {"pcall", "xpcall"}
      <4>1. Continue(r) = Goto(EndPcall(x), "cdone")
        BY <1>1, <1>12, <3>2 DEF Continue, Last, x
      <4>2. TopCI(x).yp
        BY <2>1, <2>2, <2>3, <3>2 DEF Catches
      <4> QED BY <1>1, <2>1, <2>2, <3>1, <4>1, <4>2, EndContinued
    <3>3. CASE TopCI(x).kind \notin {"pcall", "xpcall"}
      <4>1. Continue(r) = Goto(x, "cdone")
        BY <1>1, <1>12, <3>3 DEF Continue, Last, x
      <4> QED BY <1>1, <2>1, <2>2, <3>1, <4>1, RestingGood
    <3> QED BY <3>2, <3>3
  <2>4. CASE IsBlock(r.cs[n - 1])
    <3>1. TopCI(x).kind \in {"pcall", "xpcall"} /\ ~TopCI(x).yp
      BY <2>1, <2>2, <2>4 DEF Catches
    <3>2. Continue(r) = Goto(EndPcall(x), "cdone")
      BY <1>1, <1>12, <3>1 DEF Continue, Last, x
    <3>3. n > 2 /\ n - 2 \in 1 .. (n - 1) /\ Len(x.cs) - 1 = n - 2 /\ Len(x.cs) > 1
      BY <1>2, <1>8, <2>1, <2>4
    <3>4. Placed(x.cs, Len(x.cs) - 1, L(x).ci, Depth(x))
      BY <1>7, <2>1, <2>4, <3>3
    <3>5. IsBlock(x.cs[Len(x.cs)])
      BY <1>6, <2>4
    <3> QED BY <1>1, <2>1, <2>2, <3>1, <3>2, <3>3, <3>4, <3>5, EndConventional
  <2> QED BY <2>3, <2>4
<1> QED
  BY <1>2, <1>4, <1>9, <1>10, <1>11, <1>12

\* What the return of a function leaves, whatever goes on next.
LEMMA Left ==
  ASSUME NEW q, Good(q), q.mode \in {"lua", "cdone"}
  PROVE  LET r == [DropCI(q) EXCEPT !.ok = TRUE]
             n == Len(q.cs) IN
           /\ q \in CallsState /\ Core(q.th, q.cs, q.run) /\ ~IsBlock(q.cs[n])
           /\ IsCall(q.cs[n]) \/ IsResume(q.cs[n])
           /\ Placed(q.cs, n, L(q).ci, Depth(q)) /\ Depth(q) \in Nat /\ Depth(q) > 0 /\ q.cs[n].depth \in Nat
           /\ q.cs[n].depth < Depth(q) /\ q.cs[n].th = q.run /\ n \in 1 .. Len(q.cs)
           /\ Returned(q, r) /\ r.mode = q.mode /\ L(r).nC < MaxC + ExtraC
           /\ \A m \in Modes : Goto(r, m) = Without(q, m, TRUE)
           /\ r = Goto(r, q.mode)
<1> DEFINE r == [DropCI(q) EXCEPT !.ok = TRUE]
           n == Len(q.cs)
<1>1. /\ q \in CallsState /\ Core(q.th, q.cs, q.run) /\ ~IsBlock(q.cs[n]) /\ ModeOK(q)
      /\ L(q).nC < MaxC + ExtraC /\ n \in 1 .. Len(q.cs) /\ q.cs[n].th = q.run
      /\ IsCall(q.cs[n]) \/ IsResume(q.cs[n])
      /\ EntryOK(q.th, q.cs, n) /\ q.cs[n].depth \in Nat
  BY InMode
<1>2. Placed(q.cs, n, L(q).ci, Depth(q)) /\ Depth(q) \in Nat /\ q.mode \in Modes
  BY <1>1, Fields DEF ModeOK, Modes
<1>3. Depth(q) > 0
  BY <1>2 DEF Placed
<1>4. q.cs[n].depth < Depth(q)
  <2>1. IsResume(q.cs[n]) => q.cs[n].depth = 0
    BY <1>1 DEF EntryOK, ResumeOK
  <2> QED BY <1>1, <1>2, <1>3, <2>1 DEF Placed
<1>5. r = Without(q, q.mode, TRUE) /\ \A m \in Modes : Goto(r, m) = Without(q, m, TRUE)
  BY <1>1, DropForms
<1> HIDE DEF r
<1>6. Returned(q, r) /\ r.mode = q.mode
  BY <1>1, <1>2, <1>4, <1>5, Returning
<1>7. r = Goto(r, q.mode)
  BY <1>2, <1>5
<1>8. L(r).nC < MaxC + ExtraC
  BY <1>1, <1>6 DEF Returned
<1> QED
  BY <1>1, <1>2, <1>3, <1>4, <1>5, <1>6, <1>7, <1>8 DEF r

\* A Lua function returns to the loop that called it, or a C function to one.
LEMMA BackInLua ==
  ASSUME NEW q \in CallsState, NEW r, Returned(q, r), ~IsBlock(q.cs[Len(q.cs)]), L(r).nC < MaxC + ExtraC,
         NEW k, k = Depth(q), k \in Nat, k > 1, q.cs[Len(q.cs)].depth \in Nat,
         IsCall(q.cs[Len(q.cs)]) => q.cs[Len(q.cs)].depth < k - 1,
         IsLua(L(q).ci[k - 1])
  PROVE  Good(Goto(r, "lua"))
<1>1. /\ r \in CallsState /\ r.cs = q.cs /\ r.run = q.run /\ Core(r.th, r.cs, r.run)
      /\ Depth(r) = k - 1 /\ \A j \in 1 .. Depth(r) : L(r).ci[j] = L(q).ci[j]
  BY DEF Returned
<1>2. Depth(r) = Len(L(r).ci) /\ TopCI(r) = L(r).ci[Depth(r)] /\ k - 1 \in 1 .. (k - 1)
  BY <1>1, Fields
<1>3. TopCI(r) = L(q).ci[k - 1]
  BY <1>1, <1>2
<1>4. Placed(r.cs, Len(r.cs), L(r).ci, Depth(r))
  BY <1>1, <1>2, <1>3 DEF Placed
<1>5. Resting(r)
  BY <1>1, <1>4 DEF Resting
<1> QED
  BY <1>3, <1>5, RestingGood

\* The last function of a coroutine, or what unroll called, returns to unroll.
LEMMA BackInUnroll ==
  ASSUME NEW q \in CallsState, NEW r, Returned(q, r), IsResume(q.cs[Len(q.cs)]), L(r).nC < MaxC + ExtraC
  PROVE  Good(Goto(r, "unroll"))
<1> DEFINE y == Goto(r, "unroll")
<1>1. r \in CallsState /\ r.cs = q.cs /\ r.run = q.run /\ Core(r.th, r.cs, r.run)
  BY DEF Returned
<1>2. y \in CallsState /\ y.th = r.th /\ y.cs = r.cs /\ y.run = r.run /\ y.mode = "unroll"
  BY <1>1 DEF CallsState, Goto
<1>3. L(y) = L(r)
  BY <1>2 DEF L
<1> HIDE DEF y
<1>4. ModeOK(y)
  BY <1>1, <1>2, <1>3 DEF ModeOK
<1>5. ~IsBlock(y.cs[Len(y.cs)])
  BY <1>1, <1>2 DEF IsBlock, IsResume
<1> QED
  BY <1>1, <1>2, <1>4, <1>5, GoodCore DEF y

\* OP_RETURN.
LEMMA LuaReturnGood ==
  ASSUME NEW q, Good(q), q.mode = "lua",
         NEW r, r = [DropCI(q) EXCEPT !.ok = TRUE]
  PROVE  Good(IF ~TopCI(q).fresh THEN r
              ELSE IF Top(q.cs).what = "call" THEN Continue(r) ELSE Goto(r, "unroll"))
<1> DEFINE n == Len(q.cs)
           k == Depth(q)
           ci == L(q).ci
           D == CallDepths(q.cs, q.run)
<1>1. /\ q \in CallsState /\ Core(q.th, q.cs, q.run) /\ ~IsBlock(q.cs[n])
      /\ IsCall(q.cs[n]) \/ IsResume(q.cs[n])
      /\ Placed(q.cs, n, ci, k) /\ k \in Nat /\ k > 0 /\ q.cs[n].depth \in Nat
      /\ q.cs[n].depth < k /\ q.cs[n].th = q.run /\ n \in 1 .. Len(q.cs)
      /\ Returned(q, r) /\ L(r).nC < MaxC + ExtraC /\ r = Goto(r, "lua")
  BY Left
<1>2. TopCI(q) = ci[k] /\ k = Len(ci) /\ L(q) = q.th[q.run] /\ q.run \in Threads /\ q.cs \in Seq(Entry)
  BY <1>1, Fields
<1>3. /\ IsLua(ci[k]) /\ k \in 1 .. Len(ci)
      /\ ci[k].fresh => k - 1 \in D \/ \A d \in D : d >= k
      /\ ~ci[k].fresh => k - 1 \notin D /\ k > 1 /\ IsLua(ci[k - 1])
  <2>1. FramesOK(ci, D)
    BY <1>1, <1>2 DEF Core, ThreadOK
  <2>2. IsLua(ci[k])
    BY <1>1, <1>2, InMode DEF ModeOK
  <2>3. k \in 1 .. Len(ci)
    BY <1>1, <1>2
  <2> HIDE DEF k, ci, D
  <2> QED BY <2>1, <2>2, <2>3 DEF FramesOK
<1>4. IsCall(q.cs[n]) => q.cs[n].depth \in D
  BY <1>1 DEF CallDepths
<1>5. \A d \in D : d < q.cs[n].depth + 1
  <2>1. IsCall(q.cs[n]) => q.cs[n].depth < q.cs[n].depth + 1
    BY <1>1
  <2>2. q.cs[n].depth + 1 \in Nat
    BY <1>1
  <2> QED BY <1>1, <2>1, <2>2, AboveCalls
<1>6. q.cs # << >> /\ Top(q.cs) = q.cs[n]
  BY <1>1, <1>2 DEF Top, Last
<1>7. /\ r \in CallsState /\ r.cs = q.cs /\ r.run = q.run /\ Core(r.th, r.cs, r.run) /\ Depth(r) = k - 1
  BY <1>1 DEF Returned
<1>8. CASE ~ci[k].fresh
  <2>1. IsCall(q.cs[n]) => q.cs[n].depth < k - 1
    BY <1>1, <1>3, <1>4, <1>8
  <2>2. k > 1 /\ IsLua(ci[k - 1])
    BY <1>3, <1>8
  <2>3. Good(Goto(r, "lua"))
    <3> HIDE DEF k
    <3> QED BY <1>1, <2>1, <2>2, BackInLua DEF k
  <2> QED BY <1>1, <1>2, <1>8, <2>3
<1>9. CASE ci[k].fresh /\ IsCall(q.cs[n])
  <2>1. k - 1 \in D
    BY <1>1, <1>3, <1>4, <1>9
  <2>2. q.cs[n].depth = k - 1
    <3>1. k - 1 < q.cs[n].depth + 1
      BY <1>5, <2>1
    <3> HIDE DEF k, D
    <3> QED BY <1>1, <3>1
  <2>3. Good(Continue(r))
    BY <1>7, <1>9, <2>2, ContinueGood
  <2> QED BY <1>2, <1>6, <1>9, <2>3 DEF IsCall
<1>10. CASE ci[k].fresh /\ ~IsCall(q.cs[n])
  <2>1. Good(Goto(r, "unroll"))
    BY <1>1, <1>10, BackInUnroll
  <2> QED BY <1>2, <1>6, <1>10, <2>1 DEF IsCall
<1> QED
  BY <1>8, <1>9, <1>10

\* luaD_poscall for a C function.
LEMMA CReturnGood ==
  ASSUME NEW q, Good(q), q.mode = "cdone",
         NEW r, r = [DropCI(q) EXCEPT !.ok = TRUE],
         NEW e, e = Top(q.cs)
  PROVE  Good(IF e.what = "call" /\ e.th = q.run /\ e.depth = Depth(r) THEN Continue(r)
              ELSE Goto(r, IF Depth(r) = 0 THEN "unroll" ELSE "lua"))
<1> DEFINE n == Len(q.cs)
           k == Depth(q)
           ci == L(q).ci
<1>1. /\ q \in CallsState /\ Core(q.th, q.cs, q.run) /\ ~IsBlock(q.cs[n])
      /\ IsCall(q.cs[n]) \/ IsResume(q.cs[n])
      /\ Placed(q.cs, n, ci, k) /\ k \in Nat /\ k > 0 /\ q.cs[n].depth \in Nat
      /\ q.cs[n].depth < k /\ q.cs[n].th = q.run /\ n \in 1 .. Len(q.cs)
      /\ Returned(q, r) /\ L(r).nC < MaxC + ExtraC
  BY Left
<1>2. TopCI(q) = ci[k] /\ ~IsLua(ci[k]) /\ q.cs \in Seq(Entry)
  BY <1>1, Fields, InMode DEF ModeOK
<1>3. e = q.cs[n]
  BY <1>1, <1>2 DEF Top, Last
<1>4. /\ r \in CallsState /\ r.cs = q.cs /\ r.run = q.run /\ Core(r.th, r.cs, r.run) /\ Depth(r) = k - 1
  BY <1>1 DEF Returned
<1>5. CASE IsCall(q.cs[n]) /\ q.cs[n].depth = k - 1
  <2>1. Good(Continue(r))
    BY <1>4, <1>5, ContinueGood
  <2> QED BY <1>1, <1>3, <1>4, <1>5, <2>1 DEF IsCall
<1>6. CASE ~(IsCall(q.cs[n]) /\ q.cs[n].depth = k - 1)
  <2>1. ~(e.what = "call" /\ e.th = q.run /\ e.depth = Depth(r))
    BY <1>3, <1>4, <1>6 DEF IsCall
  <2>2. CASE k = 1
    <3>1. IsResume(q.cs[n])
      BY <1>1, <1>6, <2>2
    <3>2. Good(Goto(r, "unroll"))
      BY <1>1, <3>1, BackInUnroll
    <3>3. Depth(r) = 0
      BY <1>4, <2>2
    <3> QED BY <2>1, <3>2, <3>3
  <2>3. CASE k # 1
    <3>1. k > 1 /\ Depth(r) # 0
      BY <1>1, <1>4, <2>3
    <3>2. IsCall(q.cs[n]) => q.cs[n].depth < k - 1
      <4> HIDE DEF k
      <4> QED BY <1>1, <1>6
    <3>3. IsLua(ci[k - 1])
      BY <1>1, <1>2, <1>6, <2>3 DEF Placed
    <3>4. Good(Goto(r, "lua"))
      <4> HIDE DEF k
      <4> QED BY <1>1, <3>1, <3>2, <3>3, BackInLua DEF k
    <3> QED BY <2>1, <3>1, <3>4
  <2> QED BY <2>2, <2>3
<1> QED
  BY <1>5, <1>6

-----------------------------------------------------------------------------
(* Errors.                                                                 *)

\* A nonempty set of naturals has a least member, a bounded one a greatest.
LEMMA LeastNat ==
  ASSUME NEW S, S \subseteq Nat, S # {}
  PROVE  \E m \in S : \A k \in S : m <= k
<1> DEFINE R == {p \in Nat \X Nat : p[1] < p[2]}
<1>1. IsWellFoundedOn(R, Nat)
  BY NatLessThanWellFounded DEF OpToRel
<1>2. \A x, y \in Nat : y < x => <<y, x>> \in R
  OBVIOUS
<1> HIDE DEF R
<1>3. PICK x \in S : \A y \in S : ~ (<<y, x>> \in R)
  BY <1>1, WFMin, Zenon
<1>4. \A y \in S : ~ (y < x)
  BY <1>2, <1>3, Zenon
<1> QED
  BY <1>4

LEMMA GreatestIn ==
  ASSUME NEW n \in Nat, NEW S, S \subseteq 1 .. n, S # {}
  PROVE  \E m \in S : \A k \in S : k <= m
<1> DEFINE T == {n - m : m \in S}
<1>1. T \subseteq Nat /\ T # {}
  <2>1. \A m \in S : n - m \in Nat
    OBVIOUS
  <2>2. T \subseteq Nat
    BY <2>1
  <2> QED BY <2>2
<1>2. PICK x \in T : \A y \in T : x <= y
  <2> HIDE DEF T
  <2> QED BY <1>1, LeastNat
<1>3. PICK m \in S : x = n - m
  OBVIOUS
<1>4. ASSUME NEW k \in S PROVE k <= m
  <2>1. n - k \in T
    OBVIOUS
  <2>2. x <= n - k
    BY <1>2, <2>1
  <2> HIDE DEF T
  <2> QED BY <1>3, <2>2
<1> QED
  BY <1>4

\* There is a protected block to go to, and only calls of the thread above it.
LEMMA BlockFound ==
  ASSUME NEW q \in CallsState, Core(q.th, q.cs, q.run), NEW b, b = BlockOf(q)
  PROVE  /\ b \in 1 .. Len(q.cs) /\ q.cs[b].th = q.run
         /\ IsBlock(q.cs[b]) \/ IsResume(q.cs[b])
         /\ \A m \in (b + 1) .. Len(q.cs) : IsCall(q.cs[m]) /\ q.cs[m].th = q.run
<1> DEFINE cs == q.cs
           n == Len(cs)
           S == {m \in 1 .. n : cs[m].what = "try" /\ cs[m].th = q.run}
           R == {m \in 1 .. n : cs[m].th = q.run}
<1>1. /\ cs \in Seq(Entry) /\ n \in Nat /\ n \in 1 .. n /\ cs[n].th = q.run /\ IsBlock(cs[1])
      /\ \A m \in 1 .. n : EntryOK(q.th, cs, m)
  BY LenProperties DEF Core
<1> HIDE DEF cs, n
<1>2. PICK f \in R : \A k \in R : f <= k
  <2>1. R \subseteq Nat /\ R # {}
    BY <1>1
  <2> HIDE DEF R
  <2> QED BY <2>1, LeastNat
<1>3. f \in S
  <2>1. f \in 1 .. n /\ cs[f].th = q.run
    OBVIOUS
  <2>2. CASE f = 1
    BY <1>1, <2>1, <2>2 DEF IsBlock
  <2>3. CASE f # 1
    <3>1. f - 1 \in 1 .. n /\ f - 1 < f
      BY <1>1, <2>1, <2>3
    <3>2. cs[f - 1].th # q.run
      BY <1>1, <1>2, <3>1
    <3>3. Ordered(cs, f)
      BY <1>1, <2>1 DEF EntryOK
    <3>4. IsResume(cs[f])
      BY <2>1, <2>3, <3>2, <3>3 DEF Ordered
    <3> QED BY <2>1, <3>4 DEF IsResume
  <2> QED BY <2>2, <2>3
<1>4. \E m \in S : \A k \in S : k <= m
  <2>1. S \subseteq 1 .. n /\ S # {}
    BY <1>3
  <2> HIDE DEF S
  <2> QED BY <1>1, <2>1, GreatestIn
<1>5. PICK g \in S : \A k \in S : k <= g
  BY <1>4
<1> DEFINE P(x) == /\ cs[x].what = "try" /\ cs[x].th = q.run
                   /\ \A m \in (x + 1) .. n : ~(cs[m].what = "try" /\ cs[m].th = q.run)
<1>6. g \in 1 .. n /\ P(g)
  <2>1. g \in 1 .. n /\ cs[g].what = "try" /\ cs[g].th = q.run
    OBVIOUS
  <2>2. ASSUME NEW m \in (g + 1) .. n, cs[m].what = "try", cs[m].th = q.run PROVE FALSE
    <3>1. m \in 1 .. n /\ m > g
      BY <1>1, <2>1
    <3>2. m \in S
      BY <2>2, <3>1
    <3>3. m <= g
      BY <1>5, <3>2
    <3> QED BY <2>1, <3>1, <3>3
  <2> QED BY <2>1, <2>2
<1>7. BlockOf(q) = CHOOSE x \in 1 .. n : P(x)
  BY DEF BlockOf, cs, n
<1> HIDE DEF P
<1>8. b \in 1 .. n /\ P(b)
  BY <1>6, <1>7
<1>9. IsBlock(cs[b]) \/ IsResume(cs[b])
  BY <1>1, <1>8, EntryFields DEF P, IsCall, n
<1>10. ASSUME NEW m \in (b + 1) .. n PROVE IsCall(cs[m]) /\ cs[m].th = q.run
  <2>1. m \in 1 .. n /\ n \in 1 .. n /\ b \in 1 .. n /\ m \in b .. n
    BY <1>1, <1>8
  <2>2. cs[m].th = q.run
    <3>1. cs[b].th = cs[n].th
      BY <1>1, <1>8 DEF P
    <3> QED BY <1>1, <2>1, <3>1, Below DEF n
  <2>3. cs[m].what # "try"
    BY <1>8, <2>2 DEF P
  <2>4. IsCall(cs[m]) \/ IsBlock(cs[m]) \/ IsResume(cs[m])
    BY <1>1, <2>1, EntryFields DEF n
  <2> QED BY <2>2, <2>3, <2>4 DEF IsBlock, IsResume
<1> QED
  BY <1>8, <1>9, <1>10 DEF P, cs, n

\* Frames fit without calls if they fit with some.
LEMMA FramesAlone ==
  ASSUME NEW ci, NEW D, FramesOK(ci, D)
  PROVE  FramesOK(ci, {})
  BY DEF FramesOK

\* r is q after a jump to the block b of its thread, which lost it.
Jumped(q, r, b) ==
  /\ r \in CallsState /\ r.run = q.run /\ r.err = q.err
  /\ \A u \in Threads \ {q.run} : r.th[u] = q.th[u]
  /\ b \in 1 .. Len(q.cs) /\ q.cs[b].th = q.run
  /\ Len(r.cs) = b - 1 /\ \A m \in 1 .. (b - 1) : r.cs[m] = q.cs[m]
  /\ L(r).ci = L(q).ci /\ L(r).status = L(q).status

\* lua_resume returns, with an error or not, to the thread that called it.
LEMMA BackGood ==
  ASSUME NEW q \in CallsState, Core(q.th, q.cs, q.run), NEW b, NEW r, Jumped(q, r, b),
         IsResume(q.cs[b]), NEW status \in {"ok", "yield", "dead"}, status # "ok" \/ L(q).ci = << >>,
         NEW good \in BOOLEAN
  PROVE  Good(BackTo(r, q.cs[b], status, good))
<1> DEFINE try == q.cs[b]
           k == L(r).nC - 1
           f == [L(r) EXCEPT !.nny = try.nny, !.nC = @ - 1, !.status = status]
           x == WithL(r, f)
           new == try.from
           m == IF ~good /\ Last(r.th[new].ci).kind = "wrap" THEN "error" ELSE "cdone"
           y == [x EXCEPT !.run = new, !.ok = good, !.mode = m]
<1>1. /\ L(r) \in ThreadState /\ L(r) = r.th[r.run] /\ r.run \in Threads /\ r.cs \in Seq(Entry) /\ r.mode \in Modes
      /\ r.th \in [Threads -> ThreadState] /\ L(r).nC \in Int /\ r.run = q.run /\ L(q) = q.th[q.run]
      /\ r.err \in {"run", "err"} /\ q.cs \in Seq(Entry) /\ r \in CallsState
  BY Fields DEF Jumped
<1>2. b \in 1 .. Len(q.cs) /\ try.nny \in Int /\ new \in Threads
  <2>1. b \in 1 .. Len(q.cs)
    BY DEF Jumped
  <2>2. ~IsCall(try)
    BY DEF IsCall, IsResume
  <2> QED BY <1>1, <2>1, <2>2, EntryFields
<1>3. BackTo(r, try, status, good) = y
  BY DEF BackTo
<1>4. f \in ThreadState /\ f.ci = L(r).ci /\ f.status = status
  <2>1. k \in Int
    BY <1>1
  <2> DEFINE a == [L(r) EXCEPT !.nny = try.nny]
             c == [a EXCEPT !.nC = k]
             d == [c EXCEPT !.status = status]
  <2>2. a \in ThreadState /\ a.ci = L(r).ci /\ a.nC = L(r).nC
    BY <1>1, <1>2 DEF ThreadState
  <2>3. f = d
    <3> HIDE DEF try
    <3> QED BY <2>2
  <2> HIDE DEF a, k
  <2>4. c \in ThreadState /\ c.ci = a.ci
    BY <2>1, <2>2 DEF ThreadState
  <2> HIDE DEF c
  <2>5. d \in ThreadState /\ d.ci = c.ci /\ d.status = status
    BY <2>4 DEF ThreadState
  <2> HIDE DEF d, f
  <2> QED BY <2>2, <2>3, <2>4, <2>5
<1> HIDE DEF f
<1>5. Replaced(r, x, f, r.cs, r.mode)
  BY <1>1, <1>4, Setting
<1> HIDE DEF x, new, m
<1>6. /\ x \in CallsState /\ x.th \in [Threads -> ThreadState] /\ x.th[r.run] = f
      /\ \A u \in Threads \ {r.run} : x.th[u] = r.th[u]
      /\ x.cs = r.cs /\ x.run = r.run
  BY <1>5 DEF Replaced
<1>7. m \in {"error", "cdone"}
  BY DEF m
<1>8. y \in CallsState /\ y.th = x.th /\ y.cs = x.cs /\ y.run = new /\ y.mode = m
  <2> DEFINE a == [x EXCEPT !.run = new]
             c == [a EXCEPT !.ok = good]
             d == [c EXCEPT !.mode = m]
  <2>1. a \in CallsState /\ a.th = x.th /\ a.cs = x.cs /\ a.run = new
    BY <1>2, <1>6 DEF CallsState
  <2>2. y = d
    OBVIOUS
  <2> HIDE DEF a
  <2>3. c \in CallsState /\ c.th = a.th /\ c.cs = a.cs /\ c.run = a.run
    BY <2>1 DEF CallsState
  <2> HIDE DEF c
  <2>4. d \in CallsState /\ d.th = c.th /\ d.cs = c.cs /\ d.run = c.run /\ d.mode = m
    BY <1>7, <2>3 DEF CallsState
  <2> HIDE DEF d, y
  <2> QED BY <2>1, <2>2, <2>3, <2>4
<1> HIDE DEF y
<1>9. CutBelow(q.th, q.cs, q.run, b, x.th, r.cs)
  BY <1>1, <1>6 DEF CutBelow, Jumped
<1>10. x.th[q.run].status # "ok" \/ x.th[q.run].ci = << >>
  BY <1>1, <1>4, <1>6 DEF Jumped
<1>11. FramesOK(x.th[q.run].ci, {})
  <2>1. ThreadOK(q.th, q.cs, q.run, q.run)
    BY <1>1 DEF Core
  <2>2. FramesOK(L(q).ci, {})
    BY <1>1, <2>1, FramesAlone DEF ThreadOK
  <2> QED BY <1>1, <1>4, <1>6, <2>2 DEF Jumped
<1>12. MaxC \in Nat /\ MaxC + ExtraC \in Nat /\ MaxC < MaxC + ExtraC
  BY CallsAssumption
<1>13. /\ Core(x.th, r.cs, new) /\ ~IsBlock(r.cs[Len(r.cs)]) /\ x.th[new].nC < MaxC
       /\ Placed(r.cs, Len(r.cs), x.th[new].ci, Len(x.th[new].ci)) /\ ~IsLua(x.th[new].ci[Len(x.th[new].ci)])
  BY <1>9, <1>10, <1>11, <1>12, CameBack, SMTT(30) DEF new
<1>14. L(y) = x.th[new] /\ Depth(y) = Len(x.th[new].ci) /\ TopCI(y) = x.th[new].ci[Len(x.th[new].ci)]
  BY <1>8 DEF L, Depth, TopCI
<1>15. ModeOK(y)
  <2>1. L(y).nC < MaxC + ExtraC
    <3>1. L(y).nC \in Int
      BY <1>8, Fields
    <3> QED BY <1>12, <1>13, <1>14, <3>1
  <2> QED BY <1>6, <1>7, <1>8, <1>13, <1>14, <2>1 DEF ModeOK
<1> QED
  BY <1>3, <1>6, <1>8, <1>13, <1>15, GoodCore

\* findpcall gives a frame, or 0.
LEMMA PcallFound ==
  ASSUME NEW f, f.ci \in Seq(CallInfos)
  PROVE  FindPcall(f) \in 0 .. Len(f.ci)
<1> DEFINE I == {i \in 1 .. Len(f.ci) : f.ci[i].yp}
<1>1. FindPcall(f) = IF I # {} THEN Max(I) ELSE 0
  BY DEF FindPcall, SelectLastInSeq
<1>2. I \subseteq 1 .. Len(f.ci) /\ Len(f.ci) \in Nat
  BY LenProperties
<1>3. I # {} => \E x \in I : \A y \in I : y <= x
  <2> HIDE DEF I
  <2> QED BY <1>2, GreatestIn
<1>4. I # {} => Max(I) \in I
  <2> HIDE DEF I
  <2>1. \A x, y \in I : y <= x <=> x >= y
    BY <1>2
  <2> QED BY <1>3, <2>1 DEF Max
<1> HIDE DEF I
<1>5. CASE I = {}
  BY <1>1, <1>2, <1>5
<1>6. CASE I # {}
  <2>1. FindPcall(f) \in 1 .. Len(f.ci)
    BY <1>1, <1>2, <1>4, <1>6
  <2> QED BY <1>2, <2>1
<1> QED
  BY <1>5, <1>6

\* The jump of luaD_throw and of lua_yieldk.
LEMMA Jumping ==
  ASSUME NEW q \in CallsState, Core(q.th, q.cs, q.run), NEW b \in 1 .. Len(q.cs), q.cs[b].th = q.run,
         NEW c \in Int,
         NEW r, r = [WithL(q, [L(q) EXCEPT !.nC = c]) EXCEPT !.cs = SubSeq(@, 1, b - 1)]
  PROVE  Jumped(q, r, b) /\ L(r).nC = c
<1> DEFINE f == [L(q) EXCEPT !.nC = c]
           ds == SubSeq(q.cs, 1, b - 1)
<1>1. /\ L(q) \in ThreadState /\ L(q) = q.th[q.run] /\ q.run \in Threads /\ q.cs \in Seq(Entry) /\ q.mode \in Modes
      /\ Len(q.cs) \in Nat
  BY Fields, LenProperties
<1>2. r = [WithL(q, f) EXCEPT !.cs = ds]
  <2>1. WithL(q, f).cs = q.cs
    BY DEF WithL, CallsState
  <2> QED BY <2>1
<1>3. f \in ThreadState /\ f.ci = L(q).ci /\ f.status = L(q).status /\ f.nC = c
  BY <1>1 DEF ThreadState
<1>4. ds \in Seq(Entry) /\ Len(ds) = b - 1 /\ \A m \in 1 .. (b - 1) : ds[m] = q.cs[m]
  <2>1. b - 1 \in 0 .. Len(q.cs)
    BY <1>1
  <2> QED BY <1>1, <2>1, CutFacts
<1> HIDE DEF f, ds
<1>5. Replaced(q, r, f, ds, q.mode)
  <2> DEFINE x == [WithL(q, f) EXCEPT !.cs = ds]
  <2>1. Replaced(q, x, f, ds, q.mode)
    BY ONLY q \in CallsState, <1>1, <1>3, <1>4, Setting
  <2>2. r = x
    BY <1>2
  <2> HIDE DEF x
  <2> QED BY <2>1, <2>2
<1>6. r.err = q.err
  BY <1>2 DEF WithL
<1> QED
  BY <1>3, <1>4, <1>5, <1>6 DEF Replaced, Jumped

\* luaD_shrinkstack changes only the mark of the extra stack.
LEMMA Shrunk ==
  ASSUME NEW f \in ThreadState
  PROVE  /\ Shrink(f) \in ThreadState /\ Shrink(f).ci = f.ci /\ Shrink(f).nC = f.nC /\ Shrink(f).nny = f.nny
         /\ Shrink(f).status = f.status
<1>1. (f.extra /\ Len(f.ci) > MaxStack) \in BOOLEAN
  OBVIOUS
<1> QED
  BY <1>1 DEF Shrink, ThreadState

\* The frames a thread keeps when it goes on at one of them.
CutTo(g, ci, d, nny) ==
  /\ g \in ThreadState /\ g.ci \in Seq(CallInfos) /\ Len(g.ci) = d /\ \A j \in 1 .. d : g.ci[j] = ci[j]
  /\ g.nny = nny

\* The thread, cut to d frames and with what the block or the frame saved.
AtFrame(h, d, nny, errfunc) == Shrink([h EXCEPT !.ci = SubSeq(@, 1, d), !.nny = nny, !.errfunc = errfunc])

\* Cutting gives that.
LEMMA Cutting ==
  ASSUME NEW h \in ThreadState, NEW d \in 0 .. Len(h.ci), NEW nny \in Int, NEW errfunc \in Nat,
         NEW g, g = AtFrame(h, d, nny, errfunc)
  PROVE  CutTo(g, h.ci, d, nny) /\ g.nC = h.nC /\ g.status = h.status
<1> DEFINE di == SubSeq(h.ci, 1, d)
           a == [h EXCEPT !.ci = di]
           c == [a EXCEPT !.nny = nny]
           f == [c EXCEPT !.errfunc = errfunc]
<1>1. h.ci \in Seq(CallInfos)
  BY DEF ThreadState
<1>2. di \in Seq(CallInfos) /\ Len(di) = d /\ \A j \in 1 .. d : di[j] = h.ci[j]
  BY <1>1, CutFacts
<1>3. g = Shrink(f)
  BY DEF AtFrame
<1> HIDE DEF di
<1>4. a \in ThreadState /\ a.ci = di /\ a.nC = h.nC /\ a.status = h.status
  BY <1>2 DEF ThreadState
<1> HIDE DEF a
<1>5. c \in ThreadState /\ c.ci = a.ci /\ c.nC = a.nC /\ c.status = a.status /\ c.nny = nny
  BY <1>4 DEF ThreadState
<1> HIDE DEF c
<1>6. f \in ThreadState /\ f.ci = c.ci /\ f.nC = c.nC /\ f.status = c.status /\ f.nny = c.nny
  BY <1>5 DEF ThreadState
<1> HIDE DEF f
<1>7. g \in ThreadState /\ g.ci = f.ci /\ g.nC = f.nC /\ g.nny = f.nny /\ g.status = f.status
  BY <1>3, <1>6, Shrunk
<1> QED
  BY <1>2, <1>4, <1>5, <1>6, <1>7 DEF CutTo

\* y is q after an error that a lua_pcall caught.
Caught(q, y, b) ==
  /\ y \in CallsState /\ y.run = q.run /\ \A u \in Threads \ {q.run} : y.th[u] = q.th[u]
  /\ b \in 1 .. Len(q.cs) /\ q.cs[b].th = q.run /\ IsBlock(q.cs[b])
  /\ \A m \in (b + 1) .. Len(q.cs) : q.cs[m].th = q.run
  /\ Len(y.cs) = b - 1 /\ \A m \in 1 .. (b - 1) : y.cs[m] = q.cs[m]
  /\ CutTo(L(y), L(q).ci, q.cs[b].depth, q.cs[b].nny)
  /\ L(y).nC = q.cs[b].nC /\ L(y).status = L(q).status

\* The caller of the lua_pcall whose block is at b.
LEMMA ApiAbove ==
  ASSUME NEW ci, NEW cs, NEW b \in Nat, ApiOK(ci, cs, b + 1), NEW d, cs[b + 1].depth = d, d > 0, IsBlock(cs[b])
  PROVE  d <= Len(ci) /\ ~IsLua(ci[d]) /\ b > 1 /\ Placed(cs, b - 1, ci, d)
<1>1. b + 1 - 1 = b /\ b + 1 - 2 = b - 1 /\ (b + 1 > 2 <=> b > 1)
  OBVIOUS
<1>2. IsBlock(cs[b + 1 - 1])
  BY <1>1
<1>3. d <= Len(ci) /\ ~IsLua(ci[d]) /\ b + 1 > 2
  BY <1>2 DEF ApiOK
<1>4. Placed(cs, b + 1 - 2, ci, d)
  BY <1>2 DEF ApiOK
<1> QED
  BY <1>1, <1>3, <1>4

\* The error reached the main program, which ends,
LEMMA CaughtEnd ==
  ASSUME NEW q \in CallsState, Matching(q), Core(q.th, q.cs, q.run),
         NEW b, NEW y, Caught(q, y, b), y.mode = "end"
  PROVE  Good(y)
<1> DEFINE n == Len(q.cs)
<1>1. /\ y \in CallsState /\ y.run = q.run /\ b \in 1 .. n /\ q.cs[b].th = q.run /\ Len(y.cs) = b - 1
      /\ \A m \in 1 .. (b - 1) : y.cs[m] = q.cs[m]
      /\ \A m \in (b + 1) .. n : q.cs[m].th = q.run
      /\ \A u \in Threads \ {q.run} : y.th[u] = q.th[u]
      /\ y.cs \in Seq(Entry) /\ q.cs \in Seq(Entry) /\ n \in Nat /\ b - 1 \in 0 .. n /\ q.run \in Threads
  BY Fields, LenProperties DEF Caught
<1>2. /\ EntryOK(q.th, q.cs, b) /\ b - 1 \in Nat /\ MaxC + ExtraC \in Nat
      /\ Count(q.cs, b, Counting) \in Nat /\ Count(q.cs, b - 1, Counting) \in Nat
      /\ Count(q.cs, b, Counting) = Count(q.cs, b - 1, Counting) + (IF q.cs[b] \in Counting THEN 1 ELSE 0)
      /\ Count(q.cs, b, Counting) <= MaxC + ExtraC
  <2>1. MaxC + ExtraC \in Nat
    BY CallsAssumption
  <2> DEFINE cs == q.cs
  <2>2. b \in 1 .. Len(cs) /\ cs[b].th = q.run /\ Core(q.th, cs, q.run)
    BY <1>1
  <2> HIDE DEF cs, n
  <2>3. EntryOK(q.th, cs, b) /\ b - 1 \in Nat /\ Count(cs, b, Counting) <= MaxC + ExtraC
    BY <2>1, <2>2, Dropped
  <2>4. b \in Nat
    BY <2>1, <2>2, Dropped
  <2>5. Count(cs, b, Counting) \in Nat /\ Count(cs, b - 1, Counting) \in Nat
    BY <2>3, <2>4, CountStep
  <2>6. Count(cs, b - 1 + 1, Counting) = Count(cs, b - 1, Counting) + (IF cs[b - 1 + 1] \in Counting THEN 1 ELSE 0)
    BY <2>3, CountAdd
  <2>7. b - 1 + 1 = b
    BY <2>4
  <2> QED BY <2>1, <2>3, <2>5, <2>6, <2>7 DEF cs
<1>3. \A E : Count(y.cs, b - 1, E) = Count(q.cs, b - 1, E)
  <2> DEFINE k == b - 1
             cs == q.cs
             ds == y.cs
  <2>1. k \in Nat /\ \A m \in 1 .. k : cs[m] = ds[m]
    BY <1>1, <1>2
  <2> HIDE DEF k, cs, ds
  <2>2. \A E : Count(ds, k, E) = Count(cs, k, E)
    BY <2>1, CountSame
  <2> QED BY <2>2 DEF k, cs, ds
<1>4. L(y).nny = Count(y.cs, Len(y.cs), NoYield(q.run)) + Base(q.run)
  <2>1. L(y).nny = q.cs[b].nny
    BY DEF Caught, CutTo
  <2>2. q.cs[b].nny = Count(q.cs, b - 1, NoYield(q.run)) + Base(q.run)
    BY <1>1, <1>2 DEF EntryOK, BlockOK, Caught
  <2> QED BY <1>1, <1>3, <2>1, <2>2
<1>5. ASSUME NEW t \in Threads, Status(y, t) \in {"running", "normal"}
      PROVE  y.th[t].nny = Count(y.cs, Len(y.cs), NoYield(t)) + Base(t)
  <2>1. CASE t = q.run
    BY <1>1, <1>4, <2>1 DEF L
  <2>2. CASE t # q.run
    <3>1. y.th[t] = q.th[t]
      BY <1>1, <2>2
    <3>2. Status(q, t) = Status(y, t)
      BY <1>1, <2>2, <3>1 DEF Status
    <3>3. q.th[t].nny = Count(q.cs, n, NoYield(t)) + Base(t)
      BY <1>5, <3>2 DEF Matching
    <3>4. Count(y.cs, Len(y.cs), NoYield(t)) = Count(q.cs, n, NoYield(t))
      <4>1. \A m \in (b - 1 + 1) .. Len(q.cs) : q.cs[m].th # t
        <5>1. \A m \in (b - 1 + 1) .. Len(q.cs) : m = b \/ m \in (b + 1) .. n
          BY <1>1
        <5> QED BY <1>1, <2>2, <5>1
      <4>2. \A m \in (b - 1 + 1) .. Len(y.cs) : y.cs[m].th # t
        BY <1>1
      <4>3. b - 1 <= Len(y.cs)
        BY <1>1
      <4> QED BY <1>1, <4>1, <4>2, <4>3, SameCounts
    <3> QED BY <3>1, <3>3, <3>4
  <2> QED BY <2>1, <2>2
<1>6. Count(y.cs, Len(y.cs), Counting) <= MaxC + ExtraC
  <2>1. /\ Count(q.cs, b, Counting) \in Nat /\ Count(q.cs, b - 1, Counting) \in Nat
        /\ Count(q.cs, b, Counting) = Count(q.cs, b - 1, Counting) + (IF q.cs[b] \in Counting THEN 1 ELSE 0)
        /\ Count(y.cs, b - 1, Counting) = Count(q.cs, b - 1, Counting)
    BY <1>2, <1>3
  <2> QED BY <1>1, <1>2, <2>1
<1> QED
  BY <1>1, <1>5, <1>6 DEF Good, Matching

\* or a lua_pcall, which returns it.
LEMMA CaughtGood ==
  ASSUME NEW q \in CallsState, Core(q.th, q.cs, q.run), ~IsBlock(q.cs[Len(q.cs)]),
         NEW b, NEW y, Caught(q, y, b), y.mode = "cdone", q.cs[b].depth # 0
  PROVE  Good(y)
<1> DEFINE n == Len(q.cs)
           cs == q.cs
           ci == L(q).ci
           d == cs[b].depth
<1>1. /\ y \in CallsState /\ y.run = q.run /\ b \in 1 .. n /\ cs[b].th = q.run /\ IsBlock(cs[b])
      /\ Len(y.cs) = b - 1 /\ \A m \in 1 .. (b - 1) : y.cs[m] = cs[m]
      /\ \A u \in Threads \ {q.run} : y.th[u] = q.th[u]
      /\ \A m \in (b + 1) .. n : cs[m].th = q.run
      /\ y.cs \in Seq(Entry) /\ cs \in Seq(Entry) /\ n \in Nat /\ q.run \in Threads
      /\ y.th \in [Threads -> ThreadState] /\ L(q) = q.th[q.run] /\ L(y) = y.th[q.run]
      /\ Depth(y) = Len(L(y).ci) /\ TopCI(y) = L(y).ci[Depth(y)] /\ ci \in Seq(CallInfos)
  BY Fields, LenProperties DEF Caught
<1>2. /\ L(y).ci \in Seq(CallInfos) /\ Len(L(y).ci) = d /\ \A j \in 1 .. d : L(y).ci[j] = ci[j]
      /\ L(y).nny = cs[b].nny /\ L(y).nC = cs[b].nC /\ L(y).status = L(q).status
  BY DEF Caught, CutTo
<1>3. /\ \A m \in 1 .. n : EntryOK(q.th, cs, m)
      /\ L(q).nC = Count(cs, n, Counting) /\ L(q).nC <= MaxC + ExtraC /\ MaxC + ExtraC \in Nat
  BY <1>1, CallsAssumption DEF Core
<1>4. d \in Nat /\ d > 0
  <2>1. cs[b].depth \in Nat
    BY <1>1, EntryFields
  <2> QED BY <2>1
<1>5. b < n /\ b + 1 \in 1 .. n
  <2>1. b # n
    BY <1>1
  <2> QED BY <1>1, <2>1
<1>6. IsCall(cs[b + 1]) /\ cs[b + 1].by = "api" /\ cs[b + 1].depth = d /\ cs[b].nC = Count(cs, b - 1, Counting)
      /\ cs[b + 1].th = q.run
  <2>1. EntryOK(q.th, cs, b)
    BY <1>1, <1>3
  <2>2. b + 1 \in (b + 1) .. n
    BY <1>1, <1>5
  <2> QED BY <1>1, <1>5, <2>1, <2>2 DEF EntryOK, BlockOK, Covered
<1>7. d <= Len(ci) /\ ~IsLua(ci[d]) /\ b > 1 /\ Placed(cs, b - 1, ci, d)
  <2>1. ApiOK(ci, cs, b + 1)
    <3>1. EntryOK(q.th, cs, b + 1)
      BY <1>3, <1>5
    <3> QED BY <1>1, <1>6, <3>1 DEF EntryOK
  <2>2. b \in Nat /\ cs[b + 1].depth = d /\ IsBlock(cs[b])
    BY <1>1, <1>6
  <2> HIDE DEF d, n, ci, cs
  <2> QED BY <1>4, <2>1, <2>2, ApiAbove
<1> HIDE DEF d, n, ci
<1>8. Core(y.th, y.cs, q.run) /\ y.cs[Len(y.cs)] = cs[b - 1]
  <2>1. CutBelow(q.th, cs, q.run, b, y.th, y.cs)
    BY <1>1 DEF CutBelow, n
  <2>2. /\ y.th[q.run].status = q.th[q.run].status /\ y.th[q.run].nC = cs[b].nC /\ y.th[q.run].nny = cs[b].nny
        /\ Len(y.th[q.run].ci) = cs[b].depth
        /\ \A j \in 1 .. cs[b].depth : y.th[q.run].ci[j] = q.th[q.run].ci[j]
    BY <1>1, <1>2 DEF d, ci
  <2>3. MaxC + ExtraC \in Nat /\ b # 1 /\ IsBlock(cs[b])
    BY <1>1, <1>3, <1>7
  <2>4. Core(q.th, cs, q.run)
    OBVIOUS
  <2> DEFINE tk == y.th
             ds == y.cs
             th == q.th
             run == q.run
  <2> HIDE DEF cs, tk, ds, th, run
  <2>5. Core(tk, ds, run) /\ ds[Len(ds)] = cs[b - 1]
    BY <2>1, <2>2, <2>3, <2>4, ThrownTo, SMTT(30) DEF tk, ds, th, run
  <2> QED BY <2>5 DEF tk, ds, th, run
<1>9. ~IsBlock(cs[b - 1])
  <2>1. b - 1 \in 1 .. n /\ b - 1 < n /\ b - 1 + 1 = b
    BY <1>1, <1>7, SMTT(30)
  <2>2. IsBlock(cs[b - 1]) => Covered(cs, b - 1)
    BY <1>3, <2>1 DEF EntryOK, BlockOK
  <2> QED BY <1>1, <2>1, <2>2 DEF Covered, IsBlock, IsCall, n
<1>10. L(y).nC < MaxC + ExtraC
  <2>1. cs[b + 1] \in Counting
    BY <1>1, <1>5, <1>6, EntryFields DEF Counting, IsCall, n
  <2>2. b - 1 \in Nat /\ b - 1 <= n /\ b + 1 \in (b - 1 + 1) .. n
    BY <1>1, <1>5
  <2>3. Count(cs, b - 1, Counting) < Count(cs, n, Counting)
    BY <1>1, <2>1, <2>2, CountLess
  <2>4. Count(cs, b - 1, Counting) \in Nat /\ Count(cs, n, Counting) \in Nat
    BY <1>1, <2>2, CountStep
  <2> QED BY <1>2, <1>3, <1>6, <2>3, <2>4
<1>11. Placed(y.cs, Len(y.cs), L(y).ci, Depth(y)) /\ TopCI(y) = ci[d]
  <2>1. Depth(y) = d /\ y.cs[Len(y.cs)] = cs[b - 1] /\ TopCI(y) = ci[d] /\ L(y).ci[d] = ci[d]
        /\ d \in 1 .. Len(L(y).ci)
    BY <1>1, <1>2, <1>4, <1>8
  <2>2. d # 1 => L(y).ci[d - 1] = ci[d - 1]
    BY <1>2, <1>4
  <2> QED BY <1>7, <2>1, <2>2 DEF Placed
<1>12. ModeOK(y)
  BY <1>7, <1>10, <1>11 DEF ModeOK
<1> QED
  BY <1>1, <1>8, <1>9, <1>12, GoodCore

\* lua_resume caught an error: recover, or the coroutine is dead.
LEMMA RecoverGood ==
  ASSUME NEW q \in CallsState, Core(q.th, q.cs, q.run), NEW b, NEW r, Jumped(q, r, b),
         IsResume(q.cs[b]), L(r).nC = q.cs[b].nC
  PROVE  Good(Recover(r, q.cs[b]))
<1> DEFINE try == q.cs[b]
           h == L(r)
           n == FindPcall(h)
           g == Shrink([h EXCEPT !.ci = SubSeq(@, 1, n), !.nny = 0, !.errfunc = h.ci[n].olderr])
           w == WithL(r, g)
           ds == Append(r.cs, try)
           y == [w EXCEPT !.cs = ds, !.mode = "unroll", !.ok = FALSE]
<1>1. /\ r \in CallsState /\ r.run = q.run /\ b \in 1 .. Len(q.cs) /\ try.th = q.run
      /\ \A u \in Threads \ {q.run} : r.th[u] = q.th[u]
      /\ Len(r.cs) = b - 1 /\ \A m \in 1 .. (b - 1) : r.cs[m] = q.cs[m]
      /\ h.ci = L(q).ci /\ h.status = L(q).status
  BY DEF Jumped
<1>2. /\ h \in ThreadState /\ h = r.th[q.run] /\ q.run \in Threads /\ r.cs \in Seq(Entry) /\ r.mode \in Modes
      /\ q.cs \in Seq(Entry) /\ try \in Entry /\ h.ci \in Seq(CallInfos) /\ L(q) = q.th[q.run] /\ Len(q.cs) \in Nat
      /\ Len(h.ci) \in Nat
  BY <1>1, Fields, EntryFields, LenProperties
<1>3. n \in 0 .. Len(h.ci)
  BY <1>2, PcallFound
<1> HIDE DEF n
<1>4. CASE n = 0
  <2>1. Recover(r, try) = BackTo(r, try, "dead", FALSE)
    BY <1>4 DEF Recover, n
  <2>2. "dead" \in {"ok", "yield", "dead"} /\ "dead" # "ok" /\ FALSE \in BOOLEAN
    OBVIOUS
  <2>3. Good(BackTo(r, try, "dead", FALSE))
    BY <2>2, BackGood
  <2> QED BY <2>1, <2>3
<1>5. CASE n # 0
  <2>1. Recover(r, try) = y
    <3>1. w.cs = r.cs
      BY <1>1 DEF WithL, CallsState
    <3> QED BY <1>5, <3>1 DEF Recover, n
  <2>2. n \in 1 .. Len(h.ci) /\ h.ci[n].olderr \in Nat
    <3>1. n \in 1 .. Len(h.ci)
      BY <1>2, <1>3, <1>5
    <3>2. h.ci[n] \in CallInfos
      BY <1>2, <3>1, ElementOfSeq
    <3> QED BY <3>1, <3>2 DEF CallInfos
  <2>3. CutTo(g, h.ci, n, 0) /\ g.nC = h.nC /\ g.status = h.status
    <3>1. n \in 0 .. Len(h.ci) /\ 0 \in Int
      BY <1>3
    <3> DEFINE x == h.ci[n].olderr
               z == 0
    <3>2. g = AtFrame(h, n, z, x)
      BY DEF AtFrame
    <3>3. x \in Nat /\ z \in Int /\ h \in ThreadState
      BY <1>2, <2>2
    <3> HIDE DEF h, x, g, z
    <3>4. CutTo(g, h.ci, n, z) /\ g.nC = h.nC /\ g.status = h.status
      <4> HIDE DEF try, w, ds, y
      <4> HIDE DEF n
      <4>1. n \in 0 .. Len(h.ci) /\ z \in Int /\ x \in Nat /\ h \in ThreadState
        BY ONLY <3>1, <3>3
      <4>2. g = AtFrame(h, n, z, x)
        BY ONLY <3>2
      <4> QED BY ONLY <4>1, <4>2, Cutting
    <3> QED BY <3>4 DEF z
  <2>4. /\ ds \in Seq(Entry) /\ Len(ds) = b /\ \A m \in 1 .. b : ds[m] = q.cs[m]
    <3>1. ds \in Seq(Entry) /\ Len(ds) = Len(r.cs) + 1 /\ ds[Len(r.cs) + 1] = try
          /\ \A m \in 1 .. Len(r.cs) : ds[m] = r.cs[m]
      BY <1>2, AppendFacts
    <3> HIDE DEF ds
    <3>2. \A m \in 1 .. b : m \in 1 .. (b - 1) \/ m = Len(r.cs) + 1
      BY <1>1, <1>2
    <3> QED BY <1>1, <1>2, <3>1, <3>2, SMTT(30)
  <2> HIDE DEF g, ds
  <2>5. g \in ThreadState
    BY <2>3 DEF CutTo
  <2>6. Replaced(r, w, g, r.cs, r.mode)
    BY <1>1, <1>2, <2>5, Setting
  <2> HIDE DEF w
  <2>7. /\ w \in CallsState /\ w.th \in [Threads -> ThreadState] /\ w.th[q.run] = g
        /\ \A u \in Threads \ {q.run} : w.th[u] = q.th[u]
        /\ w.run = q.run
    BY <1>1, <2>6 DEF Replaced
  <2>8. y \in CallsState /\ y.th = w.th /\ y.cs = ds /\ y.run = q.run /\ y.mode = "unroll"
    <3> DEFINE a == [w EXCEPT !.cs = ds]
               c == [a EXCEPT !.mode = "unroll"]
               d == [c EXCEPT !.ok = FALSE]
    <3>1. a \in CallsState /\ a.th = w.th /\ a.cs = ds /\ a.run = w.run
      BY <2>4, <2>7 DEF CallsState
    <3>2. y = d
      OBVIOUS
    <3> HIDE DEF a
    <3>3. c \in CallsState /\ c.th = a.th /\ c.cs = a.cs /\ c.run = a.run /\ c.mode = "unroll"
      BY <3>1 DEF CallsState
    <3> HIDE DEF c
    <3>4. d \in CallsState /\ d.th = c.th /\ d.cs = c.cs /\ d.run = c.run /\ d.mode = c.mode
      BY <3>3 DEF CallsState
    <3> HIDE DEF d, y
    <3> QED BY <2>7, <3>1, <3>2, <3>3, <3>4
  <2> HIDE DEF y
  <2>9. FramesOK(g.ci, {})
    <3>1. FramesOK(h.ci, {})
      <4>1. ThreadOK(q.th, q.cs, q.run, q.run)
        BY <1>2 DEF Core
      <4> QED BY <1>1, <1>2, <4>1, FramesAlone DEF ThreadOK
    <3>2. g.ci \in Seq(CallInfos) /\ Len(g.ci) <= Len(h.ci) /\ \A j \in 1 .. Len(g.ci) : g.ci[j] = h.ci[j]
      BY <1>2, <2>2, <2>3 DEF CutTo
    <3>3. \A j \in 1 .. Len(g.ci) : g.ci[j].kind = h.ci[j].kind /\ g.ci[j].fresh = h.ci[j].fresh
      BY <3>2
    <3> DEFINE ci == h.ci
               di == g.ci
    <3> HIDE DEF ci, di
    <3> QED BY <1>2, <3>1, <3>2, <3>3, FramesCut DEF ci, di
  <2>10. MaxC \in Nat /\ MaxC + ExtraC \in Nat /\ MaxC < MaxC + ExtraC
    BY CallsAssumption
  <2>11. Core(w.th, ds, q.run) /\ ds[Len(ds)] = try /\ try.nC < MaxC
    <3>1. CutAbove(q.th, q.cs, q.run, b, w.th, ds)
      BY <1>1, <2>4, <2>7 DEF CutAbove
    <3>2. w.th[q.run].nC = try.nC /\ w.th[q.run].nny = 0 /\ w.th[q.run].status = q.th[q.run].status
      BY <1>1, <1>2, <2>3, <2>7 DEF CutTo
    <3>3. FramesOK(w.th[q.run].ci, {})
      BY <2>7, <2>9
    <3> HIDE DEF try
    <3> QED BY <2>10, <3>1, <3>2, <3>3, Recovered DEF try
  <2>12. ModeOK(y)
    <3>1. L(y).nC = try.nC
      BY <2>3, <2>7, <2>8 DEF L
    <3>2. L(y).nC \in Int
      BY <2>8, Fields
    <3> QED BY <2>8, <2>10, <2>11, <3>1, <3>2 DEF ModeOK
  <2>13. ~IsBlock(y.cs[Len(y.cs)])
    BY <2>8, <2>11 DEF IsBlock, IsResume
  <2> QED BY <2>1, <2>8, <2>11, <2>12, <2>13, GoodCore
<1> QED
  BY <1>4, <1>5

\* luaD_throw.
LEMMA ThrowGood ==
  ASSUME NEW q, Good(q), q.mode = "throw"
  PROVE  Good(Throw(q))
<1> DEFINE b == BlockOf(q)
           try == q.cs[b]
           r == [WithL(q, [L(q) EXCEPT !.nC = try.nC]) EXCEPT !.cs = SubSeq(@, 1, b - 1)]
           h == L(r)
           g == Shrink([h EXCEPT !.ci = SubSeq(@, 1, try.depth), !.nny = try.nny, !.errfunc = try.err])
           w == WithL(r, g)
           m == IF try.depth = 0 THEN "end" ELSE "cdone"
           y == [w EXCEPT !.mode = m, !.ok = FALSE]
<1>1. /\ q \in CallsState /\ Core(q.th, q.cs, q.run) /\ ~IsBlock(q.cs[Len(q.cs)]) /\ Matching(q)
  BY InMode DEF Good
<1>2. /\ b \in 1 .. Len(q.cs) /\ try.th = q.run
      /\ IsBlock(try) \/ IsResume(try)
      /\ \A k \in (b + 1) .. Len(q.cs) : IsCall(q.cs[k]) /\ q.cs[k].th = q.run
  BY <1>1, BlockFound
<1>3. q.cs \in Seq(Entry) /\ EntryOK(q.th, q.cs, b) /\ q.run \in Threads /\ L(q) = q.th[q.run]
      /\ b \in 1 .. Len(q.cs) /\ try.th = q.run
  <2> HIDE DEF b
  <2>1. q.cs \in Seq(Entry) /\ q.run \in Threads /\ L(q) = q.th[q.run]
    BY <1>1, Fields
  <2> QED BY <1>1, <1>2, <2>1 DEF Core
<1>4. try.nC \in Int /\ try.nny \in Int /\ try.err \in Nat /\ try.depth \in Nat /\ try.depth <= Len(L(q).ci)
  <2>1. ~IsCall(try)
    BY <1>2 DEF IsCall, IsBlock, IsResume
  <2>2. try.nC \in Int /\ try.nny \in Int /\ try.err \in Nat /\ try.depth \in Nat
    BY <1>3, <2>1, EntryFields
  <2> QED BY <1>3, <2>2 DEF EntryOK
<1> HIDE DEF b
<1>5. Jumped(q, r, b) /\ h.nC = try.nC
  <2> HIDE DEF try
  <2> DEFINE c == try.nC
             x == [WithL(q, [L(q) EXCEPT !.nC = c]) EXCEPT !.cs = SubSeq(@, 1, b - 1)]
  <2>1. r = x /\ c \in Int /\ q.cs[b].th = q.run
    BY <1>3, <1>4 DEF try
  <2> HIDE DEF c, r
  <2>2. Jumped(q, r, b) /\ L(r).nC = c
    <3>1. q \in CallsState /\ Core(q.th, q.cs, q.run)
      BY <1>1
    <3>2. b \in 1 .. Len(q.cs) /\ q.cs[b].th = q.run
      BY <1>3, <2>1
    <3> QED BY ONLY <2>1, <3>1, <3>2, Jumping
  <2> QED BY <2>2 DEF c
<1>6. CASE IsResume(try)
  <2>1. Throw(q) = Recover(r, try)
    BY <1>6 DEF Throw, IsResume, b
  <2> HIDE DEF r
  <2>2. Good(Recover(r, try))
    BY <1>1, <1>5, <1>6, RecoverGood
  <2> QED BY <2>1, <2>2
<1>7. CASE IsBlock(try)
  <2>1. Throw(q) = y
    BY <1>7 DEF Throw, IsBlock, b
  <2> HIDE DEF r
  <2>2. /\ r \in CallsState /\ r.run = q.run /\ \A u \in Threads \ {q.run} : r.th[u] = q.th[u]
        /\ Len(r.cs) = b - 1 /\ \A k \in 1 .. (b - 1) : r.cs[k] = q.cs[k]
        /\ h.ci = L(q).ci /\ h.status = L(q).status
    BY <1>5 DEF Jumped
  <2>3. /\ h \in ThreadState /\ h = r.th[q.run] /\ r.cs \in Seq(Entry) /\ r.mode \in Modes /\ Len(h.ci) \in Nat
    BY <2>2, Fields, LenProperties
  <2> HIDE DEF h
  <2>4. CutTo(g, h.ci, try.depth, try.nny) /\ g.nC = h.nC /\ g.status = h.status
    <3>1. try.depth \in 0 .. Len(h.ci)
      BY <1>4, <2>2, <2>3
    <3> DEFINE x == try.err
               z == try.nny
               d == try.depth
    <3>2. g = AtFrame(h, d, z, x)
      BY DEF AtFrame
    <3>3. x \in Nat /\ z \in Int /\ h \in ThreadState /\ d \in 0 .. Len(h.ci)
      BY <1>4, <2>3, <3>1
    <3> HIDE DEF x, g, z, d
    <3>4. CutTo(g, h.ci, d, z) /\ g.nC = h.nC /\ g.status = h.status
      BY <3>2, <3>3, Cutting
    <3> QED BY <3>4 DEF z, d
  <2> HIDE DEF g
  <2>5. Replaced(r, w, g, r.cs, r.mode)
    <3>1. g \in ThreadState
      BY <2>4 DEF CutTo
    <3> QED BY <2>2, <2>3, <3>1, Setting
  <2> HIDE DEF w
  <2>6. /\ w \in CallsState /\ w.th \in [Threads -> ThreadState] /\ w.th[q.run] = g /\ w.cs = r.cs
        /\ \A u \in Threads \ {q.run} : w.th[u] = q.th[u]
        /\ w.run = q.run
    BY <2>2, <2>5 DEF Replaced
  <2>7. m \in {"end", "cdone"}
    OBVIOUS
  <2>8. y \in CallsState /\ y.th = w.th /\ y.cs = w.cs /\ y.run = q.run /\ y.mode = m
    <3> DEFINE a == [w EXCEPT !.mode = m]
               c == [a EXCEPT !.ok = FALSE]
    <3> HIDE DEF m
    <3>1. a \in CallsState /\ a.th = w.th /\ a.cs = w.cs /\ a.run = w.run /\ a.mode = m
      BY <2>6, <2>7 DEF CallsState
    <3>2. y = c
      OBVIOUS
    <3> HIDE DEF a
    <3>3. c \in CallsState /\ c.th = a.th /\ c.cs = a.cs /\ c.run = a.run /\ c.mode = a.mode
      BY <3>1 DEF CallsState
    <3> HIDE DEF c, y
    <3> QED BY <2>6, <3>1, <3>2, <3>3
  <2> HIDE DEF y
  <2>9. L(y) = g
    BY <2>6, <2>8 DEF L
  <2>10. Caught(q, y, b)
    <3>1. L(y).nC = try.nC /\ L(y).status = L(q).status /\ CutTo(L(y), L(q).ci, try.depth, try.nny)
      BY <1>5, <2>2, <2>4, <2>9 DEF h
    <3>2. \A k \in (b + 1) .. Len(q.cs) : q.cs[k].th = q.run
      BY <1>2 DEF b
    <3> QED BY <1>3, <1>7, <2>2, <2>6, <2>8, <3>1, <3>2 DEF Caught
  <2>11. CASE try.depth = 0
    <3>1. y.mode = "end"
      BY <2>8, <2>11
    <3> QED BY <1>1, <2>1, <2>10, <3>1, CaughtEnd
  <2>12. CASE try.depth # 0
    <3>1. y.mode = "cdone"
      BY <2>8, <2>12
    <3> QED BY <1>1, <2>1, <2>10, <2>12, <3>1, CaughtGood
  <2> QED BY <2>11, <2>12
<1> QED
  BY <1>2, <1>6, <1>7 DEF b

-----------------------------------------------------------------------------
(* Coroutines.                                                             *)

\* lua_yieldk: with no uncounted call in between the block of lua_resume is next.
LEMMA YieldGood ==
  ASSUME NEW q, Good(q), q.mode = "cstart"
  PROVE  Good(Yield(q))
<1> DEFINE b == BlockOf(q)
           r == [WithL(q, [L(q) EXCEPT !.nC = q.cs[b].nC]) EXCEPT !.cs = SubSeq(@, 1, b - 1)]
           n == Len(q.cs)
<1>1. /\ q \in CallsState /\ Core(q.th, q.cs, q.run) /\ ~IsBlock(q.cs[n])
  BY InMode
<1>2. /\ q.cs \in Seq(Entry) /\ q.run \in Threads /\ L(q) = q.th[q.run] /\ n \in Nat /\ n \in 1 .. Len(q.cs)
      /\ q.cs[n].th = q.run
  BY <1>1, Fields, LenProperties DEF Core
<1>3. CASE L(q).nny > 0
  <2>1. Good(Goto(q, "error"))
    <3>1. "error" \in {"error", "throw"} /\ q.mode # "end" /\ q.mode # "throw"
      OBVIOUS
    <3> QED BY <3>1, GotoGood
  <2> QED BY <1>3, <2>1 DEF Yield
<1>4. CASE ~(L(q).nny > 0)
  <2>1. /\ b \in 1 .. Len(q.cs) /\ q.cs[b].th = q.run
        /\ IsBlock(q.cs[b]) \/ IsResume(q.cs[b])
        /\ \A m \in (b + 1) .. Len(q.cs) : IsCall(q.cs[m]) /\ q.cs[m].th = q.run
    BY <1>1, BlockFound
  <2>2. Yield(q) = BackTo(r, q.cs[b], "yield", TRUE)
    BY <1>4 DEF Yield
  <2> HIDE DEF b
  <2>3. IsResume(q.cs[b])
    <3> SUFFICES ASSUME IsBlock(q.cs[b]) PROVE FALSE
      BY <2>1
    <3>1. EntryOK(q.th, q.cs, b)
      BY <1>1, <2>1 DEF Core
    <3>2. b < n /\ b + 1 \in (b + 1) .. n /\ b + 1 \in 1 .. n
      <4>1. b # n
        BY <1>1
      <4> QED BY <1>2, <2>1, <4>1
    <3>3. IsCall(q.cs[b + 1]) /\ q.cs[b + 1].noyield /\ q.cs[b + 1].th = q.run
      BY <2>1, <3>1, <3>2 DEF EntryOK, BlockOK, Covered
    <3>4. q.cs[b + 1] \in NoYield(q.run)
      BY <1>2, <3>2, <3>3, EntryFields DEF NoYield, IsCall
    <3>5. Count(q.cs, n, NoYield(q.run)) # 0
      BY <1>2, <3>2, <3>4, CountZero
    <3>6. Count(q.cs, n, NoYield(q.run)) \in Nat
      BY <1>2, CountStep
    <3>7. L(q).nny = Count(q.cs, n, NoYield(q.run)) + Base(q.run)
      BY <1>1, <1>2 DEF Core, ThreadOK, OnStack
    <3>8. Base(q.run) \in {0, 1}
      BY DEF Base
    <3> QED BY <1>4, <3>5, <3>6, <3>7, <3>8
  <2>4. Jumped(q, r, b)
    <3> DEFINE c == q.cs[b].nC
               x == [WithL(q, [L(q) EXCEPT !.nC = c]) EXCEPT !.cs = SubSeq(@, 1, b - 1)]
    <3>1. c \in Int
      <4>1. ~IsCall(q.cs[b])
        BY <2>3 DEF IsCall, IsResume
      <4> QED BY <1>2, <2>1, <4>1, EntryFields
    <3>2. r = x
      OBVIOUS
    <3> HIDE DEF c, r
    <3> QED BY <1>1, <2>1, <3>1, <3>2, Jumping
  <2> HIDE DEF r
  <2>5. "yield" \in {"ok", "yield", "dead"} /\ "yield" # "ok" /\ TRUE \in BOOLEAN
    OBVIOUS
  <2>6. Good(BackTo(r, q.cs[b], "yield", TRUE))
    BY <1>1, <2>3, <2>4, <2>5, BackGood
  <2> QED BY <2>2, <2>6 DEF b
<1> QED
  BY <1>3, <1>4

\* Where a coroutine is unrolled, no C call of it is left.
LEMMA InUnroll ==
  ASSUME NEW q, Good(q), q.mode = "unroll"
  PROVE  LET n == Len(q.cs) IN
           /\ q \in CallsState /\ Core(q.th, q.cs, q.run) /\ ~IsBlock(q.cs[n]) /\ IsResume(q.cs[n])
           /\ L(q).nC < MaxC + ExtraC /\ n \in 1 .. Len(q.cs) /\ q.cs[n].th = q.run /\ q.cs[n].depth = 0
           /\ CallDepths(q.cs, q.run) = {} /\ Depth(q) \in Nat /\ q.cs \in Seq(Entry)
<1> DEFINE n == Len(q.cs)
<1>1. /\ q \in CallsState /\ Core(q.th, q.cs, q.run) /\ ~IsBlock(q.cs[n]) /\ ModeOK(q)
      /\ L(q).nC < MaxC + ExtraC /\ n \in 1 .. Len(q.cs) /\ n \in Nat /\ q.cs[n].th = q.run
      /\ EntryOK(q.th, q.cs, n)
  BY InMode
<1>2. IsResume(q.cs[n]) /\ Depth(q) \in Nat /\ q.cs \in Seq(Entry)
  BY <1>1, Fields DEF ModeOK
<1>3. q.cs[n].depth = 0 /\ \A m \in 1 .. (n - 1) : q.cs[m].th # q.run
  BY <1>1, <1>2 DEF EntryOK, ResumeOK
<1>4. CallDepths(q.cs, q.run) = {}
  <2> SUFFICES ASSUME NEW m \in 1 .. n, IsCall(q.cs[m]), q.cs[m].th = q.run PROVE FALSE
    BY DEF CallDepths
  <2>1. m # n
    BY <1>2 DEF IsCall, IsResume
  <2>2. m \in 1 .. (n - 1)
    BY <1>1, <2>1
  <2> QED BY <1>3, <2>2
<1> QED
  BY <1>1, <1>2, <1>3, <1>4

\* A turn of unroll.
LEMMA UnrollGood ==
  ASSUME NEW q, Good(q), q.mode = "unroll"
  PROVE  Good(Unroll(q))
<1> DEFINE n == Len(q.cs)
<1>1. /\ q \in CallsState /\ Core(q.th, q.cs, q.run) /\ ~IsBlock(q.cs[n]) /\ IsResume(q.cs[n])
      /\ L(q).nC < MaxC + ExtraC /\ n \in 1 .. Len(q.cs) /\ q.cs[n].th = q.run /\ q.cs[n].depth = 0
      /\ CallDepths(q.cs, q.run) = {} /\ Depth(q) \in Nat /\ q.cs \in Seq(Entry)
  BY InUnroll
<1>2. CASE Depth(q) = 0
  <2> DEFINE r == PopC(q)
             ds == Front(q.cs)
  <2>1. ds \in Seq(Entry) /\ Len(ds) = n - 1 /\ \A m \in 1 .. (n - 1) : ds[m] = q.cs[m]
    <3>1. Len(q.cs) # 0
      BY <1>1
    <3> QED BY <1>1, <3>1, FrontFacts
  <2>2. r = [q EXCEPT !.cs = ds]
    BY DEF PopC
  <2> HIDE DEF ds, r
  <2>3. r \in CallsState /\ r.th = q.th /\ r.cs = ds /\ r.run = q.run /\ r.err = q.err
    BY <1>1, <2>1, <2>2 DEF CallsState
  <2>4. L(r) = L(q)
    BY <2>3 DEF L
  <2>5. Jumped(q, r, n)
    BY <1>1, <2>1, <2>3, <2>4 DEF Jumped
  <2>6. L(q).ci = << >>
    <3>1. L(q).ci \in Seq(CallInfos) /\ Len(L(q).ci) = 0
      BY <1>1, <1>2, Fields
    <3> QED BY <3>1, EmptySeq
  <2>7. Unroll(q) = BackTo(r, q.cs[n], "ok", TRUE)
    BY <1>2 DEF Unroll, Last, r
  <2>8. "ok" \in {"ok", "yield", "dead"} /\ TRUE \in BOOLEAN
    OBVIOUS
  <2>9. Good(BackTo(r, q.cs[n], "ok", TRUE))
    BY <1>1, <2>5, <2>6, <2>8, BackGood
  <2> QED BY <2>7, <2>9
<1>3. CASE Depth(q) # 0 /\ IsLua(TopCI(q))
  <2> DEFINE c == [TopCI(q) EXCEPT !.fresh = TRUE]
             r == SetTop(q, c)
  <2>1. Unroll(q) = Goto(r, "lua")
    BY <1>3 DEF Unroll, IsLua
  <2>2. Depth(q) > 0 /\ TopCI(q) \in CallInfos
    BY <1>1, <1>3, Fields
  <2>3. c \in CallInfos /\ c.kind = TopCI(q).kind /\ c.fresh
    BY <2>2 DEF CallInfos
  <2> HIDE DEF c
  <2>4. Like(q, r) /\ TopCI(r) = c
    <3>1. q.cs[Len(q.cs)].depth < Depth(q)
      BY <1>1, <2>2
    <3> QED BY <1>1, <2>3, <3>1, TopLike
  <2> HIDE DEF r
  <2>5. Placed(q.cs, n, L(q).ci, Depth(q))
    <3>1. Depth(q) \in 1 .. Len(L(q).ci) /\ TopCI(q) = L(q).ci[Depth(q)]
      BY <1>1, <2>2, Fields
    <3>2. ~IsCall(q.cs[n])
      BY <1>1 DEF IsCall, IsResume
    <3> QED BY <1>3, <3>1, <3>2 DEF Placed
  <2>6. Placed(r.cs, n, L(r).ci, Depth(r)) /\ IsLua(TopCI(r))
    BY <1>1, <1>3, <2>4, <2>5, LikePlaced
  <2>7. r.cs = q.cs /\ L(r).nC < MaxC + ExtraC /\ r \in CallsState /\ Core(r.th, r.cs, r.run)
    BY <1>1, <2>4 DEF Like
  <2>8. Resting(r)
    BY <1>1, <2>6, <2>7 DEF Resting
  <2> QED BY <2>1, <2>6, <2>7, <2>8, RestingGood
<1>4. CASE Depth(q) # 0 /\ ~IsLua(TopCI(q))
  <2> DEFINE c == TopCI(q)
             t == WithL(q, [L(q) EXCEPT !.errfunc = c.olderr])
             r == IF c.yp THEN t ELSE q
             x == [DropCI(r) EXCEPT !.ok = TRUE]
  <2>1. Unroll(q) = x
    BY <1>4 DEF Unroll, FinishCcall, IsLua
  <2>2. Depth(q) > 0 /\ TopCI(q) \in CallInfos
    BY <1>1, <1>4, Fields
  <2>3. Like(q, t)
    <3>1. c.olderr \in Nat
      BY <2>2 DEF CallInfos
    <3> HIDE DEF c
    <3> QED BY <1>1, <3>1, ErrLike
  <2> HIDE DEF t
  <2>4. /\ r \in CallsState /\ r.cs = q.cs /\ r.mode = "unroll" /\ Core(r.th, r.cs, r.run)
        /\ Depth(r) = Depth(q) /\ L(r).nC < MaxC + ExtraC
    BY <1>1, <2>3 DEF Like
  <2> HIDE DEF r
  <2>5. x = Without(r, "unroll", TRUE) /\ Goto(x, "unroll") = Without(r, "unroll", TRUE)
    <3>1. "unroll" \in Modes
      BY DEF Modes
    <3> QED BY <2>4, <3>1, DropForms
  <2> HIDE DEF x
  <2>6. Returned(r, x)
    <3>1. "unroll" \in Modes /\ TRUE \in BOOLEAN
      BY DEF Modes
    <3>2. r.cs[Len(r.cs)].depth < Depth(r)
      BY <1>1, <2>2, <2>4
    <3> QED BY <2>4, <2>5, <3>1, <3>2, Returning
  <2>7. L(x).nC < MaxC + ExtraC
    BY <2>4, <2>6 DEF Returned
  <2>8. Good(Goto(x, "unroll"))
    BY <1>1, <2>4, <2>6, <2>7, BackInUnroll
  <2> QED BY <2>1, <2>5, <2>8
<1> QED
  BY <1>2, <1>3, <1>4

\* luaB_cocreate.
LEMMA CreateGood ==
  ASSUME NEW q, Good(q), q.mode = "lua", NEW t \in Threads, Status(q, t) = "dead"
  PROVE  Good([q EXCEPT !.th[t] = NewThread])
<1> DEFINE th == [q.th EXCEPT ![t] = NewThread]
           y == [q EXCEPT !.th = th]
<1>1. /\ q \in CallsState /\ Core(q.th, q.cs, q.run) /\ ~IsBlock(q.cs[Len(q.cs)]) /\ ModeOK(q)
  BY InMode
<1>2. [q EXCEPT !.th[t] = NewThread] = y
  BY <1>1 DEF CallsState
<1>3. q.th \in [Threads -> ThreadState] /\ q.run \in Threads /\ L(q) = q.th[q.run]
  BY <1>1, Fields
<1>4. NewThread \in ThreadState /\ NewThread.ci = << >>
  BY EmptySeq DEF NewThread, ThreadState
<1>5. th \in [Threads -> ThreadState] /\ th[t] = NewThread /\ \A u \in Threads \ {t} : th[u] = q.th[u]
  BY <1>3, <1>4
<1>6. ~OnStack(q.cs, t) /\ t # q.run
  <2>1. t # q.run
    BY DEF Status
  <2>2. OnStack(q.cs, t) => q.th[t].status = "ok" /\ q.th[t].ci # << >>
    BY <1>1, <2>1 DEF Core, ThreadOK
  <2>3. OnStack(q.cs, t) => Status(q, t) = "normal"
    BY <2>1, <2>2 DEF Status
  <2> QED BY <2>1, <2>3
<1> HIDE DEF th
<1>7. y \in CallsState /\ y.th = th /\ y.cs = q.cs /\ y.run = q.run /\ y.mode = q.mode
  BY <1>1, <1>5 DEF CallsState
<1> HIDE DEF y
<1>8. FramesOK(th[t].ci, {})
  <2>1. Len(th[t].ci) = 0
    BY <1>4, <1>5
  <2> QED BY <2>1 DEF FramesOK
<1>9. Core(th, q.cs, q.run)
  BY <1>1, <1>4, <1>5, <1>6, <1>8, IdleChanged
<1>10. L(y) = L(q) /\ Depth(y) = Depth(q) /\ TopCI(y) = TopCI(q)
  BY <1>3, <1>5, <1>6, <1>7 DEF L, Depth, TopCI
<1>11. ModeOK(y)
  BY <1>1, <1>7, <1>10 DEF ModeOK
<1> QED
  BY <1>1, <1>2, <1>7, <1>9, <1>11, GoodCore

\* lua_resume refuses.
LEMMA ResumeErrorGood ==
  ASSUME NEW q, Resting(q), ~IsLua(TopCI(q)), L(q).nC < MaxC + ExtraC
  PROVE  Good(ResumeError(q))
<1> DEFINE m == IF TopCI(q).kind = "wrap" THEN "error" ELSE "cdone"
           a == [q EXCEPT !.ok = FALSE]
           y == [a EXCEPT !.mode = m]
<1>1. q \in CallsState /\ Core(q.th, q.cs, q.run) /\ ~IsBlock(q.cs[Len(q.cs)])
      /\ Placed(q.cs, Len(q.cs), L(q).ci, Depth(q))
  BY DEF Resting
<1>2. ResumeError(q) = y
  BY DEF ResumeError
<1>3. m \in {"error", "cdone"}
  OBVIOUS
<1>4. a \in CallsState /\ a.th = q.th /\ a.cs = q.cs /\ a.run = q.run
  BY <1>1 DEF CallsState
<1> HIDE DEF a, m
<1>5. y \in CallsState /\ y.th = q.th /\ y.cs = q.cs /\ y.run = q.run /\ y.mode = m
  BY <1>3, <1>4 DEF CallsState
<1> HIDE DEF y
<1>6. L(y) = L(q) /\ Depth(y) = Depth(q) /\ TopCI(y) = TopCI(q)
  BY <1>5 DEF L, Depth, TopCI
<1>7. ModeOK(y)
  BY <1>1, <1>3, <1>5, <1>6 DEF ModeOK
<1> QED
  BY <1>1, <1>2, <1>5, <1>7, GoodCore

\* A coroutine whose frames a resumption may enter is not on the C stack.
Enterable(f) == ~(f.status = "dead" \/ (f.status = "ok" /\ (f.ci # << >> \/ ~f.loaded)))

\* What lua_resume may enter is not on the C stack.
LEMMA OffStack ==
  ASSUME NEW q, Good(q), q.mode = "cstart", NEW t \in Threads, Enterable(q.th[t])
  PROVE  /\ t # q.run /\ ~OnStack(q.cs, t) /\ (q.th[t].status = "ok" => q.th[t].ci = << >>)
         /\ q.th[t].status \in {"ok", "yield"} /\ FramesOK(q.th[t].ci, {})
<1>1. /\ q \in CallsState /\ Core(q.th, q.cs, q.run) /\ Depth(q) > 0
  BY InC
<1>2. /\ q.th \in [Threads -> ThreadState] /\ q.run \in Threads /\ L(q) = q.th[q.run]
      /\ Depth(q) = Len(L(q).ci) /\ q.cs \in Seq(Entry) /\ Len(q.cs) \in 1 .. Len(q.cs)
      /\ q.cs[Len(q.cs)].th = q.run
  BY <1>1, Fields, LenProperties DEF Core
<1>3. q.th[t].status \in {"ok", "yield", "dead"} /\ ThreadOK(q.th, q.cs, q.run, t)
  BY <1>1, <1>2 DEF ThreadState, Core
<1>4. L(q).ci # << >>
  BY <1>1, <1>2
<1>5. OnStack(q.cs, t) => q.th[t].status = "ok" /\ (t # q.run => q.th[t].ci # << >>)
  BY <1>3 DEF ThreadOK
<1>6. ~OnStack(q.cs, t)
  BY <1>2, <1>4, <1>5 DEF Enterable
<1>7. t # q.run
  BY <1>2, <1>6 DEF OnStack
<1>8. FramesOK(q.th[t].ci, {})
  BY <1>3, FramesAlone DEF ThreadOK
<1> QED
  BY <1>3, <1>6, <1>7, <1>8 DEF Enterable

\* A coroutine without frames has none to drop.
LEMMA NothingDropped ==
  ASSUME NEW q \in CallsState, Depth(q) = 0
  PROVE  Without(q, "unroll", q.ok) = Goto(q, "unroll")
<1>1. /\ L(q) \in ThreadState /\ L(q).ci \in Seq(CallInfos) /\ Len(L(q).ci) = 0 /\ L(q) = q.th[q.run]
      /\ q.th \in [Threads -> ThreadState] /\ q.run \in Threads
  BY Fields
<1>2. Front(L(q).ci) = L(q).ci
  <2> DEFINE ci == L(q).ci
  <2>1. ci = << >>
    BY <1>1, EmptySeq
  <2>2. Front(ci) \in Seq(CallInfos) /\ Len(Front(ci)) = 0
    BY <1>1, FrontFacts
  <2>3. Front(ci) = << >>
    <3> HIDE DEF ci
    <3> QED BY <2>2, EmptySeq
  <2> QED BY <2>1, <2>3
<1>3. [L(q) EXCEPT !.ci = Front(@)] = L(q)
  <2> DEFINE x == Front(L(q).ci)
  <2>1. x = L(q).ci
    BY <1>2
  <2> HIDE DEF x
  <2>2. [L(q) EXCEPT !.ci = x] = L(q)
    BY <1>1, <2>1 DEF ThreadState
  <2> QED BY <2>2 DEF x
<1>4. [q.th EXCEPT ![q.run] = [L(q) EXCEPT !.ci = Front(@)]] = q.th
  <2> DEFINE f == [L(q) EXCEPT !.ci = Front(@)]
  <2>1. f = q.th[q.run]
    BY <1>1, <1>3
  <2> HIDE DEF f
  <2>2. [q.th EXCEPT ![q.run] = f] = q.th
    BY <1>1, <2>1
  <2> QED BY <2>2 DEF f
<1>5. q = [th |-> q.th, cs |-> q.cs, run |-> q.run, mode |-> q.mode, err |-> q.err, ok |-> q.ok]
  BY DEF CallsState
<1>6. Goto(q, "unroll") = [th |-> q.th, cs |-> q.cs, run |-> q.run, mode |-> "unroll", err |-> q.err, ok |-> q.ok]
  BY <1>5 DEF Goto
<1> QED
  BY <1>4, <1>6 DEF Without

\* The block of lua_resume, and the state in which the coroutine begins.
Guarded(q, t) ==
  [what |-> "try", for |-> "resume", th |-> t, nC |-> L(q).nC + 1, nny |-> q.th[t].nny, err |-> 0,
   depth |-> 0, from |-> q.run]
Begun(q, t) ==
  [q EXCEPT !.run = t, !.cs = Append(@, Guarded(q, t)), !.ok = TRUE,
            !.th[t] = [q.th[t] EXCEPT !.nC = L(q).nC + 1, !.nny = 0, !.status = "ok", !.loaded = FALSE]]

\* That state fits.
LEMMA BegunGood ==
  ASSUME NEW q, Good(q), q.mode = "cstart",
         NEW t \in Threads \ {Main}, Enterable(q.th[t]), L(q).nC + 1 < MaxC,
         NEW r, r = Begun(q, t)
  PROVE  /\ r \in CallsState /\ Core(r.th, r.cs, r.run) /\ ~IsBlock(r.cs[Len(r.cs)]) /\ IsResume(r.cs[Len(r.cs)])
         /\ CallDepths(r.cs, r.run) = {} /\ L(r).nC < MaxC + ExtraC /\ r.cs[Len(r.cs)].depth = 0
         /\ q.th[t].status = "ok" => Depth(r) = 0
<1> DEFINE f == q.th[t]
           k == L(q).nC + 1
           e == Guarded(q, t)
           ds == Append(q.cs, e)
           g == [f EXCEPT !.nC = k, !.nny = 0, !.status = "ok", !.loaded = FALSE]
           tk == [q.th EXCEPT ![t] = g]
           n == Len(q.cs)
<1>1. /\ q \in CallsState /\ Core(q.th, q.cs, q.run) /\ ~IsBlock(q.cs[n])
      /\ L(q).nC < MaxC + ExtraC /\ Placed(q.cs, n, L(q).ci, Depth(q)) /\ ~IsLua(TopCI(q))
  BY InC
<1>2. /\ q.th \in [Threads -> ThreadState] /\ q.cs \in Seq(Entry) /\ q.run \in Threads
      /\ L(q) = q.th[q.run] /\ L(q).nC \in Int /\ Depth(q) = Len(L(q).ci) /\ TopCI(q) = L(q).ci[Depth(q)]
  BY <1>1, Fields
<1>3. f \in ThreadState /\ f.nny \in Int
  BY <1>2 DEF ThreadState
<1>4. t # q.run /\ ~OnStack(q.cs, t) /\ (f.status = "ok" => f.ci = << >>)
  BY OffStack
<1>5. /\ e \in TryEntry /\ e \in Entry /\ IsResume(e) /\ ~IsBlock(e) /\ e.th = t /\ e.depth = 0 /\ e.from = q.run
      /\ e.nC = k /\ k \in Int
  BY <1>2, <1>3 DEF Guarded, TryEntry, Entry, IsResume, IsBlock
<1> HIDE DEF e
<1>6. ds \in Seq(Entry) /\ Len(ds) = n + 1 /\ ds[n + 1] = e /\ \A m \in 1 .. n : ds[m] = q.cs[m]
  BY <1>2, <1>5, AppendFacts
<1>7. g \in ThreadState /\ g.ci = f.ci /\ g.status = "ok" /\ g.nC = k /\ g.nny = 0
  <2> DEFINE a == [f EXCEPT !.nC = k]
             b == [a EXCEPT !.nny = 0]
             c == [b EXCEPT !.status = "ok"]
             d == [c EXCEPT !.loaded = FALSE]
  <2>1. g = d
    OBVIOUS
  <2> HIDE DEF k, f
  <2>2. a \in ThreadState /\ a.ci = f.ci /\ a.nC = k
    BY <1>3, <1>5 DEF ThreadState
  <2> HIDE DEF a
  <2>3. b \in ThreadState /\ b.ci = a.ci /\ b.nC = a.nC /\ b.nny = 0
    BY <2>2 DEF ThreadState
  <2> HIDE DEF b
  <2>4. c \in ThreadState /\ c.ci = b.ci /\ c.nC = b.nC /\ c.nny = b.nny /\ c.status = "ok"
    BY <2>3 DEF ThreadState
  <2> HIDE DEF c
  <2>5. d \in ThreadState /\ d.ci = c.ci /\ d.nC = c.nC /\ d.nny = c.nny /\ d.status = c.status
    BY <2>4 DEF ThreadState
  <2> HIDE DEF d, g
  <2> QED BY <2>1, <2>2, <2>3, <2>4, <2>5
<1> HIDE DEF g, ds
<1>8. tk \in [Threads -> ThreadState] /\ tk[t] = g /\ \A u \in Threads \ {t} : tk[u] = q.th[u]
  BY <1>2, <1>7
<1>9. r \in CallsState /\ r.th = tk /\ r.cs = ds /\ r.run = t
  <2> DEFINE a == [q EXCEPT !.run = t]
             b == [a EXCEPT !.cs = ds]
             c == [b EXCEPT !.ok = TRUE]
             d == [c EXCEPT !.th = tk]
  <2>1. r = d
    <3>1. a.th = q.th /\ a.cs = q.cs
      BY <1>1 DEF CallsState
    <3>2. c.th = q.th
      BY <1>1 DEF CallsState
    <3> QED BY <1>1, <3>1, <3>2 DEF Begun, g, ds, e, CallsState
  <2> HIDE DEF tk
  <2>2. a \in CallsState /\ a.run = t
    BY <1>1 DEF CallsState
  <2> HIDE DEF a
  <2>3. b \in CallsState /\ b.run = t /\ b.cs = ds
    BY <1>6, <2>2 DEF CallsState
  <2> HIDE DEF b
  <2>4. c \in CallsState /\ c.run = t /\ c.cs = ds
    BY <2>3 DEF CallsState
  <2> HIDE DEF c
  <2>5. d \in CallsState /\ d.run = t /\ d.cs = ds /\ d.th = tk
    BY <1>8, <2>4 DEF CallsState
  <2> HIDE DEF d
  <2> QED BY <2>1, <2>5
<1> HIDE DEF tk
<1>10. Resumed(q.th, q.cs, t, e, tk, ds)
  BY <1>5, <1>6, <1>7, <1>8 DEF Resumed
<1>11. /\ Placed(q.cs, Len(q.cs), q.th[q.run].ci, Len(q.th[q.run].ci))
       /\ ~IsLua(q.th[q.run].ci[Len(q.th[q.run].ci)])
       /\ e.nC = q.th[q.run].nC + 1 /\ e.nC < MaxC
       /\ MaxC \in Nat /\ ExtraC \in Nat
  BY <1>1, <1>2, <1>5, CallsAssumption
<1>12. Core(tk, ds, t) /\ ds[Len(ds)] = e /\ CallDepths(ds, t) = {}
  <2> HIDE DEF n, f, k
  <2> QED BY <1>1, <1>4, <1>5, <1>10, <1>11, Entered, SMTT(30) DEF n
<1>13. L(r) = g /\ Depth(r) = Len(f.ci)
  BY <1>7, <1>8, <1>9 DEF L, Depth
<1>14. L(r).nC < MaxC + ExtraC
  BY <1>5, <1>7, <1>11, <1>13
<1>15. f.status = "ok" => Depth(r) = 0
  BY <1>4, <1>13
<1> QED
  BY <1>5, <1>9, <1>12, <1>14, <1>15

\* lua_resume enters a new coroutine or goes on with one that yielded.
LEMMA ResumeGood ==
  ASSUME NEW q, Good(q), q.mode = "cstart",
         NEW t \in Threads \ {Main}, NEW body \in {"lua", "pcall"}
  PROVE  Good(Resume(q, t, body))
<1> DEFINE f == q.th[t]
           k == L(q).nC + 1
           z == [q EXCEPT !.th[t].nC = k]
           r == Begun(q, t)
<1>1. /\ q \in CallsState /\ Core(q.th, q.cs, q.run) /\ ~IsBlock(q.cs[Len(q.cs)])
      /\ L(q).nC < MaxC + ExtraC /\ Placed(q.cs, Len(q.cs), L(q).ci, Depth(q)) /\ ~IsLua(TopCI(q))
  BY InC
<1>2. CASE ~Enterable(f)
  <2>1. Resume(q, t, body) = ResumeError(q)
    BY <1>2 DEF Resume, Enterable
  <2>2. Resting(q)
    BY <1>1 DEF Resting
  <2> QED BY <1>1, <2>1, <2>2, ResumeErrorGood
<1>3. CASE Enterable(f) /\ k >= MaxC
  <2>1. Resume(q, t, body) = ResumeError(z)
    BY <1>3 DEF Resume, Enterable
  <2>2. /\ q.th \in [Threads -> ThreadState] /\ L(q) = q.th[q.run] /\ L(q).nC \in Int /\ q.run \in Threads
    BY <1>1, Fields
  <2> DEFINE g == [f EXCEPT !.nC = k]
             tk == [q.th EXCEPT ![t] = g]
  <2>3. t # q.run /\ ~OnStack(q.cs, t) /\ (f.status = "ok" => f.ci = << >>) /\ FramesOK(f.ci, {})
    BY <1>3, OffStack
  <2>4. g \in ThreadState /\ g.ci = f.ci /\ g.status = f.status
    <3>1. k \in Int /\ f \in ThreadState
      BY <2>2
    <3> HIDE DEF k, f
    <3> QED BY <3>1 DEF ThreadState
  <2>5. z = [q EXCEPT !.th = tk]
    BY <1>1 DEF CallsState
  <2> HIDE DEF g, k
  <2>6. tk \in [Threads -> ThreadState] /\ tk[t] = g /\ \A u \in Threads \ {t} : tk[u] = q.th[u]
    BY <2>2, <2>4
  <2> HIDE DEF tk, z
  <2>7. z \in CallsState /\ z.th = tk /\ z.cs = q.cs /\ z.run = q.run
    BY <1>1, <2>5, <2>6 DEF CallsState
  <2>8. Core(tk, q.cs, q.run)
    BY <1>1, <2>3, <2>4, <2>6, IdleChanged
  <2>9. L(z) = L(q) /\ Depth(z) = Depth(q) /\ TopCI(z) = TopCI(q)
    BY <2>2, <2>3, <2>6, <2>7 DEF L, Depth, TopCI
  <2>10. Resting(z)
    BY <1>1, <2>7, <2>8, <2>9 DEF Resting
  <2> QED BY <1>1, <2>1, <2>9, <2>10, ResumeErrorGood
<1>4. CASE Enterable(f) /\ ~(k >= MaxC)
  <2>1. Resume(q, t, body) = IF f.status = "ok" THEN Precall(r, body, body \in LuaKinds) ELSE Goto(DropCI(r), "unroll")
    BY <1>4 DEF Resume, Enterable, Begun, Guarded
  <2>2. k < MaxC
    <3>1. k \in Int /\ MaxC \in Int
      BY <1>1, Fields, CallsAssumption
    <3> QED BY <1>4, <3>1
  <2>3. /\ r \in CallsState /\ Core(r.th, r.cs, r.run) /\ ~IsBlock(r.cs[Len(r.cs)]) /\ IsResume(r.cs[Len(r.cs)])
        /\ CallDepths(r.cs, r.run) = {} /\ L(r).nC < MaxC + ExtraC /\ r.cs[Len(r.cs)].depth = 0
        /\ f.status = "ok" => Depth(r) = 0
    BY <1>4, <2>2, BegunGood
  <2> HIDE DEF r
  <2>4. CASE f.status = "ok"
    <3>1. body \in Kinds /\ (body \in LuaKinds) \in BOOLEAN
      BY DEF Kinds, LuaKinds, CKinds
    <3> DEFINE fresh == body \in LuaKinds
    <3>2. fresh \in BOOLEAN /\ ~(body \in LuaKinds /\ ~fresh)
      BY <3>1
    <3> HIDE DEF fresh
    <3>3. Good(Precall(r, body, fresh))
      BY <2>3, <2>4, <3>1, <3>2, PrecallGood
    <3> QED BY <2>1, <2>4, <3>3 DEF fresh
  <2>5. CASE f.status # "ok"
    <3>1. "unroll" \in Modes /\ r.ok \in BOOLEAN /\ Depth(r) \in Nat
      BY <2>3, Fields DEF Modes
    <3> DEFINE x == Without(r, "unroll", r.ok)
    <3>2. Goto(DropCI(r), "unroll") = x
      BY <2>3, <3>1, DropForms
    <3>3. CASE Depth(r) = 0
      <4> DEFINE y == Goto(r, "unroll")
      <4>1. x = y
        BY <2>3, <3>3, NothingDropped
      <4>2. y \in CallsState /\ y.th = r.th /\ y.cs = r.cs /\ y.run = r.run /\ y.mode = "unroll"
        BY <2>3 DEF CallsState, Goto
      <4> HIDE DEF y, x
      <4>3. L(y) = L(r)
        BY <4>2 DEF L
      <4>4. ModeOK(y)
        BY <2>3, <4>2, <4>3 DEF ModeOK
      <4>5. Good(y)
        BY <2>3, <4>2, <4>4, GoodCore
      <4> QED BY <2>1, <2>5, <3>2, <4>1, <4>5
    <3>4. CASE Depth(r) # 0
      <4>1. Returned(r, x) /\ x.mode = "unroll"
        <5>1. r.cs[Len(r.cs)].depth < Depth(r)
          BY <2>3, <3>1, <3>4
        <5> QED BY <2>3, <3>1, <5>1, Returning
      <4> HIDE DEF x
      <4>2. L(x).nC < MaxC + ExtraC /\ x \in CallsState
        BY <2>3, <4>1 DEF Returned
      <4>3. Good(Goto(x, "unroll"))
        BY <2>3, <4>1, <4>2, BackInUnroll
      <4>4. Goto(x, "unroll") = x
        BY <4>1, <4>2 DEF Goto, CallsState
      <4> QED BY <2>1, <2>5, <3>2, <4>3, <4>4
    <3> QED BY <3>3, <3>4
  <2> QED BY <2>4, <2>5
<1> QED
  BY <1>2, <1>3, <1>4

-----------------------------------------------------------------------------
(* Every step.                                                             *)

\* Every step.
LEMMA StepGood ==
  ASSUME Good(s), Next
  PROVE  Good(s)'
<1>1. s \in CallsState /\ L(s).nny \in Int /\ Depth(s) \in Nat
  <2>1. s \in CallsState
    BY DEF Good
  <2> QED BY <2>1, Fields
<1>2. CASE LuaReturn
  <2> DEFINE r == [DropCI(s) EXCEPT !.ok = TRUE]
             y == IF ~TopCI(s).fresh THEN r
                  ELSE IF Top(s.cs).what = "call" THEN Continue(r) ELSE Goto(r, "unroll")
  <2>1. s.mode = "lua" /\ s' = y
    BY <1>2 DEF LuaReturn
  <2>2. Good(y)
    BY <2>1, LuaReturnGood
  <2> QED BY <2>1, <2>2
<1>3. CASE CReturn
  <2> DEFINE r == [DropCI(s) EXCEPT !.ok = TRUE]
             e == Top(s.cs)
             y == IF e.what = "call" /\ e.th = s.run /\ e.depth = Depth(r) THEN Continue(r)
                  ELSE Goto(r, IF Depth(r) = 0 THEN "unroll" ELSE "lua")
  <2>1. s.mode = "cdone" /\ s' = y
    BY <1>3 DEF CReturn
  <2>2. Good(y)
    BY <2>1, CReturnGood
  <2> QED BY <2>1, <2>2
<1>4. CASE LuaCall
  <2>1. PICK kind \in {"lua"} \cup CKinds : s.mode = "lua" /\ s' = Precall(s, kind, FALSE)
    BY <1>4 DEF LuaCall
  <2>2. Good(Precall(s, kind, FALSE))
    BY <2>1, LuaCallGood
  <2> QED BY <2>1, <2>2
<1>5. CASE Metamethod
  <2>1. s.mode = "lua" /\ s' = LuaDCall(s, "meta", FALSE, "lua")
    BY <1>5 DEF Metamethod
  <2>2. Good(LuaDCall(s, "meta", FALSE, "lua"))
    BY <2>1, MetaGood
  <2> QED BY <2>1, <2>2
<1>6. CASE RaiseError
  <2>1. s.mode = "lua" /\ s' = Goto(s, "error")
    BY <1>6 DEF RaiseError
  <2>2. Good(Goto(s, "error"))
    <3>1. "error" \in {"error", "throw"} /\ s.mode # "end" /\ s.mode # "throw"
      BY <2>1
    <3> QED BY <3>1, GotoGood
  <2> QED BY <2>1, <2>2
<1>7. ASSUME NEW kind \in Kinds, NEW handler \in Nat, s.mode = "cstart", TopCI(s).kind \in {"pcall", "xpcall"}
      PROVE  Good(Pcall(s, kind, handler))
  <2>1. Good(ConventionalPcall(s, kind, handler))
    BY <1>7, ConventionalGood
  <2>2. Good(ContinuedPcall(s, kind, handler))
    BY <1>7, ContinuedGood
  <2> QED BY <2>1, <2>2 DEF Pcall
<1>8. CASE PcallStart
  <2>1. PICK kind \in {"lua", "pcall", "yield"} : CallsBack("pcall") /\ s' = Pcall(s, kind, 0)
    BY <1>8 DEF PcallStart
  <2>2. kind \in Kinds /\ s.mode = "cstart" /\ TopCI(s).kind \in {"pcall", "xpcall"} /\ 0 \in Nat
    BY <2>1 DEF CallsBack, Kinds, LuaKinds, CKinds
  <2>3. Good(Pcall(s, kind, 0))
    BY <1>7, <2>2
  <2> QED BY <2>1, <2>3
<1>9. CASE XpcallStart
  <2>1. CallsBack("xpcall") /\ s' = Pcall(s, "lua", Depth(s))
    BY <1>9 DEF XpcallStart
  <2>2. "lua" \in Kinds /\ s.mode = "cstart" /\ TopCI(s).kind \in {"pcall", "xpcall"}
    BY <2>1 DEF CallsBack, Kinds, LuaKinds
  <2>3. Good(Pcall(s, "lua", Depth(s)))
    BY <1>1, <1>7, <2>2
  <2> QED BY <2>1, <2>3
<1>10. CASE SortStart
  <2>1. PICK kind \in {"lua", "yield"} : CallsBack("sort") /\ s' = LuaDCall(s, "api", TRUE, kind)
    BY <1>10 DEF SortStart
  <2>2. kind \in Kinds /\ s.mode = "cstart" /\ TopCI(s).kind \notin {"pcall", "xpcall"}
    BY <2>1 DEF CallsBack, Kinds, LuaKinds, CKinds
  <2>3. Good(LuaDCall(s, "api", TRUE, kind))
    BY <2>2, SortGood
  <2> QED BY <2>1, <2>3
<1>11. CASE DofileStart
  <2> DEFINE x == LuaDCall(SetTop(s, [TopCI(s) EXCEPT !.k = TRUE]), "api", FALSE, "lua")
             y == LuaDCall(s, "api", TRUE, "lua")
  <2>1. CallsBack("dofile") /\ (s' = x \/ s' = y)
    BY <1>11 DEF DofileStart
  <2>2. "lua" \in Kinds /\ s.mode = "cstart" /\ TopCI(s).kind \notin {"pcall", "xpcall"}
    BY <2>1 DEF CallsBack, Kinds, LuaKinds
  <2>3. Good(x)
    BY <2>2, DofileGood
  <2>4. Good(y)
    BY <2>2, SortGood
  <2> QED BY <2>1, <2>3, <2>4
<1>12. CASE ResumeStart
  <2>1. PICK t \in Threads \ {Main}, body \in {"lua", "pcall"} :
          (CallsBack("resume") \/ CallsBack("wrap")) /\ s' = Resume(s, t, body)
    BY <1>12 DEF ResumeStart
  <2>2. s.mode = "cstart"
    BY <2>1 DEF CallsBack
  <2>3. Good(Resume(s, t, body))
    BY <2>2, ResumeGood
  <2> QED BY <2>1, <2>3
<1>13. CASE YieldStart
  <2>1. s.mode = "cstart" /\ s' = Yield(s)
    BY <1>13 DEF YieldStart, CallsBack
  <2>2. Good(Yield(s))
    BY <2>1, YieldGood
  <2> QED BY <2>1, <2>2
<1>14. CASE UnrollStep
  <2>1. s.mode = "unroll" /\ s' = Unroll(s)
    BY <1>14 DEF UnrollStep
  <2>2. Good(Unroll(s))
    BY <2>1, UnrollGood
  <2> QED BY <2>1, <2>2
<1>15. CASE ErrorStep
  <2>1. s.mode = "error" /\ s' = ErrorMsg(s)
    BY <1>15 DEF ErrorStep
  <2>2. Good(ErrorMsg(s))
    BY <2>1, ErrorGood
  <2> QED BY <2>1, <2>2
<1>16. CASE ThrowStep
  <2>1. s.mode = "throw" /\ s' = Throw(s)
    BY <1>16 DEF ThrowStep
  <2>2. Good(Throw(s))
    BY <2>1, ThrowGood
  <2> QED BY <2>1, <2>2
<1>17. CASE Create
  <2>1. PICK t \in Threads : s.mode = "lua" /\ Status(s, t) = "dead" /\ s' = [s EXCEPT !.th[t] = NewThread]
    BY <1>17 DEF Create
  <2>2. Good([s EXCEPT !.th[t] = NewThread])
    BY <2>1, CreateGood
  <2> QED BY <2>1, <2>2
<1> QED
  BY <1>2, <1>3, <1>4, <1>5, <1>6, <1>8, <1>9, <1>10, <1>11, <1>12, <1>13, <1>14, <1>15, <1>16, <1>17 DEF Next

\* What Matching says of the state is CountersMatch.
LEMMA MatchingCounts ==
  ASSUME s \in CallsState
  PROVE  Matching(s) <=> CountersMatch
<1> DEFINE n == Len(s.cs)
           cs == s.cs
<1>1. cs \in Seq(Entry) /\ n \in Nat
  BY Fields, LenProperties
<1>2. CCalls = Count(cs, n, Counting)
  <2>1. ASSUME NEW m \in 1 .. n PROVE cs[m] \in Counting <=> cs[m].what = "call" \/ cs[m].for = "resume"
    <3>1. cs[m] \in Entry
      BY <1>1, EntryFields
    <3> QED BY <3>1 DEF Counting
  <2>2. {m \in 1 .. n : cs[m] \in Counting} = {m \in 1 .. n : cs[m].what = "call" \/ cs[m].for = "resume"}
    BY <2>1
  <2> QED BY <2>2 DEF CCalls, Count
<1>3. ASSUME NEW t
      PROVE  Cardinality(Entries(s, t, LAMBDA e : e.what = "call" /\ e.noyield)) = Count(cs, n, NoYield(t))
  <2>1. ASSUME NEW m \in 1 .. n
        PROVE  cs[m] \in NoYield(t) <=> cs[m].th = t /\ cs[m].what = "call" /\ cs[m].noyield
    <3>1. cs[m] \in Entry
      BY <1>1, EntryFields
    <3> QED BY <3>1 DEF NoYield
  <2>2. {m \in 1 .. n : cs[m] \in NoYield(t)} = {m \in 1 .. n : cs[m].th = t /\ (cs[m].what = "call" /\ cs[m].noyield)}
    BY <2>1
  <2>3. Entries(s, t, LAMBDA e : e.what = "call" /\ e.noyield)
          = {m \in 1 .. n : cs[m].th = t /\ (cs[m].what = "call" /\ cs[m].noyield)}
    BY DEF Entries
  <2> QED BY <2>2, <2>3 DEF Count
<1>4. NnyCounts <=> \A t \in Threads : Status(s, t) \in {"running", "normal"} =>
                      s.th[t].nny = Count(cs, n, NoYield(t)) + Base(t)
  BY <1>3 DEF NnyCounts, Active, Base
<1> QED
  BY <1>2, <1>4 DEF Matching, CountersMatch, CCallsCounted

\* The main thread at the start.
LEMMA MainThread ==
  ASSUME NEW c \in Seq(CallInfos)
  PROVE  LET f == [NewThread EXCEPT !.ci = c, !.nny = 2, !.nC = 1, !.loaded = FALSE] IN
         f \in ThreadState /\ f.ci = c /\ f.status = "ok" /\ f.nny = 2 /\ f.nC = 1
<1> DEFINE h == [NewThread EXCEPT !.ci = c]
           i == [h EXCEPT !.nny = 2]
           j == [i EXCEPT !.nC = 1]
           k == [j EXCEPT !.loaded = FALSE]
<1>1. NewThread \in ThreadState /\ NewThread.status = "ok"
  BY EmptySeq DEF NewThread, ThreadState
<1>2. h \in ThreadState /\ h.ci = c /\ h.status = "ok"
  BY <1>1 DEF ThreadState
<1>3. i \in ThreadState /\ i.ci = c /\ i.status = "ok" /\ i.nny = 2
  <2> HIDE DEF h
  <2> QED BY <1>2 DEF ThreadState
<1>4. j \in ThreadState /\ j.ci = c /\ j.status = "ok" /\ j.nny = 2 /\ j.nC = 1
  <2> HIDE DEF i
  <2> QED BY <1>3 DEF ThreadState
<1>5. k \in ThreadState /\ k.ci = c /\ k.status = "ok" /\ k.nny = 2 /\ k.nC = 1
  <2> HIDE DEF j
  <2> QED BY <1>4 DEF ThreadState
<1>6. [NewThread EXCEPT !.ci = c, !.nny = 2, !.nC = 1, !.loaded = FALSE] = k
  BY <1>1 DEF ThreadState
<1> HIDE DEF k
<1> QED
  BY <1>5, <1>6

\* The invariant holds at the start.
LEMMA InitGood ==
  ASSUME Init
  PROVE  Good(s)
<1> DEFINE frame == [CallInfo("lua") EXCEPT !.fresh = TRUE]
           main == [NewThread EXCEPT !.ci = << frame >>, !.nny = 2, !.nC = 1, !.loaded = FALSE]
           th == [t \in Threads |-> IF t # Main THEN NewThread ELSE main]
           block == [what |-> "try", for |-> "pcall", th |-> Main, nC |-> 0, nny |-> 1,
                     err |-> 0, depth |-> 0, from |-> Main]
           call == [what |-> "call", th |-> Main, by |-> "api", noyield |-> TRUE, depth |-> 0]
           cs == << block, call >>
           q == [th |-> th, cs |-> cs, run |-> Main, mode |-> "lua", err |-> "run", ok |-> TRUE]
<1>1. s = q
  BY DEF Init
<1>2. Main \in Threads /\ MaxC \in Nat /\ MaxC > 0 /\ ExtraC \in Nat /\ ExtraC > 0
  BY CallsAssumption
\* The threads.
<1>3. /\ frame \in CallInfos /\ frame.fresh /\ IsLua(frame)
  BY DEF CallInfo, CallInfos, IsLua, LuaKinds
<1>4. NewThread \in ThreadState /\ NewThread.ci = << >> /\ NewThread.status = "ok"
  BY EmptySeq DEF NewThread, ThreadState
<1> HIDE DEF frame
<1>6. << frame >> \in Seq(CallInfos) /\ Len(<< frame >>) = 1 /\ << frame >>[1] = frame
  BY <1>3
<1>7. /\ main \in ThreadState /\ main.ci = << frame >> /\ main.status = "ok"
      /\ main.nny = 2 /\ main.nC = 1
  BY <1>6, MainThread
<1> HIDE DEF main
<1>8. /\ th \in [Threads -> ThreadState] /\ th[Main] = main
      /\ \A t \in Threads \ {Main} : th[t] = NewThread
  BY <1>2, <1>4, <1>7
<1> HIDE DEF th
\* The C stack.
<1>9. block \in Entry /\ IsBlock(block) /\ ~IsCall(block) /\ ~IsResume(block)
  BY <1>2 DEF Entry, TryEntry, IsBlock, IsCall, IsResume
<1>10. call \in Entry /\ IsCall(call) /\ ~IsBlock(call) /\ ~IsResume(call)
  BY <1>2 DEF Entry, CallEntry, IsBlock, IsCall, IsResume
<1>11. block \notin Counting /\ \A t : block \notin NoYield(t)
  BY DEF Counting, NoYield
<1>12. call \in Counting /\ call \in NoYield(Main)
  BY <1>10 DEF Counting, NoYield
<1>13. /\ block.th = Main /\ block.nC = 0 /\ block.nny = 1 /\ block.depth = 0
       /\ call.th = Main /\ call.by = "api" /\ call.noyield /\ call.depth = 0
  OBVIOUS
<1> HIDE DEF block, call
<1>14. cs \in Seq(Entry) /\ Len(cs) = 2 /\ cs[1] = block /\ cs[2] = call
  BY <1>9, <1>10
<1> HIDE DEF cs
<1>15. /\ Count(cs, 0, Counting) = 0 /\ Count(cs, 2, Counting) = 1
       /\ Count(cs, 0, NoYield(Main)) = 0 /\ Count(cs, 2, NoYield(Main)) = 1
  <2>1. ASSUME NEW E, block \notin E, call \in E
        PROVE  Count(cs, 0, E) = 0 /\ Count(cs, 2, E) = 1
    <3>1. 0 \in Nat /\ 1 \in Nat /\ 0 + 1 = 1 /\ 1 + 1 = 2
      OBVIOUS
    <3>2. Count(cs, 0, E) = 0 /\ Count(cs, 0 + 1, E) = Count(cs, 0, E) + (IF cs[0 + 1] \in E THEN 1 ELSE 0)
      BY <3>1, CountStep
    <3>3. Count(cs, 1 + 1, E) = Count(cs, 1, E) + (IF cs[1 + 1] \in E THEN 1 ELSE 0)
      BY <3>1, CountStep
    <3> QED BY <1>14, <2>1, <3>2, <3>3
  <2> QED BY <1>11, <1>12, <2>1
<1>16. CallDepths(cs, Main) = {0} /\ OnStack(cs, Main)
  <2>1. {k \in 1 .. Len(cs) : IsCall(cs[k]) /\ cs[k].th = Main} = {2}
    BY <1>9, <1>10, <1>13, <1>14
  <2> QED BY <1>13, <1>14, <2>1 DEF CallDepths, OnStack
<1>17. \A t \in Threads \ {Main} : ~OnStack(cs, t)
  BY <1>13, <1>14 DEF OnStack
\* The invariant.
<1>18. EntryOK(th, cs, 1) /\ EntryOK(th, cs, 2)
  <2>1. Ordered(cs, 1) /\ Ordered(cs, 2)
    BY <1>13, <1>14 DEF Ordered
  <2>2. BlockOK(cs, 1)
    BY <1>10, <1>13, <1>14, <1>15 DEF BlockOK, Covered, Base
  <2>3. ApiOK(th[Main].ci, cs, 2)
    BY <1>13, <1>14 DEF ApiOK
  <2> QED BY <1>6, <1>7, <1>8, <1>9, <1>10, <1>13, <1>14, <2>1, <2>2, <2>3 DEF EntryOK
<1>19. \A t \in Threads : ThreadOK(th, cs, Main, t)
  <2>1. ThreadOK(th, cs, Main, Main)
    <3>1. FramesOK(main.ci, {0})
      BY <1>3, <1>6, <1>7 DEF FramesOK
    <3> QED BY <1>7, <1>8, <1>14, <1>15, <1>16, <3>1 DEF ThreadOK, Base
  <2>2. ASSUME NEW t \in Threads \ {Main} PROVE ThreadOK(th, cs, Main, t)
    <3>1. FramesOK(<< >>, CallDepths(cs, t))
      BY DEF FramesOK
    <3> QED BY <1>4, <1>8, <1>17, <3>1 DEF ThreadOK
  <2> QED BY <2>1, <2>2
<1>20. Core(th, cs, Main)
  BY <1>2, <1>7, <1>8, <1>9, <1>13, <1>14, <1>15, <1>18, <1>19 DEF Core
<1>21. q \in CallsState /\ q.th = th /\ q.cs = cs /\ q.run = Main /\ q.mode = "lua"
  BY <1>2, <1>8, <1>14 DEF CallsState
<1>22. L(q) = main /\ Depth(q) = 1 /\ TopCI(q) = frame
  BY <1>6, <1>7, <1>8, <1>21 DEF L, Depth, TopCI
<1> HIDE DEF q
<1>23. ModeOK(q)
  <2>1. Placed(cs, 2, main.ci, 1)
    BY <1>3, <1>6, <1>7, <1>13, <1>14 DEF Placed
  <2>2. L(q).nC < MaxC + ExtraC /\ IsLua(TopCI(q)) /\ Placed(q.cs, Len(q.cs), L(q).ci, Depth(q))
    <3>1. L(q).nC = 1 /\ 1 < MaxC + ExtraC
      BY <1>2, <1>7, <1>22
    <3>2. L(q).ci = main.ci /\ q.cs = cs /\ Len(cs) = 2
      BY <1>14, <1>21, <1>22
    <3> QED BY <1>3, <1>22, <2>1, <3>1, <3>2
  <2> QED BY <1>21, <2>2 DEF ModeOK
<1>24. ~IsBlock(q.cs[Len(q.cs)])
  BY <1>10, <1>14, <1>21
<1>25. Good(q)
  BY <1>20, <1>21, <1>23, <1>24, GoodCore
<1> QED
  BY <1>1, <1>25

\* After every call, return, error, recovery, yield and resumption nny of every
\* running or waiting thread is the number of its calls that must not be unwound,
\* nCcalls of the running thread is the number of C calls and resumptions, and
\* that stays below the hard limit, also while an error is handled (ldo.c).
THEOREM CountersAgree == Spec => []CountersMatch
<1>1. Init => Good(s)
  BY InitGood
<1>2. Good(s) /\ [Next]_vars => Good(s)'
  <2>1. CASE Next
    BY <2>1, StepGood
  <2>2. CASE UNCHANGED vars
    <3>1. s' = s
      BY <2>2 DEF vars
    <3>2. ASSUME Good(s) PROVE Good(s')
      BY <3>1, <3>2
    <3> QED BY <3>2
  <2> QED BY <2>1, <2>2
<1>3. Good(s) => CountersMatch
  BY MatchingCounts DEF Good
<1> QED
  BY <1>1, <1>2, <1>3, PTL DEF Spec
=============================================================================
