-------------------------- MODULE AtomicWriteProofs ------------------------
(***************************************************************************)
(* Theorems about AtomicWrite, for every set of writers, every string and  *)
(* every number of failing fsyncs.                                         *)
(***************************************************************************)
EXTENDS AtomicWrite, SequenceTheorems, TLAPS

Open == {"write", "sync", "again", "rename"}

(***************************************************************************)
(* The temporary file of a writer that has not renamed it yet.  What it    *)
(* holds and what is left to write are never less than the string; before  *)
(* the rename all of it is on the disk.                                    *)
(***************************************************************************)
Staged(w) ==
  /\ pc[w] \in Open => /\ temp[w] # NoFile
                       /\ Blocks(temp[w].text) \subseteq Blocks(Text[w])
  /\ pc[w] = "write" => /\ left[w] >= 1
                        /\ Len(temp[w].text) + left[w] >= Len(Text[w])
  /\ pc[w] \in Open \ {"write"} => Len(temp[w].text) >= Len(Text[w])
  /\ pc[w] = "rename" => temp[w].synced = Len(temp[w].text)
  /\ pc[w] = "chmod" => Mode[w] # NoMode

Inv == TypeOK /\ NeverTorn /\ \A w \in Writers : Staged(w)

(***************************************************************************)
(* What one write(2) of a prefix of a string adds to a file.               *)
(***************************************************************************)
LEMMA AppendPrefix ==
  ASSUME NEW S, NEW s \in Seq(S), NEW t \in Seq(S), NEW k \in 1..Len(t)
  PROVE  /\ s \o SubSeq(t, 1, k) \in Seq(S)
         /\ Len(s \o SubSeq(t, 1, k)) = Len(s) + k
         /\ Blocks(s \o SubSeq(t, 1, k)) \subseteq Blocks(s) \cup Blocks(t)
<1> DEFINE p == SubSeq(t, 1, k)
<1>1. p \in Seq(S) /\ Len(p) = k /\ \A j \in 1..k : p[j] = t[j]
  BY SubSeqProperties
<1> HIDE DEF p
<1>2. /\ s \o p \in Seq(S) /\ Len(s \o p) = Len(s) + k
      /\ \A j \in 1..(Len(s) + k) :
           (s \o p)[j] = IF j <= Len(s) THEN s[j] ELSE p[j - Len(s)]
  BY <1>1
<1>3. ASSUME NEW b \in Blocks(s \o p) PROVE b \in Blocks(s) \cup Blocks(t)
  <2>1. PICK j \in 1..(Len(s) + k) : b = (s \o p)[j]
    BY <1>2 DEF Blocks
  <2>2. CASE j <= Len(s)
    <3>1. b = s[j] /\ j \in DOMAIN s
      BY <1>2, <2>1, <2>2
    <3> QED BY <3>1 DEF Blocks
  <2>3. CASE j > Len(s)
    <3>1. j - Len(s) \in 1..k /\ b = p[j - Len(s)]
      BY <1>2, <2>1, <2>3
    <3>2. b = t[j - Len(s)] /\ j - Len(s) \in DOMAIN t
      BY <1>1, <3>1
    <3> QED BY <3>2 DEF Blocks
  <2>4. j <= Len(s) \/ j > Len(s)
    BY <2>1
  <2> QED BY <2>2, <2>3, <2>4
<1> QED BY <1>2, <1>3 DEF p

LEMMA InvInit == Init => Inv
<1> SUFFICES ASSUME Init PROVE Inv
  OBVIOUS
<1> USE AtomicWriteAssumption DEF Init
<1>1. target \in File /\ target.synced = Len(target.text) /\ IsFile(target)
  BY DEF File, IsFile
<1>2. TypeOK
  <2>1. \A w \in Writers : left[w] \in (1 - Len(Text[w]))..Len(Text[w])
    <3> SUFFICES ASSUME NEW w \in Writers PROVE 0 \in (1 - Len(Text[w]))..Len(Text[w])
      OBVIOUS
    <3>1. Text[w] \in Seq(AllBlocks) /\ Text[w] # << >>
      OBVIOUS
    <3> QED BY <3>1
  <2> QED BY <1>1, <2>1 DEF TypeOK, Over
<1>3. NeverTorn
  BY <1>1 DEF NeverTorn
<1> QED BY <1>2, <1>3 DEF Inv, Staged, Open

(***************************************************************************)
(* One unistd.write of a writer, the only step that makes a file longer.   *)
(***************************************************************************)
LEMMA InvWrite == ASSUME Inv, NEW w \in Writers, Write(w) PROVE Inv'
<1> USE AtomicWriteAssumption
<1>1. PICK k \in 1..Len(Text[w]) :
        /\ temp' = [temp EXCEPT ![w].text = @ \o SubSeq(Text[w], 1, k)]
        /\ left' = [left EXCEPT ![w] = @ - k]
        /\ clean' = [clean EXCEPT ![w] = @ /\ k = Len(Text[w])]
        /\ pc' = [pc EXCEPT ![w] = IF k < left[w] THEN "write" ELSE "sync"]
  BY DEF Write, Goto
<1>2. /\ pc[w] = "write" /\ UNCHANGED <<badSyncs, target, mode, by>>
      /\ Text[w] \in Seq(AllBlocks)
  BY DEF Write
<1>3. /\ temp[w] \in File /\ temp[w].synced <= Len(temp[w].text)
      /\ left[w] >= 1 /\ Len(temp[w].text) + left[w] >= Len(Text[w])
      /\ Blocks(temp[w].text) \subseteq Blocks(Text[w])
      /\ left[w] \in Int /\ left[w] <= Len(Text[w])
  <2>1. temp[w] # NoFile /\ Blocks(temp[w].text) \subseteq Blocks(Text[w])
    BY <1>2 DEF Inv, Staged, Open
  <2>2. temp[w] \in File /\ temp[w].synced <= Len(temp[w].text)
    BY <2>1 DEF Inv, TypeOK, IsFile
  <2>3. left[w] >= 1 /\ Len(temp[w].text) + left[w] >= Len(Text[w])
    BY <1>2 DEF Inv, Staged
  <2>4. left[w] \in Int /\ left[w] \in (1 - Len(Text[w]))..Len(Text[w])
    BY DEF Inv, TypeOK
  <2>5. Len(Text[w]) \in Nat
    BY <1>2
  <2> QED BY <2>1, <2>2, <2>3, <2>4, <2>5
<1> DEFINE new == temp[w].text \o SubSeq(Text[w], 1, k)
<1>4. temp[w].text \in Seq(AllBlocks) /\ temp[w].synced \in Nat
  BY <1>3 DEF File
<1>5. /\ new \in Seq(AllBlocks) /\ Len(new) = Len(temp[w].text) + k
      /\ Blocks(new) \subseteq Blocks(temp[w].text) \cup Blocks(Text[w])
  BY <1>2, <1>4, AppendPrefix
<1> HIDE DEF new
<1>6. /\ temp'[w] = [text |-> new, synced |-> temp[w].synced]
      /\ temp' = [temp EXCEPT ![w] = [text |-> new, synced |-> temp[w].synced]]
  <2>1. [temp[w] EXCEPT !.text = new] = [text |-> new, synced |-> temp[w].synced]
    BY <1>3 DEF File
  <2>2. temp' = [temp EXCEPT ![w] = [temp[w] EXCEPT !.text = new]]
    BY <1>1 DEF new
  <2> QED BY <2>1, <2>2 DEF Inv, TypeOK
<1>7. [text |-> new, synced |-> temp[w].synced] \in {f \in File : IsFile(f)}
  <2>1. [text |-> new, synced |-> temp[w].synced] \in File
    BY <1>4, <1>5 DEF File
  <2>2. temp[w].synced <= Len(new)
    BY <1>3, <1>4, <1>5
  <2> QED BY <2>1, <2>2 DEF IsFile
<1>8. /\ left' = [left EXCEPT ![w] = left[w] - k]
      /\ left[w] - k \in (1 - Len(Text[w]))..Len(Text[w])
  BY <1>1, <1>2, <1>3
<1>9. TypeOK'
  <2>1. temp' \in [Writers -> {f \in File : IsFile(f)} \cup {NoFile}]
    BY <1>6, <1>7 DEF Inv, TypeOK
  <2>2. left' \in [Writers -> Int] /\ \A v \in Writers : left'[v] \in (1 - Len(Text[v]))..Len(Text[v])
    <3>1. left \in [Writers -> Int]
          /\ \A v \in Writers : left[v] \in (1 - Len(Text[v]))..Len(Text[v])
      BY DEF Inv, TypeOK
    <3>2. left[w] - k \in Int
      BY <1>3
    <3>3. ASSUME NEW v \in Writers PROVE left'[v] = IF v = w THEN left[w] - k ELSE left[v]
      BY <1>8, <3>1
    <3> QED BY <1>8, <3>1, <3>2, <3>3
  <2>3. pc' \in [Writers -> {"start", "write", "sync", "again", "rename", "chmod"} \cup Over]
    BY <1>1 DEF Inv, TypeOK
  <2>4. clean' \in [Writers -> BOOLEAN]
    BY <1>1 DEF Inv, TypeOK
  <2> QED BY <1>2, <2>1, <2>2, <2>3, <2>4 DEF Inv, TypeOK
<1>10. NeverTorn'
  BY <1>2 DEF Inv, NeverTorn
<1>11. ASSUME NEW v \in Writers PROVE Staged(v)'
  <2>1. CASE v # w
    BY <1>1, <1>6, <2>1 DEF Inv, TypeOK, Staged
  <2>2. CASE v = w
    <3>1. /\ temp'[w].text = new /\ temp'[w] # NoFile
          /\ Blocks(temp'[w].text) \subseteq Blocks(Text[w])
      BY <1>3, <1>5, <1>6, <1>7
    <3>2. pc'[w] = IF k < left[w] THEN "write" ELSE "sync"
      BY <1>1 DEF Inv, TypeOK
    <3>3. left'[w] = left[w] - k
      BY <1>8 DEF Inv, TypeOK
    <3>4. CASE k < left[w]
      <4>1. left[w] - k >= 1 /\ Len(new) + (left[w] - k) >= Len(Text[w])
        <5>1. Len(temp[w].text) \in Nat /\ Len(Text[w]) \in Nat
          BY <1>2, <1>4
        <5> QED BY <1>3, <1>5, <3>4, <5>1
      <4> QED BY <2>2, <3>1, <3>2, <3>3, <3>4, <4>1 DEF Staged, Open
    <3>5. CASE ~ (k < left[w])
      <4>1. Len(new) >= Len(Text[w])
        <5>1. Len(temp[w].text) \in Nat /\ Len(Text[w]) \in Nat
          BY <1>2, <1>4
        <5> QED BY <1>3, <1>5, <3>5, <5>1
      <4> QED BY <2>2, <3>1, <3>2, <3>5, <4>1 DEF Staged, Open
    <3> QED BY <3>4, <3>5
  <2> QED BY <2>1, <2>2
<1> QED BY <1>9, <1>10, <1>11 DEF Inv

(***************************************************************************)
(* The steps that only move a writer on, or touch its file's bookkeeping.  *)
(***************************************************************************)
LEMMA InvMove ==
  ASSUME Inv, NEW w \in Writers,
         \/ WriteFails(w) \/ SyncFails(w) \/ SyncInterrupted(w)
         \/ RenameFails(w) \/ Kill(w)
  PROVE  Inv'
<1> USE AtomicWriteAssumption
<1>1. Text[w] \in Seq(AllBlocks) /\ Text[w] # << >>
  OBVIOUS
<1>2. Len(Text[w]) >= 1 /\ Len(Text[w]) \in (1 - Len(Text[w]))..Len(Text[w])
  BY <1>1
<1>3. UNCHANGED <<temp, target, mode, by>>
  BY DEF WriteFails, SyncFails, SyncInterrupted, RenameFails, Kill
<1>4. TypeOK'
  <2>1. left' \in [Writers -> Int]
        /\ \A v \in Writers : left'[v] \in (1 - Len(Text[v]))..Len(Text[v])
    <3>1. left' = left \/ left' = [left EXCEPT ![w] = Len(Text[w])]
      BY DEF WriteFails, SyncFails, SyncInterrupted, RenameFails, Kill
    <3>2. Len(Text[w]) \in Int
      BY <1>1
    <3>3. /\ left \in [Writers -> Int]
          /\ \A v \in Writers : left[v] \in (1 - Len(Text[v]))..Len(Text[v])
      BY DEF Inv, TypeOK
    <3>4. CASE left' = left
      BY <3>3, <3>4
    <3>5. CASE left' = [left EXCEPT ![w] = Len(Text[w])]
      <4>1. ASSUME NEW v \in Writers
            PROVE  left'[v] = IF v = w THEN Len(Text[w]) ELSE left[v]
        BY <3>3, <3>5
      <4>2. left' \in [Writers -> Int]
        BY <3>2, <3>3, <3>5
      <4> QED BY <1>2, <3>3, <4>1, <4>2
    <3> QED BY <3>1, <3>4, <3>5
  <2>2. badSyncs' \in [Writers -> 0..MaxBadSyncs] /\ clean' \in [Writers -> BOOLEAN]
    <3>1. badSyncs \in [Writers -> 0..MaxBadSyncs] /\ clean \in [Writers -> BOOLEAN]
      BY DEF Inv, TypeOK
    <3>2. CASE SyncFails(w)
      <4>1. /\ badSyncs[w] < MaxBadSyncs /\ badSyncs' = [badSyncs EXCEPT ![w] = badSyncs[w] + 1]
            /\ clean' = [clean EXCEPT ![w] = FALSE]
        BY <3>2 DEF SyncFails
      <4>2. badSyncs[w] \in 0..MaxBadSyncs /\ MaxBadSyncs \in Nat
        BY <3>1
      <4>3. badSyncs[w] + 1 \in 0..MaxBadSyncs
        BY <4>1, <4>2
      <4> QED BY <3>1, <4>1, <4>3
    <3>3. CASE UNCHANGED <<badSyncs, clean>>
      BY <3>1, <3>3
    <3> QED BY <3>2, <3>3 DEF WriteFails, SyncInterrupted, RenameFails, Kill
  <2>3. pc' \in [Writers -> {"start", "write", "sync", "again", "rename", "chmod"} \cup Over]
    BY DEF Inv, TypeOK, WriteFails, SyncFails, SyncInterrupted, RenameFails, Kill, Goto, Over
  <2> QED BY <1>3, <2>1, <2>2, <2>3 DEF Inv, TypeOK
<1>5. NeverTorn'
  BY <1>3 DEF Inv, NeverTorn
<1>6. ASSUME NEW v \in Writers PROVE Staged(v)'
  <2>1. CASE v # w
    BY <1>3, <2>1 DEF Inv, TypeOK, Staged, WriteFails, SyncFails, SyncInterrupted,
                      RenameFails, Kill, Goto
  <2>2. CASE v = w /\ SyncFails(w)
    <3>1. /\ pc[w] \in Open /\ pc'[w] = "write" /\ left'[w] = Len(Text[w])
      BY <2>2 DEF SyncFails, Goto, Open, Inv, TypeOK
    <3>2. temp[w] \in File /\ Len(temp[w].text) \in Nat
      BY <3>1 DEF Inv, Staged, TypeOK, File
    <3>3. Len(temp'[w].text) + left'[w] >= Len(Text[w]) /\ left'[w] >= 1
      <4>1. temp'[w] = temp[w] /\ Len(Text[w]) \in Nat
        BY <1>1, <1>3
      <4>2. left'[w] >= 1 /\ left'[w] = Len(Text[w])
        BY <1>2, <3>1
      <4>3. Len(temp'[w].text) \in Nat
        BY <3>2, <4>1
      <4>4. ASSUME NEW a \in Nat, NEW b \in Nat PROVE a + b >= b
        OBVIOUS
      <4>5. Len(temp'[w].text) + Len(Text[w]) >= Len(Text[w])
        BY <4>1, <4>3, <4>4
      <4> QED BY <4>2, <4>5
    <3> QED BY <1>3, <2>2, <3>1, <3>3 DEF Inv, Staged, Open
  <2>3. CASE v = w /\ SyncInterrupted(w)
    BY <1>3, <2>3 DEF Inv, TypeOK, Staged, SyncInterrupted, Goto, Open
  <2>4. CASE v = w /\ (WriteFails(w) \/ RenameFails(w) \/ Kill(w))
    BY <1>3, <2>4 DEF Inv, TypeOK, Staged, WriteFails, RenameFails, Kill, Goto, Open
  <2> QED BY <2>1, <2>2, <2>3, <2>4
<1> QED BY <1>4, <1>5, <1>6 DEF Inv

\* The temporary file is made, empty.
LEMMA InvCreate == ASSUME Inv, NEW w \in Writers, Create(w) PROVE Inv'
<1> USE AtomicWriteAssumption
<1> DEFINE new == [text |-> << >>, synced |-> 0]
<1>1. /\ pc[w] = "start" /\ UNCHANGED <<badSyncs, target, mode, by, clean>>
      /\ Text[w] \in Seq(AllBlocks) /\ Text[w] # << >>
  BY DEF Create
<1>2. /\ Len(Text[w]) >= 1 /\ Len(Text[w]) \in Int
      /\ Len(Text[w]) \in (1 - Len(Text[w]))..Len(Text[w])
  BY <1>1
<1>3. new \in {f \in File : IsFile(f)} /\ new # NoFile
  <2>1. << >> \in Seq(AllBlocks) /\ Len(<< >>) = 0
    OBVIOUS
  <2>2. new \in File
    BY <2>1 DEF File
  <2> QED BY <2>1, <2>2 DEF IsFile
<1>4. CASE pc' = [pc EXCEPT ![w] = "failed"] /\ UNCHANGED <<temp, left>>
  BY <1>1, <1>4 DEF Inv, TypeOK, NeverTorn, Staged, Open, Over
<1>5. CASE /\ temp' = [temp EXCEPT ![w] = new]
           /\ left' = [left EXCEPT ![w] = Len(Text[w])]
           /\ pc' = [pc EXCEPT ![w] = "write"]
  <2>1. temp' \in [Writers -> {f \in File : IsFile(f)} \cup {NoFile}]
    BY <1>3, <1>5 DEF Inv, TypeOK
  <2>2. ASSUME NEW v \in Writers
        PROVE  /\ left'[v] = IF v = w THEN Len(Text[w]) ELSE left[v]
               /\ temp'[v] = IF v = w THEN new ELSE temp[v]
               /\ pc'[v] = IF v = w THEN "write" ELSE pc[v]
    BY <1>5 DEF Inv, TypeOK
  <2>3. left' \in [Writers -> Int]
    BY <1>2, <1>5 DEF Inv, TypeOK
  <2>4. \A v \in Writers : left'[v] \in (1 - Len(Text[v]))..Len(Text[v])
    BY <1>2, <2>2 DEF Inv, TypeOK
  <2>5. pc' \in [Writers -> {"start", "write", "sync", "again", "rename", "chmod"} \cup Over]
    BY <1>5 DEF Inv, TypeOK
  <2>6. TypeOK'
    BY <1>1, <2>1, <2>3, <2>4, <2>5 DEF Inv, TypeOK
  <2>7. NeverTorn'
    BY <1>1 DEF Inv, NeverTorn
  <2>8. ASSUME NEW v \in Writers PROVE Staged(v)'
    <3>1. CASE v # w
      BY <2>2, <3>1 DEF Inv, Staged
    <3>2. CASE v = w
      <4>1. temp'[w] = new /\ left'[w] = Len(Text[w]) /\ pc'[w] = "write"
        BY <2>2
      <4>2. Len(new.text) = 0 /\ Blocks(new.text) \subseteq Blocks(Text[w])
        BY DEF Blocks
      <4>3. Len(temp'[w].text) + left'[w] >= Len(Text[w])
        BY <1>2, <4>1, <4>2
      <4> QED BY <1>2, <1>3, <3>2, <4>1, <4>2, <4>3 DEF Staged, Open
    <3> QED BY <3>1, <3>2
  <2> QED BY <2>6, <2>7, <2>8 DEF Inv
<1> QED BY <1>4, <1>5 DEF Create, Goto

\* fsync: all of the file is on the disk.
LEMMA InvSync ==
  ASSUME Inv, NEW w \in Writers, Sync(w) \/ SyncAgain(w) PROVE Inv'
<1> USE AtomicWriteAssumption
<1>1. /\ pc[w] \in {"sync", "again"} /\ UNCHANGED <<left, badSyncs, target, mode, by, clean>>
      /\ pc' = pc \/ pc' = [pc EXCEPT ![w] = "rename"]
      /\ pc[w] = "sync" => pc' = [pc EXCEPT ![w] = "rename"]
      /\ temp' = [temp EXCEPT ![w].synced = Len(temp[w].text)]
  BY DEF Sync, SyncAgain, Goto
<1>2. /\ temp[w] \in File /\ temp[w] # NoFile /\ Len(temp[w].text) >= Len(Text[w])
      /\ Blocks(temp[w].text) \subseteq Blocks(Text[w])
  BY <1>1 DEF Inv, TypeOK, Staged, Open
<1> DEFINE new == [text |-> temp[w].text, synced |-> Len(temp[w].text)]
<1>3. new \in {f \in File : IsFile(f)} /\ new # NoFile
  <2>1. Len(temp[w].text) \in Nat
    BY <1>2 DEF File
  <2>2. new \in File
    BY <1>2, <2>1 DEF File
  <2> QED BY <2>1, <2>2 DEF IsFile
<1>4. temp' = [temp EXCEPT ![w] = new]
  <2>1. [temp[w] EXCEPT !.synced = Len(temp[w].text)] = new
    BY <1>2 DEF File
  <2> QED BY <1>1, <2>1
<1>5. TypeOK'
  <2>1. temp' \in [Writers -> {f \in File : IsFile(f)} \cup {NoFile}]
    BY <1>3, <1>4 DEF Inv, TypeOK
  <2>2. pc' \in [Writers -> {"start", "write", "sync", "again", "rename", "chmod"} \cup Over]
    BY <1>1 DEF Inv, TypeOK
  <2> QED BY <1>1, <2>1, <2>2 DEF Inv, TypeOK
<1>6. NeverTorn'
  BY <1>1 DEF Inv, NeverTorn
<1>7. ASSUME NEW v \in Writers PROVE Staged(v)'
  <2>1. CASE v # w
    BY <1>1, <1>4, <2>1 DEF Inv, TypeOK, Staged
  <2>2. CASE v = w
    <3>1. temp'[w] = new /\ pc'[w] \in {"again", "rename"}
      BY <1>1, <1>4 DEF Inv, TypeOK
    <3> QED BY <1>2, <1>3, <2>2, <3>1 DEF Staged, Open
  <2> QED BY <2>1, <2>2
<1> QED BY <1>5, <1>6, <1>7 DEF Inv

\* The one step that changes what the name stands for.
LEMMA InvRename == ASSUME Inv, NEW w \in Writers, Rename(w) PROVE Inv'
<1> USE AtomicWriteAssumption
<1>1. /\ pc[w] = "rename" /\ target' = temp[w] /\ temp' = [temp EXCEPT ![w] = NoFile]
      /\ mode' = Private /\ by' = w /\ UNCHANGED <<left, badSyncs, clean>>
      /\ pc' = [pc EXCEPT ![w] = IF Mode[w] = NoMode THEN "done" ELSE "chmod"]
  BY DEF Rename, Goto
<1>2. /\ IsFile(temp[w]) /\ temp[w].synced = Len(temp[w].text)
      /\ Len(temp[w].text) >= Len(Text[w])
      /\ Blocks(temp[w].text) \subseteq Blocks(Text[w])
  BY <1>1 DEF Inv, TypeOK, Staged, Open
<1>3. TypeOK'
  <2>1. temp' \in [Writers -> {f \in File : IsFile(f)} \cup {NoFile}]
    BY <1>1 DEF Inv, TypeOK
  <2>2. pc' \in [Writers -> {"start", "write", "sync", "again", "rename", "chmod"} \cup Over]
    BY <1>1 DEF Inv, TypeOK, Over
  <2>3. IsFile(target)'
    BY <1>1, <1>2 DEF IsFile
  <2>4. /\ left' = left /\ badSyncs' = badSyncs /\ clean' = clean
        /\ mode' \in {OldMode, Private} /\ by' \in Writers
    BY <1>1
  <2>5. /\ left' \in [Writers -> Int] /\ badSyncs' \in [Writers -> 0..MaxBadSyncs]
        /\ \A v \in Writers : left'[v] \in (1 - Len(Text[v]))..Len(Text[v])
        /\ clean' \in [Writers -> BOOLEAN]
    BY <2>4 DEF Inv, TypeOK
  <2> QED BY <2>1, <2>2, <2>3, <2>4, <2>5 DEF TypeOK
<1>4. NeverTorn'
  BY <1>1, <1>2 DEF NeverTorn
<1>5. ASSUME NEW v \in Writers PROVE Staged(v)'
  BY <1>1 DEF Inv, TypeOK, Staged, Open
<1> QED BY <1>3, <1>4, <1>5 DEF Inv

LEMMA InvChmod == ASSUME Inv, NEW w \in Writers, Chmod(w) PROVE Inv'
<1>1. /\ pc[w] = "chmod" /\ UNCHANGED <<temp, left, badSyncs, target, by, clean>>
      /\ pc' = [pc EXCEPT ![w] = "done"] \/ pc' = [pc EXCEPT ![w] = "failed"]
      /\ mode' \in {mode, Mode[w]}
  BY DEF Chmod, Goto
<1>2. Mode[w] # NoMode
  BY <1>1 DEF Inv, Staged
<1>3. TypeOK'
  BY <1>1, <1>2 DEF Inv, TypeOK, Over
<1>4. NeverTorn'
  BY <1>1 DEF Inv, NeverTorn
<1>5. ASSUME NEW v \in Writers PROVE Staged(v)'
  BY <1>1 DEF Inv, TypeOK, Staged, Open
<1> QED BY <1>3, <1>4, <1>5 DEF Inv

\* What the name stands for has reached the disk, and survives.
LEMMA PowerLossHarmless == ASSUME Inv, PowerLoss PROVE target' = target
<1>1. target \in File /\ target.synced = Len(target.text)
  BY DEF Inv, TypeOK, IsFile, NeverTorn
<1>2. PICK k \in target.synced..Len(target.text) :
        target' = [text |-> SubSeq(target.text, 1, k), synced |-> k]
  BY DEF PowerLoss, Surviving
<1>3. target.text \in Seq(AllBlocks) /\ Len(target.text) \in Nat
  BY <1>1 DEF File
<1>4. k = Len(target.text)
  BY <1>1, <1>2, <1>3
<1>5. SubSeq(target.text, 1, Len(target.text)) = target.text
  BY <1>3, SubSeqFull
<1>6. target' = [text |-> target.text, synced |-> target.synced]
  BY <1>1, <1>2, <1>4, <1>5
<1> QED BY <1>1, <1>6 DEF File

LEMMA InvPowerLoss == ASSUME Inv, PowerLoss PROVE Inv'
<1>1. /\ UNCHANGED <<temp, left, badSyncs, mode, by, clean>>
      /\ pc' = [w \in Writers |-> IF pc[w] \in Over THEN pc[w] ELSE "dead"]
  BY DEF PowerLoss
<1>2. target' = target
  BY PowerLossHarmless
<1>3. TypeOK'
  BY <1>1, <1>2 DEF Inv, TypeOK, Over
<1>4. NeverTorn'
  BY <1>1, <1>2 DEF Inv, NeverTorn
<1>5. ASSUME NEW v \in Writers PROVE Staged(v)'
  BY <1>1 DEF Staged, Open, Over
<1> QED BY <1>3, <1>4, <1>5 DEF Inv

LEMMA InvNext == Inv /\ [Next]_vars => Inv'
<1> SUFFICES ASSUME Inv, [Next]_vars PROVE Inv'
  OBVIOUS
<1>1. CASE \E w \in Writers :
              \/ Create(w) \/ Write(w) \/ WriteFails(w)
              \/ Sync(w) \/ SyncFails(w) \/ SyncInterrupted(w) \/ SyncAgain(w)
              \/ Rename(w) \/ RenameFails(w) \/ Chmod(w) \/ Kill(w)
  BY <1>1, InvCreate, InvWrite, InvMove, InvSync, InvRename, InvChmod
<1>2. CASE PowerLoss
  BY <1>2, InvPowerLoss
<1>3. CASE Terminated \/ UNCHANGED vars
  BY <1>3 DEF Terminated, vars, Inv, TypeOK, NeverTorn, Staged
<1> QED BY <1>1, <1>2, <1>3 DEF Next

(***************************************************************************)
(* Every variable of atomic_write keeps its type; in particular every      *)
(* temporary file is a file of blocks some writer passed, no more of it    *)
(* synced than there is.                                                   *)
(***************************************************************************)
THEOREM TypeCorrect == Spec => []TypeOK
<1>1. Inv => TypeOK
  BY DEF Inv
<1> QED BY <1>1, InvInit, InvNext, PTL DEF Spec

(***************************************************************************)
(* For any number of writers and any strings, whatever falls short, fails, *)
(* is killed or loses power, the name never holds a torn file: it holds    *)
(* the old one, or one writer's blocks, all of them on the disk.           *)
(***************************************************************************)
THEOREM TargetNeverTorn == Spec => []NeverTorn
<1>1. Inv => NeverTorn
  BY DEF Inv
<1> QED BY <1>1, InvInit, InvNext, PTL DEF Spec

(***************************************************************************)
(* A writer that met no short write and no failing fsync has written       *)
(* nothing yet, or exactly its string.                                     *)
(***************************************************************************)
Exact(w) ==
  clean[w] => /\ pc[w] = "write" => temp[w].text = << >>
              /\ pc[w] \in Open \ {"write"} => temp[w].text = Text[w]

ExactInv == ExactIfUndisturbed /\ \A w \in Writers : Exact(w)

LEMMA ExactNext == Inv /\ ExactInv /\ [Next]_vars => ExactInv'
<1> SUFFICES ASSUME Inv, ExactInv, [Next]_vars PROVE ExactInv'
  OBVIOUS
<1> USE AtomicWriteAssumption
<1>0. /\ temp \in [Writers -> {f \in File : IsFile(f)} \cup {NoFile}]
      /\ DOMAIN pc = Writers /\ clean \in [Writers -> BOOLEAN]
      /\ by \in Writers \cup {NoFile}
  BY DEF Inv, TypeOK
<1>1. ASSUME NEW w \in Writers, Create(w) PROVE ExactInv'
  <2>1. UNCHANGED <<target, by, clean>> /\ pc[w] = "start"
    BY <1>1 DEF Create
  <2>2. CASE pc' = [pc EXCEPT ![w] = "failed"] /\ UNCHANGED temp
    BY <1>0, <2>1, <2>2 DEF ExactInv, ExactIfUndisturbed, Exact, Open
  <2>3. CASE /\ temp' = [temp EXCEPT ![w] = [text |-> << >>, synced |-> 0]]
             /\ pc' = [pc EXCEPT ![w] = "write"]
    BY <1>0, <2>1, <2>3 DEF ExactInv, ExactIfUndisturbed, Exact, Open
  <2> QED BY <1>1, <2>2, <2>3 DEF Create, Goto
<1>2. ASSUME NEW w \in Writers, Write(w) PROVE ExactInv'
  <2>1. PICK k \in 1..Len(Text[w]) :
          /\ temp' = [temp EXCEPT ![w].text = @ \o SubSeq(Text[w], 1, k)]
          /\ clean' = [clean EXCEPT ![w] = clean[w] /\ k = Len(Text[w])]
          /\ pc' = [pc EXCEPT ![w] = IF k < left[w] THEN "write" ELSE "sync"]
    BY <1>2 DEF Write, Goto
  <2>2. pc[w] = "write" /\ UNCHANGED <<target, by>> /\ Text[w] \in Seq(AllBlocks)
    BY <1>2 DEF Write
  <2>3. left[w] <= Len(Text[w]) /\ left[w] \in Int
    <3>1. left[w] \in (1 - Len(Text[w]))..Len(Text[w])
      BY DEF Inv, TypeOK
    <3> QED BY <2>2, <3>1
  <2>4. ExactIfUndisturbed'
    BY <1>0, <2>1, <2>2 DEF ExactInv, ExactIfUndisturbed
  <2>5. ASSUME NEW v \in Writers PROVE Exact(v)'
    <3>1. CASE v # w
      BY <1>0, <2>1, <3>1 DEF ExactInv, Exact
    <3>2. CASE v = w /\ clean[w] /\ k = Len(Text[w])
      <4>1. temp[w].text = << >> /\ temp[w] \in File
        BY <1>0, <2>2, <3>2 DEF ExactInv, Exact, Inv, Staged, Open
      <4>2. temp'[w].text = << >> \o SubSeq(Text[w], 1, Len(Text[w]))
        BY <1>0, <2>1, <3>2, <4>1 DEF File
      <4>3. SubSeq(Text[w], 1, Len(Text[w])) = Text[w]
        BY <2>2, SubSeqFull
      <4>4. << >> \o Text[w] = Text[w]
        BY <2>2
      <4>5. temp'[w].text = Text[w]
        BY <4>2, <4>3, <4>4
      <4>6. ~ (k < left[w])
        BY <2>2, <2>3, <3>2
      <4>7. pc'[w] = "sync"
        BY <1>0, <2>1, <4>6
      <4> QED BY <3>2, <4>5, <4>7 DEF Exact
    <3>3. CASE v = w /\ ~ (clean[w] /\ k = Len(Text[w]))
      BY <1>0, <2>1, <3>3 DEF Exact
    <3> QED BY <3>1, <3>2, <3>3
  <2> QED BY <2>4, <2>5 DEF ExactInv
<1>3. ASSUME NEW w \in Writers, Sync(w) \/ SyncAgain(w) PROVE ExactInv'
  <2>1. /\ pc[w] \in {"sync", "again"} /\ UNCHANGED <<target, by, clean>>
        /\ (pc' = pc) \/ pc' = [pc EXCEPT ![w] = "rename"]
        /\ temp' = [temp EXCEPT ![w].synced = Len(temp[w].text)]
    BY <1>3 DEF Sync, SyncAgain, Goto
  <2>2. temp[w] \in File
    BY <1>0, <2>1 DEF Inv, Staged, Open
  <2>3. temp'[w].text = temp[w].text /\ \A v \in Writers : v # w => temp'[v] = temp[v]
    BY <1>0, <2>1, <2>2 DEF File
  <2>4. ExactIfUndisturbed'
    BY <2>1 DEF ExactInv, ExactIfUndisturbed
  <2>5. ASSUME NEW v \in Writers PROVE Exact(v)'
    BY <1>0, <2>1, <2>3 DEF ExactInv, Exact, Open
  <2> QED BY <2>4, <2>5 DEF ExactInv
<1>4. ASSUME NEW w \in Writers,
             WriteFails(w) \/ SyncInterrupted(w) \/ RenameFails(w) \/ Chmod(w) \/ Kill(w)
      PROVE  ExactInv'
  <2>1. UNCHANGED <<temp, target, by, clean>>
    BY <1>4 DEF WriteFails, SyncInterrupted, RenameFails, Chmod, Kill
  <2>2. \/ pc[w] = "sync" /\ pc' = [pc EXCEPT ![w] = "again"]
        \/ \E l \in Over : pc' = [pc EXCEPT ![w] = l]
    BY <1>4 DEF WriteFails, SyncInterrupted, RenameFails, Chmod, Kill, Goto, Over
  <2> QED BY <1>0, <2>1, <2>2 DEF ExactInv, ExactIfUndisturbed, Exact, Open, Over
<1>5. ASSUME NEW w \in Writers, SyncFails(w) PROVE ExactInv'
  <2>1. /\ UNCHANGED <<temp, target, by>> /\ clean' = [clean EXCEPT ![w] = FALSE]
        /\ pc' = [pc EXCEPT ![w] = "write"]
    BY <1>5 DEF SyncFails, Goto
  <2> QED BY <1>0, <2>1 DEF ExactInv, ExactIfUndisturbed, Exact
<1>6. ASSUME NEW w \in Writers, Rename(w) PROVE ExactInv'
  <2>1. /\ pc[w] = "rename" /\ target' = temp[w] /\ by' = w /\ UNCHANGED clean
        /\ temp' = [temp EXCEPT ![w] = NoFile]
        /\ pc' = [pc EXCEPT ![w] = IF Mode[w] = NoMode THEN "done" ELSE "chmod"]
    BY <1>6 DEF Rename, Goto
  <2> QED BY <1>0, <2>1 DEF ExactInv, ExactIfUndisturbed, Exact, Open
<1>7. CASE PowerLoss
  <2>1. /\ target' \in Surviving(target) /\ UNCHANGED <<temp, by, clean>>
        /\ pc' = [w \in Writers |-> IF pc[w] \in Over THEN pc[w] ELSE "dead"]
    BY <1>7 DEF PowerLoss
  <2>2. target'.text = target.text
    BY <1>7, PowerLossHarmless
  <2>3. \A v \in Writers : Exact(v)'
    BY <2>1 DEF Exact, Open, Over
  <2>4. ExactIfUndisturbed'
    BY <2>1, <2>2 DEF ExactInv, ExactIfUndisturbed
  <2> QED BY <2>3, <2>4 DEF ExactInv
<1>8. CASE Terminated \/ UNCHANGED vars
  BY <1>8 DEF Terminated, vars, ExactInv, ExactIfUndisturbed, Exact
<1> QED BY <1>1, <1>2, <1>3, <1>4, <1>5, <1>6, <1>7, <1>8 DEF Next

(***************************************************************************)
(* A writer that met neither a short write nor a failing fsync leaves      *)
(* exactly its string under the name, for any number of other writers.     *)
(***************************************************************************)
THEOREM ExactWrite == Spec => []ExactIfUndisturbed
<1>1. Init => ExactInv
  BY AtomicWriteAssumption DEF Init, ExactInv, ExactIfUndisturbed, Exact, Open
<1>2. ExactInv => ExactIfUndisturbed
  BY DEF ExactInv
<1> QED BY <1>1, <1>2, InvInit, InvNext, ExactNext, PTL DEF Spec
=============================================================================
