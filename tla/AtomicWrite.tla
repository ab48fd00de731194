---------------------------- MODULE AtomicWrite ----------------------------
(***************************************************************************)
(* file.atomic_write of vendor/lua/lib.lua, run by several processes on    *)
(* one file: the agent and, say, its periodic twin or an administrator's   *)
(* own run.  Each writes a temporary file of its own and renames it over   *)
(* the target.  A process may be killed and the machine may lose power     *)
(* between any two steps; a write may be short and fsync may fail.         *)
(***************************************************************************)
EXTENDS Integers, Sequences

CONSTANTS
  Writers,
  Text,          \* the string each writer passes, as a sequence of blocks
  Mode,          \* the mode it passes, or NoMode
  NoMode,
  Private,       \* the mode mkstemp gives a file
  Old, OldMode,  \* the target before
  NoFile,
  Interrupts,    \* whether a signal may interrupt fsync
  ShortWrites,   \* whether write(2) may take fewer bytes than it is offered
  MaxBadSyncs    \* bound: how often fsync fails in one call

Blocks(text) == {text[k] : k \in DOMAIN text}
AllBlocks == UNION {Blocks(t) : t \in {Old} \cup {Text[w] : w \in Writers}}
File == [text : Seq(AllBlocks), synced : Nat]

ASSUME AtomicWriteAssumption ==
  /\ \A w \in Writers : Text[w] \in Seq(AllBlocks) /\ Text[w] # << >>
  /\ Old \in Seq(AllBlocks)
  /\ NoFile \notin File /\ NoFile \notin Writers
  /\ NoMode # Private /\ MaxBadSyncs \in Nat /\ ShortWrites \in BOOLEAN
  /\ Interrupts \in BOOLEAN

VARIABLES
  pc,       \* "start", "write", "sync", "again", "rename", "chmod", or in Over
  temp,     \* the writer's temporary file, or NoFile
  left,     \* `sz' in fd.write: bytes not yet accounted for
  badSyncs, \* fsync failures met
  target,   \* the file at `name'
  mode,     \* its mode
  by,       \* history: the writer whose file it is, or NoFile
  clean     \* history: no short write and no fsync failure met

vars == <<pc, temp, left, badSyncs, target, mode, by, clean>>

Init ==
  /\ pc = [w \in Writers |-> "start"]
  /\ temp = [w \in Writers |-> NoFile]
  /\ left = [w \in Writers |-> 0]
  /\ badSyncs = [w \in Writers |-> 0]
  /\ target = [text |-> Old, synced |-> Len(Old)]
  /\ mode = OldMode
  /\ by = NoFile
  /\ clean = [w \in Writers |-> TRUE]

Goto(w, l) == pc' = [pc EXCEPT ![w] = l]

----------------------------------------------------------------------------
\* fd.mkstemp in the directory of the target.
Create(w) ==
  /\ pc[w] = "start"
  /\ \/ /\ temp' = [temp EXCEPT ![w] = [text |-> << >>, synced |-> 0]]
        /\ left' = [left EXCEPT ![w] = Len(Text[w])]
        /\ Goto(w, "write")
     \/ Goto(w, "failed") /\ UNCHANGED <<temp, left>>
  /\ UNCHANGED <<badSyncs, target, mode, by, clean>>

\* Mutant of Write: the loop goes on while sz is not negative.
WriteOneTooMany(w) ==
  /\ pc[w] = "write"
  /\ \E k \in 1..Len(Text[w]) :
       /\ ShortWrites \/ k = Len(Text[w])
       /\ temp' = [temp EXCEPT ![w].text = @ \o SubSeq(Text[w], 1, k)]
       /\ left' = [left EXCEPT ![w] = @ - k]
       /\ clean' = [clean EXCEPT ![w] = @ /\ k = Len(Text[w])]
       /\ Goto(w, IF k <= left[w] THEN "write" ELSE "sync")
  /\ UNCHANGED <<badSyncs, target, mode, by>>

(***************************************************************************)
(* One unistd.write of fd.write.  What is left shrinks, but each turn      *)
(* offers the buffer from its start.  EINTR only repeats the call.         *)
(***************************************************************************)
Write(w) ==
  /\ pc[w] = "write"
  /\ \E k \in 1..Len(Text[w]) :
       /\ ShortWrites \/ k = Len(Text[w])
       /\ temp' = [temp EXCEPT ![w].text = @ \o SubSeq(Text[w], 1, k)]
       /\ left' = [left EXCEPT ![w] = @ - k]
       /\ clean' = [clean EXCEPT ![w] = @ /\ k = Len(Text[w])]
       /\ Goto(w, IF k < left[w] THEN "write" ELSE "sync")
  /\ UNCHANGED <<badSyncs, target, mode, by>>

\* The temporary file is closed and left behind.
WriteFails(w) ==
  /\ pc[w] = "write"
  /\ Goto(w, "failed")
  /\ UNCHANGED <<temp, left, badSyncs, target, mode, by, clean>>

\* Mutant of Sync: the file is renamed without having reached the disk.
SyncLater(w) ==
  /\ pc[w] = "sync"
  /\ Goto(w, "rename")
  /\ UNCHANGED <<temp, left, badSyncs, target, mode, by, clean>>

Sync(w) ==
  /\ pc[w] = "sync"
  /\ temp' = [temp EXCEPT ![w].synced = Len(temp[w].text)]
  /\ Goto(w, "rename")
  /\ UNCHANGED <<left, badSyncs, target, mode, by, clean>>

\* `goto WRITE': the string is written again, after what is already there.
SyncFails(w) ==
  /\ pc[w] \in {"sync", "again"}
  /\ badSyncs[w] < MaxBadSyncs
  /\ badSyncs' = [badSyncs EXCEPT ![w] = @ + 1]
  /\ left' = [left EXCEPT ![w] = Len(Text[w])]
  /\ clean' = [clean EXCEPT ![w] = FALSE]
  /\ Goto(w, "write")
  /\ UNCHANGED <<temp, target, mode, by>>

(***************************************************************************)
(* EINTR.  The wrapper `retry' (lib.lua 28-39) calls fsync again, but its  *)
(* `e' keeps the old errno when the call succeeds: the success is dropped  *)
(* and fsync is called until it fails for another reason.                  *)
(***************************************************************************)
SyncInterrupted(w) ==
  /\ Interrupts
  /\ pc[w] = "sync"
  /\ Goto(w, "again")
  /\ UNCHANGED <<temp, left, badSyncs, target, mode, by, clean>>

SyncAgain(w) ==
  /\ pc[w] = "again"
  /\ temp' = [temp EXCEPT ![w].synced = Len(temp[w].text)]
  /\ UNCHANGED <<pc, left, badSyncs, target, mode, by, clean>>

Rename(w) ==
  /\ pc[w] = "rename"
  /\ target' = temp[w]
  /\ temp' = [temp EXCEPT ![w] = NoFile]
  /\ mode' = Private
  /\ by' = w
  /\ Goto(w, IF Mode[w] = NoMode THEN "done" ELSE "chmod")
  /\ UNCHANGED <<left, badSyncs, clean>>

RenameFails(w) ==
  /\ pc[w] = "rename"
  /\ Goto(w, "failed")
  /\ UNCHANGED <<temp, left, badSyncs, target, mode, by, clean>>

\* file.chmod goes by name: it may reach another writer's file.
Chmod(w) ==
  /\ pc[w] = "chmod"
  /\ \/ mode' = Mode[w] /\ Goto(w, "done")
     \/ Goto(w, "failed") /\ UNCHANGED mode
  /\ UNCHANGED <<temp, left, badSyncs, target, by, clean>>

Over == {"done", "failed", "dead"}

Kill(w) ==
  /\ pc[w] \notin Over
  /\ Goto(w, "dead")
  /\ UNCHANGED <<temp, left, badSyncs, target, mode, by, clean>>

\* Of a file only what was synced is sure to be there afterwards.
Surviving(f) ==
  {[text |-> SubSeq(f.text, 1, k), synced |-> k] : k \in f.synced..Len(f.text)}

PowerLoss ==
  /\ \E w \in Writers : pc[w] \notin Over
  /\ pc' = [w \in Writers |-> IF pc[w] \in Over THEN pc[w] ELSE "dead"]
  /\ target' \in Surviving(target)
  /\ UNCHANGED <<temp, left, badSyncs, mode, by, clean>>

Terminated == (\A w \in Writers : pc[w] \in Over) /\ UNCHANGED vars

Next ==
  \/ \E w \in Writers :
       \/ Create(w) \/ Write(w) \/ WriteFails(w)
       \/ Sync(w) \/ SyncFails(w) \/ SyncInterrupted(w) \/ SyncAgain(w)
       \/ Rename(w) \/ RenameFails(w) \/ Chmod(w) \/ Kill(w)
  \/ PowerLoss
  \/ Terminated

Spec == Init /\ [][Next]_vars

----------------------------------------------------------------------------
IsFile(f) == f \in File /\ f.synced <= Len(f.text)

TypeOK ==
  /\ pc \in [Writers -> {"start", "write", "sync", "again", "rename", "chmod"} \cup Over]
  /\ temp \in [Writers -> {f \in File : IsFile(f)} \cup {NoFile}]
  /\ left \in [Writers -> Int]
  /\ \A w \in Writers : left[w] \in (1 - Len(Text[w]))..Len(Text[w])
  /\ badSyncs \in [Writers -> 0..MaxBadSyncs]
  /\ IsFile(target)
  /\ mode \in {OldMode, Private} \cup ({Mode[w] : w \in Writers} \ {NoMode})
  /\ by \in Writers \cup {NoFile}
  /\ clean \in [Writers -> BOOLEAN]

(***************************************************************************)
(* At every moment, crashes included, the name holds the old file or what  *)
(* one writer wrote: never a truncated file, one with two writers' blocks, *)
(* or one a power loss could still shorten (lib.lua 373-400).              *)
(***************************************************************************)
NeverTorn ==
  /\ target.synced = Len(target.text)
  /\ IF by = NoFile THEN target.text = Old
     ELSE /\ Len(target.text) >= Len(Text[by])
          /\ Blocks(target.text) \subseteq Blocks(Text[by])

(***************************************************************************)
(* A writer that met neither a short write nor a failing fsync leaves      *)
(* exactly its string under the name, whatever the others do meanwhile.    *)
(***************************************************************************)
ExactIfUndisturbed == (by # NoFile /\ clean[by]) => target.text = Text[by]
=============================================================================
