---------------------------- MODULE PathsProofs ----------------------------
(***************************************************************************)
(* Theorems about Paths, for every policy of promises about one path, any  *)
(* number of passes, restarts and changes by others.                       *)
(***************************************************************************)
EXTENDS Paths, TLAPS

(***************************************************************************)
(* Lemmas on the parts of an action: what a report and the commands of the *)
(* shell may leave behind.                                                 *)
(***************************************************************************)
LEMMA TellTyped ==
  ASSUME TypeOK, NEW flags, flags \subseteq Reports, Tell(flags)
  PROVE  /\ report' \in [DOMAIN policy -> SUBSET Reports]
         /\ before' \in [DOMAIN policy -> SUBSET Reports]
         /\ stage' \in {"told", "over"} /\ todo' \subseteq Attributes /\ acc' \subseteq Reports
  BY DEF Tell, TypeOK

LEMMA ReportNames == {"kept", "repaired", "failed", "crash"} \subseteq Reports
  BY DEF Reports

LEMMA GoAttribTyped ==
  ASSUME TypeOK, P.attrs \subseteq Attributes, GoAttrib
  PROVE  /\ report' \in [DOMAIN policy -> SUBSET Reports]
         /\ before' \in [DOMAIN policy -> SUBSET Reports]
         /\ stage' \in {"attrib", "told", "over"}
         /\ todo' \subseteq Attributes /\ acc' \subseteq Reports
<1>1. CASE P.attrs = {}
  BY <1>1, ReportNames, TellTyped DEF GoAttrib
<1>2. CASE P.attrs # {}
  BY <1>2 DEF GoAttrib, TypeOK
<1> QED BY <1>1, <1>2

LEMMA PolicyTyped ==
  ASSUME policy \in Policies
  PROVE  /\ policy \in Seq(PromiseType) /\ DOMAIN policy = 1..Len(policy)
         /\ Len(policy) \in Nat /\ 1 \in DOMAIN policy
         /\ Set \subseteq Attributes
         /\ \A n \in DOMAIN policy : policy[n] \in PromiseType /\ policy[n].attrs \subseteq Attributes
<1>1. policy \in Seq(PromiseType) /\ policy # << >>
  BY PathsAssumption
<1>2. /\ DOMAIN policy = 1..Len(policy) /\ Len(policy) \in Nat /\ 1 \in DOMAIN policy
      /\ \A n \in DOMAIN policy : policy[n] \in PromiseType
  BY <1>1
<1>3. \A p \in PromiseType : p.attrs \subseteq Attributes
  BY DEF PromiseType
<1> QED BY <1>1, <1>2, <1>3 DEF Set

LEMMA CommandsTyped ==
  ASSUME TypeOK, Set \subseteq Attributes, NEW o \in Ran(Commands) \cup Ran(Removed)
  PROVE  /\ o.path \in Object
         /\ o.src \in [kind : {"none", "file", "dir"}, wrong : SUBSET Attributes]
<1>1. /\ path \in Object /\ src \in [kind : {"none", "file", "dir"}, wrong : SUBSET Attributes]
  BY DEF TypeOK
<1>2. Nothing \in Object /\ Link("made") \in Object /\ Hard("made") \in Object
  BY DEF Nothing, Link, Hard, Object, Kinds, Origins
<1>3. \A kind \in Kinds, data \in Origins : Fresh(kind, data) \subseteq Object
  BY DEF Fresh, Object
<1>4. \A d \in Origins : [path EXCEPT !.data = d] \in Object
  BY <1>1 DEF Object
<1>5. \A w \in SUBSET Attributes : [path EXCEPT !.kind = "aside", !.wrong = w] \in Object
  BY <1>1 DEF Object, Kinds
<1>6. ASSUME NEW p \in Object, NEW ok
      PROVE  Outcome(p, ok).path \in Object /\ Outcome(p, ok).src = src
  BY <1>6 DEF Outcome
<1>7. \A new \in Object : \A q \in Linked(new) : q.path \in Object /\ q.src = src
  BY <1>1, <1>2, <1>6 DEF Linked
<1>8. \A q \in MadeDirectory : q.path \in Object /\ q.src = src
  <2>1. SUFFICES ASSUME NEW q \in MadeDirectory PROVE q.path \in Object /\ q.src = src
    OBVIOUS
  <2>2. \/ \E ok \in BOOLEAN : q = Outcome(path, ok)
        \/ \E ob \in Fresh("dir", "made") : q = Outcome(ob, TRUE)
    BY <2>1 DEF MadeDirectory
  <2>3. Fresh("dir", "made") \subseteq Object
    BY <1>3 DEF Kinds, Origins
  <2> QED BY <1>1, <1>6, <2>2, <2>3
<1>9. \A q \in Touched :
        q.path \in Object /\ q.src \in [kind : {"none", "file", "dir"}, wrong : SUBSET Attributes]
  <2>1. SUFFICES ASSUME NEW q \in Touched
                 PROVE  /\ q.path \in Object
                        /\ q.src \in [kind : {"none", "file", "dir"}, wrong : SUBSET Attributes]
    OBVIOUS
  <2>2. \/ \E ok \in BOOLEAN : q = Outcome(path, ok)
        \/ \E ob \in Fresh("file", "made") : q = Outcome(ob, TRUE)
        \/ \E w \in SUBSET Set : q = Outcome([path EXCEPT !.kind = "aside", !.wrong = w], TRUE)
        \/ \E w \in SUBSET Set :
              q = [path |-> path, src |-> [kind |-> "file", wrong |-> w], ok |-> TRUE]
    BY <2>1 DEF Touched
  <2>3. Fresh("file", "made") \subseteq Object
    BY <1>3 DEF Kinds, Origins
  <2>4. CASE \E ok \in BOOLEAN : q = Outcome(path, ok)
    BY <1>1, <1>6, <2>4
  <2>5. CASE \E ob \in Fresh("file", "made") : q = Outcome(ob, TRUE)
    BY <1>1, <1>6, <2>3, <2>5
  <2>6. CASE \E w \in SUBSET Set : q = Outcome([path EXCEPT !.kind = "aside", !.wrong = w], TRUE)
    <3>1. PICK w \in SUBSET Set : q = Outcome([path EXCEPT !.kind = "aside", !.wrong = w], TRUE)
      BY <2>6
    <3>2. [path EXCEPT !.kind = "aside", !.wrong = w] \in Object
      BY <1>5
    <3> QED BY <1>1, <1>6, <3>1, <3>2
  <2>7. CASE \E w \in SUBSET Set :
               q = [path |-> path, src |-> [kind |-> "file", wrong |-> w], ok |-> TRUE]
    BY <1>1, <2>7
  <2> QED BY <2>2, <2>4, <2>5, <2>6, <2>7
<1>10. \A q \in CopyOf : src.kind \in {"file", "dir"} => q \in Object
  BY <1>1, <1>3, <1>4 DEF CopyOf, Kinds, Origins
<1>11. \A q \in Copied : q.path \in Object /\ q.src = src
  <2>1. CASE src.kind = "none"
    BY <1>1, <1>6, <2>1 DEF Copied
  <2>2. CASE src.kind # "none"
    <3>1. \A q \in CopyOf : q \in Object
      BY <1>1, <1>10, <2>2
    <3>2. \A q \in CopyOf : [q EXCEPT !.data = "part"] \in Object
      BY <3>1 DEF Object, Origins
    <3>3. SUFFICES ASSUME NEW q \in Copied PROVE q.path \in Object /\ q.src = src
      OBVIOUS
    <3>4. \/ q = Outcome(path, FALSE)
          \/ \E ob \in CopyOf :
               \/ q = Outcome(ob, TRUE)
               \/ q = Outcome(IF ob = path THEN ob ELSE [ob EXCEPT !.data = "part"], FALSE)
      BY <3>3 DEF Copied
    <3> QED BY <1>1, <1>6, <3>1, <3>2, <3>4
  <2> QED BY <2>1, <2>2
<1>12. \A q \in Removed : q.path \in Object /\ q.src = src
  BY <1>1, <1>2, <1>4, <1>6 DEF Removed, Origins
<1>13. \A q \in Commands :
         q.path \in Object /\ q.src \in [kind : {"none", "file", "dir"}, wrong : SUBSET Attributes]
  <2>1. Outcome(path, FALSE).path \in Object /\ Outcome(path, FALSE).src = src
    BY <1>1, <1>6
  <2>2. CASE P.func = "link"
    BY <1>1, <1>2, <1>7, <2>2 DEF Commands
  <2>3. CASE P.func = "hard"
    BY <1>1, <1>2, <1>7, <2>1, <2>3 DEF Commands
  <2>4. CASE P.func = "directory"
    BY <1>1, <1>8, <2>4 DEF Commands
  <2>5. CASE P.func = "touch"
    BY <1>9, <2>5 DEF Commands
  <2>6. CASE P.func \notin {"link", "hard", "directory", "touch"}
    BY <1>1, <1>11, <2>6 DEF Commands
  <2> QED BY <2>2, <2>3, <2>4, <2>5, <2>6
<1> QED BY <1>1, <1>12, <1>13 DEF Ran
(***************************************************************************)
(* Every variable keeps its type: the function that is under way goes on   *)
(* to a step it has, and reports flags the agent knows.                    *)
(***************************************************************************)
THEOREM TypeCorrect ==
  Spec => []TypeOK
<1>1. Init => TypeOK
  <2> SUFFICES ASSUME Init PROVE TypeOK
    OBVIOUS
  <2>1. Set \subseteq Attributes /\ 1 \in DOMAIN policy
    BY PolicyTyped DEF Init
  <2>2. /\ Nothing \in Object /\ Stray \in Object /\ Link("user") \in Object
        /\ Hard("user") \in Object
    BY DEF Nothing, Stray, Link, Hard, Object, Kinds, Origins
  <2>3. Fresh("file", "user") \subseteq Object /\ Fresh("dir", "user") \subseteq Object
    BY <2>1 DEF Fresh, Object, Kinds, Origins
  <2>4. path \in Object
    BY <2>2, <2>3 DEF Init
  <2>5. saved \in Object
    BY <2>2 DEF Init, Object, Kinds, Origins
  <2>6. src \in [kind : {"none", "file", "dir"}, wrong : SUBSET Attributes]
    BY <2>1 DEF Init
  <2>7. /\ report \in [DOMAIN policy -> SUBSET Reports]
        /\ before \in [DOMAIN policy -> SUBSET Reports]
        /\ steady \in [DOMAIN policy -> BOOLEAN]
    BY DEF Init
  <2>8. pass \in 1..MaxPasses /\ drift \in 0..MaxDrift /\ had \in BOOLEAN
    BY PathsAssumption DEF Init, Exists
  <2> QED BY <2>1, <2>4, <2>5, <2>6, <2>7, <2>8 DEF Init, TypeOK, Modes
<1>2. TypeOK /\ [Next]_vars => TypeOK'
  <2> SUFFICES ASSUME TypeOK, [Next]_vars PROVE TypeOK'
    OBVIOUS
  <2>0. /\ Set \subseteq Attributes /\ 1 \in DOMAIN policy /\ DOMAIN policy = 1..Len(policy)
        /\ Len(policy) \in Nat /\ k \in DOMAIN policy /\ P.attrs \subseteq Attributes
    BY PolicyTyped DEF TypeOK, P
  <2> DEFINE Told == /\ report' \in [DOMAIN policy -> SUBSET Reports]
                     /\ before' \in [DOMAIN policy -> SUBSET Reports]
                     /\ stage' \in {"look", "back", "clear", "make", "undo", "attrib", "told", "over"}
                     /\ todo' \subseteq Attributes /\ acc' \subseteq Reports
  <2>a. ASSUME NEW flags, flags \subseteq Reports, Tell(flags) PROVE Told
    BY <2>a, TellTyped
  <2>b. ASSUME NEW next \in {"look", "back", "clear", "make", "undo"}, Go(next) PROVE Told
    BY <2>b DEF Go, TypeOK
  <2>c. ASSUME GoAttrib PROVE Told
    BY <2>0, <2>c, GoAttribTyped
  <2> HIDE DEF Told
  <2>d. Disturb => steady' \in [DOMAIN policy -> BOOLEAN]
    BY DEF Disturb, TypeOK
  <2>1. CASE Begin
    <3>1. Told
      BY <2>1, <2>a, <2>b, ReportNames DEF Begin
    <3> QED BY <2>1, <3>1 DEF Begin, TypeOK, Told, host
  <2>2. CASE Look
    <3>1. ASSUME LookAttributes PROVE Told
      BY <3>1, <2>a, <2>c, ReportNames DEF LookAttributes
    <3>2. ASSUME LookLink \/ LookHard PROVE Told
      BY <3>2, <2>a, <2>b, <2>c, ReportNames DEF LookLink, LookHard
    <3>3. ASSUME LookDirectory \/ LookTouch PROVE Told
      BY <3>3, <2>b, <2>c DEF LookDirectory, LookTouch
    <3>4. ASSUME LookAbsent \/ LookCopy PROVE Told
      BY <3>4, <2>a, <2>b, ReportNames DEF LookAbsent, LookCopy
    <3>5. Told
      BY <2>2, <3>1, <3>2, <3>3, <3>4 DEF Look
    <3> QED BY <2>2, <3>5 DEF Look, TypeOK, Told, host
  <2>3. CASE Back
    <3>1. Told
      BY <2>3, <2>a, <2>b, ReportNames DEF Back
    <3>2. path' \in Object /\ saved' \in Object
      BY <2>3 DEF Back, TypeOK, Nothing, Object, Kinds, Origins
    <3> QED BY <2>3, <2>d, <3>1, <3>2 DEF Back, TypeOK, Told
  <2>4. CASE Clear
    <3>1. PICK o \in Ran(Removed) :
            /\ path' = o.path
            /\ IF P.func = "directory" THEN Go("make")
               ELSE IF o.ok /\ stage = "clear" THEN Tell({"repaired"}) ELSE Tell({"failed"})
      BY <2>4 DEF Clear
    <3>2. Told
      BY <3>1, <2>a, <2>b, ReportNames
    <3>3. path' \in Object
      BY <2>0, <3>1, CommandsTyped
    <3> QED BY <2>4, <2>d, <3>2, <3>3 DEF Clear, TypeOK, Told
  <2>5. CASE Make
    <3>1. PICK o \in Ran(Commands) :
            /\ path' = o.path /\ src' = o.src
            /\ IF P.func = "copy" THEN IF o.ok THEN Tell({"repaired"}) ELSE Go("undo")
               ELSE IF o.ok THEN GoAttrib ELSE Tell({"failed"})
      BY <2>5 DEF Make
    <3>2. Told
      BY <3>1, <2>a, <2>b, <2>c, ReportNames
    <3>3. /\ path' \in Object
          /\ src' \in [kind : {"none", "file", "dir"}, wrong : SUBSET Attributes]
      BY <2>0, <3>1, CommandsTyped
    <3> QED BY <2>5, <2>d, <3>2, <3>3 DEF Make, TypeOK, Told
  <2>6. CASE Attrib
    <3>1. \A a : Correct(a) => /\ path' \in Object
                              /\ src' \in [kind : {"none", "file", "dir"}, wrong : SUBSET Attributes]
      BY DEF Correct, TypeOK, Object
    <3>2. /\ path' \in Object
          /\ src' \in [kind : {"none", "file", "dir"}, wrong : SUBSET Attributes]
      BY <2>6, <3>1 DEF Attrib, TypeOK
    <3>3. Told
      <4>1. CASE \E flags : flags \subseteq Reports /\ Tell(flags)
        BY <2>a, <4>1
      <4>2. CASE \E a, flag : /\ flag \in Reports /\ acc' = acc \cup {flag} /\ todo' = todo \ {a}
                             /\ UNCHANGED <<stage, report, before>>
        BY <2>6, <4>2 DEF Attrib, TypeOK, Told
      <4>3. acc \cup {"failed"} \subseteq Reports /\ {"crash"} \subseteq Reports
        BY ReportNames DEF TypeOK
      <4> QED BY <2>6, <4>1, <4>2, <4>3, ReportNames DEF Attrib
    <3> QED BY <2>6, <2>d, <3>2, <3>3 DEF Attrib, TypeOK, Told
  <2>7. CASE AttribDone
    <3>1. Told
      BY <2>7, <2>a DEF AttribDone, TypeOK
    <3> QED BY <2>7, <3>1 DEF AttribDone, TypeOK, Told, host
  <2>8. CASE Advance
    <3>1. k' \in DOMAIN policy /\ pass' \in 1..MaxPasses /\ stage' \in {"start", "over"}
      BY <2>0, <2>8, PathsAssumption DEF Advance, TypeOK
    <3> QED BY <2>8, <3>1 DEF Advance, TypeOK, host
  <2>9. CASE Restart
    <3>1. pass' \in 1..MaxPasses
      BY <2>9, PathsAssumption DEF Restart, TypeOK
    <3> QED BY <2>0, <2>9, <3>1 DEF Restart, TypeOK, host
  <2>10. CASE Drift
    <3>1. path' \in Object
      <4>1. Fresh("file", "other") \subseteq Object /\ Nothing \in Object
        BY <2>0 DEF Fresh, Nothing, Object, Kinds, Origins
      <4>2. [path EXCEPT !.kind = "file", !.wrong = src.wrong] \in Object
        BY DEF TypeOK, Object, Kinds
      <4> QED BY <2>10, <4>1, <4>2 DEF Drift, TypeOK
    <3>2. src' \in [kind : {"none", "file", "dir"}, wrong : SUBSET Attributes]
      BY <2>10 DEF Drift, TypeOK
    <3>3. drift' \in 0..MaxDrift
      BY <2>10, PathsAssumption DEF Drift, TypeOK
    <3> QED BY <2>10, <3>1, <3>2, <3>3 DEF Drift, TypeOK
  <2>11. CASE UNCHANGED vars
    BY <2>11 DEF vars, TypeOK
  <2> QED
    BY <2>1, <2>2, <2>3, <2>4, <2>5, <2>6, <2>7, <2>8, <2>9, <2>10, <2>11 DEF Next, Terminated
<1> QED BY <1>1, <1>2, PTL DEF Spec
(***************************************************************************)
(* Under -t no step of the agent touches the paths (lib.lua, F.run; the    *)
(* rename of file.directory is among what it replaces).                    *)
(***************************************************************************)
THEOREM DryRun ==
  Spec => DryRunHarmless
<1>1. TypeOK /\ [Next]_vars => ((mode = "t" /\ host' # host) => drift' # drift)
  <2> SUFFICES ASSUME TypeOK, [Next]_vars, mode = "t", drift' = drift PROVE host' = host
    OBVIOUS
  <2>1. \A q \in Ran(Commands) \cup Ran(Removed) : q.path = path /\ q.src = src
    BY DEF Ran, Run
  <2>2. CASE Back \/ Clear \/ Make
    BY <2>1, <2>2 DEF Back, Clear, Make, host
  <2>3. CASE Attrib
    BY <2>3 DEF Attrib, Correct, host
  <2>4. CASE Drift
    BY <2>4, PathsAssumption DEF Drift, TypeOK
  <2>5. CASE Begin \/ Look \/ AttribDone \/ Advance \/ Restart \/ UNCHANGED vars
    BY <2>5 DEF Begin, Look, AttribDone, Advance, Restart, vars, host
  <2> QED BY <2>2, <2>3, <2>4, <2>5 DEF Next, Terminated
<1> QED BY <1>1, TypeCorrect, PTL DEF Spec, DryRunHarmless

(***************************************************************************)
(* What each step of a promise function implies of the promise: only one   *)
(* that may destroy goes on to rm, and a copy without force goes on to cp  *)
(* only where stat showed nothing, or what was there has gone to the       *)
(* backup.                                                                 *)
(***************************************************************************)
MayClear == P.func = "absent" \/ (P.func = "directory" /\ P.force)
UserThere == Exists(path) /\ path.data = "user"

StepInv ==
  /\ stage = "clear" => MayClear
  /\ stage = "back" => P.func = "copy" \/ (P.func = "directory" /\ P.force)
  /\ stage = "undo" => P.func = "copy"
  /\ stage = "make" => P.func \notin {"attributes", "absent"}
  /\ (stage \in {"make", "undo"} /\ P.func = "copy" /\ ~ P.force /\ ~ raced /\ mode # "t")
       => ~ UserThere

LEMMA StepInvInductive ==
  /\ Init => StepInv
  /\ TypeOK /\ StepInv /\ [Next]_vars => StepInv'
<1>1. Init => StepInv
  BY DEF Init, StepInv
<1>2. TypeOK /\ StepInv /\ [Next]_vars => StepInv'
  <2> SUFFICES ASSUME TypeOK, StepInv, [Next]_vars PROVE StepInv'
    OBVIOUS
  <2>a. ASSUME stage' \in {"start", "look", "attrib", "told", "over"} PROVE StepInv'
    BY <2>a DEF StepInv
  <2>b. ASSUME NEW flags, Tell(flags) PROVE StepInv'
    BY <2>a, <2>b DEF Tell
  <2>c. ASSUME GoAttrib PROVE StepInv'
    BY <2>a, <2>b, <2>c DEF GoAttrib
  <2>1. CASE Begin
    BY <2>1, <2>a, <2>b DEF Begin, Go
  <2>2. CASE Look
    <3>1. UNCHANGED <<policy, mode, k, path, src, raced>> /\ P' = P
      BY <2>2 DEF Look, P, host
    <3>2. UserThere' <=> UserThere
      BY <3>1 DEF UserThere, Exists
    <3>3. CASE LookAttributes \/ LookLink \/ LookHard
      BY <2>b, <2>c, <3>1, <3>3 DEF LookAttributes, LookLink, LookHard, Go, StepInv
    <3>4. CASE LookDirectory \/ LookTouch \/ LookAbsent
      BY <2>b, <2>c, <3>1, <3>4
      DEF LookDirectory, LookTouch, LookAbsent, Go, StepInv, MayClear
    <3>5. CASE LookCopy
      <4>1. CASE Go("back")
        BY <3>1, <3>5, <4>1 DEF LookCopy, Go, StepInv
      <4>2. CASE Tell({"kept"})
        BY <2>b, <4>2
      <4>3. CASE Go("make") /\ (Exists(path) => P.force)
        BY <3>1, <3>2, <3>5, <4>3 DEF LookCopy, Go, StepInv, UserThere
      <4> QED BY <3>5, <4>1, <4>2, <4>3 DEF LookCopy
    <3> QED BY <2>2, <3>3, <3>4, <3>5 DEF Look
  <2>3. CASE Back
    <3>1. UNCHANGED <<policy, mode, k, src, raced>> /\ P' = P /\ stage = "back"
      BY <2>3 DEF Back, P
    <3>2. CASE P.func = "directory"
      BY <2>3, <3>1, <3>2 DEF Back, Go, StepInv, MayClear
    <3>3. CASE P.func # "directory"
      <4>1. P.func = "copy"
        BY <3>1, <3>3 DEF StepInv
      <4>2. CASE \E flags : Tell(flags)
        BY <2>b, <4>2
      <4>3. CASE Go("make") /\ (mode = "t" \/ path' = Nothing)
        BY <3>1, <4>1, <4>3 DEF Go, StepInv, UserThere, Nothing
      <4> QED BY <2>3, <3>3, <4>2, <4>3 DEF Back
    <3> QED BY <3>2, <3>3
  <2>4. CASE Clear
    <3>1. UNCHANGED <<policy, mode, k, src, raced>> /\ P' = P
      BY <2>4 DEF Clear, P
    <3>2. CASE P.func = "directory"
      BY <2>4, <3>1, <3>2 DEF Clear, Go, StepInv
    <3>3. CASE P.func # "directory"
      BY <2>4, <2>b, <3>3 DEF Clear
    <3> QED BY <3>2, <3>3
  <2>5. CASE Make
    <3>1. PICK q \in Ran(Commands) :
            /\ path' = q.path /\ src' = q.src
            /\ IF P.func = "copy" THEN IF q.ok THEN Tell({"repaired"}) ELSE Go("undo")
               ELSE IF q.ok THEN GoAttrib ELSE Tell({"failed"})
      BY <2>5 DEF Make
    <3>2. UNCHANGED <<policy, mode, k, raced>> /\ P' = P /\ stage = "make"
      BY <2>5 DEF Make, P
    <3>3. CASE P.func = "copy" /\ Go("undo")
      <4>1. mode # "t" => q \in Copied
        BY <3>1, <3>3 DEF Ran, Run, Commands
      <4>2. ASSUME q \in Copied
            PROVE  q.src = src /\ (q.path = path \/ q.path.data \in {"copy", "part"})
        <5>1. \/ q = Outcome(path, FALSE)
              \/ src.kind # "none" /\ \E o \in CopyOf :
                   \/ q = Outcome(o, TRUE)
                   \/ q = Outcome(IF o = path THEN o ELSE [o EXCEPT !.data = "part"], FALSE)
          BY <4>2 DEF Copied
        <5>2. \A o \in CopyOf : o = path \/ (o.data = "copy" /\ [o EXCEPT !.data = "part"].data = "part")
          <6>1. path \in Object
            BY DEF TypeOK
          <6>2. \A o \in Fresh(src.kind, "copy") :
                  o.data = "copy" /\ [o EXCEPT !.data = "part"].data = "part"
            BY DEF Fresh
          <6>3. [path EXCEPT !.data = "copy"].data = "copy"
                /\ [[path EXCEPT !.data = "copy"] EXCEPT !.data = "part"].data = "part"
            BY <6>1 DEF Object
          <6> QED BY <6>2, <6>3 DEF CopyOf
        <5>3. \A p, ok : Outcome(p, ok).path = p /\ Outcome(p, ok).src = src
          BY DEF Outcome
        <5>4. q.path = path \/ q.path.data \in {"copy", "part"}
          <6>1. CASE q = Outcome(path, FALSE)
            BY <5>3, <6>1
          <6>2. CASE \E o \in CopyOf : \/ q = Outcome(o, TRUE)
                                     \/ q = Outcome(IF o = path THEN o ELSE [o EXCEPT !.data = "part"], FALSE)
            <7>1. PICK o \in CopyOf : \/ q = Outcome(o, TRUE)
                                     \/ q = Outcome(IF o = path THEN o ELSE [o EXCEPT !.data = "part"], FALSE)
              BY <6>2
            <7>2. q.path = o \/ q.path = IF o = path THEN o ELSE [o EXCEPT !.data = "part"]
              BY <5>3, <7>1
            <7> QED BY <5>2, <7>2
          <6> QED BY <5>1, <6>1, <6>2
        <5>5. \E p, ok : q = Outcome(p, ok)
          BY <5>1
        <5>6. q.src = src
          BY <5>3, <5>5
        <5> QED BY <5>4, <5>6
      <4>3. CASE ~ P.force /\ ~ raced /\ mode # "t"
        <5>1. ~ UserThere
          BY <3>2, <3>3, <4>3 DEF StepInv
        <5>2. src' = src /\ (path' = path \/ path'.data \in {"copy", "part"})
          BY <3>1, <4>1, <4>2, <4>3
        <5>3. ~ UserThere'
          BY <5>1, <5>2 DEF UserThere, Exists
        <5> QED BY <3>2, <3>3, <5>3 DEF StepInv, Go
      <4>4. CASE ~ (~ P.force /\ ~ raced /\ mode # "t")
        BY <3>2, <3>3, <4>4 DEF StepInv, Go
      <4> QED BY <4>3, <4>4
    <3> QED BY <2>b, <2>c, <3>1, <3>3
  <2>6. CASE Attrib
    <3>1. stage = "attrib"
      BY <2>6 DEF Attrib
    <3>2. stage' \in {"attrib", "told", "over"}
      BY <2>6, <3>1 DEF Attrib, Tell
    <3> QED BY <2>a, <3>2
  <2>7. CASE AttribDone \/ Advance \/ Restart
    BY <2>7, <2>a, <2>b DEF AttribDone, Advance, Restart
  <2>8. CASE Drift
    BY <2>8 DEF Drift, StepInv, MayClear, P
  <2>9. CASE UNCHANGED vars
    BY <2>9 DEF vars, StepInv, MayClear, UserThere, Exists, P
  <2> QED BY <2>1, <2>2, <2>3, <2>4, <2>5, <2>6, <2>7, <2>8, <2>9 DEF Next, Terminated
<1> QED BY <1>1, <1>2

\* What touch leaves at the path.
LEMMA TouchedPath ==
  ASSUME NEW q \in Touched
  PROVE  \/ q.path = path
         \/ path.kind = "none" /\ q.path \in Fresh("file", "made")
         \/ \E w \in SUBSET Set : q.path = [path EXCEPT !.kind = "aside", !.wrong = w]
<1>1. \/ \E ok \in BOOLEAN : q = Outcome(path, ok)
      \/ path.kind = "none" /\ \E ob \in Fresh("file", "made") : q = Outcome(ob, TRUE)
      \/ \E w \in SUBSET Set : q = Outcome([path EXCEPT !.kind = "aside", !.wrong = w], TRUE)
      \/ \E w \in SUBSET Set :
            q = [path |-> path, src |-> [kind |-> "file", wrong |-> w], ok |-> TRUE]
  BY DEF Touched
<1>2. \A p, ok : Outcome(p, ok).path = p
  BY DEF Outcome
<1>3. CASE \E ok \in BOOLEAN : q = Outcome(path, ok)
  BY <1>2, <1>3
<1>4. CASE path.kind = "none" /\ \E ob \in Fresh("file", "made") : q = Outcome(ob, TRUE)
  <2>1. PICK ob \in Fresh("file", "made") : q = Outcome(ob, TRUE)
    BY <1>4
  <2>2. q.path = ob /\ ob \in Fresh("file", "made")
    BY <1>2, <2>1
  <2> QED BY <1>4, <2>2
<1>5. CASE \E w \in SUBSET Set : q = Outcome([path EXCEPT !.kind = "aside", !.wrong = w], TRUE)
  <2>1. PICK w \in SUBSET Set : q = Outcome([path EXCEPT !.kind = "aside", !.wrong = w], TRUE)
    BY <1>5
  <2>2. q.path = [path EXCEPT !.kind = "aside", !.wrong = w]
    BY <1>2, <2>1
  <2> QED BY <2>1, <2>2
<1>6. CASE \E w \in SUBSET Set :
             q = [path |-> path, src |-> [kind |-> "file", wrong |-> w], ok |-> TRUE]
  BY <1>6
<1> QED BY <1>1, <1>3, <1>4, <1>5, <1>6

\* A path where nothing is holds nothing of the user's.
NoneInv == path.kind = "none" => path.data # "user"

LEMMA NoneInvInductive ==
  /\ Init => NoneInv
  /\ TypeOK /\ NoneInv /\ [Next]_vars => NoneInv'
<1>1. Init => NoneInv
  <2> SUFFICES ASSUME Init PROVE NoneInv
    OBVIOUS
  <2>1. /\ Nothing.data = "none" /\ Stray.kind = "stray" /\ Link("user").kind = "link"
        /\ Hard("user").kind = "hard"
    BY DEF Nothing, Stray, Link, Hard
  <2>2. \A kind \in {"file", "dir"} : \A o \in Fresh(kind, "user") : o.kind = kind
    BY DEF Fresh
  <2>3. path \in {Nothing, Stray, Link("user"), Hard("user")} \cup Fresh("file", "user")
                  \cup Fresh("dir", "user")
    BY DEF Init
  <2> QED BY <2>1, <2>2, <2>3 DEF NoneInv
<1>2. TypeOK /\ NoneInv /\ [Next]_vars => NoneInv'
  <2> SUFFICES ASSUME TypeOK, NoneInv, [Next]_vars PROVE NoneInv'
    OBVIOUS
  <2> DEFINE Fine == {o \in Object : o.kind = "none" => o.data # "user"}
  <2>0. path \in Object /\ path \in Fine /\ (path' \in Fine => NoneInv')
    BY DEF TypeOK, NoneInv
  <2>a. Set \subseteq Attributes
    BY PolicyTyped DEF TypeOK
  <2>1. /\ {Nothing, Link("made"), Hard("made")} \subseteq Fine
        /\ \A kind \in Kinds, data \in Origins \ {"user"} : Fresh(kind, data) \subseteq Fine
    BY <2>a DEF Nothing, Link, Hard, Fresh, Object, Kinds, Origins
  <2>2. /\ \A data \in Origins \ {"user"} : [path EXCEPT !.data = data] \in Fine
        /\ \A kind \in Kinds \ {"none"}, w \in SUBSET Attributes :
              [path EXCEPT !.kind = kind, !.wrong = w] \in Fine
        /\ \A a : [path EXCEPT !.wrong = @ \ {a}] \in Fine
    BY <2>0 DEF Object
  <2>b. {"made", "copy", "part", "other"} \subseteq Origins \ {"user"}
        /\ {"file", "dir", "aside"} \subseteq Kinds \ {"none"} /\ src.kind \in Kinds
    BY DEF Origins, Kinds, TypeOK
  <2>3. \A p, ok : Outcome(p, ok).path = p
    BY DEF Outcome
  <2> HIDE DEF Fine
  <2>4. \A q \in Removed : q.path \in Fine
    BY <2>a, <2>b, <2>0, <2>1, <2>2, <2>3 DEF Removed, Outcome
  <2>5. ASSUME NEW new, new \in Fine, NEW q \in Linked(new) PROVE q.path \in Fine
    BY <2>a, <2>b, <2>0, <2>1, <2>3, <2>5 DEF Linked, Outcome
  <2>6. \A q \in MadeDirectory : q.path \in Fine
    BY <2>a, <2>b, <2>0, <2>1, <2>3 DEF MadeDirectory, Outcome
  <2>7. ASSUME NEW q \in Touched PROVE q.path \in Fine
    <3>1. \/ q.path = path
          \/ q.path \in Fresh("file", "made")
          \/ \E w \in SUBSET Set : q.path = [path EXCEPT !.kind = "aside", !.wrong = w]
      BY <2>7, TouchedPath
    <3>2. Fresh("file", "made") \subseteq Fine
      BY <2>b, <2>1
    <3>3. CASE \E w \in SUBSET Set : q.path = [path EXCEPT !.kind = "aside", !.wrong = w]
      <4>1. PICK w \in SUBSET Set : q.path = [path EXCEPT !.kind = "aside", !.wrong = w]
        BY <3>3
      <4>2. w \in SUBSET Attributes
        BY <2>a, <4>1
      <4>3. \A v \in SUBSET Attributes : [path EXCEPT !.kind = "aside", !.wrong = v] \in Fine
        BY <2>b, <2>2
      <4> QED BY <4>1, <4>2, <4>3
    <3> QED BY <2>0, <3>1, <3>2, <3>3
  <2>8. ASSUME NEW q \in Copied PROVE q.path \in Fine
    <3>1. \A o \in CopyOf : o \in Fine
      BY <2>a, <2>b, <2>0, <2>1, <2>2 DEF CopyOf
    <3>2. \A o \in CopyOf : o = path \/ [o EXCEPT !.data = "part"] \in Fine
      <4>1. \A o \in Object : [o EXCEPT !.data = "part"] \in Fine
        BY DEF Object, Origins, Fine
      <4>2. \A o \in CopyOf : o \in Object
        BY <3>1 DEF Fine
      <4> QED BY <4>1, <4>2
    <3>3. \/ q = Outcome(path, FALSE)
          \/ \E o \in CopyOf :
               \/ q = Outcome(o, TRUE)
               \/ q = Outcome(IF o = path THEN o ELSE [o EXCEPT !.data = "part"], FALSE)
      BY <2>8 DEF Copied
    <3>4. CASE q = Outcome(path, FALSE)
      BY <2>0, <2>3, <3>4
    <3>5. CASE q # Outcome(path, FALSE)
      <4>1. PICK o \in CopyOf :
               \/ q = Outcome(o, TRUE)
               \/ q = Outcome(IF o = path THEN o ELSE [o EXCEPT !.data = "part"], FALSE)
        BY <3>3, <3>5
      <4>2. q.path = o \/ (o # path /\ q.path = [o EXCEPT !.data = "part"])
        BY <2>3, <4>1
      <4> QED BY <3>1, <3>2, <4>1, <4>2
    <3> QED BY <3>4, <3>5
  <2>9. \A q \in Ran(Commands) : q.path \in Fine
    <3>1. Outcome(path, FALSE).path \in Fine
      BY <2>0, <2>3
    <3>2. \A q \in Commands : q.path \in Fine
      BY <2>1, <2>5, <2>6, <2>7, <2>8, <3>1 DEF Commands
    <3> QED BY <2>0, <3>2 DEF Ran
  <2>10. CASE Back
    BY <2>a, <2>b, <2>0, <2>1, <2>10 DEF Back
  <2>11. CASE Clear \/ Make
    BY <2>0, <2>4, <2>9, <2>11 DEF Clear, Make, Ran
  <2>12. CASE Attrib
    BY <2>0, <2>2, <2>12 DEF Attrib, Correct
  <2>13. CASE Drift
    <3>1. Fresh("file", "other") \subseteq Fine
      BY <2>b, <2>1
    <3>2. [path EXCEPT !.kind = "file", !.wrong = src.wrong] \in Fine
      BY <2>b, <2>2 DEF TypeOK
    <3> QED BY <2>0, <2>1, <2>13, <3>1, <3>2 DEF Drift
  <2>14. CASE Begin \/ Look \/ AttribDone \/ Advance \/ Restart \/ UNCHANGED vars
    BY <2>a, <2>b, <2>0, <2>14 DEF Begin, Look, AttribDone, Advance, Restart, vars, host
  <2> QED BY <2>10, <2>11, <2>12, <2>13, <2>14 DEF Next, Terminated
<1> QED BY <1>1, <1>2

\* A copy without force leaves what stat does not show as it is, or is of nothing.
LEMMA UnseenCopy ==
  ASSUME path.data = "user", ~ Exists(path), path.kind # "none", ~ P.force,
         TypeOK, NEW q \in Copied
  PROVE  q.path = path
<1>1. path.kind \in {"stray", "link"}
  BY DEF TypeOK, Object, Kinds, Exists
<1>2. CopyOf = {}
  BY <1>1 DEF CopyOf
<1> QED BY <1>2 DEF Copied, Outcome

(***************************************************************************)
(* WhatDestroys: a step that takes the user's object away without force is *)
(* absent's rm, the rename to the backup, or the rm after a failed cp of a *)
(* path where stat showed nothing (file.lua, copy, directory, absent).  It *)
(* rests on StepInv: rm is not reached otherwise, and cp finds nothing of  *)
(* the user's that it could overwrite.                                     *)
(***************************************************************************)
THEOREM DestructionExplained ==
  Spec => WhatDestroys
<1>1. ASSUME TypeOK, StepInv, NoneInv, [Next]_vars, path.data = "user", path'.data # "user",
             ~ raced, drift' = drift, ~ P.force, P.func # "absent"
      PROVE  saved' = path \/ (P.func = "copy" /\ stage = "undo" /\ ~ Exists(path))
  <2>0. path \in Object /\ path.data = "user" /\ path.kind # "none"
    BY <1>1 DEF TypeOK, NoneInv
  <2>1. SUFFICES ASSUME saved' # path, ~ (P.func = "copy" /\ stage = "undo" /\ ~ Exists(path))
                 PROVE  path'.data = "user"
    BY <1>1
  <2>2. CASE UNCHANGED path
    BY <2>0, <2>2
  <2>3. CASE Back
    BY <2>1, <2>2, <2>3 DEF Back
  <2>4. CASE Clear
    <3>1. stage = "undo" /\ P.func = "copy" /\ Exists(path)
      BY <1>1, <2>1, <2>4 DEF Clear, StepInv, MayClear
    <3>2. mode = "t"
      BY <1>1, <3>1 DEF StepInv, UserThere
    <3> QED BY <2>0, <2>4, <3>2 DEF Clear, Ran, Run
  <2>5. CASE Make
    <3>1. PICK q \in Ran(Commands) : path' = q.path
      BY <2>5 DEF Make
    <3>2. CASE mode = "t"
      BY <2>0, <3>1, <3>2 DEF Ran, Run
    <3>3. CASE P.func = "copy" /\ mode # "t"
      <4>1. ~ Exists(path)
        BY <1>1, <2>5, <3>3 DEF Make, StepInv, UserThere
      <4>2. q \in Copied
        BY <3>1, <3>3 DEF Ran, Run, Commands
      <4> QED BY <1>1, <2>0, <3>1, <4>1, <4>2, UnseenCopy
    <3>4. CASE P.func # "copy" /\ mode # "t"
      <4>1. q \in Commands
        BY <3>1, <3>4 DEF Ran, Run
      <4>2. path.kind # "none"
        BY <2>0
      <4>3. \A p, ok : Outcome(p, ok).path = p
        BY DEF Outcome
      <4>4. \A new : \A o \in Linked(new) : o.path = path
        <5>1. \A new : \A o \in Linked(new) : o = Outcome(path, FALSE) \/ o = Outcome(path, TRUE)
          BY <1>1, <4>2 DEF Linked
        <5> QED BY <4>3, <5>1
      <4>5. \A o \in MadeDirectory : o.path = path
        BY <4>2, <4>3 DEF MadeDirectory
      <4>6. \A o \in Touched : o.path.data = path.data
        <5>1. \A w : [path EXCEPT !.kind = "aside", !.wrong = w].data = path.data
          BY <2>0 DEF Object
        <5> QED BY <4>2, <5>1, TouchedPath
      <4>7. Outcome(path, FALSE).path = path
        BY <4>3
      <4>8. P.func \in {"link", "hard", "directory", "touch"}
        <5>1. policy[k] \in PromiseType /\ stage = "make"
          BY <1>1, <2>5, PolicyTyped DEF TypeOK, Make
        <5>2. P.func \in Funcs
          BY <5>1 DEF P, PromiseType
        <5> QED BY <1>1, <3>4, <5>1, <5>2 DEF StepInv, Funcs
      <4> QED BY <2>0, <3>1, <4>1, <4>4, <4>5, <4>6, <4>7, <4>8 DEF Commands
    <3> QED BY <3>2, <3>3, <3>4
  <2>6. CASE Attrib
    BY <2>0, <2>6 DEF Attrib, Correct, Object
  <2>7. CASE Drift
    BY <1>1, <2>7, PathsAssumption DEF Drift, TypeOK
  <2>8. CASE Begin \/ Look \/ AttribDone \/ Advance \/ Restart \/ UNCHANGED vars
    BY <2>2, <2>8 DEF Begin, Look, AttribDone, Advance, Restart, vars, host
  <2> QED BY <1>1, <2>3, <2>4, <2>5, <2>6, <2>7, <2>8 DEF Next, Terminated
<1>2. TypeOK /\ StepInv /\ NoneInv /\ [Next]_vars
        => [(path.data = "user" /\ path'.data # "user" /\ ~ raced /\ drift' = drift)
             => (P.force \/ P.func = "absent" \/ saved' = path
                  \/ (P.func = "copy" /\ stage = "undo" /\ ~ Exists(path)))]_vars
  BY <1>1
<1> QED BY <1>2, TypeCorrect, StepInvInductive, NoneInvInductive, PTL DEF Spec, WhatDestroys

(***************************************************************************)
(* Where the user's object is while copies are made with backup: under the *)
(* backup's name is an older one, which rules the case out; or under -t    *)
(* nothing moves; or it still is at the path, where cp does not come       *)
(* before the rename; or it is the backup, which nothing touches.          *)
(***************************************************************************)
OnlyBackedUpCopies == \A n \in DOMAIN policy : policy[n].func = "copy" /\ policy[n].backup

OldBackup == saved.data = "old" /\ saved.kind \in {"file", "dir"} /\ stage # "back"
StillThere ==
  /\ saved = Nothing /\ path.data = "user" /\ Exists(path)
  /\ stage \in {"start", "look", "back", "attrib", "told", "over"}
InBackup == saved.data = "user" /\ Exists(saved) /\ stage # "back"

KeptInv ==
  (had /\ drift = 0 /\ OnlyBackedUpCopies)
    => OldBackup \/ (mode = "t" /\ path.data = "user") \/ StillThere \/ InBackup

LEMMA KeptInvInductive ==
  /\ Init => KeptInv
  /\ TypeOK /\ StepInv /\ KeptInv /\ [Next]_vars => KeptInv'
<1>1. Init => KeptInv
  <2> SUFFICES ASSUME Init, had PROVE OldBackup \/ StillThere
    BY DEF KeptInv
  <2>1. path.data = "user" /\ Exists(path)
    <3>1. Exists(path)
      BY DEF Init
    <3>2. Nothing.kind = "none" /\ Stray.data = "user" /\ Link("user").data = "user"
          /\ Hard("user").data = "user"
      BY DEF Nothing, Stray, Link, Hard
    <3>3. \A kind : \A o \in Fresh(kind, "user") : o.data = "user"
      BY DEF Fresh
    <3>4. path \in {Nothing, Stray, Link("user"), Hard("user")} \cup Fresh("file", "user")
                     \cup Fresh("dir", "user")
      BY DEF Init
    <3>5. path # Nothing
      BY <3>1, <3>2 DEF Exists
    <3> QED BY <3>1, <3>2, <3>3, <3>4, <3>5
  <2>2. CASE saved = Nothing
    BY <2>1, <2>2 DEF Init, StillThere
  <2>3. CASE saved # Nothing
    BY <2>3 DEF Init, OldBackup
  <2> QED BY <2>2, <2>3
<1>2. TypeOK /\ StepInv /\ KeptInv /\ [Next]_vars => KeptInv'
  <2> SUFFICES ASSUME TypeOK, StepInv, KeptInv, [Next]_vars, (had /\ drift = 0 /\ OnlyBackedUpCopies)'
               PROVE  (OldBackup \/ (mode = "t" /\ path.data = "user") \/ StillThere \/ InBackup)'
    BY DEF KeptInv
  <2>0. /\ UNCHANGED <<policy, mode, had>> /\ drift = 0 /\ drift' = 0
        /\ path \in Object /\ saved \in Object
    <3>1. UNCHANGED <<policy, mode, had>>
      BY DEF Next, Terminated, vars, Begin, Look, Back, Clear, Make, Attrib, AttribDone, Advance,
             Restart, Drift
    <3>2. drift' = drift \/ drift' = drift + 1
      BY DEF Next, Terminated, vars, Begin, Look, Back, Clear, Make, Attrib, AttribDone, Advance,
             Restart, Drift
    <3>3. drift' = 0 /\ drift \in Nat
      BY PathsAssumption DEF TypeOK
    <3>4. drift = 0
      BY <3>2, <3>3
    <3> QED BY <3>1, <3>3, <3>4 DEF TypeOK
  <2>1. had /\ OnlyBackedUpCopies /\ P.func = "copy" /\ P.backup
    BY <2>0 DEF OnlyBackedUpCopies, P, TypeOK
  <2>2. OldBackup \/ (mode = "t" /\ path.data = "user") \/ StillThere \/ InBackup
    BY <2>0, <2>1 DEF KeptInv
  <2>a. ASSUME UNCHANGED <<path, saved, src>>, stage' \in {"start", "look", "attrib", "told", "over"}
        PROVE  (OldBackup \/ (mode = "t" /\ path.data = "user") \/ StillThere \/ InBackup)'
    BY <2>a, <2>2, <2>0 DEF OldBackup, StillThere, InBackup, Exists
  <2>3. CASE Begin
    BY <2>3, <2>a DEF Begin, Go, Tell, host
  <2>4. CASE Look
    <3>1. LookCopy /\ stage = "look" /\ UNCHANGED <<path, saved, src>>
      BY <2>1, <2>4 DEF Look, LookAttributes, LookLink, LookHard, LookDirectory, LookTouch,
                       LookAbsent, host
    <3>2. CASE Exists(path) /\ ~ Exists(saved)
      <4>1. stage' = "back"
        BY <2>1, <3>1, <3>2 DEF LookCopy, Go
      <4>2. (mode = "t" /\ path.data = "user") \/ StillThere
        BY <2>2, <3>2 DEF OldBackup, InBackup, Exists
      <4> QED BY <2>0, <3>1, <4>1, <4>2 DEF StillThere, Exists
    <3>3. CASE ~ (Exists(path) /\ ~ Exists(saved))
      <4>1. stage' \in {"make", "told", "over"}
        BY <3>1, <3>3 DEF LookCopy, Go, Tell
      <4>2. OldBackup \/ (mode = "t" /\ path.data = "user") \/ InBackup
        BY <2>2, <3>3 DEF StillThere, Nothing, Exists
      <4> QED BY <2>0, <3>1, <4>1, <4>2 DEF OldBackup, InBackup, Exists
    <3> QED BY <3>2, <3>3
  <2>5. CASE Back
    <3>1. stage = "back" /\ src' = src /\ stage' \in {"make", "told", "over"}
      BY <2>1, <2>5 DEF Back, Go, Tell
    <3>2. CASE mode = "t"
      BY <2>0, <2>2, <2>5, <3>1, <3>2 DEF Back, OldBackup, StillThere, InBackup
    <3>3. CASE mode # "t"
      <4>1. StillThere
        BY <2>2, <3>1, <3>3 DEF OldBackup, InBackup
      <4>2. CASE saved' = path
        BY <3>1, <4>1, <4>2 DEF StillThere, InBackup, Exists
      <4>3. CASE UNCHANGED <<saved, path>> /\ Tell({"failed"})
        BY <2>a, <3>1, <4>3 DEF Tell
      <4> QED BY <2>1, <2>5, <3>3, <4>2, <4>3 DEF Back
    <3> QED BY <3>2, <3>3
  <2>6. CASE Clear \/ Make
    <3>1. stage \in {"undo", "make"}
      BY <2>1, <2>6 DEF Clear, Make, StepInv, MayClear
    <3>2. saved' = saved /\ stage' # "back"
      BY <2>6 DEF Clear, Make, Go, Tell, GoAttrib
    <3>3. src' = src /\ (mode = "t" => path' = path)
      <4>1. ASSUME Clear PROVE src' = src /\ (mode = "t" => path' = path)
        BY <4>1 DEF Clear, Ran, Run
      <4>2. ASSUME Make PROVE src' = src /\ (mode = "t" => path' = path)
        <5>1. PICK q \in Ran(Commands) : path' = q.path /\ src' = q.src
          BY <4>2 DEF Make
        <5>2. CASE mode = "t"
          BY <5>1, <5>2 DEF Ran, Run
        <5>3. CASE mode # "t"
          <6>1. q \in Copied
            BY <2>1, <5>1, <5>3 DEF Ran, Run, Commands
          <6>2. \A p, ok : Outcome(p, ok).src = src
            BY DEF Outcome
          <6>3. \E p, ok : q = Outcome(p, ok)
            BY <6>1 DEF Copied
          <6> QED BY <5>1, <5>3, <6>2, <6>3
        <5> QED BY <5>2, <5>3
      <4> QED BY <2>6, <4>1, <4>2
    <3>4. OldBackup \/ (mode = "t" /\ path.data = "user") \/ InBackup
      BY <2>2, <3>1 DEF StillThere
    <3> QED BY <2>0, <3>2, <3>3, <3>4 DEF OldBackup, InBackup, Exists
  <2>7. CASE Attrib
    <3>1. /\ stage = "attrib" /\ saved' = saved /\ stage' \in {"attrib", "told", "over"}
      BY <2>7 DEF Attrib, Tell
    <3>2. path'.kind = path.kind /\ path'.data = path.data /\ src'.kind = src.kind
      BY <2>0, <2>7 DEF Attrib, Correct, TypeOK, Object
    <3>3. Exists(path)' = Exists(path) /\ Exists(saved)' = Exists(saved)
      BY <3>1, <3>2 DEF Exists
    <3> QED BY <2>0, <2>2, <3>1, <3>2, <3>3 DEF OldBackup, StillThere, InBackup
  <2>8. CASE AttribDone \/ Advance \/ Restart
    <3>1. UNCHANGED <<path, saved, src>> /\ stage' \in {"start", "told", "over"}
      BY <2>8 DEF AttribDone, Advance, Restart, Tell, host
    <3> QED BY <2>a, <3>1
  <2>9. CASE Drift
    BY <2>0, <2>9 DEF Drift
  <2>10. CASE UNCHANGED vars
    BY <2>0, <2>2, <2>10 DEF vars, OldBackup, StillThere, InBackup, Exists
  <2> QED BY <2>3, <2>4, <2>5, <2>6, <2>7, <2>8, <2>9, <2>10 DEF Next, Terminated
<1> QED BY <1>1, <1>2

(***************************************************************************)
(* BackupKept: what was at the path in the beginning is never lost by      *)
(* copies with backup (file.lua, copy), through failing commands and kills *)
(* between any two of them.                                                *)
(***************************************************************************)
THEOREM KeepsBackup ==
  Spec => []BackupKept
<1>1. KeptInv => BackupKept
  BY DEF KeptInv, BackupKept, OnlyBackedUpCopies, OldBackup, StillThere, InBackup
<1> QED BY <1>1, TypeCorrect, StepInvInductive, KeptInvInductive, PTL DEF Spec

(***************************************************************************)
(* What makes reports true.  While attributes are looked at, the object is *)
(* there as promised, unless ln put its link into a directory, and those   *)
(* done with are right; what is told on success holds.  Of a promise that  *)
(* succeeded and was not disturbed since, all of this is still so when it  *)
(* is next looked at.                                                      *)
(***************************************************************************)
IntoDir(p) == p.func \in {"link", "hard"} /\ path.kind = "dir"
Made(p) == Stands(p) /\ (p.func = "hard" => src.kind # "none")
Right(attrs) == \A a \in attrs : Corrects(a) => a \notin Wrong
Holds(p) == (Made(p) /\ Right(p.attrs)) \/ IntoDir(p)

GuardInv ==
  /\ stage = "told" /\ P.guarded => report[k] = {"kept"}
  /\ stage \notin {"start", "told", "over"} => ~ P.guarded

TrueSoFar ==
  /\ stage = "attrib" =>
       /\ P.func \notin {"copy", "absent"} /\ todo \subseteq P.attrs
       /\ Made(P) \/ IntoDir(P)
       /\ Right(P.attrs \ todo)
  /\ stage = "told" /\ Succeeded(report[k]) =>
       /\ Holds(P)
       /\ (P.func = "copy" /\ "repaired" \in report[k]) => path.data = "copy" \/ path.kind = "dir"
TruthInv == (~ raced /\ mode # "t" /\ ~ P.guarded) => TrueSoFar

StillHolds(n) ==
  (steady[n] /\ mode # "t" /\ ~ policy[n].guarded /\ Succeeded(report[n])
     /\ (n # k \/ stage \in {"start", "look"}))
    => Holds(policy[n])
LastInv == \A n \in DOMAIN policy : StillHolds(n)

(***************************************************************************)
(* What makes them true again: a promise that holds goes from its look to  *)
(* the attributes, and finds nothing wrong, or tells that it is kept; one  *)
(* of ln whose path is a directory finds it there every time.              *)
(***************************************************************************)
Lasting(p) ==
  /\ p.func \in {"absent", "copy"} \/ (p.attrs # {} /\ p.func # "touch")
  /\ ~ (p.func = "copy" /\ (p.force \/ p.backup))
  /\ ~ p.guarded
CanCorrect(p) == \A a \in p.attrs : Corrects(a)

FindsAll ==
  /\ stage = "attrib" /\ todo \subseteq P.attrs
  /\ CanCorrect(P) => /\ todo \cap Wrong = {}
                      /\ acc = {"kept"} \/ (acc = {} /\ todo # {})
QuietSoFar ==
  /\ stage \in {"back", "clear", "make", "undo", "attrib"} /\ Succeeded(report[k])
       => (IntoDir(P) /\ stage \in {"make", "attrib"}) \/ FindsAll
  /\ stage = "told" /\ Succeeded(before[k])
       => IntoDir(P) \/ (CanCorrect(P) => report[k] = {"kept"})
QuietInv == (steady[k] /\ mode # "t" /\ Lasting(P)) => QuietSoFar

ReportInv == GuardInv /\ TruthInv /\ LastInv /\ QuietInv

\* The options of the promise that is being processed, and what no step changes of it.
LEMMA PromiseUnderWay ==
  ASSUME TypeOK
  PROVE  /\ P.func \in Funcs /\ P.attrs \subseteq Attributes
         /\ P.func \in {"absent", "copy"} => P.attrs = {}
<1>1. policy[k] \in PromiseType
  BY PolicyTyped DEF TypeOK
<1> QED BY <1>1 DEF P, PromiseType

LEMMA SameReports ==
  ASSUME TypeOK, NEW flags, Tell(flags)
  PROVE  /\ report'[k] = flags /\ before'[k] = report[k]
         /\ \A n \in DOMAIN policy : n # k => report'[n] = report[n]
         /\ stage' = IF "crash" \in flags THEN "over" ELSE "told"
  BY DEF Tell, TypeOK

\* What stat shows depends on the kinds of the objects only.
LEMMA SameKinds ==
  ASSUME UNCHANGED <<policy, mode, k>>, path'.kind = path.kind, src'.kind = src.kind
  PROVE  /\ Exists(path)' = Exists(path) /\ IsDir(path)' = IsDir(path) /\ P' = P
         /\ \A p : /\ Stands(p)' = Stands(p) /\ Made(p)' = Made(p) /\ IntoDir(p)' = IntoDir(p)
                   /\ CanCorrect(p)' = CanCorrect(p)
         /\ \A a : Corrects(a)' = Corrects(a)
<1>1. Exists(path)' = Exists(path) /\ IsDir(path)' = IsDir(path) /\ P' = P
  BY DEF Exists, IsDir, P
<1>2. \A a : Corrects(a)' = Corrects(a)
  BY DEF Corrects
<1>3. \A p : Stands(p)' = Stands(p) /\ IntoDir(p)' = IntoDir(p)
  BY <1>1 DEF Stands, IntoDir
<1>4. \A p : Made(p)' = Made(p)
  BY <1>3 DEF Made
<1>5. \A p : CanCorrect(p)' = CanCorrect(p)
  BY <1>2 DEF CanCorrect
<1> QED BY <1>1, <1>2, <1>3, <1>4, <1>5

LEMMA SameHost ==
  ASSUME UNCHANGED <<policy, mode, host>>
  PROVE  /\ Wrong' = Wrong /\ \A p : Holds(p)' = Holds(p)
<1>1. Wrong' = Wrong
  BY DEF Wrong, host
<1>2. \A a : Corrects(a)' = Corrects(a)
  BY DEF Corrects, host
<1>3. \A s : Right(s)' = Right(s)
  BY <1>1, <1>2 DEF Right
<1>4. Exists(path)' = Exists(path) /\ IsDir(path)' = IsDir(path)
  BY DEF Exists, IsDir, host
<1>5. \A p : Stands(p)' = Stands(p) /\ IntoDir(p)' = IntoDir(p)
  BY <1>4 DEF Stands, IntoDir, host
<1>6. \A p : Made(p)' = Made(p)
  BY <1>5 DEF Made, host
<1> QED BY <1>1, <1>3, <1>5, <1>6 DEF Holds

\* Every step but these two goes on with the same promise.
LEMMA SamePromise ==
  ASSUME [Next]_vars
  PROVE  /\ UNCHANGED <<policy, mode>>
         /\ ~ (Advance \/ Restart) => k' = k
         /\ ~ (Begin \/ Restart \/ Drift) => raced' = raced
  BY DEF Next, Terminated, vars, Begin, Look, Back, Clear, Make, Attrib, AttribDone, Advance,
         Restart, Drift

LEMMA GuardInvInductive ==
  /\ Init => GuardInv
  /\ TypeOK /\ GuardInv /\ [Next]_vars => GuardInv'
<1>1. Init => GuardInv
  BY DEF Init, GuardInv
<1>2. TypeOK /\ GuardInv /\ [Next]_vars => GuardInv'
  <2> SUFFICES ASSUME TypeOK, GuardInv, [Next]_vars PROVE GuardInv'
    OBVIOUS
  <2>1. CASE Begin
    <3>1. UNCHANGED <<policy, k>> /\ P' = P
      BY <2>1 DEF Begin, P
    <3>2. CASE ~ P.guarded
      BY <2>1, <3>1, <3>2 DEF Begin, Go, GuardInv
    <3>3. CASE Tell({"crash"})
      BY <3>3, SameReports DEF GuardInv
    <3>4. CASE Tell({"kept"})
      BY <3>1, <3>4, SameReports DEF GuardInv
    <3> QED BY <2>1, <3>2, <3>3, <3>4 DEF Begin
  <2>2. CASE Look \/ Back \/ Clear \/ Make \/ Attrib \/ AttribDone
    <3>1. UNCHANGED <<policy, k>> /\ P' = P
      BY <2>2 DEF Look, Back, Clear, Make, Attrib, AttribDone, P
    <3>2. stage \notin {"start", "told", "over"}
      BY <2>2 DEF Look, Back, Clear, Make, Attrib, AttribDone
    <3> QED BY <3>1, <3>2 DEF GuardInv
  <2>3. CASE Advance \/ Restart
    BY <2>3 DEF Advance, Restart, GuardInv
  <2>4. CASE Drift \/ UNCHANGED vars
    BY <2>4 DEF Drift, vars, GuardInv, P
  <2> QED BY <2>1, <2>2, <2>3, <2>4 DEF Next, Terminated
<1> QED BY <1>1, <1>2

\* A command that succeeds leaves what the promise says, or its link in a directory.
LEMMA CommandsTrue ==
  ASSUME TypeOK, P.func \notin {"attributes", "absent"}, NEW q \in Commands, q.ok,
         path' = q.path, src' = q.src, UNCHANGED <<policy, mode, k>>
  PROVE  /\ Made(P)' \/ IntoDir(P)'
         /\ P.func = "copy" => path'.data = "copy" \/ path'.kind = "dir"
<1>0. /\ P.func \in Funcs /\ P' = P
      /\ path \in Object /\ src \in [kind : {"none", "file", "dir"}, wrong : SUBSET Attributes]
  BY PromiseUnderWay DEF TypeOK, P
<1>1. \A p : q # Outcome(p, FALSE)
  BY DEF Outcome
<1>2. ASSUME NEW new, q \in Linked(new)
      PROVE  q.src = src /\ (q.path = new \/ (q.path = path /\ IsDir(path)))
  <2>1. \/ q = Outcome(path, FALSE) \/ q = Outcome(Nothing, FALSE)
        \/ (IsDir(path) /\ q = Outcome(path, TRUE)) \/ q = Outcome(new, TRUE)
    BY <1>2 DEF Linked
  <2> QED BY <2>1 DEF Outcome
<1>3. CASE P.func = "link"
  <2>1. q \in Linked(Link("made"))
    BY <1>3 DEF Commands
  <2>2. path'.kind = "link" \/ (path' = path /\ IsDir(path))
    BY <1>2, <2>1 DEF Link
  <2> QED BY <1>0, <1>3, <2>2 DEF IsDir, Made, Stands, IntoDir
<1>4. CASE P.func = "hard"
  <2>1. src.kind = "file" /\ q \in Linked(Hard("made"))
    BY <1>1, <1>4 DEF Commands
  <2>2. src'.kind = "file" /\ (path'.kind = "hard" \/ (path' = path /\ IsDir(path)))
    BY <1>2, <2>1 DEF Hard
  <2> QED BY <1>0, <1>4, <2>2 DEF IsDir, Made, Stands, IntoDir
<1>5. CASE P.func = "directory"
  <2>1. q \in MadeDirectory
    BY <1>5 DEF Commands
  <2>2. src' = src /\ (path'.kind = "dir" \/ (path' = path /\ IsDir(path)))
    <3>1. \A o \in Fresh("dir", "made") : o.kind = "dir"
      BY DEF Fresh
    <3>2. \/ q = Outcome(path, FALSE) \/ (IsDir(path) /\ q = Outcome(path, TRUE))
          \/ \E o \in Fresh("dir", "made") : q = Outcome(o, TRUE)
      BY <2>1 DEF MadeDirectory
    <3> QED BY <3>1, <3>2 DEF Outcome
  <2> QED BY <1>0, <1>5, <2>2 DEF IsDir, Made, Stands
<1>6. CASE P.func = "touch"
  <2>1. q \in Touched
    BY <1>6 DEF Commands
  <2>2. Exists(path)'
    <3>1. \A o \in Fresh("file", "made") : o.kind = "file"
      BY DEF Fresh
    <3>2. CASE path.kind = "none"
      <4>1. \/ q = Outcome(path, FALSE)
            \/ \E o \in Fresh("file", "made") : q = Outcome(o, TRUE)
        BY <2>1, <3>2 DEF Touched
      <4> QED BY <3>1, <4>1 DEF Exists, Outcome
    <3>3. CASE path.kind = "stray"
      <4>1. \A w : [path EXCEPT !.kind = "aside", !.wrong = w].kind = "aside"
        BY <1>0 DEF Object
      <4>2. \/ q = Outcome(path, FALSE)
            \/ \E w \in SUBSET Set : q = Outcome([path EXCEPT !.kind = "aside", !.wrong = w], TRUE)
        BY <2>1, <3>3 DEF Touched
      <4>3. PICK w \in SUBSET Set : q = Outcome([path EXCEPT !.kind = "aside", !.wrong = w], TRUE)
        BY <1>1, <4>2
      <4>4. path' = [path EXCEPT !.kind = "aside", !.wrong = w]
        BY <4>3 DEF Outcome
      <4> QED BY <4>1, <4>4 DEF Exists
    <3>4. CASE path.kind \notin {"none", "stray"} /\ Exists(path)
      <4>1. q.path = path /\ q.src = src
        <5>1. q = Outcome(path, FALSE) \/ q = Outcome(path, TRUE)
          BY <2>1, <3>4 DEF Touched
        <5> QED BY <5>1 DEF Outcome
      <4> QED BY <3>4, <4>1 DEF Exists
    <3>5. CASE path.kind \notin {"none", "stray"} /\ ~ Exists(path)
      <4>1. q.path = path /\ q.src.kind = "file"
        <5>1. \/ q = Outcome(path, FALSE)
              \/ \E w \in SUBSET Set :
                    q = [path |-> path, src |-> [kind |-> "file", wrong |-> w], ok |-> TRUE]
          BY <2>1, <3>5 DEF Touched
        <5> QED BY <5>1 DEF Outcome
      <4>2. path.kind = "link"
        BY <1>0, <3>5 DEF Exists, Object, Kinds
      <4> QED BY <4>1, <4>2 DEF Exists
    <3> QED BY <3>2, <3>3, <3>4, <3>5
  <2> QED BY <1>0, <1>6, <2>2 DEF Made, Stands
<1>7. CASE P.func = "copy"
  <2>1. q \in Copied
    BY <1>7 DEF Commands
  <2>2. src.kind \in {"file", "dir"} /\ q.src = src /\ q.path \in CopyOf
    <3>1. \/ q = Outcome(path, FALSE)
          \/ /\ src.kind # "none"
             /\ \E o \in CopyOf :
                  \/ q = Outcome(o, TRUE)
                  \/ q = Outcome(IF o = path THEN o ELSE [o EXCEPT !.data = "part"], FALSE)
      BY <2>1 DEF Copied
    <3> QED BY <1>0, <3>1 DEF Outcome
  <2>3. /\ q.path.kind \in {"file", "dir", "aside"}
        /\ q.path.data = "copy" \/ q.path.kind = "dir"
    <3>1. \A o \in Fresh(src.kind, "copy") : o.kind = src.kind /\ o.data = "copy"
      BY DEF Fresh
    <3>2. LET o == [path EXCEPT !.data = "copy"] IN o.kind = path.kind /\ o.data = "copy"
      BY <1>0 DEF Object
    <3> QED BY <2>2, <3>1, <3>2 DEF CopyOf
  <2> QED BY <1>0, <1>7, <2>3 DEF Made, Stands, Exists
<1> QED BY <1>0, <1>3, <1>4, <1>5, <1>6, <1>7 DEF Funcs

LEMMA TellFailure ==
  ASSUME TypeOK, NEW flags, Tell(flags), flags \cap {"failed", "crash"} # {}, k' = k
  PROVE  TrueSoFar' /\ stage' \in {"told", "over"}
<1>1. report'[k] = flags /\ stage' \in {"told", "over"}
  BY SameReports
<1> QED BY <1>1 DEF TrueSoFar, Succeeded

\* A promise without attributes tells a repair at once; of others nothing is done yet.
LEMMA GoAttribTrue ==
  ASSUME TypeOK, GoAttrib, UNCHANGED <<policy, mode, k>>, P.func \notin {"absent", "copy"},
         Made(P)' \/ IntoDir(P)'
  PROVE  TrueSoFar'
<1>0. P' = P
  BY DEF P
<1>1. CASE P.attrs = {}
  <2>1. report'[k] = {"repaired"} /\ stage' = "told"
    BY <1>1, SameReports DEF GoAttrib
  <2>2. Right(P.attrs)'
    BY <1>0, <1>1 DEF Right
  <2> QED BY <1>0, <2>1, <2>2 DEF TrueSoFar, Holds
<1>2. CASE P.attrs # {}
  <2>1. stage' = "attrib" /\ todo' = P.attrs
    BY <1>2 DEF GoAttrib
  <2> QED BY <1>0, <2>1 DEF TrueSoFar, Right
<1> QED BY <1>1, <1>2

\* The attributes done with stay right while another is set.
LEMMA AttribTrue ==
  ASSUME TypeOK, Attrib, mode # "t", stage = "attrib" => TrueSoFar
  PROVE  TrueSoFar'
<1>0. /\ UNCHANGED <<policy, mode, k>> /\ P' = P /\ stage = "attrib" /\ todo # {}
      /\ path \in Object /\ src \in [kind : {"none", "file", "dir"}, wrong : SUBSET Attributes]
  BY DEF Attrib, TypeOK, P
<1>1. /\ P.func \notin {"copy", "absent"} /\ todo \subseteq P.attrs
      /\ Made(P) \/ IntoDir(P)
      /\ Right(P.attrs \ todo)
  BY <1>0 DEF TrueSoFar
<1> DEFINE a == First(todo)
<1>2. CASE \E flags : Tell(flags) /\ flags \cap {"failed", "crash"} # {}
  BY <1>0, <1>2, TellFailure
<1>3. CASE \E flag : /\ acc' = acc \cup {flag} /\ todo' = todo \ {a}
                     /\ UNCHANGED <<stage, report, before>>
                     /\ \/ a \notin Wrong /\ UNCHANGED <<path, src>>
                        \/ Correct(a)
  <2>1. path'.kind = path.kind /\ src'.kind = src.kind
    BY <1>0, <1>3 DEF Correct, Object
  <2>2. (Made(P) \/ IntoDir(P))'
    BY <1>0, <1>1, <2>1, SameKinds
  <2>3. Wrong' \subseteq Wrong /\ (Corrects(a) => a \notin Wrong')
    BY <1>0, <1>3, <2>1 DEF Correct, Wrong, Object
  <2>4. Right(P.attrs \ todo)'
    <3>1. SUFFICES ASSUME NEW b \in P.attrs \ todo', Corrects(b) PROVE b \notin Wrong'
      BY <1>0, <2>1, SameKinds DEF Right
    <3>2. CASE b = a
      BY <2>3, <3>1, <3>2
    <3>3. CASE b # a
      BY <1>1, <1>3, <2>3, <3>1, <3>3 DEF Right
    <3> QED BY <3>2, <3>3
  <2>5. stage' = "attrib" /\ todo' \subseteq P.attrs
    BY <1>0, <1>1, <1>3
  <2> QED BY <1>0, <1>1, <2>2, <2>4, <2>5 DEF TrueSoFar
<1> QED
  <2>1. (acc \cup {"failed"}) \cap {"failed", "crash"} # {} /\ {"crash"} \cap {"failed", "crash"} # {}
    OBVIOUS
  <2> QED BY <1>2, <1>3, <2>1 DEF Attrib

LEMMA TruthInvInductive ==
  /\ Init => TruthInv
  /\ TypeOK /\ StepInv /\ TruthInv /\ [Next]_vars => TruthInv'
<1>1. Init => TruthInv
  BY DEF Init, TruthInv, TrueSoFar
<1>2. TypeOK /\ StepInv /\ TruthInv /\ [Next]_vars => TruthInv'
  <2> SUFFICES ASSUME TypeOK, StepInv, TruthInv, [Next]_vars, ~ raced', mode # "t", ~ P'.guarded
               PROVE  TrueSoFar'
    BY SamePromise DEF TruthInv
  <2>0. UNCHANGED <<policy, mode>> /\ P.func \in Funcs /\ (P.func \in {"absent", "copy"} => P.attrs = {})
    BY SamePromise, PromiseUnderWay
  <2>a. ASSUME stage' \notin {"attrib", "told"} PROVE TrueSoFar'
    BY <2>a DEF TrueSoFar
  <2>b. ASSUME NEW flags, Tell(flags), flags \cap {"failed", "crash"} # {}, k' = k PROVE TrueSoFar'
    BY <2>b, TellFailure
  <2>1. CASE Begin
    <3>1. P' = P
      BY <2>1 DEF Begin, P
    <3> QED BY <2>1, <2>a, <3>1 DEF Begin, Go
  <2>2. CASE Look
    <3>1. UNCHANGED <<policy, mode, k, path, src>> /\ P' = P
      BY <2>2 DEF Look, P, host
    <3>2. (Made(P)' <=> Made(P)) /\ Exists(path)' = Exists(path)
      BY <3>1, SameKinds
    <3>3. ASSUME GoAttrib, Made(P), P.func \notin {"absent", "copy"} PROVE TrueSoFar'
      BY <3>1, <3>2, <3>3, GoAttribTrue
    <3>4. ASSUME NEW next \in {"back", "clear", "make"}, Go(next) PROVE TrueSoFar'
      BY <2>a, <3>4 DEF Go
    <3>5. ASSUME Tell({"failed"}) PROVE TrueSoFar'
      BY <2>b, <3>1, <3>5
    <3>6. CASE LookAttributes
      BY <3>3, <3>5, <3>6 DEF LookAttributes, Made, Stands
    <3>7. CASE LookLink
      BY <3>3, <3>4, <3>7 DEF LookLink, Made, Stands
    <3>8. CASE LookHard
      BY <3>3, <3>4, <3>5, <3>8 DEF LookHard, Made, Stands
    <3>9. CASE LookDirectory \/ LookTouch
      BY <3>3, <3>4, <3>9 DEF LookDirectory, LookTouch, Made, Stands
    <3>10. CASE LookAbsent \/ LookCopy
      <4>1. CASE Tell({"kept"})
        <5>1. report'[k] = {"kept"} /\ stage' = "told"
          BY <4>1, SameReports
        <5>2. Made(P)
          BY <3>10, <4>1 DEF LookAbsent, LookCopy, Made, Stands, Go, Tell
        <5>3. Right(P.attrs)'
          BY <2>0, <3>1, <3>10 DEF LookAbsent, LookCopy, Right
        <5> QED BY <3>1, <3>2, <5>1, <5>2, <5>3 DEF TrueSoFar, Holds
      <4> QED BY <3>4, <3>10, <4>1 DEF LookAbsent, LookCopy
    <3> QED BY <2>2, <3>6, <3>7, <3>8, <3>9, <3>10 DEF Look
  <2>3. CASE Back
    BY <2>3, <2>a, <2>b DEF Back, Go
  <2>4. CASE Clear
    <3>1. k' = k /\ P' = P
      BY <2>0, <2>4 DEF Clear, P
    <3>2. CASE P.func = "directory"
      BY <2>4, <2>a, <3>2 DEF Clear, Go
    <3>3. CASE Tell({"failed"})
      BY <2>b, <3>1, <3>3
    <3>4. CASE P.func # "directory" /\ Tell({"repaired"})
      <4>1. PICK o \in Removed : path' = o.path /\ o.ok /\ stage = "clear"
        <5>1. PICK o \in Ran(Removed) :
                /\ path' = o.path
                /\ IF P.func = "directory" THEN Go("make")
                   ELSE IF o.ok /\ stage = "clear" THEN Tell({"repaired"}) ELSE Tell({"failed"})
          BY <2>4 DEF Clear
        <5>2. ~ Tell({"failed"})
          BY <3>4, SameReports
        <5> QED BY <3>4, <5>1, <5>2 DEF Ran, Run
      <4>2. path' = Nothing
        BY <4>1 DEF Removed, Outcome
      <4>3. P.func = "absent"
        BY <3>4, <4>1 DEF StepInv, MayClear
      <4>4. Made(P)' /\ Right(P.attrs)'
        BY <2>0, <3>1, <4>2, <4>3 DEF Made, Stands, Exists, Nothing, Right
      <4>5. stage' = "told"
        BY <3>4, SameReports
      <4> QED BY <3>1, <4>3, <4>4, <4>5 DEF TrueSoFar, Holds
    <3> QED BY <2>4, <3>2, <3>3, <3>4 DEF Clear
  <2>5. CASE Make
    <3>1. UNCHANGED <<policy, mode, k>> /\ P' = P /\ P.func \notin {"attributes", "absent"}
      BY <2>0, <2>5 DEF Make, P, StepInv
    <3>2. PICK q \in Commands :
            /\ path' = q.path /\ src' = q.src
            /\ IF P.func = "copy" THEN IF q.ok THEN Tell({"repaired"}) ELSE Go("undo")
               ELSE IF q.ok THEN GoAttrib ELSE Tell({"failed"})
      BY <2>5 DEF Make, Ran, Run
    <3>3. CASE q.ok
      <4>1. /\ Made(P)' \/ IntoDir(P)'
            /\ P.func = "copy" => path'.data = "copy" \/ path'.kind = "dir"
        BY <3>1, <3>2, <3>3, CommandsTrue
      <4>2. CASE P.func = "copy"
        <5>1. stage' = "told"
          BY <3>2, <3>3, <4>2, SameReports
        <5>2. Right(P.attrs)' /\ Made(P)'
          BY <2>0, <3>1, <4>1, <4>2 DEF Right, IntoDir
        <5> QED BY <3>1, <4>1, <5>1, <5>2 DEF TrueSoFar, Holds
      <4>3. CASE P.func # "copy"
        BY <3>1, <3>2, <3>3, <4>1, <4>3, GoAttribTrue
      <4> QED BY <4>2, <4>3
    <3>4. CASE ~ q.ok
      BY <2>a, <2>b, <3>1, <3>2, <3>4 DEF Go
    <3> QED BY <3>3, <3>4
  <2>6. CASE Attrib
    <3>1. ~ raced /\ P' = P
      BY <2>0, <2>6 DEF Attrib, P
    <3> QED BY <2>6, <3>1, AttribTrue DEF TruthInv
  <2>7. CASE AttribDone
    <3>1. UNCHANGED <<policy, mode, k, host>> /\ P' = P /\ ~ raced /\ stage = "attrib" /\ todo = {}
      BY <2>7 DEF AttribDone, P
    <3>2. P.func \notin {"copy", "absent"} /\ Holds(P)
      <4>1. P.attrs \ todo = P.attrs
        BY <3>1
      <4> QED BY <3>1, <4>1 DEF TruthInv, TrueSoFar, Holds
    <3>3. Holds(P)'
      BY <3>1, <3>2, SameHost
    <3>4. stage' # "attrib"
      BY <2>7, SameReports DEF AttribDone
    <3> QED BY <3>1, <3>2, <3>3, <3>4 DEF TrueSoFar
  <2>8. CASE Advance \/ Restart
    BY <2>8, <2>a DEF Advance, Restart
  <2>9. CASE Drift
    BY <2>9 DEF Drift
  <2>10. CASE UNCHANGED vars
    <3>1. TrueSoFar
      BY <2>10 DEF TruthInv, vars, P
    <3>2. Holds(P)' = Holds(P)
      BY <2>10, SameHost DEF vars, host, P
    <3>3. Made(P)' = Made(P) /\ IntoDir(P)' = IntoDir(P) /\ P' = P
      BY <2>10, SameKinds DEF vars
    <3>4. Right(P.attrs \ todo)' = Right(P.attrs \ todo)
      BY <2>10 DEF Right, Corrects, Wrong, vars, P
    <3> QED BY <2>10, <3>1, <3>2, <3>3, <3>4 DEF TrueSoFar, vars
  <2> QED BY <2>1, <2>2, <2>3, <2>4, <2>5, <2>6, <2>7, <2>8, <2>9, <2>10 DEF Next, Terminated
<1> QED BY <1>1, <1>2

LEMMA LastInvInductive ==
  /\ Init => LastInv
  /\ TypeOK /\ TruthInv /\ LastInv /\ [Next]_vars => LastInv'
<1>1. Init => LastInv
  BY DEF Init, LastInv, StillHolds, Succeeded
<1>2. TypeOK /\ TruthInv /\ LastInv /\ [Next]_vars => LastInv'
  <2> SUFFICES ASSUME TypeOK, TruthInv, LastInv, [Next]_vars, mode # "t",
                      NEW n \in DOMAIN policy, steady'[n], ~ policy[n].guarded, Succeeded(report'[n]),
                      n # k' \/ stage' \in {"start", "look"}
               PROVE  Holds(policy[n])'
    BY SamePromise DEF LastInv, StillHolds
  <2>0. UNCHANGED <<policy, mode>>
    BY SamePromise
  <2>a. ASSUME UNCHANGED <<k, host, report>>, steady'[n] = steady[n],
               n # k \/ stage \in {"start", "look"}
        PROVE  Holds(policy[n])'
    BY <2>0, <2>a, SameHost DEF LastInv, StillHolds
  <2>b. ASSUME UNCHANGED k, Disturb, n # k => report'[n] = report[n],
               n # k \/ stage' \in {"start", "look"} => n # k
        PROVE  Holds(policy[n])'
    <3>1. n # k /\ steady[n] /\ host' = host /\ report'[n] = report[n]
      BY <2>b DEF Disturb, TypeOK
    <3> QED BY <2>0, <3>1, SameHost DEF LastInv, StillHolds
  <2>c. ASSUME NEW flags, Tell(flags)
        PROVE  /\ stage' \notin {"start", "look"}
               /\ n # k => report'[n] = report[n]
    BY <2>c, SameReports
  <2>d. ASSUME GoAttrib
        PROVE  /\ stage' \notin {"start", "look"}
               /\ n # k => report'[n] = report[n]
    BY <2>c, <2>d DEF GoAttrib
  <2>e. ASSUME NEW next, Go(next) PROVE stage' = next /\ report' = report
    BY <2>e DEF Go
  <2>1. CASE Begin
    <3>1. UNCHANGED <<k, host, steady>> /\ stage = "start"
      BY <2>1 DEF Begin
    <3>2. CASE Go("look")
      BY <2>a, <2>e, <3>1, <3>2
    <3>3. CASE \E flags : Tell(flags)
      <4>1. n # k /\ report'[n] = report[n]
        BY <2>c, <3>1, <3>3
      <4> QED BY <2>0, <3>1, <4>1, SameHost DEF LastInv, StillHolds
    <3> QED BY <2>1, <3>2, <3>3 DEF Begin
  <2>2. CASE Look \/ AttribDone
    <3>1. UNCHANGED <<k, host, steady>>
      BY <2>2 DEF Look, AttribDone
    <3>2. n # k /\ report'[n] = report[n]
      <4>1. CASE GoAttrib \/ \E flags : Tell(flags)
        BY <2>c, <2>d, <3>1, <4>1
      <4>2. CASE \E next \in {"back", "clear", "make"} : Go(next)
        BY <2>e, <3>1, <4>2
      <4> QED BY <2>2, <4>1, <4>2
        DEF Look, LookAttributes, LookLink, LookHard, LookDirectory, LookTouch, LookAbsent, LookCopy,
            AttribDone
    <3> QED BY <2>0, <3>1, <3>2, SameHost DEF LastInv, StillHolds
  <2>3. CASE Back \/ Clear \/ Make \/ Attrib
    <3>1. k' = k /\ Disturb
      BY <2>3 DEF Back, Clear, Make, Attrib
    <3>2. stage' \notin {"start", "look"} /\ (n # k => report'[n] = report[n])
      <4>1. CASE GoAttrib \/ \E flags : Tell(flags)
        BY <2>c, <2>d, <4>1
      <4>2. CASE \E next \in {"clear", "make", "undo"} : Go(next)
        BY <2>e, <4>2
      <4>3. CASE Attrib /\ UNCHANGED <<stage, report>>
        BY <4>3 DEF Attrib
      <4>4. CASE Back
        BY <4>1, <4>2, <4>4 DEF Back
      <4>5. CASE Clear
        BY <4>1, <4>2, <4>5 DEF Clear
      <4>6. CASE Make
        BY <4>1, <4>2, <4>6 DEF Make
      <4>7. CASE Attrib
        BY <4>1, <4>3, <4>7 DEF Attrib
      <4> QED BY <2>3, <4>4, <4>5, <4>6, <4>7
    <3> QED BY <2>b, <3>1, <3>2
  <2>4. CASE Advance
    <3>1. /\ UNCHANGED <<host, report>> /\ stage = "told"
          /\ steady' = [steady EXCEPT ![k] = ~ raced]
      BY <2>4 DEF Advance
    <3>2. CASE n = k
      <4>1. ~ raced /\ Succeeded(report[k]) /\ ~ P.guarded
        BY <3>1, <3>2 DEF TypeOK, P
      <4>2. Holds(policy[n])
        BY <3>1, <3>2, <4>1 DEF TruthInv, TrueSoFar, P
      <4> QED BY <2>0, <3>1, <4>2, SameHost
    <3>3. CASE n # k
      <4>1. steady[n]
        BY <3>1, <3>3 DEF TypeOK
      <4> QED BY <2>0, <3>1, <3>3, <4>1, SameHost DEF LastInv, StillHolds
    <3> QED BY <3>2, <3>3
  <2>5. CASE Restart \/ Drift
    BY <2>0, <2>5 DEF Restart, Drift
  <2>6. CASE UNCHANGED vars
    BY <2>6, <2>a DEF vars, host
  <2> QED BY <2>1, <2>2, <2>3, <2>4, <2>5, <2>6 DEF Next, Terminated
<1> QED BY <1>1, <1>2

\* ln into a directory leaves the directory.
LEMMA LinkIntoDir ==
  ASSUME TypeOK, IntoDir(P), NEW q \in Ran(Commands)
  PROVE  q.path = path /\ q.src = src
<1>1. IsDir(path) /\ path.kind = "dir" /\ P.func \in {"link", "hard"}
  BY DEF IntoDir, IsDir
<1>2. CASE q \in Commands
  <2>1. q = Outcome(path, FALSE) \/ q = Outcome(path, TRUE)
    <3>1. \A new : \A o \in Linked(new) : o = Outcome(path, FALSE) \/ o = Outcome(path, TRUE)
      BY <1>1 DEF Linked
    <3> QED BY <1>1, <1>2, <3>1 DEF Commands
  <2> QED BY <2>1 DEF Outcome
<1>3. CASE q \notin Commands
  BY <1>3 DEF Ran
<1> QED BY <1>2, <1>3

LEMMA QuietInvInductive ==
  /\ Init => QuietInv
  /\ TypeOK /\ StepInv /\ LastInv /\ QuietInv /\ [Next]_vars => QuietInv'
<1>1. Init => QuietInv
  BY DEF Init, QuietInv, QuietSoFar
<1>2. TypeOK /\ StepInv /\ LastInv /\ QuietInv /\ [Next]_vars => QuietInv'
  <2> SUFFICES ASSUME TypeOK, StepInv, LastInv, QuietInv, [Next]_vars,
                      steady'[k'], mode # "t", Lasting(P')
               PROVE  QuietSoFar'
    BY SamePromise DEF QuietInv, Lasting
  <2>0. UNCHANGED <<policy, mode>> /\ P.func \in Funcs
    BY SamePromise, PromiseUnderWay
  <2>a. ASSUME stage' \in {"start", "look", "over"} PROVE QuietSoFar'
    BY <2>a DEF QuietSoFar
  <2>b. ASSUME NEW flags, Tell(flags), k' = k,
               (Succeeded(report[k]) /\ "crash" \notin flags)
                  => IntoDir(P)' \/ (CanCorrect(P)' => flags = {"kept"})
        PROVE  QuietSoFar'
    BY <2>b, SameReports DEF QuietSoFar
  <2>c. ASSUME ~ Succeeded(report[k]), k' = k,
               \/ GoAttrib \/ (\E flags : Tell(flags))
               \/ report' = report /\ stage' # "told"
        PROVE  QuietSoFar'
    BY <2>c, <2>b DEF GoAttrib, QuietSoFar
  <2>1. CASE Begin
    <3>1. P' = P /\ Go("look")
      BY <2>0, <2>1 DEF Begin, P, Lasting
    <3> QED BY <2>a, <3>1 DEF Go
  <2>2. CASE Look
    <3>1. UNCHANGED <<policy, mode, k, path, src, steady>> /\ P' = P /\ stage = "look"
      BY <2>2 DEF Look, P, host
    <3>2. CASE ~ Succeeded(report[k])
      <4>1. ASSUME NEW next \in {"back", "clear", "make"}, Go(next)
            PROVE  report' = report /\ stage' # "told"
        BY <4>1 DEF Go
      <4>2. \/ GoAttrib \/ (\E flags : Tell(flags))
            \/ \E next \in {"back", "clear", "make"} : Go(next)
        BY <2>2
        DEF Look, LookAttributes, LookLink, LookHard, LookDirectory, LookTouch, LookAbsent, LookCopy
      <4> QED BY <2>c, <3>1, <3>2, <4>1, <4>2
    <3>3. CASE Succeeded(report[k])
      <4>1. Holds(P) /\ Lasting(P)
        BY <3>1, <3>3 DEF LastInv, StillHolds, TypeOK, P, Lasting
      <4>2. /\ IntoDir(P)' = IntoDir(P) /\ Wrong' = Wrong
            /\ CanCorrect(P)' = CanCorrect(P)
        BY <3>1 DEF IntoDir, CanCorrect, Corrects, Wrong
      <4>3. ASSUME GoAttrib, Holds(P), P.func \notin {"absent", "copy"} PROVE QuietSoFar'
        <5>1. stage' = "attrib" /\ todo' = P.attrs /\ acc' = {} /\ P.attrs # {}
          BY <4>1, <4>3 DEF Lasting, GoAttrib
        <5>2. CanCorrect(P) /\ ~ IntoDir(P) => P.attrs \cap Wrong = {}
          BY <4>3 DEF Holds, Right, CanCorrect
        <5> QED BY <3>1, <4>2, <5>1, <5>2 DEF QuietSoFar, FindsAll
      <4>4. ASSUME Go("make"), IntoDir(P) PROVE QuietSoFar'
        BY <4>2, <4>4 DEF Go, QuietSoFar
      <4>5. ASSUME Tell({"kept"}) PROVE QuietSoFar'
        BY <2>b, <3>1, <4>5
      <4>6. CASE LookAttributes
        BY <4>1, <4>3, <4>6 DEF LookAttributes, Holds, Made, Stands, IntoDir
      <4>7. CASE LookLink
        BY <4>1, <4>3, <4>4, <4>7 DEF LookLink, Holds, Made, Stands, IntoDir
      <4>8. CASE LookHard
        <5>1. CASE IntoDir(P)
          BY <2>b, <3>1, <4>2, <4>4, <4>8, <5>1 DEF LookHard, IntoDir
        <5>2. CASE Made(P)
          BY <4>1, <4>3, <4>8, <5>2 DEF LookHard, Made, Stands
        <5> QED BY <4>1, <5>1, <5>2 DEF Holds
      <4>9. CASE LookDirectory \/ LookTouch
        BY <4>1, <4>3, <4>9 DEF LookDirectory, LookTouch, Holds, Made, Stands, IntoDir, Lasting
      <4>10. CASE LookAbsent \/ LookCopy
        BY <4>1, <4>5, <4>10 DEF LookAbsent, LookCopy, Holds, Made, Stands, IntoDir, Lasting
      <4> QED BY <2>2, <4>6, <4>7, <4>8, <4>9, <4>10 DEF Look
    <3> QED BY <3>2, <3>3
  <2>3. CASE Back \/ Clear \/ Make \/ Attrib \/ AttribDone
    <3>1. /\ UNCHANGED <<policy, mode, k>> /\ P' = P /\ steady[k]
          /\ stage \in {"back", "clear", "make", "undo", "attrib"}
      BY <2>3 DEF Back, Clear, Make, Attrib, AttribDone, P, Disturb, TypeOK
    <3>2. CASE ~ Succeeded(report[k])
      <4>1. ASSUME NEW next \in {"clear", "make", "undo"}, Go(next)
            PROVE  report' = report /\ stage' # "told"
        BY <4>1 DEF Go
      <4>2. \/ GoAttrib \/ (\E flags : Tell(flags))
            \/ \E next \in {"clear", "make", "undo"} : Go(next)
            \/ report' = report /\ stage' = "attrib"
        <5>1. CASE Back
          BY <5>1 DEF Back
        <5>2. CASE Clear
          BY <5>2 DEF Clear
        <5>3. CASE Make
          BY <5>3 DEF Make
        <5>4. CASE Attrib \/ AttribDone
          BY <5>4 DEF Attrib, AttribDone
        <5> QED BY <2>3, <5>1, <5>2, <5>3, <5>4
      <4> QED BY <2>c, <3>1, <3>2, <4>1, <4>2
    <3>3. CASE Succeeded(report[k])
      <4>1. (IntoDir(P) /\ stage \in {"make", "attrib"}) \/ FindsAll
        BY <3>1, <3>3 DEF QuietInv, QuietSoFar
      <4>2. CASE Back \/ Clear
        BY <4>1, <4>2 DEF Back, Clear, FindsAll
      <4>3. CASE Make
        <5>1. IntoDir(P) /\ stage = "make" /\ P.func # "copy"
          BY <4>1, <4>3 DEF Make, FindsAll, IntoDir
        <5>2. path' = path
          BY <4>3, <5>1, LinkIntoDir DEF Make
        <5>3. IntoDir(P)'
          BY <3>1, <5>1, <5>2 DEF IntoDir
        <5>4. stage' \in {"attrib", "told", "over"}
          BY <4>3, <5>1, SameReports DEF Make, GoAttrib
        <5> QED BY <5>3, <5>4 DEF QuietSoFar
      <4>4. CASE Attrib
        <5>1. path'.kind = path.kind /\ src'.kind = src.kind /\ stage = "attrib"
          BY <4>4 DEF Attrib, Correct, TypeOK, Object
        <5>2. IntoDir(P)' = IntoDir(P) /\ CanCorrect(P)' = CanCorrect(P)
          BY <3>1, <5>1, SameKinds
        <5>3. stage' \in {"attrib", "told", "over"}
          BY <4>4, <5>1, SameReports DEF Attrib
        <5>4. CASE IntoDir(P)
          BY <5>2, <5>3, <5>4 DEF QuietSoFar
        <5>5. CASE ~ IntoDir(P) /\ ~ CanCorrect(P)
          <6>1. todo' \subseteq P.attrs
            BY <4>1, <4>4, <5>5 DEF FindsAll, Attrib, Tell
          <6> QED BY <3>1, <5>2, <5>3, <5>5, <6>1 DEF QuietSoFar, FindsAll
        <5>6. CASE ~ IntoDir(P) /\ CanCorrect(P)
          <6>1. /\ todo \subseteq P.attrs /\ todo \cap Wrong = {} /\ todo # {}
                /\ acc = {"kept"} \/ acc = {}
            BY <4>1, <4>4, <5>6 DEF FindsAll, Attrib
          <6>2. First(todo) \in todo
            <7>1. todo \subseteq {"owner", "group", "mode"}
              BY PathsAssumption DEF TypeOK
            <7> QED BY <6>1, <7>1 DEF First
          <6>3. CASE Tell({"crash"})
            BY <2>b, <3>1, <6>3
          <6>4. CASE ~ Tell({"crash"})
            <7>1. /\ acc' = acc \cup {"kept"} /\ todo' = todo \ {First(todo)}
                  /\ UNCHANGED <<stage, report, before, path, src>>
              BY <4>4, <6>1, <6>2, <6>4 DEF Attrib
            <7>2. acc' = {"kept"} /\ todo' \subseteq P.attrs /\ Wrong' = Wrong
              BY <6>1, <7>1 DEF Wrong
            <7> QED BY <3>1, <5>1, <6>1, <7>1, <7>2 DEF QuietSoFar, FindsAll
          <6> QED BY <6>3, <6>4
        <5> QED BY <5>4, <5>5, <5>6
      <4>5. CASE AttribDone
        <5>1. UNCHANGED host /\ todo = {} /\ Tell(acc)
          BY <4>5 DEF AttribDone
        <5>2. IntoDir(P)' = IntoDir(P) /\ CanCorrect(P)' = CanCorrect(P)
          BY <3>1, <5>1, SameKinds DEF host
        <5>3. IntoDir(P) \/ (CanCorrect(P) => acc = {"kept"})
          BY <4>1, <5>1 DEF FindsAll
        <5> QED BY <2>b, <3>1, <5>1, <5>2, <5>3
      <4> QED BY <2>3, <4>2, <4>3, <4>4, <4>5
    <3> QED BY <3>2, <3>3
  <2>4. CASE Advance \/ Restart
    BY <2>4, <2>a DEF Advance, Restart
  <2>5. CASE Drift
    BY <2>5 DEF Drift, TypeOK
  <2>6. CASE UNCHANGED vars
    <3>1. QuietSoFar /\ P' = P
      BY <2>6 DEF QuietInv, vars, P
    <3>2. IntoDir(P)' = IntoDir(P) /\ CanCorrect(P)' = CanCorrect(P) /\ Wrong' = Wrong
      BY <2>6, <3>1 DEF vars, IntoDir, CanCorrect, Corrects, Wrong
    <3> QED BY <2>6, <3>1, <3>2 DEF QuietSoFar, FindsAll, vars
  <2> QED BY <2>1, <2>2, <2>3, <2>4, <2>5, <2>6 DEF Next, Terminated
<1> QED BY <1>1, <1>2

(***************************************************************************)
(* FileReports: what a promise of the file module reports is true when it  *)
(* is told, whichever of its commands fail (file.lua, attrib and the       *)
(* result of each command), and a promise that held and was left alone is  *)
(* reported kept the next time.                                            *)
(***************************************************************************)
THEOREM FileReportsTrue ==
  Spec => []FileReports
<1>1. TypeOK /\ GuardInv /\ TruthInv /\ LastInv /\ QuietInv => FileReports
  <2> SUFFICES ASSUME TypeOK, GuardInv, TruthInv, QuietInv PROVE ReportIsTrue /\ Converges
    BY DEF FileReports
  <2>1. ReportIsTrue
    BY DEF ReportIsTrue, TruthInv, TrueSoFar, Holds, Made, Right, IntoDir, Promised
  <2>2. Converges
    <3> SUFFICES ASSUME stage = "told", Succeeded(before[k]), steady[k], mode # "t",
                        Promised(P), Settles(P)
                 PROVE  report[k] = {"kept"}
      BY DEF Converges
    <3>1. CASE P.guarded
      BY <3>1 DEF GuardInv
    <3>2. CASE ~ P.guarded
      <4>1. Lasting(P) /\ CanCorrect(P)
        BY <3>2 DEF Settles, Lasting, CanCorrect
      <4>2. ~ IntoDir(P)
        BY DEF Promised, Stands, IntoDir
      <4> QED BY <4>1, <4>2 DEF QuietInv, QuietSoFar
    <3> QED BY <3>1, <3>2
  <2> QED BY <2>1, <2>2
<1> QED
  BY <1>1, TypeCorrect, StepInvInductive, GuardInvInductive, TruthInvInductive, LastInvInductive,
     QuietInvInductive, PTL DEF Spec
=============================================================================
