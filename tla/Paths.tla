-------------------------------- MODULE Paths -------------------------------
(***************************************************************************)
(* The module file (cfg-modules/file.lua): promises about one path, made   *)
(* true with the commands of a shell one after another, pass after pass,   *)
(* by an agent that may be killed between any two of them.                 *)
(*                                                                         *)
(* An object of the file system has a kind, the origin of what it holds,   *)
(* and the attributes of it that are wrong.  A "link" is a symlink to the  *)
(* source of the promises and a "hard" link is the source itself; a        *)
(* "stray" symlink leads to nothing and one "aside" to some other file.    *)
(***************************************************************************)
EXTENDS Promise, FiniteSets

CONSTANTS
  Policies,   \* the policies explored
  Attributes, \* of "owner", "group" and "mode", those the policies set
  MaxPasses,  \* bound: passes of the agent
  MaxDrift    \* bound: changes by others

Funcs == {"attributes", "link", "hard", "directory", "touch", "absent", "copy"}
Kinds == {"none", "file", "dir", "link", "hard", "stray", "aside"}

\* "user": there before the agent, "old": an earlier backup, "other": put
\* there by others later, "made": by the agent, "copy" or "part": of the source.
Origins == {"none", "user", "old", "other", "made", "copy", "part"}

\* absent and copy set no attributes.
PromiseType == {p \in [func : Funcs, attrs : SUBSET Attributes, guarded : BOOLEAN,
                       force : BOOLEAN, backup : BOOLEAN, recurse : BOOLEAN] :
                  p.func \in {"absent", "copy"} => p.attrs = {}}
Object == [kind : Kinds, data : Origins, wrong : SUBSET Attributes]

ASSUME PathsAssumption ==
  /\ Policies \subseteq Seq(PromiseType) \ {<< >>}
  /\ Attributes \subseteq {"owner", "group", "mode"}
  /\ MaxPasses \in Nat \ {0} /\ MaxDrift \in Nat

VARIABLES
  policy,
  mode,     \* of the command line
  path,     \* the object at the path of the promises
  saved,    \* the object at the path with ._configi_ before its name
  src,      \* their source: "none", "file" or "dir", and what is wrong of it
  pass,     \* number of the pass
  k,        \* promise being processed
  stage,    \* what the promise function does next
  todo,     \* attributes it has still to look at
  acc,      \* flags it has set on its results
  report,   \* the results each promise last returned, {} before
  before,   \* history: the ones before those
  steady,   \* history: no other hand touched the paths since it reported
  raced,    \* history: others changed something since the promise began
  drift,    \* number of changes by others
  had       \* history: a stat of the path found something in the beginning

vars == <<policy, mode, path, saved, src, pass, k, stage, todo, acc, report,
          before, steady, raced, drift, had>>
host == <<path, saved, src>>

Nothing == [kind |-> "none", data |-> "none", wrong |-> {}]
Link(data) == [kind |-> "link", data |-> data, wrong |-> {}]
Hard(data) == [kind |-> "hard", data |-> data, wrong |-> {}]
Stray == [kind |-> "stray", data |-> "user", wrong |-> {}]

\* The attributes that matter to the policy, and an object with any of them.
Set == UNION {policy[n].attrs : n \in DOMAIN policy}
Fresh(kind, data) == [kind : {kind}, data : {data}, wrong : SUBSET Set]

\* What stat shows, which follows symlinks.
Exists(o) == o.kind \in {"file", "dir", "hard", "aside"} \/ (o.kind = "link" /\ src.kind # "none")
IsDir(o) == o.kind = "dir" \/ (o.kind = "link" /\ src.kind = "dir")
Wrong == IF path.kind \in {"link", "hard"} THEN src.wrong ELSE path.wrong

Init ==
  /\ policy \in Policies
  /\ mode \in {"plain", "t"}   \* -x and -v run commands as neither does
  /\ src \in [kind : {"none"}, wrong : {{}}] \cup [kind : {"file", "dir"}, wrong : SUBSET Set]
  /\ path \in {Nothing, Stray, Link("user")} \cup Fresh("file", "user") \cup Fresh("dir", "user")
                \cup {o \in {Hard("user")} : src.kind = "file"}
  /\ saved \in {Nothing, [kind |-> "file", data |-> "old", wrong |-> {}],
                         [kind |-> "dir", data |-> "old", wrong |-> {}]}
  /\ saved = Nothing \/ \E n \in DOMAIN policy : policy[n].backup
  /\ pass = 1 /\ k = 1 /\ stage = "start"
  /\ todo = {} /\ acc = {}
  /\ report = [n \in DOMAIN policy |-> {}]
  /\ before = report
  /\ steady = [n \in DOMAIN policy |-> TRUE]
  /\ raced = FALSE /\ drift = 0
  /\ had = Exists(path)

P == policy[k]

Tell(flags) ==
  /\ report' = [report EXCEPT ![k] = flags]
  /\ before' = [before EXCEPT ![k] = report[k]]
  /\ stage' = IF "crash" \in flags THEN "over" ELSE "told"
  /\ UNCHANGED <<todo, acc>>

Go(next) == stage' = next /\ UNCHANGED <<todo, acc, report, before>>

\* attrib of a promise without attributes reports a repair.
GoAttrib ==
  IF P.attrs = {} THEN Tell({"repaired"})
  ELSE stage' = "attrib" /\ todo' = P.attrs /\ acc' = {} /\ UNCHANGED <<report, before>>

\* F.run of a command that has the outcomes given: under -t it is not run.
Ran(outcomes) ==
  IF Run(mode, "zero") = "true" THEN {[path |-> path, src |-> src, ok |-> TRUE]} ELSE outcomes
Outcome(p, ok) == [path |-> p, src |-> src, ok |-> ok]

\* What a promise does to the host other promises did not expect.
Disturb == steady' = [n \in DOMAIN policy |-> steady[n] /\ (n = k \/ host' = host)]

----------------------------------------------------------------------------
(***************************************************************************)
(* cfg.init and the guard.  The module has one table of messages, which    *)
(* file.attributes alone does not set: F.kept finds none unless another    *)
(* file promise has run before it in this process.                         *)
(***************************************************************************)
Messages == \E n \in DOMAIN policy : policy[n].func # "attributes" /\ report[n] # {}

Begin ==
  /\ stage = "start"
  /\ raced' = FALSE
  /\ IF ~ P.guarded THEN Go("look")
     ELSE IF P.func = "attributes" /\ ~ Messages THEN Tell({"crash"})
     ELSE Tell({"kept"})
  /\ UNCHANGED <<policy, mode, host, pass, k, steady, drift, had>>

LookAttributes == P.func = "attributes" /\ IF Exists(path) THEN GoAttrib ELSE Tell({"failed"})
LookLink == P.func = "link" /\ IF path.kind = "link" THEN GoAttrib ELSE Go("make")
LookHard ==
  /\ P.func = "hard"
  /\ IF src.kind = "none" THEN Tell({"failed"})
     ELSE IF path.kind \in {"hard", "link"} THEN GoAttrib ELSE Go("make")
LookDirectory ==
  /\ P.func = "directory"
  /\ IF IsDir(path) THEN GoAttrib
     ELSE IF P.force /\ P.backup THEN Go("back") ELSE IF P.force THEN Go("clear") ELSE Go("make")
LookTouch == P.func = "touch" /\ Go("make")
LookAbsent == P.func = "absent" /\ IF Exists(path) THEN Go("clear") ELSE Tell({"kept"})

\* Mutant of LookCopy: the destination is always overwritten.
LookCopyForced ==
  /\ P.func = "copy"
  /\ IF Exists(path) /\ P.backup /\ ~ Exists(saved) THEN Go("back") ELSE Go("make")

LookCopy ==
  /\ P.func = "copy"
  /\ IF Exists(path) /\ P.backup /\ ~ Exists(saved) THEN Go("back")
     ELSE IF Exists(path) /\ ~ P.force THEN Tell({"kept"}) ELSE Go("make")

Look ==
  /\ stage = "look"
  /\ \/ LookAttributes \/ LookLink \/ LookHard \/ LookDirectory
     \/ LookTouch \/ LookAbsent \/ LookCopy
  /\ UNCHANGED <<policy, mode, host, pass, k, steady, raced, drift, had>>

\* Whether rename(2) can move the path over the backup.
Renames == path.kind # "none" /\ (saved.kind = "none" \/ "dir" \notin {path.kind, saved.kind})

\* Mutant of Back: copy goes on without its backup.
BackRegardless ==
  /\ stage = "back"
  /\ \E ok \in {FALSE} \cup {r \in BOOLEAN : Renames} :
       /\ IF ok /\ mode # "t" THEN saved' = path /\ path' = Nothing ELSE UNCHANGED <<saved, path>>
       /\ IF P.func = "copy" THEN Go("make") ELSE Go("clear")
  /\ UNCHANGED <<policy, mode, src, pass, k, raced, drift, had>>
  /\ Disturb

(***************************************************************************)
(* The backup: copy's mv must succeed, directory's rename need not.        *)
(***************************************************************************)
Back ==
  /\ stage = "back"
  /\ \E ok \in {FALSE} \cup {r \in BOOLEAN : Renames} :
       /\ IF ok /\ mode # "t" THEN saved' = path /\ path' = Nothing ELSE UNCHANGED <<saved, path>>
       /\ IF P.func = "directory" THEN Go("clear")
          ELSE IF ok \/ mode = "t" THEN Go("make") ELSE Tell({"failed"})
  /\ UNCHANGED <<policy, mode, src, pass, k, raced, drift, had>>
  /\ Disturb

\* rm -r -f, which may stop half-way through a directory.
Removed ==
  {Outcome(Nothing, TRUE), Outcome(path, FALSE)}
    \cup {Outcome([path EXCEPT !.data = "part"], FALSE) : kind \in {path.kind} \cap {"dir"}}

\* Before mkdir, for absent, and after a cp that failed.
Clear ==
  /\ stage \in {"clear", "undo"}
  /\ \E o \in Ran(Removed) :
       /\ path' = o.path
       /\ IF P.func = "directory" THEN Go("make")
          ELSE IF o.ok /\ stage = "clear" THEN Tell({"repaired"}) ELSE Tell({"failed"})
  /\ UNCHANGED <<policy, mode, saved, src, pass, k, raced, drift, had>>
  /\ Disturb

----------------------------------------------------------------------------
\* `ln', with -f over whatever is there; into a directory that is there.
Linked(new) ==
  {Outcome(path, FALSE)}
    \cup {Outcome(path, TRUE) : d \in {TRUE} \cap {IsDir(path)}}
    \cup IF IsDir(path) \/ ~ (path.kind = "none" \/ P.force) THEN {}
         ELSE {Outcome(new, TRUE), Outcome(Nothing, FALSE)}

MadeDirectory ==
  {Outcome(path, FALSE)}
    \cup IF path.kind = "none" THEN {Outcome(o, TRUE) : o \in Fresh("dir", "made")}
         ELSE {Outcome(path, TRUE) : d \in {TRUE} \cap {IsDir(path)}}

Touched ==
  {Outcome(path, FALSE)}
    \cup IF path.kind = "none" THEN {Outcome(o, TRUE) : o \in Fresh("file", "made")}
         ELSE IF path.kind = "stray"
              THEN {Outcome([path EXCEPT !.kind = "aside", !.wrong = w], TRUE) : w \in SUBSET Set}
         ELSE IF Exists(path) THEN {Outcome(path, TRUE)}
         ELSE {[path |-> path, src |-> [kind |-> "file", wrong |-> w], ok |-> TRUE] :
                 w \in SUBSET Set}

\* What `cp -P' leaves at a path where the source can be copied.
CopyOf ==
  IF path.kind = "none" \/ (path.kind = "stray" /\ P.force) THEN Fresh(src.kind, "copy")
  ELSE IF path.kind \in {"file", "aside"} /\ src.kind = "file" THEN {[path EXCEPT !.data = "copy"]}
  ELSE {p \in {path} : p.kind = "dir"}

Copied ==
  {Outcome(path, FALSE)}
    \cup IF src.kind = "none" \/ (src.kind = "dir" /\ ~ P.recurse) THEN {}
         ELSE UNION {{Outcome(o, TRUE),
                      Outcome(IF o = path THEN o ELSE [o EXCEPT !.data = "part"], FALSE)} : o \in CopyOf}

Commands ==
  CASE P.func = "link" -> Linked(Link("made"))
    [] P.func = "hard" -> IF src.kind = "file" THEN Linked(Hard("made")) ELSE {Outcome(path, FALSE)}
    [] P.func = "directory" -> MadeDirectory
    [] P.func = "touch" -> Touched
    [] OTHER -> Copied

\* Mutant of Make: the result of the command is not looked at.
MakeRegardless ==
  /\ stage = "make"
  /\ \E o \in Ran(Commands) :
       /\ path' = o.path /\ src' = o.src
       /\ IF P.func = "copy" THEN Tell({"repaired"}) ELSE GoAttrib
  /\ UNCHANGED <<policy, mode, saved, pass, k, raced, drift, had>>
  /\ Disturb

\* ln, mkdir, touch or cp, and what follows on its success or failure.
Make ==
  /\ stage = "make"
  /\ \E o \in Ran(Commands) :
       /\ path' = o.path /\ src' = o.src
       /\ IF P.func = "copy" THEN IF o.ok THEN Tell({"repaired"}) ELSE Go("undo")
          ELSE IF o.ok THEN GoAttrib ELSE Tell({"failed"})
  /\ UNCHANGED <<policy, mode, saved, pass, k, raced, drift, had>>
  /\ Disturb

----------------------------------------------------------------------------
First(attrs) ==
  IF "owner" \in attrs THEN "owner" ELSE IF "group" \in attrs THEN "group" ELSE "mode"

\* chown -h sets the attributes of a symlink, which stat does not show.
Corrects(a) == a = "mode" \/ path.kind \notin {"link", "aside"}

Correct(a) ==
  IF ~ Corrects(a) \/ mode = "t" THEN UNCHANGED <<path, src>>
  ELSE IF path.kind \in {"link", "hard"} THEN src' = [src EXCEPT !.wrong = @ \ {a}] /\ UNCHANGED path
  ELSE path' = [path EXCEPT !.wrong = @ \ {a}] /\ UNCHANGED src

\* Mutant of Attrib: attributes are set without a look.
AttribAlways ==
  /\ stage = "attrib" /\ todo # {}
  /\ Correct(First(todo))
  /\ acc' = acc \cup {"repaired"} /\ todo' = todo \ {First(todo)}
  /\ UNCHANGED <<stage, report, before>>
  /\ UNCHANGED <<policy, mode, saved, pass, k, raced, drift, had>>
  /\ Disturb

(***************************************************************************)
(* owner, group and mode in turn: each looks, and sets what is wrong.  The *)
(* first that fails is the last; a path that is not there ends the agent.  *)
(***************************************************************************)
Attrib ==
  /\ stage = "attrib" /\ todo # {}
  /\ LET a == First(todo)
         Done(flag) == /\ acc' = acc \cup {flag} /\ todo' = todo \ {a}
                       /\ UNCHANGED <<stage, report, before>>
     IN  IF ~ Exists(path) THEN Tell({"crash"}) /\ UNCHANGED <<path, src>>
         ELSE IF a \notin Wrong THEN Done("kept") /\ UNCHANGED <<path, src>>
         ELSE \/ Correct(a) /\ Done("repaired")
              \/ mode # "t" /\ Tell(acc \cup {"failed"}) /\ UNCHANGED <<path, src>>
  /\ UNCHANGED <<policy, mode, saved, pass, k, raced, drift, had>>
  /\ Disturb

AttribDone ==
  /\ stage = "attrib" /\ todo = {}
  /\ Tell(acc)
  /\ UNCHANGED <<policy, mode, host, pass, k, steady, raced, drift, had>>

----------------------------------------------------------------------------
\* cli.run goes on to the next promise, cfg-agent to the next pass.
Advance ==
  /\ stage = "told"
  /\ steady' = [steady EXCEPT ![k] = ~ raced]
  /\ IF k < Len(policy) THEN k' = k + 1 /\ stage' = "start" /\ UNCHANGED pass
     ELSE IF pass < MaxPasses THEN k' = 1 /\ pass' = pass + 1 /\ stage' = "start"
     ELSE stage' = "over" /\ UNCHANGED <<k, pass>>
  /\ UNCHANGED <<policy, mode, host, todo, acc, report, before, raced, drift, had>>

\* The agent is killed and started again later.
Restart ==
  /\ stage # "over" /\ pass < MaxPasses
  /\ pass' = pass + 1 /\ k' = 1 /\ stage' = "start"
  /\ todo' = {} /\ acc' = {} /\ raced' = FALSE
  /\ report' = [n \in DOMAIN policy |-> {}] /\ before' = report'
  /\ steady' = [n \in DOMAIN policy |-> FALSE]
  /\ UNCHANGED <<policy, mode, host, drift, had>>

\* Others remove the path or put a file there, and likewise the source.
Drift ==
  /\ stage # "over" /\ drift < MaxDrift
  /\ \/ /\ path' \in IF path.kind = "none" THEN Fresh("file", "other") ELSE {Nothing}
        /\ UNCHANGED src
     \/ /\ src' = IF src.kind = "none" THEN [kind |-> "file", wrong |-> {}]
                  ELSE [kind |-> "none", wrong |-> {}]
        /\ path' = IF path.kind = "hard" THEN [path EXCEPT !.kind = "file", !.wrong = src.wrong]
                   ELSE path
  /\ drift' = drift + 1 /\ raced' = TRUE
  /\ steady' = [n \in DOMAIN policy |-> FALSE]
  /\ UNCHANGED <<policy, mode, saved, pass, k, stage, todo, acc, report, before, had>>

Terminated == stage = "over" /\ UNCHANGED vars

Next ==
  \/ Begin \/ Look \/ Back \/ Clear \/ Make \/ Attrib \/ AttribDone
  \/ Advance \/ Restart \/ Drift \/ Terminated

Spec == Init /\ [][Next]_vars

----------------------------------------------------------------------------
TypeOK ==
  /\ policy \in Policies /\ mode \in Modes
  /\ path \in Object /\ saved \in Object
  /\ src \in [kind : {"none", "file", "dir"}, wrong : SUBSET Attributes]
  /\ pass \in 1..MaxPasses /\ k \in DOMAIN policy
  /\ stage \in {"start", "look", "back", "clear", "make", "undo", "attrib", "told", "over"}
  /\ todo \subseteq Attributes /\ acc \subseteq Reports
  /\ report \in [DOMAIN policy -> SUBSET Reports]
  /\ before \in [DOMAIN policy -> SUBSET Reports]
  /\ steady \in [DOMAIN policy -> BOOLEAN]
  /\ raced \in BOOLEAN /\ had \in BOOLEAN /\ drift \in 0..MaxDrift

\* What a promise says of the path, as stat shows it, and of its attributes.
Stands(p) ==
  CASE p.func = "link" -> path.kind = "link"
    [] p.func = "hard" -> path.kind \in {"hard", "link"}
    [] p.func = "directory" -> IsDir(path)
    [] p.func = "absent" -> ~ Exists(path)
    [] OTHER -> Exists(path)
Promised(p) == Stands(p) /\ \A a \in p.attrs : Corrects(a) => a \notin Wrong

Succeeded(flags) == flags # {} /\ flags \cap {"failed", "crash"} = {}

(***************************************************************************)
(* A file promise that reports no failure holds, and a copy reported       *)
(* repaired is one, unless others interfered or the path is a directory    *)
(* into which ln and cp put the new file instead.                          *)
(***************************************************************************)
ReportIsTrue ==
  (stage = "told" /\ Succeeded(report[k]) /\ ~ raced /\ mode # "t" /\ ~ P.guarded)
    => /\ Promised(P) \/ (P.func \in {"link", "hard"} /\ path.kind = "dir")
       /\ (P.func = "copy" /\ "repaired" \in report[k]) => path.data = "copy" \/ path.kind = "dir"

(***************************************************************************)
(* A promise that held and that nobody disturbed is only looked at the     *)
(* next time, and notifies no handler of a repair.  This cannot be said of *)
(* touch, which always runs, of promises about a symlink's owner or group, *)
(* of a forced copy, of a copy with backup, which moves its own first copy *)
(* away, nor of any promise of an existing object without attributes,      *)
(* which attrib reports repaired.                                          *)
(***************************************************************************)
Settles(p) ==
  /\ \A a \in p.attrs : Corrects(a)
  /\ p.func \in {"absent", "copy"} \/ (p.attrs # {} /\ p.func # "touch")
  /\ ~ (p.func = "copy" /\ (p.force \/ p.backup))

Converges ==
  (stage = "told" /\ Succeeded(before[k]) /\ steady[k] /\ mode # "t"
     /\ Promised(P) /\ Settles(P))
    => report[k] = {"kept"}

\* What the file module reports is true now, and is reported again later.
FileReports == ReportIsTrue /\ Converges

(***************************************************************************)
(* A backup is kept: when copies are made with backup, and none was there  *)
(* before, what was at the path in the beginning is there or in the        *)
(* backup, whatever commands fail and wherever the agent is killed.        *)
(***************************************************************************)
BackupKept ==
  (had /\ drift = 0 /\ saved.data # "old"
     /\ \A n \in DOMAIN policy : policy[n].func = "copy" /\ policy[n].backup)
    => "user" \in {path.data, saved.data}

(***************************************************************************)
(* What may destroy the user's object at the path: force, absent, or a     *)
(* move to the backup.  And, against what the lack of force suggests, the  *)
(* rm after a failed cp, where the path is a symlink that leads nowhere:   *)
(* stat has shown nothing there, so that an unforced copy goes ahead, cp   *)
(* refuses to write through the link, and the link is removed as if it     *)
(* were an incomplete copy (file.lua 345, 356-360).  Nothing that stat     *)
(* shows is lost in this way.                                              *)
(***************************************************************************)
WhatDestroys ==
  [][(path.data = "user" /\ path'.data # "user" /\ ~ raced /\ drift' = drift)
       => \/ P.force \/ P.func = "absent" \/ saved' = path
          \/ P.func = "copy" /\ stage = "undo" /\ ~ Exists(path)]_vars

(***************************************************************************)
(* Under -t the agent leaves the paths alone.                              *)
(***************************************************************************)
DryRunHarmless == [][(mode = "t" /\ host' # host) => drift' # drift]_vars
=============================================================================
