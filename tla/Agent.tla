------------------------------- MODULE Agent -------------------------------
(***************************************************************************)
(* One cfg-agent process: bin/cfg-agent.lua and the functions of           *)
(* cfg-core/cli.lua it drives.                                             *)
(*                                                                         *)
(* cli.opt loads the policy into a sorted main queue and, per tag, a queue *)
(* of handlers.  cli.try makes up to -r passes.  A pass runs every promise *)
(* of the main queue (cli.run), reads the results they returned, and then  *)
(* drives, through a coroutine, the handlers of every tag notified so far  *)
(* (cli.hrun).  cfg-agent turns the outcome into an exit status, or sleeps *)
(* and tries again.                                                        *)
(*                                                                         *)
(* A promise is opaque here: what its module does is any of Outcomes, no   *)
(* result at all (the function returned nil), or the end of the process (a *)
(* Lua error or fmt.panic).                                                *)
(***************************************************************************)
EXTENDS Naturals, Sequences, FiniteSets

CONSTANTS
  Tags,       \* the handler tags the policy mentions
  NoTag,      \* the absence of a notify parameter
  Source,     \* the sorted main queue: what each promise notifies, per flag
  HSource,    \* the number of handlers queued under each tag
  Outcomes,   \* the sets of flags a promise may report
  NoResult,   \* what is stored when a promise function returns nil
  Options     \* the command lines explored

(***************************************************************************)
(* The flags of a result: failed and repaired are fields of the results    *)
(* table, "kept" stands for notify_kept having been assigned.              *)
(***************************************************************************)
Flags == {"kept", "repaired", "failed"}

\* The letters unistd.getopt accepts; any other one is read as "?" and lost.
ShortArgs == {"h", "v", "t", "d", "s", "m", "j", "F", "V", "x",
              "l", "p", "g", "r", "f", "e"}

CommandLine == [asked : SUBSET STRING, runs : Nat, tags : SUBSET Tags]

ASSUME AgentAssumption ==
  /\ NoTag \notin Tags
  /\ Source \in Seq([Flags -> Tags \cup {NoTag}])
  /\ HSource \in [Tags -> Nat]
  /\ Outcomes \subseteq SUBSET Flags
  /\ NoResult \notin Outcomes
  /\ Options \subseteq CommandLine

VARIABLES
  opt,      \* the command line
  pc,       \* control location of the process
  exit,     \* its exit status once pc = "done"
  this,     \* number of the pass, 0 before the first
  results,  \* what cli.run collected in this pass
  i,        \* index of the result read next
  tags,     \* tags notified so far in this try
  todo,     \* tags the handler coroutine has still to visit
  tag,      \* tag it is visiting, or NoTag
  rh,       \* results of the handlers of that tag
  R,        \* the accumulated outcome of the try
  log       \* history: what cli.try read in this try, in order

vars == <<opt, pc, exit, this, results, i, tags, todo, tag, rh, R, log>>

Event == [pass : Nat, tag : Tags \cup {NoTag}, n : Nat, out : Outcomes]

\* An entry of log: result n of the main queue (tag = NoTag) or of a tag.
Read(t, n, out) == [pass |-> this, tag |-> t, n |-> n, out |-> out]

Given == opt.asked \cap ShortArgs

----------------------------------------------------------------------------
(***************************************************************************)
(* `result.notify or result.notify_failed or result.notify_kept': the      *)
(* first that the module assigned and the policy gave.                     *)
(***************************************************************************)
Notified(n, out) ==
  LET Says(f) == f \in out /\ Source[n][f] # NoTag
  IN  IF Says("repaired") THEN Source[n]["repaired"]
      ELSE IF Says("failed") THEN Source[n]["failed"]
      ELSE IF Says("kept") THEN Source[n]["kept"]
      ELSE NoTag

\* cli.try on a result of the main queue: a repair erases earlier failures.
AfterResult(out) ==
  [repaired |-> R.repaired \/ "repaired" \in out,
   failed |-> "failed" \in out \/ (R.failed /\ "repaired" \notin out),
   kept |-> R.kept]

\* Mutant of AfterHandler: handlers accumulate as promises do.
HandlersAccumulate(out) ==
  [repaired |-> R.repaired \/ "repaired" \in out,
   failed |-> R.failed \/ "failed" \in out,
   kept |-> R.kept]

\* cli.try on a handler's result: the last handler alone decides `failed'.
AfterHandler(out) ==
  [repaired |-> R.repaired \/ "repaired" \in out,
   failed |-> "failed" \in out,
   kept |-> R.kept]

(***************************************************************************)
(* Lua's #r when r may hold nil: any border of the table.                  *)
(***************************************************************************)
Borders(r) == {b \in 0..Len(r) : /\ b = 0 \/ r[b] # NoResult
                                 /\ b = Len(r) \/ r[b + 1] = NoResult}

Untried == [failed |-> FALSE, repaired |-> FALSE, kept |-> FALSE]

Exit(status) == pc' = "done" /\ exit' = status

----------------------------------------------------------------------------
Init ==
  /\ opt \in Options
  /\ pc = "opt"
  /\ exit = "none"
  /\ this = 0
  /\ results = << >>
  /\ i = 1
  /\ tags = {}
  /\ todo = {}
  /\ tag = NoTag
  /\ rh = << >>
  /\ R = Untried
  /\ log = << >>

\* cli.opt: -h and -V print and exit.  Otherwise it returns with the policy
\* compiled and sorted, which -d only prints.
Load ==
  /\ pc = "opt"
  /\ IF Given \cap {"h", "V", "d"} # {} THEN Exit("0")
     ELSE pc' = "run" /\ UNCHANGED exit
  /\ UNCHANGED <<opt, this, results, i, tags, todo, tag, rh, R, log>>

\* cli.opt panics: no such policy, a syntax error, a circular dependency.
LoadFails ==
  /\ pc = "opt"
  /\ Exit("1")
  /\ UNCHANGED <<opt, this, results, i, tags, todo, tag, rh, R, log>>

\* Mutant of StartTry: `tags' is not local to cli.try.
StartTryKeepsTags ==
  /\ pc = "run"
  /\ pc' = "next"
  /\ this' = 0
  /\ R' = Untried
  /\ log' = << >>
  /\ UNCHANGED <<opt, exit, results, i, tags, todo, tag, rh>>

\* cfg-agent calls cli.try, whose tables are new.
StartTry ==
  /\ pc = "run"
  /\ pc' = "next"
  /\ this' = 0
  /\ tags' = {}
  /\ R' = Untried
  /\ log' = << >>
  /\ UNCHANGED <<opt, exit, results, i, todo, tag, rh>>

\* The head of `for this = 1, source.runs'.
NextPass ==
  /\ pc = "next"
  /\ this < opt.runs
  /\ this' = this + 1
  /\ results' = << >>
  /\ pc' = IF opt.tags = {} THEN "main" ELSE "tagmode"
  /\ UNCHANGED <<opt, exit, i, tags, todo, tag, rh, R, log>>

NoMorePasses ==
  /\ pc = "next"
  /\ this >= opt.runs
  /\ pc' = "report"
  /\ UNCHANGED <<opt, exit, this, results, i, tags, todo, tag, rh, R, log>>

\* cli.run calls the next promise and stores what it returned.
RunPromise ==
  /\ pc = "main"
  /\ Len(results) < Len(Source)
  /\ \E out \in Outcomes \cup {NoResult} : results' = Append(results, out)
  /\ UNCHANGED <<opt, pc, exit, this, i, tags, todo, tag, rh, R, log>>

\* A module that cannot be loaded, an unknown function, an error inside it.
PromiseCrashes ==
  /\ pc = "main"
  /\ Len(results) < Len(Source)
  /\ Exit("1")
  /\ UNCHANGED <<opt, this, results, i, tags, todo, tag, rh, R, log>>

RunDone ==
  /\ pc = "main"
  /\ Len(results) = Len(Source)
  /\ pc' = "scan"
  /\ i' = 1
  /\ UNCHANGED <<opt, exit, this, results, tags, todo, tag, rh, R, log>>

\* One turn of `for _, result in ipairs(results)'.
ReadResult ==
  /\ pc = "scan"
  /\ i <= Len(results)
  /\ results[i] # NoResult
  /\ i' = i + 1
  /\ R' = AfterResult(results[i])
  /\ tags' = tags \cup ({Notified(i, results[i])} \ {NoTag})
  /\ log' = Append(log, Read(NoTag, i, results[i]))
  /\ UNCHANGED <<opt, pc, exit, this, results, todo, tag, rh>>

\* Mutant of ReadDone: handlers are left out after a failure.
ReadDoneSkipsHandlers ==
  /\ pc = "scan"
  /\ IF i <= Len(results) THEN results[i] = NoResult ELSE TRUE
  /\ pc' = "handlers"
  /\ todo' = IF R.failed THEN {} ELSE tags
  /\ UNCHANGED <<opt, exit, this, results, i, tags, tag, rh, R, log>>

\* ipairs stops after the last result, or at the first nil.
ReadDone ==
  /\ pc = "scan"
  /\ IF i <= Len(results) THEN results[i] = NoResult ELSE TRUE
  /\ pc' = "handlers"
  /\ todo' = tags
  /\ UNCHANGED <<opt, exit, this, results, i, tags, tag, rh, R, log>>

\* -g: the main queue is not run, the named tags are.
UseTags ==
  /\ pc = "tagmode"
  /\ tags' = tags \cup opt.tags
  /\ todo' = tags'
  /\ pc' = "handlers"
  /\ UNCHANGED <<opt, exit, this, results, i, tag, rh, R, log>>

\* Mutant of PickTag: a tag stays in the traversal until another is taken.
PickTagTwice ==
  /\ pc = "handlers"
  /\ tag = NoTag
  /\ \E t \in todo : tag' = t /\ todo' = IF Len(rh) = 0 THEN todo ELSE todo \ {t}
  /\ rh' = << >>
  /\ UNCHANGED <<opt, pc, exit, this, results, i, tags, R, log>>

\* cli.hrun takes the next tag; a Lua table is traversed in any order.
PickTag ==
  /\ pc = "handlers"
  /\ tag = NoTag
  /\ \E t \in todo : tag' = t /\ todo' = todo \ {t}
  /\ rh' = << >>
  /\ UNCHANGED <<opt, pc, exit, this, results, i, tags, R, log>>

(***************************************************************************)
(* cli.hrun stores a handler's result and yields; cli.try reads rh[#rh],   *)
(* which is an earlier result when the handler returned nil.               *)
(***************************************************************************)
RunHandler ==
  /\ pc = "handlers"
  /\ tag # NoTag
  /\ Len(rh) < HSource[tag]
  /\ \E out \in Outcomes \cup {NoResult} : rh' = Append(rh, out)
  /\ \E b \in Borders(rh') \ {0} :
       /\ R' = AfterHandler(rh'[b])
       /\ log' = Append(log, Read(tag, Len(rh'), rh'[b]))
  /\ UNCHANGED <<opt, pc, exit, this, results, i, tags, todo, tag>>

(***************************************************************************)
(* A panic ends the process at once.  An error ends the coroutine, which   *)
(* hands cli.try a string where it expects a table of results, and a first *)
(* handler returning nil leaves that table empty: cli.try then fails.      *)
(***************************************************************************)
HandlerCrashes ==
  /\ pc = "handlers"
  /\ tag # NoTag
  /\ Len(rh) < HSource[tag]
  /\ Exit("1")
  /\ UNCHANGED <<opt, this, results, i, tags, todo, tag, rh, R, log>>

TagDone ==
  /\ pc = "handlers"
  /\ tag # NoTag
  /\ Len(rh) = HSource[tag]
  /\ tag' = NoTag
  /\ UNCHANGED <<opt, pc, exit, this, results, i, tags, todo, rh, R, log>>

\* Mutant of EndPass: the early return is missing.
EndPassNeverReturns ==
  /\ pc = "handlers"
  /\ tag = NoTag
  /\ todo = {}
  /\ pc' = "next"
  /\ UNCHANGED <<opt, exit, this, results, i, tags, todo, tag, rh, R, log>>

\* The end of the loop's body: `if R.failed == false then return'.
EndPass ==
  /\ pc = "handlers"
  /\ tag = NoTag
  /\ todo = {}
  /\ pc' = IF R.failed THEN "next" ELSE "report"
  /\ UNCHANGED <<opt, exit, this, results, i, tags, todo, tag, rh, R, log>>

\* Under -v a failure is reported only if nothing was repaired.
ReportFailure ==
  /\ pc = "report"
  /\ R.failed
  /\ "v" \in Given => ~ R.repaired
  /\ Exit("1")
  /\ UNCHANGED <<opt, this, results, i, tags, todo, tag, rh, R, log>>

\* Mutant of ReportSuccess: the default of opts._periodic is put to use.
ReportAlwaysSleeps ==
  /\ pc = "report"
  /\ R.failed => "v" \in Given /\ R.repaired
  /\ R' = [R EXCEPT !.kept = ~ R.failed /\ ~ R.repaired]
  /\ pc' = "sleep"
  /\ UNCHANGED <<opt, exit, this, results, i, tags, todo, tag, rh, log>>

ReportSuccess ==
  /\ pc = "report"
  /\ R.failed => "v" \in Given /\ R.repaired
  /\ R' = [R EXCEPT !.kept = ~ R.failed /\ ~ R.repaired]
  /\ IF "p" \in Given THEN pc' = "sleep" /\ UNCHANGED exit ELSE Exit("0")
  /\ UNCHANGED <<opt, this, results, i, tags, todo, tag, rh, log>>

\* unistd.sleep(opts.periodic); goto RUN
Sleep ==
  /\ pc = "sleep"
  /\ pc' = "run"
  /\ UNCHANGED <<opt, exit, this, results, i, tags, todo, tag, rh, R, log>>

Terminated ==
  /\ pc = "done"
  /\ UNCHANGED vars

Main == RunPromise \/ PromiseCrashes \/ RunDone \/ ReadResult \/ ReadDone

RunHandlers ==
  UseTags \/ PickTag \/ RunHandler \/ HandlerCrashes \/ TagDone

Next ==
  \/ Load \/ LoadFails
  \/ StartTry \/ NextPass \/ NoMorePasses \/ EndPass
  \/ Main \/ RunHandlers
  \/ ReportFailure \/ ReportSuccess \/ Sleep
  \/ Terminated

Spec == Init /\ [][Next]_vars

\* The process is a single thread whose promises are assumed to return.
FairSpec == Spec /\ WF_vars(Next)
----------------------------------------------------------------------------
TypeOK ==
  /\ opt \in Options
  /\ pc \in {"opt", "run", "next", "main", "scan", "tagmode", "handlers",
             "report", "sleep", "done"}
  /\ exit \in {"none", "0", "1"}
  /\ this \in Nat /\ this <= opt.runs
  /\ results \in Seq(Outcomes \cup {NoResult}) /\ Len(results) <= Len(Source)
  /\ i \in 1..(Len(Source) + 1)
  /\ tags \subseteq Tags
  /\ todo \subseteq Tags
  /\ tag \in Tags \cup {NoTag}
  /\ rh \in Seq(Outcomes \cup {NoResult})
  /\ R \in [failed : BOOLEAN, repaired : BOOLEAN, kept : BOOLEAN]
  /\ log \in Seq(Event)

FromMain(e) == e.tag = NoTag

(***************************************************************************)
(* A handler runs only if -g named its tag or a result already read, in    *)
(* this pass or an earlier one of the same try, notified it (cli.lua       *)
(* 354-357 and 382: `tags' outlives the pass).                             *)
(***************************************************************************)
OnlyNotifiedHandlers ==
  \A k \in DOMAIN log :
    ~ FromMain(log[k]) =>
      \/ log[k].tag \in opt.tags
      \/ \E m \in 1..(k - 1) :
           FromMain(log[m]) /\ Notified(log[m].n, log[m].out) = log[k].tag

(***************************************************************************)
(* When a pass is judged, every tag notified so far in the try has had     *)
(* each of its handlers run in this very pass: no notification is lost     *)
(* between the queues, and a retry re-runs the handlers of earlier passes. *)
(***************************************************************************)
PassOver == pc = "handlers" /\ tag = NoTag /\ todo = {}
NotificationsServed ==
  PassOver =>
    \A k \in DOMAIN log :
      LET t == IF FromMain(log[k]) THEN Notified(log[k].n, log[k].out)
                                   ELSE log[k].tag
      IN  t # NoTag =>
            \A n \in 1..HSource[t] :
              \E m \in DOMAIN log :
                log[m].pass = this /\ log[m].tag = t /\ log[m].n = n

(***************************************************************************)
(* Within a pass no handler runs before the main queue has been read, and  *)
(* neither a promise nor a handler is read twice.                          *)
(***************************************************************************)
PassOrder ==
  \A k, m \in DOMAIN log :
    k < m => /\ log[k].pass <= log[m].pass
             /\ log[k].pass = log[m].pass =>
                  /\ FromMain(log[m]) => FromMain(log[k])
                  /\ log[k].tag = log[m].tag => log[k].n < log[m].n

(***************************************************************************)
(* The verdict is the last word of the try: `failed' is set exactly when   *)
(* some result reported a failure that no later repaired promise, and no   *)
(* later handler that did not itself fail, overrode (cli.lua 346-352,      *)
(* 384-388).  It is the accumulated state of cli.try against its history.  *)
(***************************************************************************)
Fails(e) == "failed" \in e.out
Overrides(e) == ~ Fails(e) /\ (FromMain(e) => "repaired" \in e.out)
VerdictIsLastWord ==
  pc \notin {"opt", "run"} =>
    (R.failed <=> \E k \in DOMAIN log :
                     /\ Fails(log[k])
                     /\ \A m \in (k + 1)..Len(log) : ~ Overrides(log[m]))

(***************************************************************************)
(* `repaired' is never lost and never invented over the passes of a try.   *)
(***************************************************************************)
RepairsRemembered ==
  pc \notin {"opt", "run"} =>
    (R.repaired <=> \E k \in DOMAIN log : "repaired" \in log[k].out)

(***************************************************************************)
(* A new pass is made only because the last one left a failure, and a try  *)
(* that gives up with a failure has used every pass -r grants.             *)
(***************************************************************************)
RetryOnlyAfterFailure ==
  [][/\ (pc = "next" /\ pc' \in {"main", "tagmode"} /\ this > 0) => R.failed
     /\ (pc' = "report" /\ R.failed) => this = opt.runs]_vars

(***************************************************************************)
(* A run that is not periodic ends, whatever its promises report: retries  *)
(* and handlers cannot keep it alive.                                      *)
(***************************************************************************)
Terminates == ("p" \notin Given) ~> (pc = "done")

(***************************************************************************)
(* The agent implements Retry.  Inside a pass the abstract state is that   *)
(* of the last completed pass.                                             *)
(***************************************************************************)
InPass == pc \in {"main", "scan", "tagmode", "handlers"}

phaseBar ==
  IF pc \in {"opt", "run", "sleep"} THEN "idle"
  ELSE IF pc = "report" THEN "settled"
  ELSE IF pc = "done" THEN "stopped"
  ELSE "trying"
passesBar ==
  IF InPass THEN this - 1 ELSE IF pc \in {"next", "report"} THEN this ELSE 0
failedBar ==
  IF InPass THEN this > 1 ELSE pc \in {"next", "report"} /\ R.failed

Abstract == INSTANCE Retry
              WITH limit <- opt.runs, phase <- phaseBar, passes <- passesBar,
                   failed <- failedBar

ImplementsRetry == Abstract!RetrySpec

----------------------------------------------------------------------------
(* What the program says of itself and the code does not do.               *)

(***************************************************************************)
(* "Go over the results from the execution" (cli.lua 343): when the        *)
(* handlers start, every result the main queue returned has been read.     *)
(***************************************************************************)
EveryResultRead ==
  (pc = "handlers" /\ opt.tags = {}) =>
    \A n \in DOMAIN results :
      results[n] # NoResult =>
        \E k \in DOMAIN log :
          log[k].pass = this /\ FromMain(log[k]) /\ log[k].n = n
=============================================================================
