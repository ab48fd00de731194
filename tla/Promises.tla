------------------------------ MODULE Promises -----------------------------
(***************************************************************************)
(* Promise functions at work on a host: the agent goes through its policy  *)
(* pass after pass; each promise looks at the host and then acts on it,    *)
(* while services stop by themselves and administrators change things in   *)
(* between.  The host is the set of the facts that hold of it.             *)
(***************************************************************************)
EXTENDS Service, Package, FiniteSets

CONSTANTS
  Policies,   \* the policies explored
  Subjects,   \* the services and the packages
  MaxPasses,  \* bound: passes of the agent
  MaxDrift    \* bound: changes nobody's promise made

IsService(p) == p.module \in ServiceModules

\* guarded: `creates' or `removes' is satisfied.  update: update_cache, sync
\* or update is given.
PromiseType ==
  {p \in [module : ServiceModules \cup PackageModules,
          func : RunFuncs \cup BootFuncs \cup {"present", "absent"},
          subject : Subjects, name : {"plain", "group", "pattern", "version"},
          guarded : BOOLEAN, update : BOOLEAN] :
     /\ IsService(p) <=> p.func \notin {"present", "absent"}
     /\ p.name \in Names(p.module, p.func)}

Facts == Subjects \X {"active", "enabled", "installed"}

Fact(p) == <<p.subject,
             IF IsService(p) THEN ServiceAspect(p.func) ELSE "installed">>

Upgrades(p) == p.func = "present" /\ p.update /\ p.module \in Updating

ASSUME PromisesAssumption ==
  /\ Policies \subseteq Seq(PromiseType) \ {<< >>}
  /\ MaxPasses \in Nat \ {0} /\ MaxDrift \in Nat

VARIABLES
  policy,
  mode,     \* of the command line
  host,     \* the facts that hold
  pass,     \* number of the pass
  k,        \* promise being processed
  stage,    \* "start", "look", "act", "told" after its report, "over"
  report,   \* what each promise last reported, "none" before
  before,   \* history: what it reported the time before
  steady,   \* history: its fact was as it last reported, and left alone since
  raced,    \* history: the fact changed or a query failed since it began
  drift     \* number of changes nobody's promise made

vars == <<policy, mode, host, pass, k, stage, report, before, steady, raced, drift>>

Init ==
  /\ policy \in Policies
  /\ mode \in Modes
  /\ host \in SUBSET {Fact(policy[n]) : n \in DOMAIN policy}
  /\ pass = 1 /\ k = 1 /\ stage = "start"
  /\ report = [n \in DOMAIN policy |-> "none"]
  /\ before = report
  /\ steady = [n \in DOMAIN policy |-> TRUE]
  /\ raced = FALSE /\ drift = 0

P == policy[k]
Up == Fact(P) \in host

Tell(r) ==
  /\ report' = [report EXCEPT ![k] = r]
  /\ before' = [before EXCEPT ![k] = report[k]]
  /\ stage' = IF r = "crash" THEN "over" ELSE "told"

Quiet == UNCHANGED <<report, before>>

----------------------------------------------------------------------------
\* cfg.init, and the test of R.kept that most functions begin with.
Begin ==
  /\ stage = "start"
  /\ raced' = FALSE
  /\ IF P.guarded /\ (IsService(P) \/ GuardFirst(P.module, P.func, P.update))
     THEN Tell("kept") ELSE stage' = "look" /\ Quiet
  /\ UNCHANGED <<policy, mode, host, pass, k, steady, drift>>

\* `apt-get update' and `emerge --sync' come before the look.
RefreshFails ==
  /\ stage = "look"
  /\ P.module \in Refreshing /\ P.func = "present" /\ P.update
  /\ Result(Run(mode, "nil")) = "failed"
  /\ Tell("failed")
  /\ UNCHANGED <<policy, mode, host, pass, k, steady, raced, drift>>

\* The function looks at the host; the command it looks with may fail.
Look ==
  /\ stage = "look"
  /\ \E fails \in IF IsService(P) THEN BOOLEAN ELSE QueryFails(P.module) :
       LET seen == IF IsService(P)
                   THEN ServiceLook(P.module, P.func, mode, Up, ~ fails)
                   ELSE PackageLook(P.module, P.func, P.name, P.update, Up, ~ fails)
       IN  /\ IF seen = "act" THEN stage' = "act" /\ Quiet ELSE Tell(seen)
           /\ raced' = (raced \/ fails)
           /\ steady' = [steady EXCEPT ![k] = @ /\ ~ fails]
  /\ UNCHANGED <<policy, mode, host, pass, k, drift>>

\* What the command of a promise makes of the host when it succeeds; `update'
\* upgrades what is there, or the lists of what there is, and installs nothing.
Wanted ==
  IF Upgrades(P) THEN host
  ELSE IF P.func \in WantsUp \cup {"present"} THEN host \cup {Fact(P)}
  ELSE IF P.func \in WantsDown \cup {"absent"} THEN host \ {Fact(P)}
  ELSE host

\* A command that fails may have done its work; under -t none is run.
Act ==
  /\ stage = "act"
  /\ \E code \in {"zero", "nil"} :
       /\ host' \in IF Run(mode, code) = "true" THEN {host}
                    ELSE IF code = "zero" THEN {Wanted} ELSE {host, Wanted}
       /\ Tell(IF IsService(P) THEN ServiceReport(P.module, P.func, mode, code)
               ELSE Result(Run(mode, code)))
  /\ steady' = [n \in DOMAIN policy |->
                  steady[n] /\ (n = k \/ host' = host \/ Fact(policy[n]) # Fact(P))]
  /\ UNCHANGED <<policy, mode, pass, k, raced, drift>>

\* cli.run goes on to the next promise, cfg-agent to the next pass.
Advance ==
  /\ stage = "told"
  /\ steady' = [steady EXCEPT ![k] = ~ raced]
  /\ IF k < Len(policy) THEN k' = k + 1 /\ stage' = "start" /\ UNCHANGED pass
     ELSE IF pass < MaxPasses THEN k' = 1 /\ pass' = pass + 1 /\ stage' = "start"
     ELSE stage' = "over" /\ UNCHANGED <<k, pass>>
  /\ UNCHANGED <<policy, mode, host, report, before, raced, drift>>

\* A service stops or is started, a package comes or goes.
Drift ==
  /\ stage # "over"
  /\ drift < MaxDrift
  /\ \E n \in DOMAIN policy :
       LET f == Fact(policy[n])
       IN  /\ host' = IF f \in host THEN host \ {f} ELSE host \cup {f}
           /\ steady' = [m \in DOMAIN policy |-> steady[m] /\ Fact(policy[m]) # f]
           /\ raced' = (raced \/ Fact(P) = f)
  /\ drift' = drift + 1
  /\ UNCHANGED <<policy, mode, pass, k, stage, report, before>>

Terminated == stage = "over" /\ UNCHANGED vars

Next == Begin \/ RefreshFails \/ Look \/ Act \/ Advance \/ Drift \/ Terminated

Spec == Init /\ [][Next]_vars

----------------------------------------------------------------------------
TypeOK ==
  /\ policy \in Policies /\ mode \in Modes
  /\ host \subseteq Facts
  /\ pass \in 1..MaxPasses /\ k \in DOMAIN policy
  /\ stage \in {"start", "look", "act", "told", "over"}
  /\ report \in [DOMAIN policy -> Reports \cup {"none"}]
  /\ before \in [DOMAIN policy -> Reports \cup {"none"}]
  /\ steady \in [DOMAIN policy -> BOOLEAN] /\ raced \in BOOLEAN
  /\ drift \in 0..MaxDrift

Kept(p) ==
  IF p.func \in WantsUp \cup {"present"} THEN Fact(p) \in host
  ELSE p.func \in WantsDown \cup {"absent"} => Fact(p) \notin host

(***************************************************************************)
(* A promise that reports that it is kept or repaired holds of the host,   *)
(* unless something else changed its fact, or the query failed, while it   *)
(* was being processed.  A guard, -t and `update', whose success is not    *)
(* that of an installation, make no such claim, and a name that the query  *)
(* cannot see allows none.                                                 *)
(***************************************************************************)
ReportIsTrue ==
  (stage = "told" /\ report[k] \in {"kept", "repaired"} /\ ~ raced
     /\ mode # "t" /\ ~ P.guarded /\ ~ Upgrades(P) /\ P.name = "plain")
    => Kept(P)

(***************************************************************************)
(* The agent converges: a promise that was kept or repaired, and whose     *)
(* fact nobody touched, is reported kept the next time, so that handlers   *)
(* are not notified again and again.  Functions that always act, such as   *)
(* restart and update, and names that the query cannot see make no such    *)
(* claim.                                                                  *)
(***************************************************************************)
Convergent(p) ==
  /\ p.name = "plain"
  /\ p.func \notin {"restart", "reload"}
  /\ ~ Upgrades(p)
  /\ ~ (p.update /\ p.module \in Refreshing)

Converges ==
  (stage = "told" /\ before[k] \in {"kept", "repaired"} /\ steady[k]
     /\ mode # "t" /\ ~ P.guarded /\ Convergent(P))
    => report[k] = "kept"
=============================================================================
