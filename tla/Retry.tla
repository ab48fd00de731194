------------------------------- MODULE Retry -------------------------------
(***************************************************************************)
(* What a user of cfg-agent may rely on, without promises, handlers or     *)
(* tags: an application of the policy is at most `limit' passes; it goes   *)
(* on exactly while the last pass left a failure; a process whose last     *)
(* application left none ends with status 0, or goes on to the next        *)
(* application.                                                            *)
(***************************************************************************)
EXTENDS Naturals

VARIABLES
  limit,   \* -r
  phase,   \* "idle", "trying", "settled" or "stopped"
  passes,  \* passes completed in this application
  failed,  \* whether the last completed pass left a failure
  exit     \* exit status

retryVars == <<limit, phase, passes, failed, exit>>

RetryInit ==
  /\ limit \in Nat
  /\ phase = "idle"
  /\ passes = 0
  /\ failed = FALSE
  /\ exit = "none"

Apply ==
  /\ phase = "idle"
  /\ phase' = "trying"
  /\ UNCHANGED <<limit, passes, failed, exit>>

\* A pass that leaves a failure leaves the application open.
FailingPass ==
  /\ phase = "trying"
  /\ passes < limit
  /\ passes' = passes + 1
  /\ failed' = TRUE
  /\ UNCHANGED <<limit, phase, exit>>

CleanPass ==
  /\ phase = "trying"
  /\ passes < limit
  /\ phase' = "settled"
  /\ passes' = passes + 1
  /\ failed' = FALSE
  /\ UNCHANGED <<limit, exit>>

GiveUp ==
  /\ phase = "trying"
  /\ passes = limit
  /\ phase' = "settled"
  /\ UNCHANGED <<limit, passes, failed, exit>>

Again ==
  /\ phase = "settled"
  /\ phase' = "idle"
  /\ passes' = 0
  /\ failed' = FALSE
  /\ UNCHANGED <<limit, exit>>

Stop(status) ==
  /\ phase' = "stopped"
  /\ passes' = 0
  /\ failed' = FALSE
  /\ exit' = status
  /\ UNCHANGED limit

\* A clean application never ends in a failure status.
Finish == phase = "settled" /\ \E s \in {"0", "1"} : (~ failed => s = "0") /\ Stop(s)

\* The policy does not load, is only printed, or breaks off in a module.
Break ==
  \/ phase = "idle" /\ (Stop("0") \/ Stop("1"))
  \/ phase = "trying" /\ Stop("1")

RetryNext ==
  Apply \/ FailingPass \/ CleanPass \/ GiveUp \/ Again \/ Finish \/ Break

RetrySpec == RetryInit /\ [][RetryNext]_retryVars
=============================================================================
