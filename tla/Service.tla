------------------------------ MODULE Service ------------------------------
(***************************************************************************)
(* The modules systemd and openrc.  A promise function looks at the        *)
(* service and keeps the promise, gives up, or goes on to act on it.       *)
(* Its state on the host is whether it is active, and whether it is        *)
(* enabled at boot (systemd) or in the runlevel (openrc).                  *)
(***************************************************************************)
EXTENDS Promise

ServiceModules == {"systemd", "openrc"}
RunFuncs == {"started", "stopped", "restart", "reload"}
BootFuncs == {"enabled", "disabled", "add", "delete"}

\* What a function promises of the service, if it promises a state.
WantsUp == {"started", "enabled", "add"}
WantsDown == {"stopped", "disabled", "delete"}

ServiceAspect(f) == IF f \in RunFuncs THEN "active" ELSE "enabled"

\* Mutant of SystemdLook: an inactive service is not restarted but reported.
SystemdLookInverted(f, mode, up, works) ==
  LET code == Run(mode, IF works /\ up THEN "zero" ELSE "other")
  IN  IF f \in WantsUp THEN IF code = "zero" THEN "act" ELSE "kept"
      ELSE IF code = "zero" THEN "act"
      ELSE IF f = "reload" THEN "failed" ELSE "kept"

\* `systemctl is-active' or `is-enabled', run through F.run with ignore.
SystemdLook(f, mode, up, works) ==
  LET code == Run(mode, IF works /\ up THEN "zero" ELSE "other")
  IN  IF f \in WantsUp THEN IF code = "zero" THEN "kept" ELSE "act"
      ELSE IF code = "zero" THEN "act"
      ELSE IF f = "reload" THEN "failed" ELSE "kept"

(***************************************************************************)
(* `rc-status' or `rc-update show'.  Under -t the promise is kept.  When   *)
(* the listing itself fails the function goes on.                          *)
(***************************************************************************)
OpenrcLook(f, mode, up, works) ==
  LET code == Run(mode, IF works THEN "zero" ELSE "nil")
  IN  IF f \in {"restart", "reload"} THEN "act"
      ELSE IF code = "true" THEN "kept"
      ELSE IF code = "zero" /\ (f \in WantsUp <=> up) THEN "kept"
      ELSE "act"

ServiceLook(m, f, mode, up, works) ==
  IF m = "systemd" THEN SystemdLook(f, mode, up, works)
                   ELSE OpenrcLook(f, mode, up, works)

\* What is reported of the command that acts; nothing at all by openrc's
\* restart and reload when it fails.
ServiceReport(m, f, mode, code) ==
  LET ret == Run(mode, code)
  IN  IF m = "systemd" THEN Result(ret)
      ELSE IF f \in {"restart", "reload"}
           THEN IF ret \in {"zero", "true"} THEN "repaired" ELSE "nothing"
      ELSE IF f \in BootFuncs THEN IfZeroOrTest(ret) ELSE IfZero(ret)
=============================================================================
