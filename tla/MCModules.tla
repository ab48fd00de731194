----------------------------- MODULE MCModules -----------------------------
(***************************************************************************)
(* Every function of every service and package module alone, and policies  *)
(* whose promises share a service or depend on a package.                  *)
(***************************************************************************)
EXTENDS Promises

MCSubjects == {"nginx", "strace"}

Q(m, f, s, g, u) ==
  [module |-> m, func |-> f, subject |-> s, name |-> "plain", guarded |-> g, update |-> u]

Alone ==
  {<<Q("systemd", f, "nginx", g, FALSE)>> :
     f \in RunFuncs \cup {"enabled", "disabled"}, g \in BOOLEAN}
  \cup {<<Q("openrc", f, "nginx", FALSE, FALSE)>> : f \in RunFuncs \cup {"add", "delete"}}
  \cup {<<Q(m, f, "strace", g, u)>> :
          m \in PackageModules, f \in {"present", "absent"}, g, u \in BOOLEAN}

Named ==
  UNION {{<<[Q(m, f, "strace", FALSE, u) EXCEPT !.name = n]>> : n \in Names(m, f) \ {"plain"}} :
           m \in PackageModules, f \in {"present", "absent"}, u \in BOOLEAN}

Shared ==
  {<<Q("apt", "present", "strace", FALSE, FALSE), Q("systemd", "started", "nginx", FALSE, FALSE),
     Q("systemd", f, "nginx", FALSE, FALSE)>> : f \in {"restart", "reload", "enabled", "stopped"}}

MCPolicies == Alone \cup Named \cup Shared
=============================================================================
