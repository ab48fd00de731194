------------------------------ MODULE Package ------------------------------
(***************************************************************************)
(* The modules apk, apt, luarocks, opkg, portage and yum: present and      *)
(* absent.  Their state on the host is whether the package is installed.   *)
(* `found' runs its query directly, under -t as well.                      *)
(***************************************************************************)
EXTENDS Promise

PackageModules == {"apk", "apt", "luarocks", "opkg", "portage", "yum"}

\* Modules with a refresh that precedes the look: apt's update_cache, sync.
Refreshing == {"apt", "portage"}
\* Modules whose `update' replaces the look and the installation.
Updating == {"opkg", "yum"}

(***************************************************************************)
(* How a promise names its package:                                        *)
(*   "group"   '@group', which yum.present asks for between literal quotes *)
(*             and yum.absent as if it were a package                      *)
(*   "pattern" a name such as util-linux, which portage and luarocks hand  *)
(*             to string.find, where its hyphen is an operator             *)
(*   "version" with a version that no operator precedes                    *)
(***************************************************************************)
Names(m, f) ==
  {"plain"} \cup (IF m = "yum" THEN {"group"} ELSE {})
            \cup (IF m \in {"portage", "luarocks"} THEN {"pattern"} ELSE {})
            \cup (IF m = "portage" /\ f = "present" THEN {"version"} ELSE {})

\* Mutant of PackageLook: the query is forgotten.
PackageLookBlind(m, f, name, update, installed, works) ==
  IF f = "absent" /\ m = "opkg" THEN "crash" ELSE "act"

\* A query that does not work, or cannot see such a name, shows no package.
Found(name, installed, works) == works /\ installed /\ name = "plain"

(***************************************************************************)
(* opkg.absent goes on to call a method that its parameters do not have,   *)
(* and portage to join a version that it could not take apart.             *)
(***************************************************************************)
PackageLook(m, f, name, update, installed, works) ==
  LET found == Found(name, installed, works)
  IN  IF name = "version" THEN "crash"
      ELSE IF f = "present" /\ update /\ m \in Updating THEN "act"
      ELSE IF f = "present" THEN IF found THEN "kept" ELSE "act"
      ELSE IF ~ found THEN "kept"
      ELSE IF m = "opkg" THEN "crash" ELSE "act"

\* portage looks at its directories, all others run a command to look.
QueryFails(m) == IF m = "portage" THEN {FALSE} ELSE BOOLEAN

\* `creates' and `removes' come first, except before opkg's update.
GuardFirst(m, f, update) == ~ (m = "opkg" /\ f = "present" /\ update)
=============================================================================
