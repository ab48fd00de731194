------------------------------ MODULE Promise ------------------------------
(***************************************************************************)
(* What cfg-core/lib.lua gives to every promise function: F.run, F.result  *)
(* and F.kept.  The commands of a function are seen through the value that *)
(* F.run returns first:                                                    *)
(*   "zero"  the number 0, the command succeeded                           *)
(*   "other" another number, it failed and was called with ignore          *)
(*   "nil"   it failed                                                     *)
(*   "true"  it was not run: -t                                            *)
(***************************************************************************)
EXTENDS Naturals, Sequences

Modes == {"plain", "x", "v", "t"}
Codes == {"zero", "other", "nil"}
Reports == {"kept", "repaired", "failed", "nothing", "crash"}

\* Mutant of Run: -x is looked at first, and runs the command.
RunUnderX(mode, code) == code

\* F.run: -t replaces whatever -x, -v or neither of them had installed.
Run(mode, code) == IF mode = "t" THEN "true" ELSE code

\* F.result: every number is true in Lua, 0 included.
Result(test) == IF test = "nil" THEN "failed" ELSE "repaired"

\* `(code == 0) or nil', with or without the third value of a run under -t.
IfZero(test) == IF test = "zero" THEN "repaired" ELSE "failed"
IfZeroOrTest(test) == IF test \in {"zero", "true"} THEN "repaired" ELSE "failed"
=============================================================================
