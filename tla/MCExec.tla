------------------------------- MODULE MCExec ------------------------------
(***************************************************************************)
(* Calls with and without pipes.  stdout overflows its pipe, stdin and     *)
(* stderr just fit.                                                        *)
(***************************************************************************)
EXTENDS Exec

Args(quiet, stdin, cwd, redirect, ignore) ==
  [quiet |-> quiet, stdin |-> stdin, cwd |-> cwd, redirect |-> redirect,
   ignore |-> ignore]

MCCalls ==
  {Args(FALSE, 0, TRUE, {}, TRUE), Args(FALSE, Cap, TRUE, {}, FALSE),
   Args(FALSE, Cap, TRUE, {"out"}, FALSE), Args(FALSE, 0, TRUE, {"err"}, FALSE),
   Args(TRUE, 0, TRUE, {}, TRUE), Args(TRUE, 0, FALSE, {}, FALSE),
   Args(FALSE, 0, FALSE, {}, FALSE)}

CwdCalls == {Args(TRUE, 0, FALSE, {}, FALSE)}
=============================================================================
