--------------------------- MODULE MCAtomicWrite ---------------------------
(***************************************************************************)
(* Two writers of two and three blocks, or one alone.                      *)
(***************************************************************************)
EXTENDS AtomicWrite

MCText == [w \in Writers |-> IF w = "agent" THEN <<"a", "b">> ELSE <<"x", "y", "z">>]
MCMode == [w \in Writers |-> IF w = "agent" THEN "0644" ELSE NoMode]
MCOld == <<"o">>
MCTwo == {"agent", "admin"}
=============================================================================
