------------------------------ MODULE MCCode -------------------------------
(* The interpreter: the programs of MCPrograms; and the calls of a main       *)
(* program and two coroutines, with little stack.                            *)
EXTENDS Calls, LuaValues, TLC

-----------------------------------------------------------------------------
(* The programs.                                                             *)
CONSTANTS MaxIndexRK, FieldsPerFlush, Programs, Compiled, Meanings
VARIABLES prog, main, frames, stack, top, cells, closures, tables, out, status, meaning, steps

P == INSTANCE MCPrograms

\* what is said of a program before any is run: of P, MCCompiled and MCMeanings
\* would be parts of their own definitions
Source == INSTANCE MCPrograms WITH Programs <- {}, Compiled <- << >>, Meanings <- << >>

ProgramSet == Source!ProgramSet
MCCompiled == LET compiled == [p \in ProgramSet |-> Source!Compile(p)] IN compiled
MCMeanings == LET meanings == [p \in ProgramSet |-> Source!MeaningOf(p)] IN meanings

(* The code is sound and means what its source does: no instruction reads a  *)
(* register that is not live there, nor jumps out of its function.           *)
CodeIsRight == P!CodeIsRight

-----------------------------------------------------------------------------
(* The programs or the calls are run; the others stay where they began.      *)
VARIABLE part                   \* "programs" or "calls"
program == <<prog, main, frames, stack, top, cells, closures, tables, out, status, meaning, steps>>
PartInit == /\ part \in {"programs", "calls"}
            /\ part = "programs" \/ prog = P!Smallest
            /\ P!MCInit /\ Init
Running == part = "programs" /\ P!MCNext /\ UNCHANGED <<part, s>>
\* Lua code begins no call when the threads have this many CallInfos together
MaxRecords == 6
Records == MapThenSumSet(LAMBDA t : Len(s.th[t].ci), Threads)
Calling == /\ part = "calls" /\ Next /\ UNCHANGED <<part, program>>
           /\ s.mode = "lua" /\ Records' > Records => Records' <= MaxRecords
\* the main program of the calls has returned
Ended == part = "calls" /\ s.mode = "end" /\ UNCHANGED <<part, s, program>>
MCSpec == PartInit /\ [][Running \/ Calling \/ Ended]_<<part, s, program>>

Symmetry == Permutations(Threads \ {Main})
=============================================================================
