------------------------------ MODULE MCAgent ------------------------------
(* A policy of two promises and two tags for TLC. *)
EXTENDS Agent, TLC

CONSTANTS a, b

MCTags == {a, b}

\* The first promise notifies on repair, the second on failure and when kept.
MCSource ==
  << [repaired |-> a, failed |-> NoTag, kept |-> NoTag],
     [repaired |-> NoTag, failed |-> b, kept |-> a] >>

\* Two handlers under a, so that one can return nil after the other; one under b.
MCHSource == (a :> 2) @@ (b :> 1)

MCOutcomes == {{"kept"}, {"repaired"}, {"failed"}}

Run(asked, runs, gtags) == [asked |-> asked, runs |-> runs, tags |-> gtags]

\* The modes of the command line, with at most two passes.
MCOptions ==
  {Run({}, 0, {}), Run({}, 2, {}), Run({"v"}, 1, {}), Run({"p"}, 1, {}),
   Run({"v"}, 2, {a}), Run({}, 2, {a, b}), Run({"d"}, 2, {}),
   Run({"h"}, 2, {}), Run({"V", "p"}, 2, {})}
=============================================================================
