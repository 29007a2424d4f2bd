----------------------------- MODULE MCRevision -----------------------------
(* Small instances of Revision: items to learn and one without revisions. *)
EXTENDS Revision, TLC

GALadder == <<1, 3, 7, 15, 30>>     \* the code's Intervals
ShortLadder == <<1, 3>>
Symmetry == Permutations(Handlers)
=============================================================================
