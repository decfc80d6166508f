--------------------------- MODULE MCApplication ---------------------------
(* Instances of Application for TLC: sets of model values, interchangeable *)
(* but for what the actions do with them.                                  *)
EXTENDS Application, TLC

Symmetry ==
    Permutations(Eid) \cup Permutations(DriveObj) \cup
    Permutations(Coroutine) \cup Permutations(Collector)
=============================================================================
