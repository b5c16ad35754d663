---------------------------- MODULE MCTaskSystem ----------------------------
(***************************************************************************)
(* TLC instances of TaskSystem.  Process identities are model values; the  *)
(* producers and the consumers are interchangeable in the safety runs.     *)
(***************************************************************************)
EXTENDS TaskSystem, TLC

Symmetry == Permutations(Producers) \cup Permutations(Consumers)
=============================================================================
