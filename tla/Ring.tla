-------------------------------- MODULE Ring --------------------------------
(***************************************************************************)
(* The part of a ring of K slots that holds elements.                      *)
(***************************************************************************)
EXTENDS Integers

\* The contents of the n slots from slot first on, oldest element first.
Segment(ring, K, first, n) == [j \in 1 .. n |-> ring[(first + j - 1) % K]]
=============================================================================
