------------------------------ MODULE Counting ------------------------------
(***************************************************************************)
(* How many processes are at certain statements.                           *)
(***************************************************************************)
EXTENDS FiniteSets

\* The processes of P whose label f[p] is in S, counted.
NumAt(f, P, S) == Cardinality({q \in P : f[q] \in S})
=============================================================================
