---------------------------- MODULE MCLaterLabs ----------------------------
(***************************************************************************)
(* TLC instances of LaterLabs: one run for each of the four programs, the  *)
(* constants of the other three at their least.                            *)
(***************************************************************************)
EXTENDS LaterLabs

\* A negative number, and one of three digits, of which a part may arrive.
MCValues == {-3, 123}
============================================================================
