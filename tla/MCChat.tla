------------------------------- MODULE MCChat -------------------------------
(***************************************************************************)
(* TLC instances of Chat.  In MCTexts users a and b type and c only        *)
(* reads; MCTwoTexts is for a and b alone.                                 *)
(***************************************************************************)
EXTENDS Chat, TLC

CONSTANTS a, b, c

MCTexts == (a :> 2) @@ (b :> 1) @@ (c :> 0)
MCTwoTexts == (a :> 2) @@ (b :> 2)
=============================================================================
