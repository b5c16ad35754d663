---------------------------- MODULE FrameQueue ----------------------------
(***************************************************************************)
(* What common.h promises of a frame buffer: "Pushes a frame into the      *)
(* buffer. Overwrites the oldest frame if full.  Pops a frame from the     *)
(* buffer."  Each operation is atomic; frames leave in the order they      *)
(* came, either to a popper or, when the queue is full, to the floor.      *)
(***************************************************************************)
EXTENDS Naturals, Sequences

CONSTANTS Size,    \* BUFFER_SIZE
          Frames   \* every frame that can be pushed

VARIABLES queue,   \* frames that wait, oldest first
          taken    \* frames handed to a popper

vars == <<queue, taken>>

Init == queue = <<>> /\ taken = {}

Push(f) ==
    /\ f \notin taken /\ \A j \in DOMAIN queue : queue[j] # f
    /\ queue' = Append(IF Len(queue) = Size THEN Tail(queue) ELSE queue, f)
    /\ taken' = taken

Pop ==
    /\ queue # <<>>
    /\ queue' = Tail(queue)
    /\ taken' = taken \cup {Head(queue)}

Next == Pop \/ \E f \in Frames : Push(f)

Spec == Init /\ [][Next]_vars
=============================================================================
