---------------------------- MODULE FrameBuffer ----------------------------
(***************************************************************************)
(* Lab 6, common.c: one circular frame buffer with its mutex and condition *)
(* variable, used by threads that push (cameras, synchronizer) and threads *)
(* that pop (synchronizer, writer), and the SIGINT handler of program2.c   *)
(* and program3.c, which ends the waits.  Nobody ever waits on not_full.   *)
(*                                                                         *)
(* Statements inside one critical section that no other thread can tell    *)
(* apart are one step.  is_running is read without the mutex, so each read *)
(* of it is a step of its own, and so is pthread_cond_wait's release of    *)
(* the mutex.                                                              *)
(***************************************************************************)
EXTENDS Integers, Sequences, FiniteSets, Counting, Ring

CONSTANTS Size,               \* BUFFER_SIZE (64)
          MaxFrames,          \* bound: frames one pusher creates
          Pushers, Poppers,   \* threads
          NoThread, NoFrame

ASSUME SizeAssumption == Size \in Nat \ {0}
ASSUME MaxFramesAssumption == MaxFrames \in Nat
ASSUME ThreadAssumption ==
    /\ IsFiniteSet(Pushers) /\ IsFiniteSet(Poppers)
    /\ Pushers \cap Poppers = {}
    /\ NoThread \notin Pushers \cup Poppers

Threads == Pushers \cup Poppers
Frames == Pushers \X (1 .. MaxFrames)
ASSUME NoFrameAssumption == NoFrame \notin Frames

VARIABLES buffer, head, tail, count,   \* frame_buffer_t
          mutex,                       \* the thread that holds buf->mutex
          waiting,                     \* threads blocked on not_empty
          pc,                          \* statement of each thread
          id,                          \* frame_id of a pusher's last frame
          frame,                       \* result of a popper's last pop
          is_running,
          handler,                     \* progress of handle_sigint
          taken                        \* every frame a pop returned

ring == <<buffer, head, tail, count>>
vars == <<buffer, head, tail, count, mutex, waiting, pc, id, frame,
          is_running, handler, taken>>

Init ==
    /\ buffer = [s \in 0 .. Size - 1 |-> NoFrame]
    /\ head = 0 /\ tail = 0 /\ count = 0
    /\ mutex = NoThread /\ waiting = {}
    /\ pc = [t \in Threads |-> IF t \in Pushers THEN "u_loop" ELSE "o_loop"]
    /\ id = [u \in Pushers |-> 0]
    /\ frame = [o \in Poppers |-> NoFrame]
    /\ is_running = TRUE /\ handler = "none" /\ taken = {}

Goto(t, from, to) == pc[t] = from /\ pc' = [pc EXCEPT ![t] = to]

Lock(t) == mutex = NoThread /\ mutex' = t
Unlock(t) == mutex = t /\ mutex' = NoThread

\* pthread_cond_signal wakes one of the waiting threads, if there is one.
\* The woken thread still has to get the mutex back.
Signal(t, from, to) ==
    /\ pc[t] = from
    /\ IF waiting = {}
       THEN pc' = [pc EXCEPT ![t] = to] /\ waiting' = waiting
       ELSE \E w \in waiting : /\ pc' = [pc EXCEPT ![t] = to, ![w] = "o_relock"]
                               /\ waiting' = waiting \ {w}

(***************************************************************************)
(* A thread that pushes: while (is_running) { create; buffer_push; }.      *)
(***************************************************************************)
U_Loop(u) ==
    /\ is_running /\ id[u] < MaxFrames
    /\ Goto(u, "u_loop", "u_lock")
    /\ id' = [id EXCEPT ![u] = @ + 1]
    /\ UNCHANGED <<ring, mutex, waiting, frame, is_running, handler, taken>>

U_Stop(u) ==
    /\ ~is_running /\ Goto(u, "u_loop", "done")
    /\ UNCHANGED <<ring, mutex, waiting, id, frame, is_running, handler, taken>>

U_Lock(u) ==
    /\ Goto(u, "u_lock", "u_insert") /\ Lock(u)
    /\ UNCHANGED <<ring, waiting, id, frame, is_running, handler, taken>>

\* Mutant: the oldest frame is dropped without moving the read index.
DropOldestTailKept ==
    tail' = tail /\ count' = IF count = Size THEN count ELSE count + 1

\* Mutant: off by one in the test for a full buffer.
DropOldestLate ==
    IF count > Size THEN tail' = (tail + 1) % Size /\ count' = count
                    ELSE tail' = tail /\ count' = count + 1

\* Drop the oldest frame if full, then count the new one.
DropOldest ==
    IF count = Size THEN tail' = (tail + 1) % Size /\ count' = count
                    ELSE tail' = tail /\ count' = count + 1

U_Insert(u) ==
    /\ Goto(u, "u_insert", "u_signal")
    /\ DropOldest
    /\ buffer' = [buffer EXCEPT ![head] = <<u, id[u]>>]
    /\ head' = (head + 1) % Size
    /\ UNCHANGED <<mutex, waiting, id, frame, is_running, handler, taken>>

\* Mutant: a signal only for the push that makes the buffer non-empty.
U_SignalFirst(u) ==
    /\ IF count = 1 THEN Signal(u, "u_signal", "u_unlock")
                    ELSE Goto(u, "u_signal", "u_unlock") /\ waiting' = waiting
    /\ UNCHANGED <<ring, mutex, id, frame, is_running, handler, taken>>

\* Mutant: no signal at all.
U_SignalMissing(u) ==
    /\ Goto(u, "u_signal", "u_unlock")
    /\ UNCHANGED <<ring, mutex, waiting, id, frame, is_running, handler, taken>>

U_Signal(u) ==
    /\ Signal(u, "u_signal", "u_unlock")
    /\ UNCHANGED <<ring, mutex, id, frame, is_running, handler, taken>>

U_Unlock(u) ==
    /\ Goto(u, "u_unlock", "u_loop") /\ Unlock(u)
    /\ UNCHANGED <<ring, waiting, id, frame, is_running, handler, taken>>

(***************************************************************************)
(* A thread that pops: while (is_running) if (!buffer_pop) break.          *)
(***************************************************************************)
O_Loop(o) ==
    /\ Goto(o, "o_loop", IF is_running THEN "o_lock" ELSE "done")
    /\ UNCHANGED <<ring, mutex, waiting, id, frame, is_running, handler, taken>>

O_Lock(o) ==
    /\ Goto(o, "o_lock", "o_test") /\ Lock(o)
    /\ UNCHANGED <<ring, waiting, id, frame, is_running, handler, taken>>

\* while (count == 0 && *is_running); the test after the loop reads
\* is_running again, but it never becomes true again.
O_Test(o) ==
    /\ Goto(o, "o_test", IF count > 0 THEN "o_take"
                         ELSE IF is_running THEN "o_wait" ELSE "o_abort")
    /\ UNCHANGED <<ring, mutex, waiting, id, frame, is_running, handler, taken>>

\* pthread_cond_wait releases the mutex and blocks in one step.
O_Wait(o) ==
    /\ Goto(o, "o_wait", "o_blocked") /\ Unlock(o)
    /\ waiting' = waiting \cup {o}
    /\ UNCHANGED <<ring, id, frame, is_running, handler, taken>>

\* POSIX allows a wait to end without a signal.
O_Spurious(o) ==
    /\ o \in waiting /\ Goto(o, "o_blocked", "o_relock")
    /\ waiting' = waiting \ {o}
    /\ UNCHANGED <<ring, mutex, id, frame, is_running, handler, taken>>

\* Mutant: "if" for "while": a woken thread takes without testing again.
O_RelockTakes(o) ==
    /\ Goto(o, "o_relock", "o_take") /\ Lock(o)
    /\ UNCHANGED <<ring, waiting, id, frame, is_running, handler, taken>>

O_Relock(o) ==
    /\ Goto(o, "o_relock", "o_test") /\ Lock(o)
    /\ UNCHANGED <<ring, waiting, id, frame, is_running, handler, taken>>

O_Take(o) ==
    /\ Goto(o, "o_take", "o_unlock")
    /\ frame' = [frame EXCEPT ![o] = buffer[tail]]
    /\ taken' = taken \cup {buffer[tail]}
    /\ tail' = (tail + 1) % Size /\ count' = count - 1
    /\ UNCHANGED <<buffer, head, mutex, waiting, id, is_running, handler>>

\* The signal of not_full wakes nobody.
O_Unlock(o) ==
    /\ Goto(o, "o_unlock", "o_loop") /\ Unlock(o)
    /\ UNCHANGED <<ring, waiting, id, frame, is_running, handler, taken>>

\* Shutdown with an empty buffer: unlock, return false, leave the loop.
O_Abort(o) ==
    /\ Goto(o, "o_abort", "done") /\ Unlock(o)
    /\ UNCHANGED <<ring, waiting, id, frame, is_running, handler, taken>>

(***************************************************************************)
(* handle_sigint: clear the flag, then broadcast, without the mutex.       *)
(***************************************************************************)
H_Clear ==
    /\ handler = "none" /\ handler' = "broadcast" /\ is_running' = FALSE
    /\ UNCHANGED <<ring, mutex, waiting, pc, id, frame, taken>>

H_Broadcast ==
    /\ handler = "broadcast" /\ handler' = "returned"
    /\ waiting' = {}
    /\ pc' = [t \in Threads |-> IF t \in waiting THEN "o_relock" ELSE pc[t]]
    /\ UNCHANGED <<ring, mutex, id, frame, is_running, taken>>

Pusher(u) == \/ U_Loop(u) \/ U_Stop(u) \/ U_Lock(u) \/ U_Insert(u)
             \/ U_Signal(u) \/ U_Unlock(u)
Popper(o) == \/ O_Loop(o) \/ O_Lock(o) \/ O_Test(o) \/ O_Wait(o) \/ O_Relock(o)
             \/ O_Take(o) \/ O_Unlock(o) \/ O_Abort(o)

Next == \/ \E u \in Pushers : Pusher(u)
        \/ \E o \in Poppers : Popper(o) \/ O_Spurious(o)
        \/ H_Clear \/ H_Broadcast

Spec == Init /\ [][Next]_vars

(***************************************************************************)
(* Every thread that can run does; a thread that waits for the mutex gets  *)
(* it if it is released again and again.  A spurious wakeup, or a SIGINT,  *)
(* need never come, but a handler that has started finishes.               *)
(***************************************************************************)
Fairness ==
    /\ \A u \in Pushers : WF_vars(Pusher(u)) /\ SF_vars(U_Lock(u))
    /\ \A o \in Poppers : /\ WF_vars(Popper(o))
                          /\ SF_vars(O_Lock(o)) /\ SF_vars(O_Relock(o))
    /\ WF_vars(H_Broadcast)

FairSpec == Spec /\ Fairness

-----------------------------------------------------------------------------
\* Every variable has its declared type, and only a thread inside push or pop
\* holds the mutex.
TypeOK ==
    /\ buffer \in [0 .. Size - 1 -> Frames \cup {NoFrame}]
    /\ head \in 0 .. Size - 1 /\ tail \in 0 .. Size - 1 /\ count \in 0 .. Size
    /\ mutex \in Threads \cup {NoThread}
    /\ waiting = {o \in Poppers : pc[o] = "o_blocked"}
    /\ \A t \in Threads :
          mutex = t <=> pc[t] \in {"u_insert", "u_signal", "u_unlock", "o_test",
                                   "o_wait", "o_take", "o_unlock", "o_abort"}
    /\ id \in [Pushers -> 0 .. MaxFrames]
    /\ frame \in [Poppers -> Frames \cup {NoFrame}]
    /\ is_running \in BOOLEAN /\ handler \in {"none", "broadcast", "returned"}

\* head, tail and count describe one segment of the ring, also after a push
\* into a full buffer has dropped the oldest frame.
RingConsistent == TypeOK /\ head = (tail + count) % Size

\* A popper is never left asleep beside data: as long as one waits, every
\* frame in the buffer has a signal under way or a popper on its way to it.
NoSleepingWithData ==
    waiting # {} =>
        count <= NumAt(pc, Pushers, {"u_signal"})
                   + NumAt(pc, Poppers, {"o_relock", "o_test", "o_take"})

FQ == INSTANCE FrameQueue WITH
          Frames <- Frames, taken <- taken,
          queue <- Segment(buffer, Size, tail, count)

\* The buffer behaves as the atomic drop-oldest queue: no frame is returned
\* twice, out of order or after it was dropped, spurious wakeups or not.
ImplementsFrameQueue == FQ!Spec

\* Unless the system is shut down, everything pushed is popped or dropped and
\* the buffer ends up empty once the pushers stop.
FramesDrained == [](is_running) => <>[](count = 0)
=============================================================================
