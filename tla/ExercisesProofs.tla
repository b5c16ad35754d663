-------------------------- MODULE ExercisesProofs --------------------------
(***************************************************************************)
(* Safety of the short programs of labs 1 to 3, for trees, rounds and      *)
(* clients of any number.                                                  *)
(*                                                                         *)
(* The programs share nothing: each has an invariant of its own, that its  *)
(* own steps preserve and that the steps of the others do not touch.       *)
(***************************************************************************)
EXTENDS Exercises, FiniteSetTheorems, SequenceTheorems, TLAPS

-----------------------------------------------------------------------------
(***************************************************************************)
(* Lab 2, SignalChild.                                                     *)
(***************************************************************************)
\* Nothing has happened to the child before its loop.
Untouched ==
    i = 0 /\ disposition = "default" /\ ~masked /\ ~pending /\ handled = 0 /\ ended = "no"

\* What the mode has done to a child that has got to round i of its loop.
Treated(m) ==
    /\ handled = IF m # "handle" \/ i < 5 THEN 0 ELSE IF i < 15 THEN 1 ELSE 2
    /\ disposition = IF m = "mask" THEN "default" ELSE m
    /\ masked <=> m = "mask"
    /\ pending <=> m = "mask" /\ i >= 5
    /\ m = "default" => i < 5
    /\ m = "mask" => i < 10

\* A mode is chosen once, and the child that goes by received_mode has it.
ModeReceived ==
    /\ parent = "off" <=> mode = "none"
    /\ parent \in {"off", "fork"} => child = "none"
    /\ parent = "none" <=> variant = "alone"
    /\ usr2 # "none" => parent \notin {"off", "none", "fork"}
    /\ received_mode \in {"0", mode}
    /\ child \in {"setup", "loop"} /\ variant # "alone" => received_mode # "0"

\* Where the child is says what SIGUSR1 has done to it.
ChildState ==
    /\ child \in {"none", "exec", "install", "test", "tested", "pause", "setup"} => Untouched
    /\ child = "loop" => ended = "no" /\ Treated(mode)
    /\ child = "ended" => ended # "no"
    /\ ended \in {"failure", "SIGUSR2"} => i = 0
    /\ ended \in {"SIGUSR1", "normal"} =>
        [ended |-> ended, i |-> i, handled |-> handled] = Signals!Expected(mode)
    /\ parent = "done" => child = "ended"

\* The domains of the variables.
SignalsShape ==
    /\ mode \in Signals!Modes \cup {"none"} /\ variant \in Signals!Variants \cup {"none"}
    /\ parent \in {"off", "none", "fork", "sleep", "wait", "done", "failed"}
    /\ child \in {"none", "exec", "install", "test", "tested", "pause", "setup", "loop", "ended"}
    /\ i \in 0 .. 20 /\ handled \in 0 .. 2
    /\ masked \in BOOLEAN /\ pending \in BOOLEAN /\ missed \in BOOLEAN
    /\ disposition \in Signals!Modes \ {"mask"} /\ received_mode \in Signals!Modes \cup {"0"}
    /\ usr2 \in {"none", "sent", "handled"}
    /\ ended \in {"no", "normal", "failure", "SIGUSR1", "SIGUSR2", "SIGKILL"}

SignalsInv == SignalsShape /\ ModeReceived /\ ChildState

\* Every step of SignalChild keeps the domains of its variables.
LEMMA SignalsShapeStep ==
    ASSUME SignalsInv, Signals!Next
    PROVE  SignalsShape'
<1> USE DEF SignalsInv, SignalsShape, Signals!Modes, Signals!Variants, Signals!Others,
            Signals!launch, Signals!usr1, Signals!Exit
<1>1. CASE Signals!Launch
  BY <1>1 DEF Signals!Launch
<1>2. CASE Signals!Fork \/ Signals!Sigqueue \/ Signals!Wait
  BY <1>2 DEF Signals!Fork, Signals!Sigqueue, Signals!Wait
<1>3. CASE Signals!SigqueueFails
  BY <1>3 DEF Signals!SigqueueFails
<1>4. CASE Signals!HandleUsr2
  <2>1. missed' \in BOOLEAN
    BY <1>4, Zenon DEF Signals!HandleUsr2
  <2>2. mode \in Signals!Modes
    BY <1>4 DEF Signals!HandleUsr2, ModeReceived
  <2>3. QED
    BY <1>4, <2>1, <2>2 DEF Signals!HandleUsr2
<1>5. CASE Signals!DieOfUsr2
  BY <1>5 DEF Signals!DieOfUsr2
<1>6. CASE Signals!Setup
  <2>1. masked' \in BOOLEAN
    <3> HIDE DEF SignalsInv
    <3>1. QED
      BY <1>6, Zenon DEF Signals!Setup, Signals!Apply
  <2>2. QED
    BY <1>6, <2>1 DEF Signals!Setup, Signals!Apply, ModeReceived
<1>7. CASE Signals!Raise \/ Signals!Unblock
  <2>1. child = "loop" /\ i' \in 0 .. 20 /\ Treated(mode)
    BY <1>7 DEF Signals!Raise, Signals!Unblock, Signals!Round, ChildState
  <2>2. disposition = "handle" => handled + 1 \in 0 .. 2
    BY <1>7, <2>1 DEF Signals!Raise, Signals!Unblock, Signals!Round, ModeReceived, Treated
  <2>3. /\ handled' \in 0 .. 2 /\ child' \in {"loop", "ended"}
        /\ ended' \in {"no", "normal", "failure", "SIGUSR1", "SIGUSR2", "SIGKILL"}
    BY <1>7, <2>1, <2>2 DEF Signals!Raise, Signals!Unblock, Signals!Deliver
  <2>4. masked' \in BOOLEAN /\ pending' \in BOOLEAN
    BY <1>7 DEF Signals!Raise, Signals!Unblock
  <2>5. QED
    BY <1>7, <2>1, <2>3, <2>4 DEF Signals!Raise, Signals!Unblock
<1>8. CASE Signals!Count \/ Signals!Finish
  BY <1>8 DEF Signals!Count, Signals!Round, Signals!Finish
<1>9. CASE Signals!Exec \/ Signals!Install \/ Signals!Test \/ Signals!Pause \/ Signals!SetupFails
  BY <1>9 DEF Signals!Exec, Signals!Install, Signals!Test, Signals!Pause, Signals!SetupFails
<1>10. QED
  BY <1>1, <1>2, <1>3, <1>4, <1>5, <1>6, <1>7, <1>8, <1>9 DEF Signals!Next,
    Signals!ParentStep, Signals!Usr2, Signals!ChildStep

\* Every step of SignalChild keeps what is known of the mode.
LEMMA ModeReceivedStep ==
    ASSUME SignalsInv, Signals!Next
    PROVE  ModeReceived'
<1> USE DEF SignalsInv, SignalsShape, ModeReceived, Signals!Modes, Signals!Variants,
            Signals!Others, Signals!launch, Signals!usr1, Signals!Exit
<1>1. CASE Signals!Launch
  BY <1>1 DEF Signals!Launch
<1>2. CASE Signals!Fork \/ Signals!Sigqueue \/ Signals!Wait
  BY <1>2 DEF Signals!Fork, Signals!Sigqueue, Signals!Wait
<1>3. CASE Signals!SigqueueFails
  BY <1>3 DEF Signals!SigqueueFails
<1>4. CASE Signals!HandleUsr2
  BY <1>4 DEF Signals!HandleUsr2
<1>5. CASE Signals!DieOfUsr2
  BY <1>5 DEF Signals!DieOfUsr2
<1>6. CASE Signals!Setup
  BY <1>6 DEF Signals!Setup
<1>7. CASE Signals!Raise \/ Signals!Unblock
  BY <1>7 DEF Signals!Raise, Signals!Unblock, Signals!Round, Signals!Deliver
<1>8. CASE Signals!Count \/ Signals!Finish
  BY <1>8 DEF Signals!Count, Signals!Round, Signals!Finish
<1>9. CASE Signals!Exec \/ Signals!Install \/ Signals!Test \/ Signals!Pause \/ Signals!SetupFails
  BY <1>9 DEF Signals!Exec, Signals!Install, Signals!Test, Signals!Pause, Signals!SetupFails
<1>10. QED
  BY <1>1, <1>2, <1>3, <1>4, <1>5, <1>6, <1>7, <1>8, <1>9 DEF Signals!Next,
    Signals!ParentStep, Signals!Usr2, Signals!ChildStep

\* Every step of SignalChild does to the child what the mode says.
LEMMA ChildStateStep ==
    ASSUME SignalsInv, Signals!Next
    PROVE  ChildState'
<1>0. SignalsShape /\ ModeReceived /\ ChildState
  BY DEF SignalsInv
<1>1. CASE Signals!Launch
  BY <1>0, <1>1 DEF Signals!Launch, Signals!usr1, SignalsShape, ModeReceived, ChildState, Untouched
<1>2. CASE Signals!Fork \/ Signals!Sigqueue \/ Signals!Wait
  <2>1. /\ UNCHANGED <<mode, i, disposition, masked, pending, handled, ended>>
        /\ child' = child \/ (child = "none" /\ child' = "exec")
        /\ parent' = "done" => child' = "ended"
    BY <1>0, <1>2 DEF Signals!Fork, Signals!Sigqueue, Signals!Wait, Signals!launch,
      Signals!usr1, ModeReceived
  <2>2. QED
    BY <1>0, <2>1 DEF ChildState, Untouched, Treated, Signals!Expected
<1>3. CASE Signals!SigqueueFails
  BY <1>0, <1>3 DEF Signals!SigqueueFails, Signals!Exit, Signals!launch, Signals!usr1,
    ChildState, Untouched
<1>4. CASE Signals!HandleUsr2
  <2>1. /\ UNCHANGED <<mode, parent, i, disposition, masked, pending, handled, ended>>
        /\ child' = child \/ (child = "pause" /\ child' = "test")
    BY <1>4 DEF Signals!HandleUsr2, Signals!launch, Signals!usr1
  <2>2. QED
    BY <1>0, <2>1 DEF ChildState, Untouched, Treated, Signals!Expected
<1>5. CASE Signals!DieOfUsr2
  BY <1>0, <1>5 DEF Signals!DieOfUsr2, Signals!Exit, Signals!launch, Signals!usr1,
    ChildState, Untouched
<1>6. CASE Signals!Setup
  <2>1. Untouched /\ child' = "loop" /\ UNCHANGED <<mode, parent, i, pending, handled, ended>>
    BY <1>0, <1>6 DEF Signals!Setup, Signals!Apply, Signals!launch, ChildState
  <2>2. disposition' = IF mode = "mask" THEN "default" ELSE mode
    BY <1>0, <1>6, <2>1 DEF Signals!Setup, Signals!Apply, ModeReceived, Untouched
  <2>3. Treated(mode)'
    <3>1. mode = IF variant = "alone" THEN mode ELSE received_mode
      BY <1>0, <1>6 DEF Signals!Setup, ModeReceived
    <3>2. masked' <=> mode = "mask"
      BY <1>6, <2>1, <3>1, Zenon DEF Signals!Setup, Signals!Apply, Untouched
    <3>3. QED
      BY <2>1, <2>2, <3>2 DEF Untouched, Treated
  <2>4. parent' # "done"
    BY <1>0, <1>6, <2>1 DEF Signals!Setup, ChildState
  <2>5. QED
    BY <2>1, <2>3, <2>4 DEF ChildState, Untouched
<1>7. CASE Signals!Raise
  <2>1. i \in {4, 14} /\ i' = i + 1 /\ Treated(mode) /\ ended = "no" /\ mode \in Signals!Modes
    BY <1>0, <1>7 DEF Signals!Raise, Signals!Round, ChildState, ModeReceived, SignalsShape
  <2>2. parent' # "done" /\ UNCHANGED <<mode, disposition, masked>>
    BY <1>0, <1>7 DEF Signals!Raise, Signals!Round, Signals!Others, Signals!launch, ChildState
  <2>3. CASE mode = "default"
    <3>1. /\ i' = 5 /\ handled' = 0 /\ ended' = "SIGUSR1" /\ child' = "ended"
      BY <1>7, <2>1, <2>3 DEF Treated, Signals!Raise, Signals!Deliver, Signals!Exit
    <3>2. QED
      BY <2>2, <2>3, <3>1 DEF ChildState, Signals!Expected
  <2>4. CASE mode # "default"
    <3>1. child' = "loop" /\ ended' = "no"
      BY <1>7, <2>1, <2>4 DEF Treated, Signals!Raise, Signals!Round, Signals!Deliver
    <3>2. Treated(mode)'
      BY <1>7, <2>1, <2>2, <2>4 DEF Treated, Signals!Raise, Signals!Deliver, Signals!Modes
    <3>3. QED
      BY <2>2, <3>1, <3>2 DEF ChildState
  <2>5. QED
    BY <2>3, <2>4
<1>8. CASE Signals!Unblock
  <2>1. i = 9 /\ i' = 10 /\ Treated(mode) /\ ended = "no" /\ mode \in Signals!Modes
    BY <1>0, <1>8 DEF Signals!Unblock, Signals!Round, ChildState, ModeReceived, SignalsShape
  <2>2. parent' # "done" /\ UNCHANGED <<mode, disposition>>
    BY <1>0, <1>8 DEF Signals!Unblock, Signals!Round, Signals!Others, Signals!launch, ChildState
  <2>3. CASE mode = "mask"
    <3>1. handled' = 0 /\ ended' = "SIGUSR1" /\ child' = "ended"
      BY <1>8, <2>1, <2>3 DEF Treated, Signals!Unblock, Signals!Deliver, Signals!Exit
    <3>2. QED
      BY <2>1, <2>2, <2>3, <3>1 DEF ChildState, Signals!Expected
  <2>4. CASE mode # "mask"
    <3>1. child' = "loop" /\ ended' = "no" /\ UNCHANGED <<handled, masked, pending>>
      BY <1>8, <2>1, <2>4 DEF Treated, Signals!Unblock, Signals!Round
    <3>2. Treated(mode)'
      BY <2>1, <2>2, <2>4, <3>1 DEF Treated
    <3>3. QED
      BY <2>2, <3>1, <3>2 DEF ChildState
  <2>5. QED
    BY <2>3, <2>4
<1>9. CASE Signals!Count
  <2>1. i' = i + 1 /\ i \notin {4, 9, 14} /\ i \in 0 .. 19 /\ Treated(mode) /\ ended = "no"
    BY <1>0, <1>9 DEF Signals!Count, Signals!Round, ChildState, SignalsShape
  <2>2. /\ parent' # "done" /\ child' = "loop"
        /\ UNCHANGED <<mode, disposition, masked, pending, handled, ended>>
    BY <1>0, <1>9 DEF Signals!Count, Signals!Round, Signals!Others, Signals!launch, Signals!usr1,
      ChildState
  <2>3. Treated(mode)'
    BY <2>1, <2>2 DEF Treated
  <2>4. QED
    BY <2>1, <2>2, <2>3 DEF ChildState
<1>10. CASE Signals!Finish
  <2>1. i = 20 /\ Treated(mode) /\ mode \in {"ignore", "handle"}
    BY <1>0, <1>10 DEF Signals!Finish, ChildState, ModeReceived, SignalsShape, Treated, Signals!Modes
  <2>2. /\ child' = "ended" /\ ended' = "normal" /\ UNCHANGED <<mode, i, handled>>
    BY <1>10 DEF Signals!Finish, Signals!Exit, Signals!usr1, Signals!Others, Signals!launch
  <2>3. QED
    BY <2>1, <2>2 DEF ChildState, Treated, Signals!Expected
<1>11. CASE Signals!Exec \/ Signals!SetupFails
  <2>1. Untouched /\ UNCHANGED <<mode, i, disposition, masked, pending, handled>> /\ parent' # "done"
    BY <1>0, <1>11 DEF Signals!Exec, Signals!SetupFails, Signals!launch, Signals!usr1, ChildState
  <2>2. \/ child' = "install" /\ ended' = ended
        \/ child' = "ended" /\ ended' = "failure"
    BY <1>11 DEF Signals!Exec, Signals!SetupFails, Signals!Exit
  <2>3. QED
    BY <2>1, <2>2 DEF ChildState, Untouched
<1>12. CASE Signals!Install \/ Signals!Test \/ Signals!Pause
  <2>1. /\ Untouched /\ UNCHANGED <<mode, i, disposition, masked, pending, handled, ended>>
        /\ parent' # "done"
    BY <1>0, <1>12 DEF Signals!Install, Signals!Test, Signals!Pause, Signals!launch, Signals!usr1,
      ChildState
  <2>2. child' \in {"test", "tested", "setup", "pause"}
    BY <1>12 DEF Signals!Install, Signals!Test, Signals!Pause
  <2>3. QED
    BY <2>1, <2>2 DEF ChildState, Untouched
<1>13. QED
  BY <1>1, <1>2, <1>3, <1>4, <1>5, <1>6, <1>7, <1>8, <1>9, <1>10, <1>11, <1>12 DEF Signals!Next,
    Signals!ParentStep, Signals!Usr2, Signals!ChildStep

\* The programs of labs 1 and 3 do not touch the processes of lab 2.
LEMMA SignalsStep ==
    ASSUME SignalsInv, [Next]_vars
    PROVE  SignalsInv'
<1>1. CASE Signals!Next
  BY <1>1, SignalsShapeStep, ModeReceivedStep, ChildStateStep DEF SignalsInv
<1>2. CASE UNCHANGED signals
  <2>1. UNCHANGED <<mode, variant, parent, child, i, disposition, masked, pending, received_mode,
                    usr2, ended, handled, missed>>
    BY <1>2 DEF signals
  <2>2. SignalsShape' /\ ModeReceived'
    BY <2>1 DEF SignalsInv, SignalsShape, ModeReceived, Signals!Modes, Signals!Variants
  <2>3. ChildState'
    BY <2>1 DEF SignalsInv, ChildState, Untouched, Treated, Signals!Expected
  <2>4. QED
    BY <2>2, <2>3 DEF SignalsInv
<1>3. QED
  BY <1>1, <1>2 DEF Next, vars, RunTree, RunSignals, RunPipes, RunFifos

\* SignalsInv holds before anything is launched and for ever.
LEMMA SignalsInvHolds == Spec => []SignalsInv
<1>1. Init => SignalsInv
  <2> SUFFICES ASSUME Signals!Init PROVE SignalsInv
    BY DEF Init
  <2>1. masked \in BOOLEAN /\ pending \in BOOLEAN /\ missed \in BOOLEAN
    BY Zenon DEF Signals!Init
  <2>2. SignalsShape
    BY <2>1 DEF Signals!Init, SignalsShape, Signals!Modes, Signals!Variants
  <2>3. ModeReceived
    BY DEF Signals!Init, ModeReceived
  <2>4. ChildState
    BY DEF Signals!Init, ChildState, Untouched
  <2>5. QED
    BY <2>2, <2>3, <2>4 DEF SignalsInv
<1>2. SignalsInv /\ [Next]_vars => SignalsInv'
  BY SignalsStep
<1>3. QED
  BY <1>1, <1>2, PTL DEF Spec

\* OutcomeFollowsMode of Exercises.tla: a process of lab 2 that gets to its
\* loop ends in the round and in the way its mode says (child.c:36-62).
THEOREM OutcomeFollowsModeHolds == Spec => []OutcomeFollowsMode
<1>1. SignalsInv => OutcomeFollowsMode
  <2> SUFFICES ASSUME SignalsInv PROVE OutcomeFollowsMode
    OBVIOUS
  <2>1. Signals!TypeOK
    <3>1. {masked, pending, missed} \subseteq BOOLEAN
      BY DEF SignalsInv, SignalsShape
    <3>2. QED
      BY <3>1 DEF SignalsInv, SignalsShape, Signals!TypeOK
  <2>2. /\ ended \in {"SIGUSR1", "normal"} =>
            [ended |-> ended, i |-> i, handled |-> handled] = Signals!Expected(mode)
        /\ parent = "done" => child = "ended"
    BY DEF SignalsInv, ChildState
  <2>3. i > 0 /\ child = "ended" /\ ended # "SIGKILL" => ended \in {"SIGUSR1", "normal"}
    BY DEF SignalsInv, SignalsShape, ChildState
  <2>4. QED
    BY <2>1, <2>2, <2>3 DEF OutcomeFollowsMode, Signals!OutcomeFollowsMode
<1>2. QED
  BY SignalsInvHolds, <1>1, PTL

-----------------------------------------------------------------------------
(***************************************************************************)
(* Lab 3, exercise 1, PipeIntegrator.                                      *)
(***************************************************************************)
Kids == Pipes!Kids
Main == Pipes!Main
Alive(c) == kid[c] \in {"started", "write", "exit"}

Creating == where \in {"pipe", "fork", "close_write"}
Collecting == where \in {"read", "close_read", "wait"}
GoesOn == where \notin {"done", "failed"}

\* The children the parent has made in this round.
Made(c) ==
    \/ where \in {"pipe", "fork"} /\ c < idx
    \/ where = "close_write" /\ c <= idx
    \/ Collecting /\ c < k

\* The children whose pipe the parent has read.
Fetched(c) ==
    \/ Collecting /\ c < idx
    \/ where \in {"close_read", "wait"} /\ c = idx
    \/ where = "report"

\* The indices of the loops.
InRound ==
    /\ where = "off" => k = 0 /\ idx = 0
    /\ Creating \/ Collecting \/ where = "report" => k \in 1 .. MaxK /\ idx < k
    /\ where = "report" => idx = 0

\* While it waits, as many children are left as it has waits before it.
Family ==
    /\ where \in {"off", "report"} => \A c \in Kids : kid[c] = "none"
    /\ Creating => \A c \in Kids : kid[c] # "none" <=> Made(c)
    /\ Collecting =>
        /\ \A c \in Kids : kid[c] # "none" => Made(c)
        /\ Cardinality({c \in Kids : kid[c] # "none"}) = k - idx

\* A child holds descriptors as long as it lives, its own write end among
\* them; the parent only those between pipe and close.
Descriptors ==
    /\ \A c, p \in Kids : p \in read_ends[c] \cup write_ends[c] => Alive(p)
    /\ \A c \in Kids : Alive(c) => c \in write_ends[c]
    /\ \A c \in Kids : Main \in write_ends[c] <=> where \in {"fork", "close_write"} /\ c = idx
    /\ \A c \in Kids : Main \in read_ends[c] =>
        \/ where = "pipe" /\ c < idx
        \/ where \in {"fork", "close_write"} /\ c <= idx
        \/ where \in {"read", "close_read"} /\ idx <= c /\ c < k
        \/ where = "wait" /\ idx < c /\ c < k

\* What has been written is in a pipe or in total_sum; and a pipe that has
\* been read stays empty, because its child has written or is dead.
Sums ==
    /\ wrote = total_sum \cup full
    /\ \A c \in wrote : kid[c] \notin {"started", "write"} /\ (where = "report" \/ Made(c))
    /\ \A c \in Kids : Fetched(c) => c \notin full /\ kid[c] \notin {"started", "write"}

PipesInv ==
    /\ Pipes!TypeOK /\ InRound /\ Family /\ Descriptors
    /\ GoesOn => Sums

\* The indices of the children, and the parent is none of them.
LEMMA KidsType == IsFiniteSet(Kids) /\ Kids \in SUBSET Nat /\ Main \notin Kids /\ Main \in Nat
<1>1. MaxK \in Nat \ {0}
  BY ExercisesAssumption
<1>2. Kids = 0 .. (MaxK - 1) /\ Main = MaxK
  BY DEF Kids, Main, Pipes!Kids, Pipes!Main
<1>3. QED
  BY <1>1, <1>2, FS_Interval

\* Every step of PipeIntegrator keeps the domains of its variables.
LEMMA PipesTypeStep ==
    ASSUME PipesInv, Pipes!Next
    PROVE  Pipes!TypeOK'
<1>0. /\ Pipes!TypeOK /\ InRound /\ MaxK \in Nat \ {0}
      /\ Kids = 0 .. (MaxK - 1) /\ Main = MaxK /\ Pipes!Kids = Kids /\ Pipes!Main = Main
  BY ExercisesAssumption DEF PipesInv, Kids, Main, Pipes!Kids, Pipes!Main
<1> USE <1>0 DEF Pipes!TypeOK, Pipes!Goto, Pipes!ends
<1>1. CASE Pipes!Launch
  BY <1>1 DEF Pipes!Launch
<1>2. CASE Pipes!Pipe
  BY <1>2 DEF Pipes!Pipe
<1>3. CASE Pipes!Fork
  BY <1>3 DEF Pipes!Fork, Pipes!Inherit
<1>4. CASE Pipes!Abort
  BY <1>4 DEF Pipes!Abort, Pipes!CloseAll, Pipes!Closed
<1>5. CASE Pipes!CloseWrite
  BY <1>5 DEF Pipes!CloseWrite, Pipes!Advance, InRound, Creating
<1>6. CASE Pipes!Read
  BY <1>6 DEF Pipes!Read
<1>7. CASE Pipes!CloseRead
  BY <1>7 DEF Pipes!CloseRead
<1>8. CASE Pipes!Wait
  BY <1>8 DEF Pipes!Wait, Pipes!Advance, InRound, Collecting
<1>9. CASE Pipes!Report
  BY <1>9 DEF Pipes!Report, InRound
<1>10. ASSUME NEW c \in Pipes!Kids, Pipes!CloseReads(c) PROVE Pipes!TypeOK'
  BY <1>10 DEF Pipes!CloseReads, Pipes!Step
<1>11. ASSUME NEW c \in Pipes!Kids, Pipes!Write(c) PROVE Pipes!TypeOK'
  BY <1>11 DEF Pipes!Write, Pipes!Step
<1>12. ASSUME NEW c \in Pipes!Kids, Pipes!End(c) PROVE Pipes!TypeOK'
  BY <1>12 DEF Pipes!End, Pipes!Step, Pipes!CloseAll, Pipes!Closed
<1>13. ASSUME NEW c \in Pipes!Kids, Pipes!Kill(c) PROVE Pipes!TypeOK'
  BY <1>13 DEF Pipes!Kill, Pipes!CloseAll, Pipes!Closed
<1>14. QED
  BY <1>1, <1>2, <1>3, <1>4, <1>5, <1>6, <1>7, <1>8, <1>9, <1>10, <1>11, <1>12, <1>13
    DEF Pipes!Next, Pipes!Parent, Pipes!Child

\* Every step of PipeIntegrator keeps the indices of the loops.
LEMMA InRoundStep ==
    ASSUME PipesInv, Pipes!Next
    PROVE  InRound'
<1>0. Pipes!TypeOK /\ InRound /\ MaxK \in Nat \ {0} /\ Pipes!Kids = 0 .. (MaxK - 1)
  BY ExercisesAssumption DEF PipesInv, Pipes!Kids
<1> USE <1>0 DEF Pipes!TypeOK, Pipes!Goto, InRound, Creating, Collecting
<1>1. CASE Pipes!Launch
  BY <1>1 DEF Pipes!Launch
<1>2. CASE Pipes!Pipe \/ Pipes!Fork \/ Pipes!Abort
  BY <1>2 DEF Pipes!Pipe, Pipes!Fork, Pipes!Abort
<1>3. CASE Pipes!CloseWrite
  BY <1>3 DEF Pipes!CloseWrite, Pipes!Advance
<1>4. CASE Pipes!Read \/ Pipes!CloseRead
  BY <1>4 DEF Pipes!Read, Pipes!CloseRead
<1>5. CASE Pipes!Wait
  BY <1>5 DEF Pipes!Wait, Pipes!Advance
<1>6. CASE Pipes!Report
  BY <1>6 DEF Pipes!Report
<1>7. ASSUME NEW c \in Pipes!Kids, Pipes!Child(c) \/ Pipes!Kill(c) PROVE InRound'
  BY <1>7 DEF Pipes!Child, Pipes!Kill, Pipes!CloseReads, Pipes!Write, Pipes!End
<1>8. QED
  BY <1>1, <1>2, <1>3, <1>4, <1>5, <1>6, <1>7 DEF Pipes!Next, Pipes!Parent

\* A child that goes from one statement to another leaves the parent where
\* it is and every other child what it was.
LEMMA ChildStepEffect ==
    ASSUME PipesInv, NEW c \in Kids, Pipes!Child(c) \/ Pipes!Kill(c)
    PROVE  /\ UNCHANGED <<tiny, k, idx, where, total_sum>>
           /\ kid[c] \in {"started", "write", "exit"}
           /\ \/ kid[c] = "started" /\ kid'[c] = "write"
              \/ kid[c] = "write" /\ kid'[c] = "exit"
              \/ kid'[c] = "zombie"
           /\ \A d \in Kids \ {c} : kid'[d] = kid[d]
<1>1. kid \in [Kids -> {"none", "started", "write", "exit", "zombie"}]
  BY DEF PipesInv, Pipes!TypeOK, Kids
<1>2. QED
  BY <1>1 DEF Pipes!Child, Pipes!Kill, Pipes!CloseReads, Pipes!Write, Pipes!End, Pipes!Step

\* Every step of PipeIntegrator keeps the count of the children.
LEMMA FamilyStep ==
    ASSUME PipesInv, Pipes!Next
    PROVE  Family'
<1>0. /\ Pipes!TypeOK /\ InRound /\ Family /\ MaxK \in Nat \ {0}
      /\ Kids = 0 .. (MaxK - 1) /\ Pipes!Kids = Kids
      /\ kid \in [Kids -> {"none", "started", "write", "exit", "zombie"}]
  BY ExercisesAssumption DEF PipesInv, Kids, Pipes!Kids, Pipes!TypeOK
<1> DEFINE Left == {c \in Kids : kid[c] # "none"}
<1>1. CASE Pipes!Launch
  BY <1>0, <1>1 DEF Pipes!Launch, Pipes!Goto, Family, Creating, Collecting, Made, InRound
<1>2. CASE Pipes!Pipe
  BY <1>0, <1>2 DEF Pipes!Pipe, Pipes!Goto, Family, Creating, Collecting, Made
<1>3. CASE Pipes!Fork
  <2>1. /\ where = "fork" /\ where' = "close_write" /\ idx' = idx /\ idx \in Kids
        /\ kid' = [kid EXCEPT ![idx] = "started"]
    BY <1>0, <1>3 DEF Pipes!Fork, Pipes!Goto, Pipes!TypeOK
  <2>2. \A c \in Kids : kid[c] # "none" <=> c < idx
    BY <1>0, <2>1 DEF Family, Creating, Collecting, Made
  <2>3. \A c \in Kids : kid'[c] # "none" <=> c <= idx
    BY <1>0, <2>1, <2>2
  <2>4. QED
    BY <2>1, <2>3 DEF Family, Creating, Collecting, Made
<1>4. CASE Pipes!Abort
  BY <1>4 DEF Pipes!Abort, Family, Creating, Collecting
<1>5. CASE Pipes!CloseWrite
  <2>1. \A c \in Kids : kid[c] # "none" <=> c <= idx
    BY <1>0, <1>5 DEF Pipes!CloseWrite, Family, Creating, Collecting, Made
  <2>2. k \in 1 .. MaxK /\ idx \in 0 .. k - 1 /\ kid' = kid /\ k' = k
    BY <1>0, <1>5 DEF Pipes!CloseWrite, InRound, Creating, Pipes!TypeOK
  <2>3. CASE idx + 1 < k
    <3>1. where' = "pipe" /\ idx' = idx + 1
      BY <1>5, <2>3 DEF Pipes!CloseWrite, Pipes!Advance
    <3>2. \A c \in Kids : c <= idx <=> c < idx + 1
      BY <1>0, <2>2
    <3>3. QED
      BY <2>1, <2>2, <3>1, <3>2 DEF Family, Creating, Collecting, Made
  <2>4. CASE ~(idx + 1 < k)
    <3>1. where' = "read" /\ idx' = 0 /\ idx = k - 1
      BY <1>5, <2>2, <2>4 DEF Pipes!CloseWrite, Pipes!Advance
    <3>2. Left = 0 .. k - 1
      BY <1>0, <2>1, <2>2, <3>1
    <3>3. Cardinality(Left) = k - 0
      <4>1. 0 \in Int /\ k - 1 \in Int /\ ~(0 > k - 1) /\ (k - 1) - 0 + 1 = k - 0
        BY <2>2
      <4>2. Cardinality(0 .. k - 1) = (k - 1) - 0 + 1
        BY <4>1, FS_Interval
      <4>3. QED
        BY <3>2, <4>1, <4>2
    <3>4. \A c \in Kids : kid[c] # "none" => c < k
      BY <1>0, <2>1, <2>2, <3>1
    <3>5. QED
      BY <2>2, <3>1, <3>3, <3>4 DEF Family, Creating, Collecting, Made
  <2>5. QED
    BY <2>3, <2>4
<1>6. CASE Pipes!Read \/ Pipes!CloseRead
  <2>1. where \in {"read", "close_read"} /\ where' \in {"close_read", "wait"} /\ UNCHANGED <<k, idx, kid>>
    BY <1>6 DEF Pipes!Read, Pipes!CloseRead, Pipes!Goto
  <2>2. QED
    BY <1>0, <2>1 DEF Family, Creating, Collecting, Made
<1>7. CASE Pipes!Wait
  <2>1. /\ k \in 1 .. MaxK /\ idx \in 0 .. k - 1 /\ k' = k
        /\ Cardinality(Left) = k - idx /\ \A c \in Kids : kid[c] # "none" => c < k
    BY <1>0, <1>7 DEF Pipes!Wait, InRound, Family, Creating, Collecting, Made, Pipes!TypeOK
  <2>2. PICK c \in Kids : kid[c] = "zombie" /\ kid' = [kid EXCEPT ![c] = "none"]
    BY <1>0, <1>7 DEF Pipes!Wait
  <2>3. Left' = Left \ {c} /\ c \in Left /\ IsFiniteSet(Left)
    <3>1. Left' = Left \ {c} /\ c \in Left
      BY <1>0, <2>2
    <3>2. Left \in SUBSET Kids
      OBVIOUS
    <3>3. QED
      BY <3>1, <3>2, KidsType, FS_Subset
  <2>4. Cardinality(Left') = k - (idx + 1) /\ IsFiniteSet(Left')
    <3>1. Cardinality(Left \ {c}) = Cardinality(Left) - 1 /\ IsFiniteSet(Left \ {c})
      BY <2>3, FS_RemoveElement
    <3> HIDE DEF Left
    <3>2. QED
      BY <2>1, <2>3, <3>1
  <2>5. \A d \in Kids : kid'[d] # "none" => d < k
    BY <1>0, <2>1, <2>2
  <2>6. CASE idx + 1 < k
    <3>1. where' = "read" /\ idx' = idx + 1
      BY <1>7, <2>6 DEF Pipes!Wait, Pipes!Advance
    <3>2. QED
      BY <2>1, <2>4, <2>5, <3>1 DEF Family, Creating, Collecting, Made
  <2>7. CASE ~(idx + 1 < k)
    <3>1. where' = "report" /\ idx + 1 = k
      BY <1>7, <2>1, <2>7 DEF Pipes!Wait, Pipes!Advance
    <3>2. Cardinality(Left') = 0
      BY <2>1, <2>4, <3>1
    <3>3. Left' = {}
      BY <2>4, <3>2, FS_EmptySet
    <3>4. QED
      BY <3>1, <3>3 DEF Family, Creating, Collecting
  <2>8. QED
    BY <2>6, <2>7
<1>8. CASE Pipes!Report
  BY <1>0, <1>8 DEF Pipes!Report, InRound, Family, Creating, Collecting, Made
<1>9. ASSUME NEW c \in Kids, Pipes!Child(c) \/ Pipes!Kill(c) PROVE Family'
  <2>1. /\ UNCHANGED <<k, idx, where>>
        /\ \A d \in Kids : kid'[d] # "none" <=> kid[d] # "none"
    BY <1>9, ChildStepEffect
  <2>2. Left' = Left
    BY <2>1
  <2>3. QED
    BY <1>0, <2>1, <2>2 DEF Family, Creating, Collecting, Made
<1>10. QED
  BY <1>0, <1>1, <1>2, <1>3, <1>4, <1>5, <1>6, <1>7, <1>8, <1>9 DEF Pipes!Next, Pipes!Parent

\* Every step of PipeIntegrator keeps who holds which descriptor.
LEMMA DescriptorsStep ==
    ASSUME PipesInv, Pipes!Next
    PROVE  Descriptors'
<1>0. /\ Pipes!TypeOK /\ InRound /\ Family /\ Descriptors /\ MaxK \in Nat \ {0}
      /\ Kids = 0 .. (MaxK - 1) /\ Pipes!Kids = Kids /\ Main = MaxK /\ Pipes!Main = Main
  BY ExercisesAssumption DEF PipesInv, Kids, Pipes!Kids, Main, Pipes!Main
<1>a. /\ kid \in [Kids -> {"none", "started", "write", "exit", "zombie"}] /\ idx \in Kids
      /\ read_ends \in [Kids -> SUBSET (Kids \cup {Main})]
      /\ write_ends \in [Kids -> SUBSET (Kids \cup {Main})]
  BY <1>0 DEF Pipes!TypeOK
<1>b. Main \notin Kids
  BY KidsType
<1>1. CASE Pipes!Launch
  BY <1>0, <1>1 DEF Pipes!Launch, Pipes!Goto, Pipes!ends, Descriptors, Alive, InRound
<1>2. CASE Pipes!Pipe
  <2>1. /\ where = "pipe" /\ where' = "fork" /\ UNCHANGED <<k, idx, kid>>
        /\ read_ends' = [read_ends EXCEPT ![idx] = {Main}]
        /\ write_ends' = [write_ends EXCEPT ![idx] = {Main}]
    BY <1>0, <1>2 DEF Pipes!Pipe, Pipes!Goto
  <2>2. kid[idx] = "none"
    BY <1>0, <1>a, <2>1 DEF Family, Creating, Collecting, Made
  <2>3. QED
    BY <1>0, <1>a, <1>b, <2>1, <2>2 DEF Descriptors, Alive
<1>3. CASE Pipes!Fork
  <2>1. /\ where = "fork" /\ where' = "close_write" /\ UNCHANGED <<k, idx>>
        /\ kid' = [kid EXCEPT ![idx] = "started"]
        /\ read_ends' = [c \in Kids |-> IF Main \in read_ends[c] THEN read_ends[c] \cup {idx}
                                                                ELSE read_ends[c]]
        /\ write_ends' = [c \in Kids |-> IF Main \in write_ends[c] THEN write_ends[c] \cup {idx}
                                                                  ELSE write_ends[c]]
    BY <1>0, <1>3 DEF Pipes!Fork, Pipes!Goto, Pipes!Inherit
  <2>2. QED
    BY <1>0, <1>a, <1>b, <2>1 DEF Descriptors, Alive
<1>4. CASE Pipes!Abort
  <2>1. /\ where' = "failed" /\ kid' = kid
        /\ read_ends' = [c \in Kids |-> read_ends[c] \ {Main}]
        /\ write_ends' = [c \in Kids |-> write_ends[c] \ {Main}]
    BY <1>0, <1>4 DEF Pipes!Abort, Pipes!CloseAll, Pipes!Closed
  <2>2. QED
    BY <1>0, <1>a, <1>b, <2>1 DEF Descriptors, Alive
<1>5. CASE Pipes!CloseWrite
  <2>1. /\ where = "close_write" /\ UNCHANGED <<k, kid, read_ends>>
        /\ write_ends' = [write_ends EXCEPT ![idx] = @ \ {Main}]
        /\ \/ where' = "pipe" /\ idx' = idx + 1
           \/ where' = "read" /\ idx' = 0 /\ ~(idx + 1 < k)
    BY <1>0, <1>5 DEF Pipes!CloseWrite, Pipes!Advance
  <2>2. k \in 1 .. MaxK /\ idx < k
    BY <1>0, <2>1 DEF InRound, Creating
  <2>3. /\ \A c, p \in Kids : p \in read_ends'[c] \cup write_ends'[c] => kid'[p] \in {"started", "write", "exit"}
        /\ \A c \in Kids : kid'[c] \in {"started", "write", "exit"} => c \in write_ends'[c]
        /\ \A c \in Kids : Main \notin write_ends'[c]
    BY <1>0, <1>a, <1>b, <2>1 DEF Descriptors, Alive
  <2>4. \A c \in Kids : Main \in read_ends'[c] => c <= idx
    BY <1>0, <2>1 DEF Descriptors
  <2>5. \A c \in Kids : Main \in read_ends'[c] =>
        \/ where' = "pipe" /\ c < idx'
        \/ where' = "read" /\ idx' <= c /\ c < k'
    BY <1>0, <1>a, <2>1, <2>2, <2>4
  <2>6. QED
    BY <2>1, <2>3, <2>5 DEF Descriptors, Alive
<1>6. CASE Pipes!Read
  BY <1>0, <1>6 DEF Pipes!Read, Pipes!Goto, Pipes!ends, Descriptors, Alive
<1>7. CASE Pipes!CloseRead
  <2>1. /\ where = "close_read" /\ where' = "wait" /\ UNCHANGED <<k, idx, kid, write_ends>>
        /\ read_ends' = [read_ends EXCEPT ![idx] = @ \ {Main}]
    BY <1>0, <1>7 DEF Pipes!CloseRead, Pipes!Goto
  <2>2. QED
    BY <1>0, <1>a, <1>b, <2>1 DEF Descriptors, Alive
<1>8. CASE Pipes!Wait
  <2>1. /\ where = "wait" /\ UNCHANGED <<k, read_ends, write_ends>>
        /\ \/ where' = "read" /\ idx' = idx + 1
           \/ where' = "report" /\ ~(idx + 1 < k)
    BY <1>8 DEF Pipes!Wait, Pipes!Advance, Pipes!ends
  <2>2. \A c \in Kids : Alive(c) <=> Alive(c)'
    BY <1>0, <1>a, <1>8 DEF Pipes!Wait, Alive
  <2>3. k \in 1 .. MaxK /\ idx < k
    BY <1>0, <2>1 DEF InRound, Collecting
  <2>4. \A c \in Kids : Main \in read_ends[c] => idx < c /\ c < k
    BY <1>0, <2>1 DEF Descriptors
  <2>5. \A c \in Kids : Main \in read_ends'[c] => where' = "read" /\ idx' <= c /\ c < k'
    BY <1>0, <1>a, <2>1, <2>3, <2>4
  <2>6. QED
    BY <1>0, <2>1, <2>2, <2>5 DEF Descriptors
<1>9. CASE Pipes!Report
  <2>1. where = "report" /\ where' \in {"pipe", "done"} /\ UNCHANGED <<kid, read_ends, write_ends>>
    BY <1>9 DEF Pipes!Report, Pipes!ends
  <2>2. QED
    BY <1>0, <2>1 DEF Descriptors, Alive
<1>10. ASSUME NEW c \in Kids, Pipes!CloseReads(c) PROVE Descriptors'
  <2>1. /\ kid[c] = "started" /\ kid' = [kid EXCEPT ![c] = "write"]
        /\ read_ends' = [j \in Kids |-> IF j <= c THEN read_ends[j] \ {c} ELSE read_ends[j]]
        /\ UNCHANGED <<k, idx, where, write_ends>>
    BY <1>0, <1>10 DEF Pipes!CloseReads, Pipes!Step
  <2>2. QED
    BY <1>0, <1>a, <1>b, <2>1 DEF Descriptors, Alive
<1>11. ASSUME NEW c \in Kids, Pipes!Write(c) PROVE Descriptors'
  <2>1. /\ kid[c] = "write" /\ kid' = [kid EXCEPT ![c] = "exit"]
        /\ UNCHANGED <<k, idx, where, read_ends, write_ends>>
    BY <1>0, <1>11 DEF Pipes!Write, Pipes!Step, Pipes!ends
  <2>2. QED
    BY <1>0, <1>a, <1>b, <2>1 DEF Descriptors, Alive
<1>12. ASSUME NEW c \in Kids, Pipes!End(c) \/ Pipes!Kill(c) PROVE Descriptors'
  <2>1. /\ kid' = [kid EXCEPT ![c] = "zombie"]
        /\ read_ends' = [j \in Kids |-> read_ends[j] \ {c}]
        /\ write_ends' = [j \in Kids |-> write_ends[j] \ {c}]
        /\ UNCHANGED <<k, idx, where>>
    BY <1>0, <1>12 DEF Pipes!End, Pipes!Kill, Pipes!Step, Pipes!CloseAll, Pipes!Closed
  <2>2. QED
    BY <1>0, <1>a, <1>b, <2>1 DEF Descriptors, Alive
<1>13. QED
  BY <1>0, <1>1, <1>2, <1>3, <1>4, <1>5, <1>6, <1>7, <1>8, <1>9, <1>10, <1>11, <1>12
    DEF Pipes!Next, Pipes!Parent, Pipes!Child

\* Every step of PipeIntegrator keeps what is known of the sums.
LEMMA SumsStep ==
    ASSUME PipesInv, Pipes!Next, GoesOn'
    PROVE  Sums'
<1>0. /\ Pipes!TypeOK /\ InRound /\ Family /\ Descriptors /\ MaxK \in Nat \ {0}
      /\ Kids = 0 .. (MaxK - 1) /\ Pipes!Kids = Kids
      /\ full \subseteq Kids /\ wrote \subseteq Kids /\ total_sum \subseteq Kids
      /\ kid \in [Kids -> {"none", "started", "write", "exit", "zombie"}] /\ idx \in Kids
  BY ExercisesAssumption DEF PipesInv, Kids, Pipes!Kids, Pipes!TypeOK
<1>1. CASE Pipes!Launch
  <2>1. where = "off" /\ where' = "pipe" /\ UNCHANGED <<idx, kid, full, total_sum, wrote>> /\ idx = 0
    BY <1>0, <1>1 DEF Pipes!Launch, Pipes!Goto, InRound
  <2>2. \A c \in Kids : kid[c] = "none"
    BY <1>0, <2>1 DEF Family
  <2>3. Sums
    BY <2>1 DEF PipesInv, GoesOn
  <2>4. wrote = {}
    BY <1>0, <2>1, <2>3 DEF Sums, Made, Collecting
  <2>5. QED
    BY <1>0, <2>1, <2>2, <2>3, <2>4 DEF Sums, Fetched, Collecting
<1>2. CASE Pipes!Pipe \/ Pipes!CloseWrite
  <2>1. /\ UNCHANGED <<k, kid, full, total_sum, wrote>>
        /\ \/ where = "pipe" /\ where' = "fork" /\ idx' = idx
           \/ where = "close_write" /\ where' = "pipe" /\ idx' = idx + 1
           \/ where = "close_write" /\ where' = "read" /\ idx' = 0 /\ ~(idx + 1 < k)
    BY <1>2 DEF Pipes!Pipe, Pipes!CloseWrite, Pipes!Goto, Pipes!Advance
  <2>2. Sums
    BY <2>1 DEF PipesInv, GoesOn
  <2>3. k \in 1 .. MaxK /\ idx < k
    BY <1>0, <2>1 DEF InRound, Creating
  <2>4. \A c \in Kids : (Made(c) => Made(c)') /\ ~Fetched(c)'
    BY <1>0, <2>1, <2>3 DEF Made, Fetched, Collecting
  <2>5. where # "report"
    BY <2>1
  <2>6. QED
    BY <1>0, <2>1, <2>2, <2>4, <2>5 DEF Sums
<1>3. CASE Pipes!Fork
  <2>1. /\ UNCHANGED <<k, idx, full, total_sum, wrote>> /\ where = "fork" /\ where' = "close_write"
        /\ kid' = [kid EXCEPT ![idx] = "started"]
    BY <1>3 DEF Pipes!Fork, Pipes!Goto
  <2>2. Sums
    BY <2>1 DEF PipesInv, GoesOn
  <2>3. idx \notin wrote
    BY <1>0, <2>1, <2>2 DEF Sums, Made, Collecting
  <2>4. \A c \in Kids : (Made(c) => Made(c)') /\ ~Fetched(c)'
    BY <1>0, <2>1 DEF Made, Fetched, Collecting
  <2>5. QED
    BY <1>0, <2>1, <2>2, <2>3, <2>4 DEF Sums
<1>4. CASE Pipes!Abort
  BY <1>4 DEF Pipes!Abort, GoesOn
<1>5. CASE Pipes!Read
  <2>1. where = "read" /\ where' = "close_read" /\ UNCHANGED <<k, idx, kid, wrote>>
    BY <1>5 DEF Pipes!Read, Pipes!Goto
  <2>2. Sums
    BY <2>1 DEF PipesInv, GoesOn
  <2>3. kid[idx] \notin {"started", "write"} /\ idx \notin full' /\ total_sum' \cup full' = total_sum \cup full
        /\ full' \subseteq full
    <3>1. CASE idx \in full
      <4>1. full' = full \ {idx} /\ total_sum' = total_sum \cup {idx}
        BY <1>5, <3>1 DEF Pipes!Read
      <4>2. QED
        BY <2>2, <3>1, <4>1 DEF Sums
    <3>2. CASE idx \notin full
      <4>1. write_ends[idx] = {} /\ full' = full /\ total_sum' = total_sum
        BY <1>5, <3>2 DEF Pipes!Read
      <4>2. QED
        BY <1>0, <3>2, <4>1 DEF Descriptors, Alive
    <3>3. QED
      BY <3>1, <3>2
  <2>4. \A c \in Kids : (Made(c) => Made(c)') /\ (Fetched(c)' => c = idx \/ Fetched(c))
    BY <1>0, <2>1 DEF Made, Fetched, Collecting
  <2>5. QED
    BY <1>0, <2>1, <2>2, <2>3, <2>4 DEF Sums
<1>6. CASE Pipes!CloseRead
  <2>1. where = "close_read" /\ where' = "wait" /\ UNCHANGED <<k, idx, kid, full, total_sum, wrote>>
    BY <1>6 DEF Pipes!CloseRead, Pipes!Goto
  <2>2. Sums
    BY <2>1 DEF PipesInv, GoesOn
  <2>3. \A c \in Kids : (Made(c) => Made(c)') /\ (Fetched(c)' => Fetched(c))
    BY <1>0, <2>1 DEF Made, Fetched, Collecting
  <2>4. QED
    BY <1>0, <2>1, <2>2, <2>3 DEF Sums
<1>7. CASE Pipes!Wait
  <2>1. /\ where = "wait" /\ UNCHANGED <<k, full, total_sum, wrote>>
        /\ \/ where' = "read" /\ idx' = idx + 1
           \/ where' = "report" /\ ~(idx + 1 < k)
    BY <1>7 DEF Pipes!Wait, Pipes!Advance
  <2>2. Sums
    BY <2>1 DEF PipesInv, GoesOn
  <2>3. k \in 1 .. MaxK /\ idx < k
    BY <1>0, <2>1 DEF InRound, Collecting
  <2>4. \A c \in Kids : kid'[c] \in {"started", "write"} => kid[c] \in {"started", "write"}
    BY <1>0, <1>7 DEF Pipes!Wait
  <2>5. CASE where' = "read" /\ idx' = idx + 1
    <3>1. \A c \in Kids : (Made(c) => Made(c)') /\ (Fetched(c)' => Fetched(c))
      BY <1>0, <2>1, <2>3, <2>5 DEF Made, Fetched, Collecting
    <3>2. QED
      BY <1>0, <2>1, <2>2, <2>4, <3>1 DEF Sums
  <2>6. CASE where' = "report" /\ ~(idx + 1 < k)
    <3>1. \A c \in wrote : Made(c) /\ c < k
      BY <1>0, <2>1, <2>2 DEF Sums, Made, Collecting
    <3>2. \A c \in Kids : c < k => Fetched(c)
      BY <1>0, <2>1, <2>3, <2>6 DEF Fetched, Collecting
    <3>3. full = {}
      BY <1>0, <2>2, <3>1, <3>2 DEF Sums
    <3>4. \A c \in Kids : kid'[c] = "none"
      BY <2>6, FamilyStep DEF Family
    <3>5. QED
      BY <1>0, <2>1, <2>2, <2>6, <3>3, <3>4 DEF Sums
  <2>7. QED
    BY <2>1, <2>5, <2>6
<1>8. CASE Pipes!Report
  <2>1. where = "report" /\ where' = "pipe" /\ wrote' = {} /\ total_sum' = {} /\ full' = full /\ kid' = kid
    BY <1>8 DEF Pipes!Report, GoesOn
  <2>2. Sums /\ idx' = 0
    BY <1>0, <1>8, <2>1 DEF PipesInv, GoesOn, Pipes!Report, InRound
  <2>3. full = {}
    BY <1>0, <2>1, <2>2 DEF Sums, Fetched
  <2>4. QED
    BY <2>1, <2>3 DEF Sums, Fetched, Collecting
<1>9. ASSUME NEW c \in Kids, Pipes!Child(c) \/ Pipes!Kill(c) PROVE Sums'
  <2>1. /\ UNCHANGED <<k, idx, where, total_sum>>
        /\ kid[c] \in {"started", "write", "exit"}
        /\ \/ kid[c] = "started" /\ kid'[c] = "write"
           \/ kid[c] = "write" /\ kid'[c] = "exit"
           \/ kid'[c] = "zombie"
        /\ \A d \in Kids \ {c} : kid'[d] = kid[d]
    BY <1>9, ChildStepEffect
  <2>2. Sums
    BY <2>1 DEF PipesInv, GoesOn
  <2>3. where \notin {"off", "report"} /\ (Creating \/ Collecting)
    BY <1>0, <2>1 DEF Family, GoesOn, Pipes!TypeOK, Creating, Collecting
  <2>4. Made(c) /\ where # "report"
    BY <1>0, <2>1, <2>3 DEF Family
  <2>5. \A d \in Kids : (Made(d) => Made(d)') /\ (Fetched(d)' => Fetched(d))
    BY <1>0, <2>1 DEF Made, Fetched, Collecting
  <2>6. \A d \in Kids : kid'[d] \in {"started", "write"} => kid[d] \in {"started", "write"}
    BY <2>1
  <2>7. CASE Pipes!Write(c)
    <3>1. kid[c] = "write" /\ kid'[c] = "exit" /\ full' = full \cup {c} /\ wrote' = wrote \cup {c}
      BY <1>0, <2>7 DEF Pipes!Write, Pipes!Step
    <3>2. QED
      BY <1>0, <2>1, <2>2, <2>4, <2>5, <2>6, <3>1 DEF Sums
  <2>8. CASE ~Pipes!Write(c)
    <3>1. full' = full /\ wrote' = wrote
      BY <1>9, <2>8 DEF Pipes!Child, Pipes!CloseReads, Pipes!End, Pipes!Kill
    <3>2. QED
      BY <1>0, <2>1, <2>2, <2>4, <2>5, <2>6, <3>1 DEF Sums
  <2>9. QED
    BY <2>7, <2>8
<1>10. QED
  BY <1>0, <1>1, <1>2, <1>3, <1>4, <1>5, <1>6, <1>7, <1>8, <1>9 DEF Pipes!Next, Pipes!Parent

\* The programs of labs 1 and 2 and the FIFOs do not touch the pipes.
LEMMA PipesStep ==
    ASSUME PipesInv, [Next]_vars
    PROVE  PipesInv'
<1>1. CASE Pipes!Next
  <2>1. Pipes!TypeOK' /\ InRound' /\ Family' /\ Descriptors'
    BY <1>1, PipesTypeStep, InRoundStep, FamilyStep, DescriptorsStep
  <2>2. GoesOn' => Sums'
    BY <1>1, SumsStep
  <2>3. QED
    BY <2>1, <2>2 DEF PipesInv
<1>2. CASE UNCHANGED pipes
  <2>1. UNCHANGED <<tiny, k, idx, where, kid, read_ends, write_ends, full, total_sum, wrote>>
    BY <1>2 DEF pipes
  <2>2. Pipes!TypeOK' /\ InRound'
    BY <2>1 DEF PipesInv, Pipes!TypeOK, InRound, Creating, Collecting
  <2>3. Family'
    BY <2>1 DEF PipesInv, Family, Creating, Collecting, Made
  <2>4. Descriptors'
    BY <2>1 DEF PipesInv, Descriptors, Alive
  <2>5. GoesOn' => Sums'
    BY <2>1 DEF PipesInv, GoesOn, Sums, Made, Fetched, Collecting
  <2>6. QED
    BY <2>2, <2>3, <2>4, <2>5 DEF PipesInv
<1>3. QED
  BY <1>1, <1>2 DEF Next, vars, RunTree, RunSignals, RunPipes, RunFifos

\* PipesInv holds before anything is launched and for ever.
LEMMA PipesInvHolds == Spec => []PipesInv
<1>1. Init => PipesInv
  <2> SUFFICES ASSUME Pipes!Init PROVE PipesInv
    BY DEF Init
  <2>1. /\ MaxK \in Nat \ {0} /\ Kids = 0 .. (MaxK - 1) /\ Pipes!Kids = Kids /\ Main = MaxK
        /\ Pipes!Main = Main
    BY ExercisesAssumption DEF Kids, Pipes!Kids, Main, Pipes!Main
  <2>2. Pipes!TypeOK
    <3>1. tiny \in BOOLEAN
      BY Zenon DEF Pipes!Init
    <3>2. k \in 0 .. MaxK /\ idx \in Pipes!Kids
      BY <2>1 DEF Pipes!Init
    <3>3. kid \in [Pipes!Kids -> {"none", "started", "write", "exit", "zombie"}]
      BY DEF Pipes!Init
    <3>4. /\ read_ends \in [Pipes!Kids -> SUBSET (Pipes!Kids \cup {Pipes!Main})]
          /\ write_ends \in [Pipes!Kids -> SUBSET (Pipes!Kids \cup {Pipes!Main})]
      BY DEF Pipes!Init, Pipes!Nobody
    <3>5. QED
      BY <3>1, <3>2, <3>3, <3>4 DEF Pipes!Init, Pipes!TypeOK
  <2>3. InRound /\ Family
    BY <2>1 DEF Pipes!Init, InRound, Family, Creating, Collecting
  <2>4. Descriptors
    BY <2>1 DEF Pipes!Init, Pipes!Nobody, Descriptors, Alive
  <2>5. Sums
    BY <2>1 DEF Pipes!Init, Sums, Fetched, Collecting
  <2>6. QED
    BY <2>2, <2>3, <2>4, <2>5 DEF PipesInv
<1>2. PipesInv /\ [Next]_vars => PipesInv'
  BY PipesStep
<1>3. QED
  BY <1>1, <1>2, PTL DEF Spec

\* RoundAddsUp of Exercises.tla: the parent of main.c reports the sum of
\* exactly the parts that were written, and leaves no zombie, no descriptor
\* and no unread sum, for any number of children in a round.
THEOREM RoundAddsUpHolds == Spec => []RoundAddsUp
<1>1. PipesInv => RoundAddsUp
  <2> SUFFICES ASSUME PipesInv PROVE RoundAddsUp
    OBVIOUS
  <2>1. /\ Pipes!TypeOK /\ Family /\ Descriptors /\ Pipes!Kids = Kids /\ Pipes!Main = Main
    BY DEF PipesInv, Kids, Main
  <2>2. ASSUME where = "report"
        PROVE  /\ total_sum = wrote /\ full = {} /\ \A c \in Kids : kid[c] = "none"
               /\ read_ends = Pipes!Nobody /\ write_ends = Pipes!Nobody
    <3>1. Sums
      BY <2>2 DEF PipesInv, GoesOn
    <3>2. full = {}
      BY <2>1, <2>2, <3>1 DEF Sums, Fetched, Pipes!TypeOK
    <3>3. \A c \in Kids : kid[c] = "none"
      BY <2>1, <2>2 DEF Family
    <3>4. \A c \in Kids : read_ends[c] = {} /\ write_ends[c] = {}
      BY <2>1, <2>2, <3>3 DEF Descriptors, Alive, Pipes!TypeOK
    <3>5. read_ends = Pipes!Nobody /\ write_ends = Pipes!Nobody
      BY <2>1, <3>4 DEF Pipes!Nobody, Pipes!TypeOK
    <3>6. QED
      BY <3>1, <3>2, <3>3, <3>5 DEF Sums
  <2>3. QED
    BY <2>1, <2>2 DEF RoundAddsUp, Pipes!RoundAddsUp
<1>2. QED
  BY PipesInvHolds, <1>1, PTL

-----------------------------------------------------------------------------
(***************************************************************************)
(* Lab 1, ForkTree.                                                        *)
(***************************************************************************)
Pids == Tree!Pids
Root == Tree!Root
At(p, label) == procs[p].pc = label

Statements == {"free", "remove", "rm", "await", "error", "loop", "suspended", "start",
               "exec", "open", "lock", "line", "zombie", "reaped"}
Processes == [pc : Statements, parent : Pids \cup {0}, i : 0 .. MaxN, waits : 0 .. MaxN,
              lines : 0 .. Lines, status : {0, 1}]

\* The domains of the variables, without the bound on global.
TreeShape ==
    /\ exercise \in {"none", "fork", "vfork", "exec", "flock"} /\ n \in 0 .. MaxN
    /\ procs \in [Pids -> Processes]
    /\ global \in Nat /\ file \in BOOLEAN /\ holder \in Pids \cup {0}
    /\ output \in Seq(Pids)

\* Which processes can be where, and how far their loops have got.
Places ==
    /\ exercise = "none" => n = 0 /\ \A p \in Pids : At(p, "free")
    /\ \A p \in Pids :
        /\ procs[p].i <= n
        /\ At(p, "exec") => procs[p].i < n
        /\ At(p, "free") => procs[p].parent = 0
        /\ procs[p].pc \notin {"loop", "suspended", "zombie", "reaped"} => procs[p].waits = 0
        /\ At(p, "remove") => p = Root /\ \A q \in Pids \ {Root} : At(q, "free")
    /\ exercise = "flock" => \A p \in Pids : ~At(p, "start")

\* The process table has room for the root.
LEMMA PidsType ==
    /\ IsFiniteSet(Pids) /\ Pids \in SUBSET (Nat \ {0}) /\ Root \in Pids /\ Root = 1
    /\ Pids = 1 .. MaxProcs /\ Cardinality(Pids) = MaxProcs /\ MaxProcs \in Nat \ {0}
    /\ Tree!Pids = Pids /\ Tree!Root = Root /\ MaxN \in Nat /\ Lines \in Nat
<1>1. MaxProcs \in Nat \ {0} /\ MaxN \in Nat /\ Lines \in Nat
  BY ExercisesAssumption
<1>2. Pids = 1 .. MaxProcs /\ Root = 1
  BY DEF Pids, Root, Tree!Pids, Tree!Root
<1>3. IsFiniteSet(Pids) /\ Cardinality(Pids) = MaxProcs
  <2>1. ~(1 > MaxProcs) /\ MaxProcs - 1 + 1 = MaxProcs /\ 1 \in Int /\ MaxProcs \in Int
    BY <1>1
  <2>2. QED
    BY <1>2, <2>1, FS_Interval
<1>4. QED
  BY <1>1, <1>2, <1>3 DEF Pids, Root

\* A new process is one.
LEMMA NewProcess ==
    ASSUME NEW label \in Statements, NEW p \in Pids \cup {0}, NEW m \in 0 .. MaxN
    PROVE  Tree!Process(label, p, m) \in Processes
<1>1. MaxN \in Nat /\ Lines \in Nat
  BY ExercisesAssumption
<1>2. QED
  BY <1>1 DEF Processes, Tree!Process

\* A process that ends is one, and so is the parent it wakes.
LEMMA ExitType ==
    ASSUME procs \in [Pids -> Processes], NEW p \in Pids, NEW code \in {0, 1}, Tree!Exit(p, code)
    PROVE  procs' \in [Pids -> Processes]
<1>1. ASSUME NEW q \in Pids
      PROVE  /\ [procs[q] EXCEPT !.pc = "zombie", !.status = code] \in Processes
             /\ [procs[q] EXCEPT !.pc = "loop"] \in Processes
  BY DEF Processes, Statements
<1>2. procs' = [q \in Pids |->
        IF q = p THEN [procs[p] EXCEPT !.pc = "zombie", !.status = code]
        ELSE IF q = procs[p].parent /\ At(q, "suspended") THEN [procs[q] EXCEPT !.pc = "loop"]
        ELSE procs[q]]
  BY DEF Tree!Exit, Tree!At, At, Pids
<1>3. QED
  BY <1>1, <1>2

\* A process that goes to another statement is one.
LEMMA GotoType ==
    ASSUME procs \in [Pids -> Processes], NEW p \in Pids, NEW label \in Statements,
           Tree!Goto(p, label)
    PROVE  procs' \in [Pids -> Processes]
<1>1. [procs[p] EXCEPT !.pc = label] \in Processes
  BY DEF Processes
<1>2. QED
  BY <1>1 DEF Tree!Goto

\* Every step of ForkTree keeps the domains of its variables.
LEMMA TreeShapeStep ==
    ASSUME TreeShape, Places, Tree!Next
    PROVE  TreeShape'
<1>0. /\ procs \in [Pids -> Processes] /\ Root \in Pids /\ Tree!Pids = Pids /\ Tree!Root = Root
      /\ n \in 0 .. MaxN /\ MaxN \in Nat /\ Lines \in Nat
  BY PidsType DEF TreeShape
<1> DEFINE Kept == UNCHANGED <<exercise, n, global, file, holder, output>>
<1>1. ASSUME Kept, procs' \in [Pids -> Processes] PROVE TreeShape'
  BY <1>1 DEF TreeShape
<1>2. CASE Tree!Launch
  <2>1. procs' \in [Pids -> Processes]
    BY <1>0, <1>2 DEF Tree!Launch, Processes, Statements
  <2>2. /\ exercise' \in {"fork", "vfork", "exec", "flock"} /\ n' \in 0 .. MaxN
        /\ file' \in BOOLEAN /\ UNCHANGED <<global, holder, output>>
    BY <1>2 DEF Tree!Launch
  <2>3. QED
    BY <2>1, <2>2 DEF TreeShape
<1>3. ASSUME NEW p \in Pids, Tree!ForkRemover(p) PROVE TreeShape'
  <2>1. Kept
    BY <1>3 DEF Tree!ForkRemover, Tree!args, Tree!store
  <2>2. procs' \in [Pids -> Processes]
    <3>1. CASE procs' = [procs EXCEPT ![p].pc = "await", ![Root + 1] = Tree!Process("rm", p, 0)]
      <4>1. Tree!Process("rm", p, 0) \in Processes
        BY <1>0, NewProcess DEF Statements
      <4>2. [procs[p] EXCEPT !.pc = "await"] \in Processes
        BY <1>0 DEF Processes, Statements
      <4>3. QED
        BY <1>0, <3>1, <4>1, <4>2, PidsType
    <3>2. CASE Tree!StatusUnset(p)
      BY <1>0, <3>2, GotoType, ExitType DEF Tree!StatusUnset, Statements
    <3>3. QED
      BY <1>0, <1>3, <3>1, <3>2 DEF Tree!ForkRemover
  <2>3. QED
    BY <1>1, <2>1, <2>2
<1>4. ASSUME NEW p \in Pids, Tree!Remove(p) PROVE TreeShape'
  <2>1. UNCHANGED <<exercise, n, global, holder, output>> /\ file' \in BOOLEAN
    BY <1>4 DEF Tree!Remove, Tree!args, TreeShape
  <2>2. procs' \in [Pids -> Processes]
    BY <1>0, <1>4, GotoType, ExitType DEF Tree!Remove, Tree!StatusUnset, Statements
  <2>3. QED
    BY <2>1, <2>2 DEF TreeShape
<1>5. ASSUME NEW p \in Pids, Tree!AwaitRemover(p) PROVE TreeShape'
  <2>1. Kept
    BY <1>5 DEF Tree!AwaitRemover, Tree!args, Tree!store
  <2>2. procs' \in [Pids -> Processes]
    BY <1>0, <1>5 DEF Tree!AwaitRemover, Tree!ChildrenOf, Processes, Statements
  <2>3. QED
    BY <1>1, <2>1, <2>2
<1>6. ASSUME NEW p \in Pids, Tree!Refuse(p) \/ Tree!GiveUp(p) \/ Tree!Return(p) PROVE TreeShape'
  <2>1. Kept
    BY <1>6 DEF Tree!Refuse, Tree!GiveUp, Tree!Return, Tree!args, Tree!store
  <2>2. procs' \in [Pids -> Processes]
    BY <1>0, <1>6, ExitType DEF Tree!Refuse, Tree!GiveUp, Tree!Return
  <2>3. QED
    BY <1>1, <2>1, <2>2
<1>7. ASSUME NEW p \in Pids, Tree!Fork(p) PROVE TreeShape'
  <2>1. Kept /\ procs[p].i < n
    BY <1>7 DEF Tree!Fork, Tree!args, Tree!store
  <2>2. procs[p].i \in 0 .. MaxN /\ procs[p].i + 1 \in 0 .. MaxN
    BY <1>0, <2>1 DEF Processes
  <2>3. CASE procs' = [procs EXCEPT ![p].i = @ + 1]
    <3>1. [procs[p] EXCEPT !.i = @ + 1] \in Processes
      BY <1>0, <2>2 DEF Processes
    <3>2. QED
      BY <1>0, <1>1, <2>1, <2>3, <3>1
  <2>4. CASE procs' # [procs EXCEPT ![p].i = @ + 1]
    <3>1. PICK c \in Pids, first \in {"start", "exec"} :
            procs' = [procs EXCEPT ![p].i = @ + 1, ![p].pc = Tree!ParentAfterFork,
                                   ![c] = Tree!Process(first, p, procs[p].i)]
      BY <1>0, <1>7, <2>4 DEF Tree!Fork, Tree!Free
    <3>2. Tree!Process(first, p, procs[p].i) \in Processes
      BY <2>2, NewProcess DEF Statements
    <3>3. [procs[p] EXCEPT !.i = @ + 1, !.pc = Tree!ParentAfterFork] \in Processes
      BY <1>0, <2>2 DEF Processes, Statements, Tree!ParentAfterFork
    <3>4. procs' \in [Pids -> Processes]
      BY <1>0, <3>1, <3>2, <3>3
    <3>5. QED
      BY <1>1, <2>1, <3>4
  <2>5. QED
    BY <2>3, <2>4
<1>8. ASSUME NEW p \in Pids, Tree!Wait(p) PROVE TreeShape'
  <2>1. Kept /\ procs[p].waits < n
    BY <1>8 DEF Tree!Wait, Tree!Waiting, Tree!args, Tree!store
  <2>2. \A q \in Pids : [procs[q] EXCEPT !.pc = "reaped"] \in Processes
    BY <1>0 DEF Processes, Statements
  <2>3. procs[p].waits + 1 \in 0 .. MaxN
    BY <1>0, <2>1 DEF Processes
  <2>4. [procs[p] EXCEPT !.waits = @ + 1] \in Processes
    BY <1>0, <2>3 DEF Processes
  <2>5. [procs[p] EXCEPT !.waits = @ + 1, !.pc = "reaped"] \in Processes
    BY <1>0, <2>3 DEF Processes, Statements
  <2>6. procs' \in [Pids -> Processes]
    <3>1. CASE procs' = [procs EXCEPT ![p].waits = @ + 1]
      BY <1>0, <2>4, <3>1
    <3>2. ASSUME NEW c \in Pids, procs' = [procs EXCEPT ![p].waits = @ + 1, ![c].pc = "reaped"]
          PROVE  procs' \in [Pids -> Processes]
      BY <1>0, <2>2, <2>4, <2>5, <3>2
    <3>3. QED
      BY <1>0, <1>8, <3>1, <3>2 DEF Tree!Wait, Tree!ChildrenOf
  <2>7. QED
    BY <1>1, <2>1, <2>6
<1>9. ASSUME NEW p \in Pids, Tree!Increment(p) PROVE TreeShape'
  <2>1. procs' \in [Pids -> Processes]
    BY <1>0, <1>9, GotoType DEF Tree!Increment, Statements
  <2>2. UNCHANGED <<exercise, n, file, holder, output>> /\ global' \in Nat
    BY <1>9 DEF Tree!Increment, Tree!args, TreeShape
  <2>3. QED
    BY <2>1, <2>2 DEF TreeShape
<1>10. ASSUME NEW p \in Pids, Tree!Exec(p) PROVE TreeShape'
  <2>1. Kept /\ procs[p].i < n
    BY <1>10 DEF Tree!Exec, Tree!args, Tree!store, Places, At, Tree!At
  <2>2. [procs[p] EXCEPT !.pc = "loop", !.i = @ + 1] \in Processes
    <3>1. procs[p].i + 1 \in 0 .. MaxN
      BY <1>0, <2>1 DEF Processes
    <3>2. QED
      BY <1>0, <3>1 DEF Processes, Statements
  <2>3. procs' \in [Pids -> Processes]
    BY <1>0, <1>10, <2>2, GotoType DEF Tree!Exec, Statements
  <2>4. QED
    BY <1>1, <2>1, <2>3
<1>11. ASSUME NEW p \in Pids, Tree!Open(p) \/ Tree!Lock(p) PROVE TreeShape'
  <2>1. /\ UNCHANGED <<exercise, n, global, output>>
        /\ file' \in BOOLEAN /\ holder' \in Pids \cup {0}
    BY <1>11 DEF Tree!Open, Tree!Lock, Tree!args, TreeShape
  <2>2. procs' \in [Pids -> Processes]
    BY <1>0, <1>11, GotoType DEF Tree!Open, Tree!Lock, Statements
  <2>3. QED
    BY <2>1, <2>2 DEF TreeShape
<1>12. ASSUME NEW p \in Pids, Tree!WriteLine(p) PROVE TreeShape'
  <2>1. /\ UNCHANGED <<exercise, n, global, file, holder>> /\ output' = Append(output, p)
        /\ procs[p].lines < Lines /\ procs' = [procs EXCEPT ![p].lines = @ + 1]
    BY <1>12 DEF Tree!WriteLine, Tree!args
  <2>2. [procs[p] EXCEPT !.lines = @ + 1] \in Processes
    BY <1>0, <2>1, SMTT(30) DEF Processes
  <2>3. output' \in Seq(Pids)
    BY <2>1 DEF TreeShape
  <2>4. QED
    BY <1>0, <2>1, <2>2, <2>3 DEF TreeShape
<1>13. ASSUME NEW p \in Pids, Tree!EndChild(p) PROVE TreeShape'
  <2>1. UNCHANGED <<exercise, n, global, file, output>> /\ holder' \in Pids \cup {0}
    BY <1>13 DEF Tree!EndChild, Tree!args, TreeShape
  <2>2. procs' \in [Pids -> Processes]
    BY <1>0, <1>13, ExitType DEF Tree!EndChild
  <2>3. QED
    BY <2>1, <2>2 DEF TreeShape
<1>14. QED
  BY <1>0, <1>2, <1>3, <1>4, <1>5, <1>6, <1>7, <1>8, <1>9, <1>10, <1>11, <1>12, <1>13
    DEF Tree!Next, Tree!Main, Tree!Child

\* A process that goes from one statement to another takes its place in the
\* tree with it.
LEMMA GotoEffect ==
    ASSUME procs \in [Pids -> Processes], NEW p \in Pids, NEW label, Tree!Goto(p, label)
    PROVE  /\ procs'[p].pc = label
           /\ \A q \in Pids : /\ procs'[q].parent = procs[q].parent /\ procs'[q].i = procs[q].i
                              /\ procs'[q].waits = procs[q].waits
           /\ \A q \in Pids \ {p} : procs'[q] = procs[q]
BY DEF Tree!Goto, Processes

\* So does one that ends, and it wakes nobody but its parent.
LEMMA ExitEffect ==
    ASSUME procs \in [Pids -> Processes], NEW p \in Pids, NEW code, Tree!Exit(p, code)
    PROVE  /\ procs'[p].pc = "zombie"
           /\ \A q \in Pids : /\ procs'[q].parent = procs[q].parent /\ procs'[q].i = procs[q].i
                              /\ procs'[q].waits = procs[q].waits
           /\ \A q \in Pids \ {p} : procs'[q].pc =
                IF q = procs[p].parent /\ At(q, "suspended") THEN "loop" ELSE procs[q].pc
<1>1. procs' = [q \in Pids |->
        IF q = p THEN [procs[p] EXCEPT !.pc = "zombie", !.status = code]
        ELSE IF q = procs[p].parent /\ At(q, "suspended") THEN [procs[q] EXCEPT !.pc = "loop"]
        ELSE procs[q]]
  BY DEF Tree!Exit, Tree!At, At, Pids
<1>2. \A q \in Pids :
        procs'[q] = IF q = p THEN [procs[p] EXCEPT !.pc = "zombie", !.status = code]
                    ELSE IF q = procs[p].parent /\ At(q, "suspended")
                         THEN [procs[q] EXCEPT !.pc = "loop"] ELSE procs[q]
  BY <1>1
<1>3. \A q \in Pids : procs[q] \in Processes
  OBVIOUS
<1>4. /\ procs'[p].pc = "zombie" /\ procs'[p].parent = procs[p].parent
      /\ procs'[p].i = procs[p].i /\ procs'[p].waits = procs[p].waits
  BY <1>2, <1>3 DEF Processes
<1>5. ASSUME NEW q \in Pids \ {p}
      PROVE  /\ procs'[q].parent = procs[q].parent /\ procs'[q].i = procs[q].i
             /\ procs'[q].waits = procs[q].waits
             /\ procs'[q].pc =
                    IF q = procs[p].parent /\ At(q, "suspended") THEN "loop" ELSE procs[q].pc
  <2>1. CASE q = procs[p].parent /\ At(q, "suspended")
    <3>1. procs'[q] = [procs[q] EXCEPT !.pc = "loop"]
      BY <1>2, <1>5, <2>1
    <3>2. QED
      BY <1>3, <2>1, <3>1 DEF Processes
  <2>2. CASE ~(q = procs[p].parent /\ At(q, "suspended"))
    BY <1>2, <1>5, <2>2
  <2>3. QED
    BY <2>1, <2>2
<1>6. QED
  BY <1>4, <1>5

\* The steps that make no process and reap none.
Quiet(p) ==
    \/ Tree!StatusUnset(p) /\ At(p, "remove") /\ UNCHANGED <<exercise, n>>
    \/ Tree!Remove(p) \/ Tree!Refuse(p) \/ Tree!GiveUp(p) \/ Tree!Return(p) \/ Tree!Increment(p)
    \/ Tree!Open(p) \/ Tree!Lock(p) \/ Tree!WriteLine(p) \/ Tree!EndChild(p)

\* What such a step of p does to the tree.
LEMMA QuietEffect ==
    ASSUME TreeShape, NEW p \in Pids, Quiet(p)
    PROVE  /\ UNCHANGED <<exercise, n>>
           /\ \A q \in Pids : /\ procs'[q].parent = procs[q].parent /\ procs'[q].i = procs[q].i
                              /\ procs'[q].waits = procs[q].waits
           /\ \A q \in Pids \ {p} :
                procs'[q].pc = procs[q].pc \/ (At(q, "suspended") /\ At(q, "loop")')
           /\ \/ /\ At(p, "zombie")'
                 /\ \/ procs[p].pc \in {"remove", "rm", "error", "open", "lock", "line"}
                    \/ At(p, "loop") /\ procs[p].i >= n /\ procs[p].waits >= n
              \/ procs[p].pc \in {"remove", "rm"} /\ At(p, "loop")'
              \/ At(p, "start") /\ At(p, "line")'
              \/ At(p, "open") /\ At(p, "lock")'
              \/ procs[p].pc \in {"lock", "line"} /\ At(p, "line")'
<1>0. procs \in [Pids -> Processes]
  BY DEF TreeShape
<1>1. CASE Tree!StatusUnset(p) /\ At(p, "remove") /\ UNCHANGED <<exercise, n>>
  <2>1. CASE Tree!Goto(p, "loop")
    BY <1>0, <1>1, <2>1, GotoEffect DEF At
  <2>2. CASE Tree!Exit(p, 1)
    BY <1>0, <1>1, <2>2, ExitEffect DEF At
  <2>3. QED
    BY <1>1, <2>1, <2>2 DEF Tree!StatusUnset
<1>2. CASE Tree!Remove(p)
  <2>1. At(p, "rm") /\ UNCHANGED <<exercise, n>>
    BY <1>2 DEF Tree!Remove, Tree!At, At, Tree!args
  <2>2. CASE Tree!Goto(p, "loop")
    BY <1>0, <2>1, <2>2, GotoEffect DEF At
  <2>3. ASSUME NEW code, Tree!Exit(p, code)
        PROVE  /\ At(p, "zombie")'
               /\ \A q \in Pids : /\ procs'[q].parent = procs[q].parent /\ procs'[q].i = procs[q].i
                                  /\ procs'[q].waits = procs[q].waits
               /\ \A q \in Pids \ {p} :
                    procs'[q].pc = procs[q].pc \/ (At(q, "suspended") /\ At(q, "loop")')
    BY <1>0, <2>3, ExitEffect DEF At
  <2>4. QED
    BY <1>2, <2>1, <2>2, <2>3 DEF Tree!Remove, Tree!StatusUnset, At
<1>3. CASE Tree!Refuse(p) \/ Tree!GiveUp(p) \/ Tree!Return(p) \/ Tree!EndChild(p)
  <2>1. /\ UNCHANGED <<exercise, n>>
        /\ \/ procs[p].pc \in {"error", "open", "lock", "line"}
           \/ At(p, "loop") /\ procs[p].i >= n /\ procs[p].waits >= n
        /\ \E code \in {0, 1} : Tree!Exit(p, code)
    BY <1>3 DEF Tree!Refuse, Tree!GiveUp, Tree!Return, Tree!EndChild, Tree!At, At, Tree!args
  <2>2. QED
    BY <1>0, <2>1, ExitEffect DEF At
<1>4. CASE Tree!Increment(p)
  <2>1. At(p, "start") /\ Tree!Goto(p, "line") /\ UNCHANGED <<exercise, n>>
    BY <1>4 DEF Tree!Increment, Tree!At, At, Tree!args
  <2>2. QED
    BY <1>0, <2>1, GotoEffect DEF At
<1>5. CASE Tree!Open(p)
  <2>1. At(p, "open") /\ Tree!Goto(p, "lock") /\ UNCHANGED <<exercise, n>>
    BY <1>5 DEF Tree!Open, Tree!At, At, Tree!args
  <2>2. QED
    BY <1>0, <2>1, GotoEffect DEF At
<1>6. CASE Tree!Lock(p)
  <2>1. At(p, "lock") /\ Tree!Goto(p, "line") /\ UNCHANGED <<exercise, n>>
    BY <1>6 DEF Tree!Lock, Tree!At, At, Tree!args
  <2>2. QED
    BY <1>0, <2>1, GotoEffect DEF At
<1>7. CASE Tree!WriteLine(p)
  <2>1. /\ At(p, "line") /\ procs' = [procs EXCEPT ![p].lines = @ + 1]
        /\ UNCHANGED <<exercise, n>>
    BY <1>7 DEF Tree!WriteLine, Tree!At, At, Tree!args
  <2>2. procs'[p] = [procs[p] EXCEPT !.lines = @ + 1] /\ \A q \in Pids \ {p} : procs'[q] = procs[q]
    BY <1>0, <2>1
  <2>3. /\ procs'[p].pc = procs[p].pc /\ procs'[p].parent = procs[p].parent
        /\ procs'[p].i = procs[p].i /\ procs'[p].waits = procs[p].waits
    BY <1>0, <2>2 DEF Processes
  <2>4. QED
    BY <2>1, <2>2, <2>3 DEF At
<1>8. QED
  BY <1>1, <1>2, <1>3, <1>4, <1>5, <1>6, <1>7 DEF Quiet

\* A process that has made no remover yet makes one.
LEMMA ForkRemoverEffect ==
    ASSUME TreeShape, NEW p \in Pids, Tree!ForkRemover(p), ~Quiet(p)
    PROVE  /\ UNCHANGED <<exercise, n>> /\ At(p, "remove")
           /\ procs' = [procs EXCEPT ![p].pc = "await", ![Root + 1] = Tree!Process("rm", p, 0)]
BY DEF Tree!ForkRemover, Quiet, Tree!At, At, Tree!args, Root

\* A fork that succeeds makes the first free process a child.
LEMMA ForkEffect ==
    ASSUME TreeShape, Places, NEW p \in Pids, Tree!Fork(p)
    PROVE  /\ UNCHANGED <<exercise, n, global, file, holder, output>>
           /\ At(p, "loop") /\ procs[p].i < n /\ procs'[p].i = procs[p].i + 1
           /\ procs'[p].parent = procs[p].parent /\ procs'[p].waits = procs[p].waits
           /\ \/ At(p, "loop")' /\ \A q \in Pids \ {p} : procs'[q] = procs[q]
              \/ /\ procs'[p].pc = Tree!ParentAfterFork
                 /\ \E c \in Pids \ {p} :
                      /\ At(c, "free")
                      /\ procs'[c].pc = IF exercise \in {"fork", "vfork"} THEN "start" ELSE "exec"
                      /\ procs'[c].parent = p /\ procs'[c].i = procs[p].i /\ procs'[c].waits = 0
                      /\ \A q \in Pids \ {p, c} : procs'[q] = procs[q]
<1>0. procs \in [Pids -> Processes] /\ Tree!Pids = Pids
  BY PidsType DEF TreeShape
<1>1. At(p, "loop") /\ procs[p].i < n /\ UNCHANGED <<exercise, n, global, file, holder, output>>
  BY DEF Tree!Fork, Tree!At, At, Tree!args, Tree!store
<1>2. CASE procs' = [procs EXCEPT ![p].i = @ + 1]
  <2>1. procs'[p] = [procs[p] EXCEPT !.i = @ + 1] /\ \A q \in Pids \ {p} : procs'[q] = procs[q]
    BY <1>0, <1>2
  <2>2. /\ procs'[p].i = procs[p].i + 1 /\ procs'[p].pc = procs[p].pc
        /\ procs'[p].parent = procs[p].parent /\ procs'[p].waits = procs[p].waits
    BY <1>0, <2>1 DEF Processes
  <2>3. QED
    BY <1>1, <2>1, <2>2 DEF At
<1>3. CASE procs' # [procs EXCEPT ![p].i = @ + 1]
  <2> DEFINE first == IF exercise \in {"fork", "vfork"} THEN "start" ELSE "exec"
  <2>1. PICK c \in Pids :
            /\ At(c, "free")
            /\ procs' = [procs EXCEPT ![p].i = @ + 1, ![p].pc = Tree!ParentAfterFork,
                                      ![c] = Tree!Process(first, p, procs[p].i)]
    BY <1>0, <1>3 DEF Tree!Fork, Tree!Free, Tree!At, At
  <2>2. c # p
    BY <1>1, <2>1 DEF At
  <2>3. /\ procs'[c] = Tree!Process(first, p, procs[p].i)
        /\ procs'[p] = [procs[p] EXCEPT !.i = @ + 1, !.pc = Tree!ParentAfterFork]
        /\ \A q \in Pids \ {p, c} : procs'[q] = procs[q]
    BY <1>0, <2>1, <2>2
  <2>4. /\ procs'[p].i = procs[p].i + 1 /\ procs'[p].pc = Tree!ParentAfterFork
        /\ procs'[p].parent = procs[p].parent /\ procs'[p].waits = procs[p].waits
    BY <1>0, <2>3 DEF Processes
  <2>5. /\ procs'[c].pc = first /\ procs'[c].parent = p /\ procs'[c].i = procs[p].i
        /\ procs'[c].waits = 0
    BY <2>3 DEF Tree!Process
  <2>6. QED
    BY <1>1, <2>1, <2>2, <2>3, <2>4, <2>5
<1>4. QED
  BY <1>2, <1>3

\* A wait takes a child that has ended out of the table, or finds that there
\* is none.
LEMMA WaitEffect ==
    ASSUME TreeShape, NEW p \in Pids, Tree!Wait(p)
    PROVE  /\ UNCHANGED <<exercise, n, global, file, holder, output>>
           /\ At(p, "loop") /\ procs[p].i >= n /\ procs[p].waits < n
           /\ procs'[p].waits = procs[p].waits + 1
           /\ \A q \in Pids : procs'[q].parent = procs[q].parent /\ procs'[q].i = procs[q].i
           /\ \A q \in Pids \ {p} : procs'[q].waits = procs[q].waits
           /\ \/ Tree!ChildrenOf(p) = {} /\ \A q \in Pids : procs'[q].pc = procs[q].pc
              \/ \E c \in Tree!ChildrenOf(p) :
                    /\ At(c, "zombie") /\ At(c, "reaped")'
                    /\ \A q \in Pids \ {c} : procs'[q].pc = procs[q].pc
<1>0. procs \in [Pids -> Processes] /\ Tree!Pids = Pids
  BY PidsType DEF TreeShape
<1>1. /\ At(p, "loop") /\ procs[p].i >= n /\ procs[p].waits < n
      /\ UNCHANGED <<exercise, n, global, file, holder, output>>
  BY DEF Tree!Wait, Tree!Waiting, Tree!At, At, Tree!args, Tree!store
<1>2. CASE Tree!ChildrenOf(p) = {} /\ procs' = [procs EXCEPT ![p].waits = @ + 1]
  <2>1. procs'[p] = [procs[p] EXCEPT !.waits = @ + 1] /\ \A q \in Pids \ {p} : procs'[q] = procs[q]
    BY <1>0, <1>2
  <2>2. /\ procs'[p].i = procs[p].i /\ procs'[p].pc = procs[p].pc
        /\ procs'[p].parent = procs[p].parent /\ procs'[p].waits = procs[p].waits + 1
    BY <1>0, <2>1 DEF Processes
  <2>3. QED
    BY <1>1, <1>2, <2>1, <2>2 DEF At
<1>3. ASSUME NEW c \in Tree!ChildrenOf(p), Tree!At(c, "zombie"),
             procs' = [procs EXCEPT ![p].waits = @ + 1, ![c].pc = "reaped"]
      PROVE  /\ procs'[p].waits = procs[p].waits + 1
             /\ \A q \in Pids : procs'[q].parent = procs[q].parent /\ procs'[q].i = procs[q].i
             /\ \A q \in Pids \ {p} : procs'[q].waits = procs[q].waits
             /\ At(c, "zombie") /\ At(c, "reaped")'
             /\ \A q \in Pids \ {c} : procs'[q].pc = procs[q].pc
  <2>1. c \in Pids /\ c # p /\ At(c, "zombie")
    BY <1>0, <1>1, <1>3 DEF Tree!ChildrenOf, Tree!At, At
  <2>2. /\ procs'[p] = [procs[p] EXCEPT !.waits = @ + 1]
        /\ procs'[c] = [procs[c] EXCEPT !.pc = "reaped"]
        /\ \A q \in Pids \ {p, c} : procs'[q] = procs[q]
    BY <1>0, <1>3, <2>1
  <2>3. /\ procs'[p].i = procs[p].i /\ procs'[p].pc = procs[p].pc
        /\ procs'[p].parent = procs[p].parent /\ procs'[p].waits = procs[p].waits + 1
    BY <1>0, <2>2 DEF Processes
  <2>4. /\ procs'[c].i = procs[c].i /\ procs'[c].pc = "reaped"
        /\ procs'[c].parent = procs[c].parent /\ procs'[c].waits = procs[c].waits
    BY <1>0, <2>1, <2>2 DEF Processes
  <2>5. QED
    BY <2>1, <2>2, <2>3, <2>4 DEF At
<1>4. QED
  BY <1>1, <1>2, <1>3 DEF Tree!Wait, At

\* The remover has ended: its parent goes on or gives up.
LEMMA AwaitRemoverEffect ==
    ASSUME TreeShape, NEW p \in Pids, Tree!AwaitRemover(p)
    PROVE  /\ UNCHANGED <<exercise, n, global, file, holder, output>>
           /\ At(p, "await") /\ procs'[p].pc \in {"loop", "error"}
           /\ \A q \in Pids : /\ procs'[q].parent = procs[q].parent /\ procs'[q].i = procs[q].i
                              /\ procs'[q].waits = procs[q].waits
           /\ \E c \in Tree!ChildrenOf(p) :
                /\ At(c, "zombie") /\ At(c, "reaped")'
                /\ \A q \in Pids \ {p, c} : procs'[q].pc = procs[q].pc
<1>0. procs \in [Pids -> Processes] /\ Tree!Pids = Pids
  BY PidsType DEF TreeShape
<1>1. At(p, "await") /\ UNCHANGED <<exercise, n, global, file, holder, output>>
  BY DEF Tree!AwaitRemover, Tree!At, At, Tree!args, Tree!store
<1>2. PICK c \in Tree!ChildrenOf(p), label \in {"loop", "error"} :
        At(c, "zombie") /\ procs' = [procs EXCEPT ![c].pc = "reaped", ![p].pc = label]
  BY DEF Tree!AwaitRemover, Tree!At, At
<1>3. c \in Pids /\ c # p
  BY <1>0, <1>1, <1>2 DEF Tree!ChildrenOf, At
<1>4. /\ procs'[p] = [procs[p] EXCEPT !.pc = label] /\ procs'[c] = [procs[c] EXCEPT !.pc = "reaped"]
      /\ \A q \in Pids \ {p, c} : procs'[q] = procs[q]
  BY <1>0, <1>2, <1>3
<1>5. /\ procs'[p].pc = label /\ procs'[p].parent = procs[p].parent /\ procs'[p].i = procs[p].i
      /\ procs'[p].waits = procs[p].waits
  BY <1>0, <1>4 DEF Processes
<1>6. /\ procs'[c].pc = "reaped" /\ procs'[c].parent = procs[c].parent /\ procs'[c].i = procs[c].i
      /\ procs'[c].waits = procs[c].waits
  BY <1>0, <1>3, <1>4 DEF Processes
<1>7. QED
  BY <1>1, <1>2, <1>4, <1>5, <1>6 DEF At

\* A child is replaced by the other program, or goes on as a parent.
LEMMA ExecEffect ==
    ASSUME TreeShape, NEW p \in Pids, Tree!Exec(p)
    PROVE  /\ UNCHANGED <<exercise, n, global, file, holder, output>> /\ At(p, "exec")
           /\ \A q \in Pids : /\ procs'[q].parent = procs[q].parent
                              /\ procs'[q].waits = procs[q].waits
           /\ \A q \in Pids \ {p} : procs'[q] = procs[q]
           /\ \/ /\ procs'[p].pc = IF exercise = "flock" THEN "open" ELSE "line"
                 /\ procs'[p].i = procs[p].i
              \/ At(p, "loop")' /\ procs'[p].i = procs[p].i + 1
<1>0. procs \in [Pids -> Processes]
  BY DEF TreeShape
<1>1. At(p, "exec") /\ UNCHANGED <<exercise, n, global, file, holder, output>>
  BY DEF Tree!Exec, Tree!At, At, Tree!args, Tree!store
<1>2. CASE Tree!Goto(p, IF exercise = "flock" THEN "open" ELSE "line")
  BY <1>0, <1>1, <1>2, GotoEffect
<1>3. CASE procs' = [procs EXCEPT ![p].pc = "loop", ![p].i = @ + 1]
  <2>1. /\ procs'[p] = [procs[p] EXCEPT !.pc = "loop", !.i = @ + 1]
        /\ \A q \in Pids \ {p} : procs'[q] = procs[q]
    BY <1>0, <1>3
  <2>2. /\ procs'[p].pc = "loop" /\ procs'[p].parent = procs[p].parent
        /\ procs'[p].i = procs[p].i + 1 /\ procs'[p].waits = procs[p].waits
    BY <1>0, <2>1 DEF Processes
  <2>3. QED
    BY <1>1, <2>1, <2>2 DEF At
<1>4. QED
  BY <1>2, <1>3 DEF Tree!Exec

\* Before the launch there is nobody but the root, and then it runs.
LEMMA LaunchEffect ==
    ASSUME TreeShape, Tree!Launch
    PROVE  /\ exercise = "none" /\ exercise' # "none" /\ n' \in Nat
           /\ UNCHANGED <<global, holder, output>>
           /\ procs'[Root].pc = IF exercise' = "flock" THEN "remove" ELSE "loop"
           /\ procs'[Root].parent = procs[Root].parent /\ procs'[Root].i = procs[Root].i
           /\ procs'[Root].waits = procs[Root].waits
           /\ \A q \in Pids \ {Root} : procs'[q] = procs[q]
<1>0. procs \in [Pids -> Processes] /\ Root \in Pids /\ Tree!Root = Root
  BY PidsType DEF TreeShape
<1> DEFINE label == IF exercise' = "flock" THEN "remove" ELSE "loop"
<1>1. procs' = [procs EXCEPT ![Root].pc = label]
  BY <1>0 DEF Tree!Launch
<1>2. procs'[Root] = [procs[Root] EXCEPT !.pc = label] /\ \A q \in Pids \ {Root} : procs'[q] = procs[q]
  BY <1>0, <1>1
<1>3. /\ procs'[Root].pc = label /\ procs'[Root].parent = procs[Root].parent
      /\ procs'[Root].i = procs[Root].i /\ procs'[Root].waits = procs[Root].waits
  BY <1>0, <1>2 DEF Processes
<1>4. exercise = "none" /\ exercise' # "none" /\ n' \in Nat /\ UNCHANGED <<global, holder, output>>
  BY ExercisesAssumption DEF Tree!Launch
<1>5. QED
  BY <1>2, <1>3, <1>4

\* Every step of ForkTree keeps every process in its place.
LEMMA PlacesStep ==
    ASSUME TreeShape, Places, Tree!Next
    PROVE  Places'
<1>0. /\ procs \in [Pids -> Processes] /\ Root \in Pids /\ n \in Nat
      /\ Tree!Pids = Pids /\ Tree!Root = Root
  BY PidsType DEF TreeShape
<1>a. \A q \in Pids : procs[q].i \in Nat /\ procs[q].waits \in Nat
  BY <1>0, PidsType DEF Processes
<1>1. CASE Tree!Launch
  BY <1>0, <1>a, <1>1, LaunchEffect DEF Places, At
<1>2. ASSUME NEW p \in Pids, Quiet(p) PROVE Places'
  BY <1>0, <1>a, <1>2, QuietEffect DEF Places, At
<1>3. ASSUME NEW p \in Pids, Tree!ForkRemover(p), ~Quiet(p) PROVE Places'
  <2>1. /\ UNCHANGED <<exercise, n>> /\ p = Root /\ At(Root, "remove")
        /\ procs' = [procs EXCEPT ![Root].pc = "await", ![Root + 1] = Tree!Process("rm", p, 0)]
    BY <1>0, <1>3, ForkRemoverEffect DEF Places
  <2>2. Root + 1 # Root
    BY PidsType
  <2>3. \A q \in Pids : procs'[q] =
            IF q = Root THEN [procs[q] EXCEPT !.pc = "await"]
            ELSE IF q = Root + 1 THEN Tree!Process("rm", p, 0) ELSE procs[q]
    BY <1>0, <2>1, <2>2
  <2>4. /\ procs'[Root].pc = "await" /\ procs'[Root].parent = procs[Root].parent
        /\ procs'[Root].i = procs[Root].i /\ procs'[Root].waits = procs[Root].waits
    BY <1>0, <2>3 DEF Processes
  <2>5. /\ Tree!Process("rm", p, 0).pc = "rm" /\ Tree!Process("rm", p, 0).i = 0
        /\ Tree!Process("rm", p, 0).waits = 0
    BY DEF Tree!Process
  <2>6. QED
    BY <1>0, <2>1, <2>2, <2>3, <2>4, <2>5 DEF Places, At
<1>4. ASSUME NEW p \in Pids, Tree!AwaitRemover(p) PROVE Places'
  <2>1. PICK c \in Tree!ChildrenOf(p) :
            /\ At(c, "zombie") /\ At(c, "reaped")'
            /\ \A q \in Pids \ {p, c} : procs'[q].pc = procs[q].pc
    BY <1>4, AwaitRemoverEffect
  <2>2. c \in Pids
    BY <1>0 DEF Tree!ChildrenOf
  <2>3. QED
    BY <1>0, <1>4, <2>1, <2>2, AwaitRemoverEffect DEF Places, At
<1>5. ASSUME NEW p \in Pids, Tree!Fork(p) PROVE Places'
  BY <1>0, <1>a, <1>5, ForkEffect DEF Places, At, Tree!ParentAfterFork
<1>6. ASSUME NEW p \in Pids, Tree!Wait(p) PROVE Places'
  <2>1. \E c \in Pids :
            /\ (At(c, "zombie") /\ At(c, "reaped")') \/ procs'[c].pc = procs[c].pc
            /\ \A q \in Pids \ {c} : procs'[q].pc = procs[q].pc
    BY <1>0, <1>6, WaitEffect DEF Tree!ChildrenOf
  <2>2. QED
    BY <1>0, <1>6, <2>1, WaitEffect DEF Places, At
<1>7. ASSUME NEW p \in Pids, Tree!Exec(p) PROVE Places'
  BY <1>0, <1>a, <1>7, ExecEffect DEF Places, At
<1>8. QED
  BY <1>0, <1>1, <1>2, <1>3, <1>4, <1>5, <1>6, <1>7 DEF Tree!Next, Tree!Main, Tree!Child, Quiet

\* A parent that has made its children has no more of them than it has waits
\* before it, and whoever is not in its loops has none.
KinCount ==
    \A p \in Pids :
        /\ procs[p].pc \in {"loop", "suspended"} =>
            Cardinality(Tree!ChildrenOf(p)) <= procs[p].i - procs[p].waits
        /\ At(p, "await") => Cardinality(Tree!ChildrenOf(p)) <= 1
        /\ procs[p].pc \notin {"loop", "suspended", "await"} => Tree!ChildrenOf(p) = {}

\* The children of a process are finitely many.
LEMMA ChildrenType ==
    \A p \in Pids : /\ Tree!ChildrenOf(p) \in SUBSET Pids /\ IsFiniteSet(Tree!ChildrenOf(p))
                    /\ Cardinality(Tree!ChildrenOf(p)) \in Nat
<1> SUFFICES ASSUME NEW p \in Pids
    PROVE  /\ Tree!ChildrenOf(p) \in SUBSET Pids /\ IsFiniteSet(Tree!ChildrenOf(p))
           /\ Cardinality(Tree!ChildrenOf(p)) \in Nat
  OBVIOUS
<1>1. Tree!ChildrenOf(p) \in SUBSET Pids
  BY PidsType DEF Tree!ChildrenOf
<1>2. QED
  BY <1>1, PidsType, FS_Subset, FS_CardinalityType

\* A step that neither makes nor reaps a process leaves every family as it is.
LEMMA SameChildren ==
    ASSUME \A q \in Pids : /\ procs'[q].parent = procs[q].parent
                           /\ At(q, "reaped")' <=> At(q, "reaped")
    PROVE  \A p \in Pids : Tree!ChildrenOf(p)' = Tree!ChildrenOf(p)
BY PidsType DEF Tree!ChildrenOf, Tree!At, At

\* A step that reaps a child takes it from its parent.
LEMMA ChildReaped ==
    ASSUME NEW p \in Pids, NEW c \in Tree!ChildrenOf(p), At(c, "reaped")',
           \A q \in Pids : procs'[q].parent = procs[q].parent,
           \A q \in Pids \ {c} : At(q, "reaped")' <=> At(q, "reaped")
    PROVE  /\ \A q \in Pids \ {p} : Tree!ChildrenOf(q)' = Tree!ChildrenOf(q)
           /\ Tree!ChildrenOf(p)' = Tree!ChildrenOf(p) \ {c}
           /\ Cardinality(Tree!ChildrenOf(p)') = Cardinality(Tree!ChildrenOf(p)) - 1
<1>1. c \in Pids /\ procs[c].parent = p
  BY PidsType DEF Tree!ChildrenOf
<1>2. \A q \in Pids \ {p} : Tree!ChildrenOf(q)' = Tree!ChildrenOf(q)
  BY <1>1, PidsType DEF Tree!ChildrenOf, Tree!At, At
<1>3. Tree!ChildrenOf(p)' = Tree!ChildrenOf(p) \ {c}
  BY <1>1, PidsType DEF Tree!ChildrenOf, Tree!At, At
<1>4. Cardinality(Tree!ChildrenOf(p) \ {c}) = Cardinality(Tree!ChildrenOf(p)) - 1
  BY ChildrenType, FS_RemoveElement
<1>5. QED
  BY <1>2, <1>3, <1>4

\* A step that makes a process adds it to the children of its parent.
LEMMA ChildMade ==
    ASSUME NEW p \in Pids, NEW c \in Pids \ {p}, procs[c].parent = 0, procs'[c].parent = p,
           ~At(c, "reaped")',
           \A q \in Pids \ {c} : /\ procs'[q].parent = procs[q].parent
                                 /\ At(q, "reaped")' <=> At(q, "reaped")
    PROVE  /\ \A q \in Pids \ {p} : Tree!ChildrenOf(q)' = Tree!ChildrenOf(q)
           /\ Tree!ChildrenOf(p)' = Tree!ChildrenOf(p) \cup {c}
           /\ Cardinality(Tree!ChildrenOf(p)') = Cardinality(Tree!ChildrenOf(p)) + 1
<1>1. /\ \A q \in Pids : /\ Tree!ChildrenOf(q) = {x \in Pids : procs[x].parent = q /\ ~At(x, "reaped")}
                         /\ Tree!ChildrenOf(q)' = {x \in Pids : procs'[x].parent = q /\ ~At(x, "reaped")'}
      /\ p # 0 /\ \A q \in Pids : q # 0
  BY PidsType DEF Tree!ChildrenOf, Tree!At, At
<1>2. ASSUME NEW q \in Pids \ {p} PROVE Tree!ChildrenOf(q)' = Tree!ChildrenOf(q)
  <2>1. c \notin Tree!ChildrenOf(q)' /\ c \notin Tree!ChildrenOf(q)
    BY <1>1
  <2>2. \A x \in Pids \ {c} : x \in Tree!ChildrenOf(q)' <=> x \in Tree!ChildrenOf(q)
    BY <1>1
  <2>3. QED
    BY <1>1, <2>1, <2>2
<1>3. Tree!ChildrenOf(p)' = Tree!ChildrenOf(p) \cup {c} /\ c \notin Tree!ChildrenOf(p)
  <2>1. c \in Tree!ChildrenOf(p)' /\ c \notin Tree!ChildrenOf(p)
    BY <1>1
  <2>2. \A x \in Pids \ {c} : x \in Tree!ChildrenOf(p)' <=> x \in Tree!ChildrenOf(p)
    BY <1>1
  <2>3. QED
    BY <1>1, <2>1, <2>2
<1>4. Cardinality(Tree!ChildrenOf(p) \cup {c}) = Cardinality(Tree!ChildrenOf(p)) + 1
  BY <1>3, ChildrenType, FS_AddElement
<1>5. QED
  BY <1>2, <1>3, <1>4

\* Every step of ForkTree keeps the count of the children.
LEMMA KinCountStep ==
    ASSUME TreeShape, Places, KinCount, Tree!Next
    PROVE  KinCount'
<1>0. /\ procs \in [Pids -> Processes] /\ Root \in Pids /\ n \in Nat
      /\ Tree!Pids = Pids /\ Tree!Root = Root
  BY PidsType DEF TreeShape
<1>a. \A q \in Pids : /\ procs[q].i \in Nat /\ procs[q].waits \in Nat /\ procs[q].i <= n
                      /\ Cardinality(Tree!ChildrenOf(q)) \in Nat
  BY <1>0, PidsType, ChildrenType DEF Processes, Places
<1>b. Cardinality({}) = 0
  BY FS_EmptySet
<1>1. CASE Tree!Launch
  <2>1. \A q \in Pids : Tree!ChildrenOf(q)' = Tree!ChildrenOf(q)
    BY <1>0, <1>1, LaunchEffect, SameChildren DEF Places, At
  <2>2. \A q \in Pids : Tree!ChildrenOf(q) = {} /\ procs[q].waits = 0
    BY <1>0, <1>1, LaunchEffect DEF KinCount, Places, At
  <2>3. QED
    BY <1>0, <1>a, <1>b, <1>1, <2>1, <2>2, LaunchEffect DEF KinCount, At
<1>2. ASSUME NEW p \in Pids, Quiet(p) PROVE KinCount'
  <2>1. \A q \in Pids : Tree!ChildrenOf(q)' = Tree!ChildrenOf(q)
    BY <1>0, <1>2, QuietEffect, SameChildren DEF At
  <2>2. \A q \in Pids \ {p} : /\ procs'[q].i = procs[q].i /\ procs'[q].waits = procs[q].waits
                              /\ procs'[q].pc = procs[q].pc \/ (At(q, "suspended") /\ At(q, "loop")')
    BY <1>2, QuietEffect
  <2>3. ASSUME procs[p].pc \in {"remove", "rm", "start", "error", "open", "lock", "line"}
        PROVE  Tree!ChildrenOf(p) = {} /\ procs'[p].waits = 0 /\ procs'[p].i \in Nat
    BY <1>a, <1>2, <2>3, QuietEffect DEF KinCount, Places
  <2>4. ASSUME At(p, "loop"), procs[p].i >= n, procs[p].waits >= n
        PROVE  Tree!ChildrenOf(p) = {}
    <3>1. Cardinality(Tree!ChildrenOf(p)) <= procs[p].i - procs[p].waits
      BY <2>4 DEF KinCount, At
    <3>2. Cardinality(Tree!ChildrenOf(p)) = 0
      BY <1>0, <1>a, <2>4, <3>1
    <3>3. QED
      BY <3>2, ChildrenType, FS_EmptySet
  <2>5. \/ At(p, "zombie")' /\ Tree!ChildrenOf(p) = {}
        \/ /\ Tree!ChildrenOf(p) = {} /\ procs'[p].waits = 0 /\ procs'[p].i \in Nat
           /\ procs'[p].pc # "await"
    BY <1>2, <2>3, <2>4, QuietEffect DEF At
  <2>6. Tree!ChildrenOf(p)' = {} /\ (At(p, "zombie")' \/ 0 <= procs'[p].i - procs'[p].waits)
    BY <2>1, <2>5
  <2>7. procs'[p].pc # "await"
    BY <2>5 DEF At
  <2>8. QED
    BY <1>b, <2>1, <2>2, <2>6, <2>7 DEF KinCount, At
<1>3. ASSUME NEW p \in Pids, Tree!ForkRemover(p), ~Quiet(p) PROVE KinCount'
  <2>1. /\ p = Root /\ At(Root, "remove") /\ Tree!ChildrenOf(Root) = {}
        /\ \A q \in Pids \ {Root} : At(q, "free") /\ procs[q].parent = 0
        /\ procs' = [procs EXCEPT ![Root].pc = "await", ![Root + 1] = Tree!Process("rm", p, 0)]
    BY <1>0, <1>3, ForkRemoverEffect DEF Places, KinCount, At
  <2>2. Root + 1 # Root
    BY PidsType
  <2>3. \A q \in Pids : procs'[q] =
            IF q = Root THEN [procs[q] EXCEPT !.pc = "await"]
            ELSE IF q = Root + 1 THEN Tree!Process("rm", p, 0) ELSE procs[q]
    BY <1>0, <2>1, <2>2
  <2>4. procs'[Root].pc = "await" /\ procs'[Root].parent = procs[Root].parent
    BY <1>0, <2>3 DEF Processes
  <2>5. Tree!Process("rm", p, 0).pc = "rm" /\ Tree!Process("rm", p, 0).parent = p
    BY DEF Tree!Process
  <2>6. /\ \A q \in Pids \ {Root} : Tree!ChildrenOf(q)' = Tree!ChildrenOf(q)
        /\ Cardinality(Tree!ChildrenOf(Root)') <= 1
    <3>1. CASE Root + 1 \in Pids
      <4> DEFINE c == Root + 1
      <4>1. c \in Pids \ {Root} /\ procs[c].parent = 0 /\ procs'[c].parent = Root /\ ~At(c, "reaped")'
        BY <2>1, <2>2, <2>3, <2>5, <3>1 DEF At
      <4>2. \A q \in Pids \ {c} : /\ procs'[q].parent = procs[q].parent
                                  /\ At(q, "reaped")' <=> At(q, "reaped")
        BY <2>1, <2>3, <2>4 DEF At
      <4> HIDE DEF c
      <4>3. /\ \A q \in Pids \ {Root} : Tree!ChildrenOf(q)' = Tree!ChildrenOf(q)
            /\ Cardinality(Tree!ChildrenOf(Root)') = Cardinality(Tree!ChildrenOf(Root)) + 1
        BY <1>0, <4>1, <4>2, ChildMade
      <4>4. Cardinality(Tree!ChildrenOf(Root)) = 0
        BY <1>b, <2>1
      <4>5. QED
        BY <4>3, <4>4
    <3>2. CASE Root + 1 \notin Pids
      <4>1. \A q \in Pids : procs'[q].parent = procs[q].parent /\ (At(q, "reaped")' <=> At(q, "reaped"))
        BY <2>1, <2>3, <2>4, <3>2 DEF At
      <4>2. \A q \in Pids : Tree!ChildrenOf(q)' = Tree!ChildrenOf(q)
        BY <4>1, SameChildren
      <4>3. Cardinality(Tree!ChildrenOf(Root)') = 0
        BY <1>0, <1>b, <2>1, <4>2
      <4>4. QED
        BY <4>2, <4>3
    <3>3. QED
      BY <3>1, <3>2
  <2>7. \A q \in Pids \ {Root} : /\ Tree!ChildrenOf(q) = {}
                                 /\ procs'[q].pc \in {"free", "rm"}
    BY <2>1, <2>3, <2>5 DEF KinCount, At
  <2>8. QED
    BY <2>4, <2>6, <2>7 DEF KinCount, At
<1>4. ASSUME NEW p \in Pids, Tree!AwaitRemover(p) PROVE KinCount'
  <2>1. PICK c \in Tree!ChildrenOf(p) :
            /\ At(c, "zombie") /\ At(c, "reaped")'
            /\ \A q \in Pids \ {p, c} : procs'[q].pc = procs[q].pc
    BY <1>4, AwaitRemoverEffect
  <2>2. /\ At(p, "await") /\ procs'[p].pc \in {"loop", "error"} /\ c \in Pids
        /\ Cardinality(Tree!ChildrenOf(p)) <= 1
        /\ \A q \in Pids : /\ procs'[q].parent = procs[q].parent /\ procs'[q].i = procs[q].i
                           /\ procs'[q].waits = procs[q].waits
    BY <1>0, <1>4, AwaitRemoverEffect, ChildrenType DEF KinCount
  <2>3. \A q \in Pids \ {c} : At(q, "reaped")' <=> At(q, "reaped")
    BY <2>1, <2>2 DEF At
  <2>4. /\ \A q \in Pids \ {p} : Tree!ChildrenOf(q)' = Tree!ChildrenOf(q)
        /\ Tree!ChildrenOf(p)' = Tree!ChildrenOf(p) \ {c}
        /\ Cardinality(Tree!ChildrenOf(p)') = Cardinality(Tree!ChildrenOf(p)) - 1
    BY <2>1, <2>2, <2>3, ChildReaped
  <2>5. Tree!ChildrenOf(p)' = {}
    <3>1. IsFiniteSet(Tree!ChildrenOf(p)') /\ Cardinality(Tree!ChildrenOf(p)') \in Nat
      BY <2>4, ChildrenType, FS_RemoveElement, FS_CardinalityType
    <3>2. Cardinality(Tree!ChildrenOf(p)') = 0
      BY <1>a, <2>2, <2>4, <3>1
    <3>3. QED
      BY <3>1, <3>2, FS_EmptySet
  <2>6. procs'[p].waits = 0 /\ procs'[p].i \in Nat
    BY <1>a, <2>2 DEF Places, At
  <2>7. \A q \in Pids \ {p} : \/ procs'[q].pc = procs[q].pc
                              \/ procs[q].pc = "zombie" /\ procs'[q].pc = "reaped"
    BY <2>1 DEF At
  <2>8. 0 <= procs'[p].i - procs'[p].waits /\ Cardinality(Tree!ChildrenOf(p)') = 0
    BY <1>b, <2>5, <2>6
  <2>9. QED
    BY <2>2, <2>4, <2>5, <2>7, <2>8 DEF KinCount, At
<1>5. ASSUME NEW p \in Pids, Tree!Fork(p) PROVE KinCount'
  <2>1. /\ At(p, "loop") /\ procs[p].i < n /\ procs'[p].i = procs[p].i + 1
        /\ procs'[p].parent = procs[p].parent /\ procs'[p].waits = procs[p].waits
        /\ Cardinality(Tree!ChildrenOf(p)) <= procs[p].i - procs[p].waits
    BY <1>5, ForkEffect DEF KinCount, At
  <2>2. CASE At(p, "loop")' /\ \A q \in Pids \ {p} : procs'[q] = procs[q]
    <3>1. \A q \in Pids : Tree!ChildrenOf(q)' = Tree!ChildrenOf(q)
      BY <2>1, <2>2, SameChildren DEF At
    <3>2. QED
      BY <1>a, <2>1, <2>2, <3>1 DEF KinCount, At
  <2>3. ASSUME NEW c \in Pids \ {p}, At(c, "free"), procs'[p].pc = Tree!ParentAfterFork,
               procs'[c].pc = IF exercise \in {"fork", "vfork"} THEN "start" ELSE "exec",
               procs'[c].parent = p,
               \A q \in Pids \ {p, c} : procs'[q] = procs[q]
        PROVE  KinCount'
    <3>1. procs'[p].pc \in {"loop", "suspended"}
      BY <2>3 DEF Tree!ParentAfterFork
    <3>2. procs[c].parent = 0 /\ ~At(c, "reaped")' /\ procs'[c].pc \in {"start", "exec"}
      BY <2>3 DEF Places, At
    <3>3. \A q \in Pids \ {c} : /\ procs'[q].parent = procs[q].parent
                                /\ At(q, "reaped")' <=> At(q, "reaped")
      BY <2>1, <2>3, <3>1 DEF At
    <3>4. /\ \A q \in Pids \ {p} : Tree!ChildrenOf(q)' = Tree!ChildrenOf(q)
          /\ Cardinality(Tree!ChildrenOf(p)') = Cardinality(Tree!ChildrenOf(p)) + 1
      BY <2>3, <3>2, <3>3, ChildMade
    <3>5. Tree!ChildrenOf(c) = {}
      BY <2>3 DEF KinCount, At
    <3>6. Cardinality(Tree!ChildrenOf(p)') <= procs'[p].i - procs'[p].waits
      BY <1>a, <2>1, <3>4
    <3>7. QED
      BY <2>3, <3>1, <3>2, <3>4, <3>5, <3>6 DEF KinCount, At
  <2>4. QED
    BY <1>5, <2>2, <2>3, ForkEffect
<1>6. ASSUME NEW p \in Pids, Tree!Wait(p) PROVE KinCount'
  <2>1. /\ At(p, "loop") /\ procs[p].i >= n /\ procs[p].waits < n
        /\ procs'[p].waits = procs[p].waits + 1
        /\ \A q \in Pids : procs'[q].parent = procs[q].parent /\ procs'[q].i = procs[q].i
        /\ \A q \in Pids \ {p} : procs'[q].waits = procs[q].waits
        /\ Cardinality(Tree!ChildrenOf(p)) <= procs[p].i - procs[p].waits
    BY <1>6, WaitEffect DEF KinCount, At
  <2>2. CASE Tree!ChildrenOf(p) = {} /\ \A q \in Pids : procs'[q].pc = procs[q].pc
    <3>1. \A q \in Pids : Tree!ChildrenOf(q)' = Tree!ChildrenOf(q)
      BY <2>1, <2>2, SameChildren DEF At
    <3>2. 0 <= procs'[p].i - procs'[p].waits
      BY <1>0, <1>a, <2>1
    <3>3. QED
      BY <1>b, <2>1, <2>2, <3>1, <3>2 DEF KinCount, At
  <2>3. ASSUME NEW c \in Tree!ChildrenOf(p), At(c, "zombie"), At(c, "reaped")',
               \A q \in Pids \ {c} : procs'[q].pc = procs[q].pc
        PROVE  KinCount'
    <3>1. c \in Pids /\ \A q \in Pids \ {c} : At(q, "reaped")' <=> At(q, "reaped")
      BY <2>3, ChildrenType DEF At
    <3>2. /\ \A q \in Pids \ {p} : Tree!ChildrenOf(q)' = Tree!ChildrenOf(q)
          /\ Cardinality(Tree!ChildrenOf(p)') = Cardinality(Tree!ChildrenOf(p)) - 1
      BY <2>1, <2>3, <3>1, ChildReaped
    <3>3. Cardinality(Tree!ChildrenOf(p)') <= procs'[p].i - procs'[p].waits
      BY <1>a, <2>1, <3>2
    <3>4. c # p
      BY <2>1, <2>3 DEF At
    <3>5. QED
      BY <2>1, <2>3, <3>1, <3>2, <3>3, <3>4 DEF KinCount, At
  <2>4. QED
    BY <1>6, <2>2, <2>3, WaitEffect
<1>7. ASSUME NEW p \in Pids, Tree!Exec(p) PROVE KinCount'
  <2>1. \A q \in Pids : Tree!ChildrenOf(q)' = Tree!ChildrenOf(q)
    BY <1>7, ExecEffect, SameChildren DEF At
  <2>2. Tree!ChildrenOf(p) = {} /\ procs'[p].waits = 0 /\ procs'[p].i \in Nat
    BY <1>a, <1>7, ExecEffect DEF KinCount, Places, At
  <2>3. 0 <= procs'[p].i - procs'[p].waits /\ Cardinality(Tree!ChildrenOf(p)') = 0
    BY <1>b, <2>1, <2>2
  <2>4. procs'[p].pc # "await" /\ \A q \in Pids \ {p} : procs'[q] = procs[q]
    BY <1>7, ExecEffect DEF At
  <2>5. QED
    BY <2>1, <2>2, <2>3, <2>4 DEF KinCount, At
<1>8. QED
  BY <1>0, <1>1, <1>2, <1>3, <1>4, <1>5, <1>6, <1>7 DEF Tree!Next, Tree!Main, Tree!Child, Quiet

\* After vfork the children are those of the root, one at a time, and the
\* root is suspended as long as one of them runs.
VforkFamily ==
    /\ procs[Root].pc \in {"loop", "suspended", "zombie"}
    /\ \A p \in Pids \ {Root} :
        /\ procs[p].pc \in {"free", "start", "line", "zombie", "reaped"}
        /\ ~At(p, "free") => procs[p].parent = Root
        /\ procs[p].pc \in {"start", "line"} => At(Root, "suspended")
    /\ \A p, q \in Pids \ {Root} :
        procs[p].pc \in {"start", "line"} /\ procs[q].pc \in {"start", "line"} => p = q

\* Each child increments the global of the root once.
Incremented == {p \in Pids \ {Root} : procs[p].pc \in {"line", "zombie", "reaped"}}
GlobalCount == global = IF exercise = "vfork" THEN 1 + Cardinality(Incremented) ELSE 1

\* Who writes under flock holds the lock.
LockHeld == exercise = "flock" => \A p \in Pids : At(p, "line") => holder = p

\* Under vfork nothing but the loops of the root and the lines of a child
\* happens.
LEMMA VforkSteps ==
    ASSUME TreeShape, VforkFamily, exercise = "vfork", NEW p \in Pids,
           Tree!Main(p) \/ Tree!Child(p) \/ Tree!GiveUp(p)
    PROVE  \/ p = Root /\ (Tree!Fork(p) \/ Tree!Wait(p) \/ Tree!Return(p))
           \/ p # Root /\ (Tree!Increment(p) \/ Tree!WriteLine(p) \/ Tree!EndChild(p))
<1>1. /\ procs[p].pc \in {"free", "start", "line", "zombie", "reaped", "loop", "suspended"}
      /\ procs[p].pc \in {"loop", "suspended"} => p = Root
      /\ procs[p].pc \in {"start", "line"} => p # Root
  BY DEF VforkFamily
<1>2. /\ ~Tree!ForkRemover(p) /\ ~Tree!Remove(p) /\ ~Tree!AwaitRemover(p) /\ ~Tree!Refuse(p)
      /\ ~Tree!Exec(p) /\ ~Tree!Open(p) /\ ~Tree!Lock(p) /\ ~Tree!GiveUp(p)
  BY <1>1 DEF Tree!ForkRemover, Tree!Remove, Tree!AwaitRemover, Tree!Refuse, Tree!Exec, Tree!Open,
    Tree!Lock, Tree!GiveUp, Tree!At
<1>3. /\ Tree!Fork(p) \/ Tree!Wait(p) \/ Tree!Return(p) => procs[p].pc = "loop"
      /\ Tree!Increment(p) => procs[p].pc = "start"
      /\ Tree!WriteLine(p) \/ Tree!EndChild(p) => procs[p].pc = "line"
  BY DEF Tree!Fork, Tree!Wait, Tree!Waiting, Tree!Return, Tree!Increment, Tree!WriteLine,
    Tree!EndChild, Tree!At
<1>4. QED
  BY <1>1, <1>2, <1>3 DEF Tree!Main, Tree!Child

\* What a step under vfork does to the processes.
LEMMA VforkEffect ==
    ASSUME TreeShape, Places, VforkFamily, exercise = "vfork", NEW p \in Pids,
           Tree!Main(p) \/ Tree!Child(p) \/ Tree!GiveUp(p)
    PROVE  /\ exercise' = exercise
           /\ \A q \in Pids : At(q, "free") \/ procs'[q].parent = procs[q].parent
           /\ \/ /\ p = Root /\ At(Root, "loop") /\ At(Root, "loop")' /\ global' = global
                 /\ \A q \in Pids \ {Root} : procs'[q] = procs[q]
              \/ /\ p = Root /\ At(Root, "loop") /\ At(Root, "suspended")' /\ global' = global
                 /\ \E c \in Pids \ {Root} :
                      /\ At(c, "free") /\ At(c, "start")' /\ procs'[c].parent = Root
                      /\ \A q \in Pids \ {Root, c} : procs'[q] = procs[q]
              \/ /\ p = Root /\ At(Root, "loop") /\ At(Root, "loop")' /\ global' = global
                 /\ \A q \in Pids \ {Root} : /\ procs'[q].parent = procs[q].parent
                                             /\ \/ procs'[q].pc = procs[q].pc
                                                \/ At(q, "zombie") /\ At(q, "reaped")'
              \/ /\ p = Root /\ At(Root, "loop") /\ At(Root, "zombie")' /\ global' = global
                 /\ \A q \in Pids \ {Root} : procs'[q].pc = procs[q].pc
              \/ /\ p # Root /\ At(p, "start") /\ At(p, "line")' /\ global' = global + 1
                 /\ \A q \in Pids \ {p} : procs'[q] = procs[q]
              \/ /\ p # Root /\ At(p, "line") /\ At(p, "line")' /\ global' = global
                 /\ \A q \in Pids \ {p} : procs'[q] = procs[q]
              \/ /\ p # Root /\ At(p, "line") /\ At(p, "zombie")' /\ global' = global
                 /\ At(Root, "suspended") /\ At(Root, "loop")'
                 /\ \A q \in Pids \ {p, Root} : procs'[q].pc = procs[q].pc
<1>0. procs \in [Pids -> Processes] /\ Root \in Pids /\ 0 \notin Pids
  BY PidsType DEF TreeShape
<1>1. CASE p = Root /\ Tree!Fork(p)
  BY <1>0, <1>1, ForkEffect DEF Tree!ParentAfterFork, At
<1>2. CASE p = Root /\ Tree!Wait(p)
  <2>1. /\ exercise' = exercise /\ global' = global /\ At(p, "loop")
        /\ \A q \in Pids : procs'[q].parent = procs[q].parent
    BY <1>2, WaitEffect
  <2>2. \A q \in Pids : \/ procs'[q].pc = procs[q].pc
                        \/ At(q, "zombie") /\ At(q, "reaped")'
    BY <1>2, WaitEffect
  <2>3. At(Root, "loop")'
    BY <1>0, <1>2, <2>1, <2>2 DEF At
  <2>4. QED
    BY <1>2, <2>1, <2>2, <2>3
<1>3. CASE p = Root /\ Tree!Return(p)
  <2>1. At(p, "loop") /\ Tree!Exit(p, 0) /\ exercise' = exercise /\ global' = global
    BY <1>3 DEF Tree!Return, Tree!At, At, Tree!args, Tree!store
  <2>2. \A q \in Pids \ {Root} : ~At(q, "suspended")
    BY DEF VforkFamily, At
  <2>3. QED
    BY <1>0, <1>3, <2>1, <2>2, ExitEffect DEF At
<1>4. CASE p # Root /\ Tree!Increment(p)
  <2>1. At(p, "start") /\ Tree!Goto(p, "line") /\ exercise' = exercise /\ global' = global + 1
    BY <1>4 DEF Tree!Increment, Tree!At, At, Tree!args
  <2>2. QED
    BY <1>0, <1>4, <2>1, GotoEffect DEF At
<1>5. CASE p # Root /\ Tree!WriteLine(p)
  <2>1. /\ At(p, "line") /\ procs' = [procs EXCEPT ![p].lines = @ + 1]
        /\ exercise' = exercise /\ global' = global
    BY <1>5 DEF Tree!WriteLine, Tree!At, At, Tree!args
  <2>2. procs'[p] = [procs[p] EXCEPT !.lines = @ + 1] /\ \A q \in Pids \ {p} : procs'[q] = procs[q]
    BY <1>0, <2>1
  <2>3. procs'[p].pc = procs[p].pc /\ procs'[p].parent = procs[p].parent
    BY <1>0, <2>2 DEF Processes
  <2>4. QED
    BY <1>0, <1>5, <2>1, <2>2, <2>3 DEF At
<1>6. CASE p # Root /\ Tree!EndChild(p)
  <2>1. At(p, "line") /\ Tree!Exit(p, 0) /\ exercise' = exercise /\ global' = global
    BY <1>6 DEF Tree!EndChild, Tree!At, At, Tree!args
  <2>2. procs[p].parent = Root /\ At(Root, "suspended") /\ \A q \in Pids \ {Root} : ~At(q, "suspended")
    BY <1>6, <2>1 DEF VforkFamily, At
  <2>3. QED
    BY <1>0, <1>6, <2>1, <2>2, ExitEffect DEF At
<1>7. QED
  BY <1>1, <1>2, <1>3, <1>4, <1>5, <1>6, VforkSteps

\* Only the launch chooses the exercise.
LEMMA SameExercise ==
    ASSUME NEW p \in Pids, Tree!Main(p) \/ Tree!Child(p) \/ Tree!GiveUp(p)
    PROVE  UNCHANGED <<exercise, n>>
BY DEF Tree!Main, Tree!Child, Tree!GiveUp, Tree!ForkRemover, Tree!Remove, Tree!AwaitRemover,
  Tree!Refuse, Tree!Fork, Tree!Wait, Tree!Return, Tree!Increment, Tree!Exec, Tree!Open, Tree!Lock,
  Tree!WriteLine, Tree!EndChild, Tree!args

\* Every step of ForkTree keeps the family of vfork.
LEMMA VforkStep ==
    ASSUME TreeShape, Places, exercise = "vfork" => VforkFamily, Tree!Next
    PROVE  exercise' = "vfork" => VforkFamily'
<1> SUFFICES ASSUME exercise' = "vfork" PROVE VforkFamily'
  OBVIOUS
<1>0. Root \in Pids /\ Tree!Pids = Pids
  BY PidsType
<1>1. CASE Tree!Launch
  <2>1. \A q \in Pids \ {Root} : procs'[q].pc = "free"
    BY <1>1, LaunchEffect DEF Places, At
  <2>2. procs'[Root].pc = "loop"
    BY <1>1, LaunchEffect
  <2>3. QED
    BY <2>1, <2>2 DEF VforkFamily, At
<1>2. ASSUME NEW p \in Pids, Tree!Main(p) \/ Tree!Child(p) \/ Tree!GiveUp(p)
      PROVE  VforkFamily'
  <2>1. exercise = "vfork"
    BY <1>2, SameExercise
  <2>2. VforkFamily
    BY <2>1
  <2>3. QED
    BY <1>0, <1>2, <2>1, <2>2, VforkEffect DEF VforkFamily, At
<1>3. QED
  BY <1>0, <1>1, <1>2 DEF Tree!Next

\* Every step of ForkTree keeps the count of the increments.
LEMMA GlobalStep ==
    ASSUME TreeShape, Places, exercise = "vfork" => VforkFamily, GlobalCount, Tree!Next
    PROVE  GlobalCount'
<1>0. Root \in Pids /\ Tree!Pids = Pids /\ global \in Nat
  BY PidsType DEF TreeShape
<1>a. Incremented \in SUBSET Pids /\ IsFiniteSet(Incremented) /\ Cardinality(Incremented) \in Nat
  <2>1. Incremented \in SUBSET Pids
    BY DEF Incremented
  <2>2. QED
    BY <2>1, PidsType, FS_Subset, FS_CardinalityType
<1>1. CASE Tree!Launch
  <2>1. \A q \in Pids \ {Root} : procs'[q].pc = "free"
    BY <1>1, LaunchEffect DEF Places, At
  <2>2. Incremented' = {}
    BY <2>1 DEF Incremented
  <2>3. Cardinality(Incremented') = 0
    BY <2>2, FS_EmptySet
  <2>4. global' = 1
    BY <1>1, LaunchEffect DEF GlobalCount
  <2>5. QED
    BY <2>3, <2>4 DEF GlobalCount
<1>2. ASSUME NEW p \in Pids, Tree!Main(p) \/ Tree!Child(p) \/ Tree!GiveUp(p)
      PROVE  GlobalCount'
  <2>1. CASE exercise # "vfork"
    <3>1. global' = global
      BY <1>2, <2>1
        DEF Tree!Main, Tree!Child, Tree!GiveUp, Tree!ForkRemover, Tree!Remove, Tree!AwaitRemover,
          Tree!Refuse, Tree!Fork, Tree!Wait, Tree!Return, Tree!Increment, Tree!Exec, Tree!Open,
          Tree!Lock, Tree!WriteLine, Tree!EndChild, Tree!store
    <3>2. QED
      BY <1>2, <2>1, <3>1, SameExercise DEF GlobalCount
  <2>2. CASE exercise = "vfork"
    <3>1. VforkFamily
      BY <2>2
    <3>2. \/ global' = global /\ Incremented' = Incremented
          \/ /\ global' = global + 1 /\ p \notin Incremented /\ p \in Pids \ {Root}
             /\ Incremented' = Incremented \cup {p}
      BY <1>0, <1>2, <2>2, <3>1, VforkEffect DEF VforkFamily, Incremented, At
    <3>3. CASE global' = global /\ Incremented' = Incremented
      BY <1>2, <2>2, <3>3, SameExercise DEF GlobalCount
    <3>4. CASE /\ global' = global + 1 /\ p \notin Incremented
               /\ Incremented' = Incremented \cup {p}
      <4>1. Cardinality(Incremented \cup {p}) = Cardinality(Incremented) + 1
        BY <1>a, <3>4, FS_AddElement
      <4>2. QED
        BY <1>2, <1>a, <2>2, <3>4, <4>1, SameExercise DEF GlobalCount
    <3>5. QED
      BY <3>2, <3>3, <3>4
  <2>3. QED
    BY <2>1, <2>2
<1>3. QED
  BY <1>0, <1>1, <1>2 DEF Tree!Next

\* Nobody comes to the lines of a child but by an increment, an exec or a
\* lock.
LEMMA LineEffect ==
    ASSUME TreeShape, Places, NEW p \in Pids, Tree!Main(p) \/ Tree!Child(p) \/ Tree!GiveUp(p),
           NEW q \in Pids, At(q, "line")', ~At(q, "line")
    PROVE  /\ q = p /\ \A r \in Pids \ {p} : procs'[r] = procs[r]
           /\ \/ Tree!Increment(p) /\ At(p, "start")
              \/ Tree!Exec(p) /\ At(p, "exec") /\ exercise # "flock"
              \/ Tree!Lock(p) /\ At(p, "lock")
<1>0. procs \in [Pids -> Processes] /\ Root \in Pids /\ Tree!Pids = Pids
  BY PidsType DEF TreeShape
<1>1. CASE Quiet(p)
  <2>1. q = p /\ procs[p].pc \in {"start", "lock"}
    BY <1>1, QuietEffect DEF At
  <2>2. CASE Tree!Increment(p) \/ Tree!Lock(p)
    <3>1. /\ Tree!Increment(p) => At(p, "start") /\ Tree!Goto(p, "line")
          /\ Tree!Lock(p) => At(p, "lock") /\ Tree!Goto(p, "line")
      BY DEF Tree!Increment, Tree!Lock, Tree!At, At
    <3>2. QED
      BY <1>0, <2>1, <2>2, <3>1, GotoEffect
  <2>3. CASE Tree!GiveUp(p)
    <3>1. Tree!Exit(p, 1)
      BY <2>3 DEF Tree!GiveUp
    <3>2. QED
      BY <1>0, <2>1, <3>1, ExitEffect DEF At
  <2>4. QED
    BY <1>1, <2>1, <2>2, <2>3 DEF Quiet, Tree!Remove, Tree!Refuse, Tree!Return, Tree!Open,
      Tree!WriteLine, Tree!EndChild, Tree!At, At
<1>2. CASE Tree!ForkRemover(p) /\ ~Quiet(p)
  <2>1. procs' = [procs EXCEPT ![p].pc = "await", ![Root + 1] = Tree!Process("rm", p, 0)]
    BY <1>2, ForkRemoverEffect
  <2>2. Tree!Process("rm", p, 0).pc = "rm"
    BY DEF Tree!Process
  <2>3. [procs[p] EXCEPT !.pc = "await"].pc = "await"
    BY <1>0 DEF Processes
  <2>4. procs'[q].pc \in {"rm", "await", procs[q].pc}
    BY <1>0, <2>1, <2>2, <2>3
  <2>5. QED
    BY <2>4 DEF At
<1>3. CASE Tree!AwaitRemover(p)
  BY <1>3, AwaitRemoverEffect DEF At
<1>4. CASE Tree!Fork(p)
  <2>1. procs'[q].pc \in {procs[q].pc, "loop", "suspended", "start", "exec"}
    BY <1>4, ForkEffect DEF Tree!ParentAfterFork, At
  <2>2. QED
    BY <2>1 DEF At
<1>5. CASE Tree!Wait(p)
  BY <1>5, WaitEffect DEF At
<1>6. CASE Tree!Exec(p)
  BY <1>6, ExecEffect DEF At
<1>7. QED
  BY <1>1, <1>2, <1>3, <1>4, <1>5, <1>6 DEF Tree!Main, Tree!Child, Quiet

\* Every step of ForkTree keeps the lock with the one who writes.
LEMMA LockStep ==
    ASSUME TreeShape, Places, LockHeld, Tree!Next
    PROVE  LockHeld'
<1> SUFFICES ASSUME exercise' = "flock" PROVE \A q \in Pids : At(q, "line")' => holder' = q
  BY DEF LockHeld
<1>0. procs \in [Pids -> Processes] /\ Root \in Pids /\ Tree!Pids = Pids /\ 0 \notin Pids
  BY PidsType DEF TreeShape
<1>1. CASE Tree!Launch
  <2>1. \A q \in Pids : procs'[q].pc # "line"
    BY <1>0, <1>1, LaunchEffect DEF Places, At
  <2>2. QED
    BY <2>1 DEF At
<1>2. ASSUME NEW p \in Pids, Tree!Main(p) \/ Tree!Child(p) \/ Tree!GiveUp(p)
      PROVE  \A q \in Pids : At(q, "line")' => holder' = q
  <2>0. exercise = "flock" /\ \A q \in Pids : At(q, "line") => holder = q
    BY <1>2, SameExercise DEF LockHeld
  <2>1. CASE Tree!Lock(p)
    <3>1. holder = 0 /\ holder' = p /\ Tree!Goto(p, "line")
      BY <2>1 DEF Tree!Lock
    <3>2. \A q \in Pids : ~At(q, "line")
      BY <1>0, <2>0, <3>1
    <3>3. QED
      BY <1>0, <3>1, <3>2, GotoEffect DEF At
  <2>2. CASE Tree!EndChild(p)
    <3>1. At(p, "line") /\ Tree!Exit(p, 0) /\ holder' = IF holder = p THEN 0 ELSE holder
      BY <2>2 DEF Tree!EndChild, Tree!At, At
    <3>2. \A q \in Pids \ {p} : ~At(q, "line")
      BY <2>0, <3>1
    <3>3. QED
      BY <1>0, <3>1, <3>2, ExitEffect DEF At
  <2>3. CASE ~Tree!Lock(p) /\ ~Tree!EndChild(p)
    <3>1. holder' = holder
      BY <1>2, <2>3
        DEF Tree!Main, Tree!Child, Tree!GiveUp, Tree!ForkRemover, Tree!Remove, Tree!AwaitRemover,
          Tree!Refuse, Tree!Fork, Tree!Wait, Tree!Return, Tree!Increment, Tree!Exec, Tree!Open,
          Tree!WriteLine, Tree!store
    <3>2. \A q \in Pids : At(q, "line")' => At(q, "line")
      BY <1>2, <2>0, <2>3, LineEffect DEF Places
    <3>3. QED
      BY <2>0, <3>1, <3>2
  <2>4. QED
    BY <2>1, <2>2, <2>3
<1>3. QED
  BY <1>0, <1>1, <1>2 DEF Tree!Next

\* Who has not come to its lines has written none; and under vfork and flock
\* who has written some wrote the last one, until it ends.
Early == {"free", "start", "exec", "open", "lock"}
Wrote(p) == \E a \in DOMAIN output : output[a] = p
Blocks == \A a, b \in DOMAIN output : a < b /\ output[a] = output[b] => output[a + 1] = output[a]
LinesInv ==
    /\ exercise = "none" => output = << >>
    /\ \A p \in Pids : procs[p].pc \in Early => ~Wrote(p)
    /\ exercise \in {"vfork", "flock"} =>
        /\ \A p \in Pids : At(p, "line") /\ Wrote(p) => output[Len(output)] = p
        /\ Blocks

\* Nobody goes back to the statements before its lines.
LEMMA EarlyEffect ==
    ASSUME TreeShape, Places, NEW p \in Pids, Tree!Main(p) \/ Tree!Child(p) \/ Tree!GiveUp(p),
           NEW q \in Pids, procs'[q].pc \in Early
    PROVE  procs[q].pc \in Early
<1>0. procs \in [Pids -> Processes] /\ Root \in Pids /\ Tree!Pids = Pids
  BY PidsType DEF TreeShape
<1>1. CASE Quiet(p)
  BY <1>1, QuietEffect DEF At, Early
<1>2. CASE Tree!ForkRemover(p) /\ ~Quiet(p)
  <2>1. procs' = [procs EXCEPT ![p].pc = "await", ![Root + 1] = Tree!Process("rm", p, 0)]
    BY <1>2, ForkRemoverEffect
  <2>2. Tree!Process("rm", p, 0).pc = "rm"
    BY DEF Tree!Process
  <2>3. [procs[p] EXCEPT !.pc = "await"].pc = "await"
    BY <1>0 DEF Processes
  <2>4. procs'[q].pc \in {"rm", "await", procs[q].pc}
    BY <1>0, <2>1, <2>2, <2>3
  <2>5. QED
    BY <2>4 DEF Early
<1>3. CASE Tree!AwaitRemover(p)
  BY <1>3, AwaitRemoverEffect DEF At, Early
<1>4. CASE Tree!Fork(p)
  <2>1. procs'[q].pc \in {procs[q].pc, "loop", "suspended"} \/ procs[q].pc = "free"
    BY <1>4, ForkEffect DEF Tree!ParentAfterFork, At
  <2>2. QED
    BY <2>1 DEF Early
<1>5. CASE Tree!Wait(p)
  BY <1>5, WaitEffect DEF At, Early
<1>6. CASE Tree!Exec(p)
  BY <1>6, ExecEffect DEF At, Early
<1>7. QED
  BY <1>1, <1>2, <1>3, <1>4, <1>5, <1>6 DEF Tree!Main, Tree!Child, Quiet

\* Every step of ForkTree keeps what is known of the lines.
LEMMA LinesStep ==
    ASSUME TreeShape, Places, exercise = "vfork" => VforkFamily, LockHeld, LinesInv, Tree!Next
    PROVE  LinesInv'
<1>0. /\ procs \in [Pids -> Processes] /\ Tree!Pids = Pids /\ output \in Seq(Pids)
      /\ Len(output) \in Nat /\ DOMAIN output = 1 .. Len(output)
  BY PidsType DEF TreeShape
<1>1. CASE Tree!Launch
  <2>1. output' = << >> /\ DOMAIN output' = {} /\ exercise' # "none"
    <3>1. output' = << >> /\ exercise' # "none"
      BY <1>1, LaunchEffect DEF LinesInv
    <3>2. QED
      BY <3>1
  <2>2. QED
    BY <2>1 DEF LinesInv, Wrote, Blocks
<1>2. ASSUME NEW p \in Pids, Tree!Main(p) \/ Tree!Child(p) \/ Tree!GiveUp(p)
      PROVE  LinesInv'
  <2>0. UNCHANGED exercise /\ exercise # "none"
    <3>1. exercise = "none" => procs[p].pc = "free"
      BY DEF Places, At
    <3>2. procs[p].pc # "free"
      BY <1>2 DEF Tree!Main, Tree!Child, Tree!GiveUp, Tree!ForkRemover, Tree!Remove,
        Tree!AwaitRemover, Tree!Refuse, Tree!Fork, Tree!Wait, Tree!Waiting, Tree!Return,
        Tree!Increment, Tree!Exec, Tree!Open, Tree!Lock, Tree!WriteLine, Tree!EndChild, Tree!At
    <3>3. QED
      BY <1>2, <3>1, <3>2, SameExercise
  <2>1. CASE ~Tree!WriteLine(p)
    <3>1. output' = output
      BY <1>2, <2>1
        DEF Tree!Main, Tree!Child, Tree!GiveUp, Tree!ForkRemover, Tree!Remove, Tree!AwaitRemover,
          Tree!Refuse, Tree!Fork, Tree!Wait, Tree!Return, Tree!Increment, Tree!Exec, Tree!Open,
          Tree!Lock, Tree!EndChild, Tree!store
    <3>2. \A q \in Pids : procs'[q].pc \in Early => procs[q].pc \in Early
      BY <1>2, EarlyEffect
    <3>3. \A q \in Pids : At(q, "line")' => At(q, "line") \/ procs[q].pc \in Early
      BY <1>2, LineEffect DEF At, Early
    <3>4. (\A q \in Pids : Wrote(q)' <=> Wrote(q)) /\ Blocks' = Blocks
      BY <3>1 DEF Wrote, Blocks
    <3>5. QED
      BY <2>0, <3>1, <3>2, <3>3, <3>4 DEF LinesInv
  <2>2. CASE Tree!WriteLine(p)
    <3>1. /\ At(p, "line") /\ output' = Append(output, p)
          /\ procs' = [procs EXCEPT ![p].lines = @ + 1]
      BY <2>2 DEF Tree!WriteLine, Tree!At, At
    <3>2. \A q \in Pids : procs'[q].pc = procs[q].pc
      BY <1>0, <3>1 DEF Processes
    <3>3. /\ Len(output') = Len(output) + 1 /\ DOMAIN output' = 1 .. Len(output) + 1
          /\ output'[Len(output) + 1] = p
          /\ \A a \in DOMAIN output : output'[a] = output[a] /\ a \in DOMAIN output'
          /\ \A a \in DOMAIN output' : a \in DOMAIN output \/ a = Len(output) + 1
      BY <1>0, <3>1
    <3>4. \A q \in Pids \ {p} : Wrote(q)' => Wrote(q)
      BY <3>3 DEF Wrote
    <3>5. \A q \in Pids : procs'[q].pc \in Early => ~Wrote(q)'
      BY <3>1, <3>2, <3>4 DEF LinesInv, At, Early
    <3>6. ASSUME exercise \in {"vfork", "flock"}
          PROVE  /\ \A q \in Pids : At(q, "line")' /\ Wrote(q)' => output'[Len(output')] = q
                 /\ Blocks'
      <4>1. \A q \in Pids : At(q, "line") => q = p
        BY <3>1, <3>6 DEF LockHeld, VforkFamily, At
      <4>2. Blocks /\ (Wrote(p) => output[Len(output)] = p)
        BY <3>1, <3>6 DEF LinesInv
      <4>3. ASSUME NEW a \in DOMAIN output', NEW b \in DOMAIN output', a < b,
                   output'[a] = output'[b]
            PROVE  output'[a + 1] = output'[a]
        <5>1. a \in Nat /\ b \in Nat /\ a \in DOMAIN output /\ a + 1 \in DOMAIN output'
          BY <1>0, <3>3, <4>3
        <5>2. CASE b \in DOMAIN output
          <6>1. output[a + 1] = output[a] /\ a + 1 \in DOMAIN output
            BY <1>0, <3>3, <4>2, <4>3, <5>1, <5>2 DEF Blocks
          <6>2. QED
            BY <3>3, <5>1, <6>1
        <5>3. CASE b = Len(output) + 1
          <6>1. output[a] = p /\ output[Len(output)] = p
            BY <3>3, <4>2, <4>3, <5>1, <5>3 DEF Wrote
          <6>2. CASE a = Len(output)
            BY <3>3, <5>1, <6>1, <6>2
          <6>3. CASE a # Len(output)
            <7>1. a < Len(output) /\ Len(output) \in DOMAIN output /\ a + 1 \in DOMAIN output
              BY <1>0, <5>1, <6>3
            <7>2. output[a + 1] = output[a]
              BY <4>2, <5>1, <6>1, <7>1 DEF Blocks
            <7>3. QED
              BY <3>3, <5>1, <7>1, <7>2
          <6>4. QED
            BY <6>2, <6>3
        <5>4. QED
          BY <3>3, <5>2, <5>3
      <4>4. Blocks'
        BY <4>3 DEF Blocks
      <4>5. QED
        BY <3>2, <3>3, <4>1, <4>4 DEF At
    <3>7. QED
      BY <2>0, <3>5, <3>6 DEF LinesInv
  <2>3. QED
    BY <2>1, <2>2
<1>3. QED
  BY <1>0, <1>1, <1>2 DEF Tree!Next

TreeInv ==
    /\ TreeShape /\ Places /\ KinCount
    /\ exercise = "vfork" => VforkFamily
    /\ GlobalCount /\ LockHeld /\ LinesInv

\* The programs of labs 2 and 3 do not touch the processes of lab 1.
LEMMA TreeStep ==
    ASSUME TreeInv, [Next]_vars
    PROVE  TreeInv'
<1>1. CASE Tree!Next
  <2>1. /\ TreeShape /\ Places /\ KinCount /\ (exercise = "vfork" => VforkFamily)
        /\ GlobalCount /\ LockHeld /\ LinesInv
    BY DEF TreeInv
  <2>2. TreeShape' /\ Places' /\ KinCount'
    BY <1>1, <2>1, TreeShapeStep, PlacesStep, KinCountStep
  <2>3. exercise' = "vfork" => VforkFamily'
    BY <1>1, <2>1, VforkStep
  <2>4. GlobalCount' /\ LockHeld' /\ LinesInv'
    BY <1>1, <2>1, GlobalStep, LockStep, LinesStep
  <2>5. QED
    BY <2>2, <2>3, <2>4 DEF TreeInv
<1>2. CASE UNCHANGED tree
  <2>1. UNCHANGED <<exercise, n, procs, global, file, holder, output>>
    BY <1>2 DEF tree
  <2>2. TreeShape' /\ Places'
    BY <2>1, PidsType DEF TreeInv, TreeShape, Places, At
  <2>3. \A p \in Pids : Tree!ChildrenOf(p)' = Tree!ChildrenOf(p)
    BY <2>1, SameChildren DEF At
  <2>4. KinCount'
    BY <2>1, <2>3 DEF TreeInv, KinCount, At
  <2>5. exercise' = "vfork" => VforkFamily'
    BY <2>1 DEF TreeInv, VforkFamily, At
  <2>6. Incremented' = Incremented
    BY <2>1 DEF Incremented
  <2>7. GlobalCount' /\ LockHeld'
    BY <2>1, <2>6 DEF TreeInv, GlobalCount, LockHeld, At
  <2>8. LinesInv'
    BY <2>1 DEF TreeInv, LinesInv, Wrote, Blocks, At
  <2>9. QED
    BY <2>2, <2>4, <2>5, <2>7, <2>8 DEF TreeInv
<1>3. QED
  BY <1>1, <1>2 DEF Next, vars, RunTree, RunSignals, RunPipes, RunFifos

\* TreeInv holds before anything is launched and for ever.
LEMMA TreeInvHolds == Spec => []TreeInv
<1>1. Init => TreeInv
  <2> SUFFICES ASSUME Tree!Init PROVE TreeInv
    BY DEF Init
  <2>0. Tree!Pids = Pids /\ MaxN \in Nat /\ Lines \in Nat /\ 0 \notin Pids
    BY PidsType
  <2>1. \A p \in Pids : procs[p] = Tree!Process("free", 0, 0)
    BY <2>0 DEF Tree!Init
  <2>2. \A p \in Pids : /\ procs[p].pc = "free" /\ procs[p].parent = 0 /\ procs[p].i = 0
                        /\ procs[p].waits = 0
    BY <2>1 DEF Tree!Process
  <2>3. TreeShape
    <3>1. Tree!Process("free", 0, 0) \in Processes
      BY <2>0, NewProcess DEF Statements
    <3>2. procs \in [Pids -> Processes]
      BY <2>0, <3>1 DEF Tree!Init
    <3>3. output \in Seq(Pids) /\ n \in 0 .. MaxN
      BY <2>0 DEF Tree!Init
    <3>4. QED
      BY <3>2, <3>3 DEF Tree!Init, TreeShape
  <2>4. Places
    BY <2>2 DEF Tree!Init, Places, At
  <2>5. KinCount
    <3>1. \A p \in Pids : Tree!ChildrenOf(p) = {}
      BY <2>0, <2>2 DEF Tree!ChildrenOf
    <3>2. QED
      BY <2>2, <3>1 DEF KinCount, At
  <2>6. GlobalCount /\ LockHeld /\ exercise # "vfork"
    BY DEF Tree!Init, GlobalCount, LockHeld
  <2>7. LinesInv
    <3>1. output = << >> /\ DOMAIN output = {} /\ exercise = "none"
      <4>1. output = << >> /\ exercise = "none"
        BY DEF Tree!Init
      <4>2. QED
        BY <4>1
    <3>2. QED
      BY <3>1 DEF LinesInv, Wrote
  <2>8. QED
    BY <2>3, <2>4, <2>5, <2>6, <2>7 DEF TreeInv
<1>2. TreeInv /\ [Next]_vars => TreeInv'
  BY TreeStep
<1>3. QED
  BY <1>1, <1>2, PTL DEF Spec

\* NoneLeftBehind of Exercises.tla, the types of lab 1 included: whoever ends
\* has reaped all its children, the ones a failed execl has made it father
\* included, for any number of processes (zad1/main.c:42-46).
THEOREM NoneLeftBehindHolds == Spec => []NoneLeftBehind
<1>1. TreeInv => NoneLeftBehind
  <2> SUFFICES ASSUME TreeInv PROVE NoneLeftBehind
    OBVIOUS
  <2>0. Tree!Pids = Pids
    BY PidsType
  <2>1. global \in 1 .. MaxProcs
    <3>1. Cardinality(Pids \ {Root}) = MaxProcs - 1 /\ IsFiniteSet(Pids \ {Root})
      <4>1. IsFiniteSet(Pids) /\ Root \in Pids /\ Cardinality(Pids) = MaxProcs
        BY PidsType
      <4>2. QED
        BY <4>1, FS_RemoveElement
    <3>2. Incremented \in SUBSET (Pids \ {Root})
      BY DEF Incremented
    <3>3. Cardinality(Incremented) \in Nat /\ Cardinality(Incremented) <= MaxProcs - 1
      BY <3>1, <3>2, FS_Subset, FS_CardinalityType
    <3>4. global = IF exercise = "vfork" THEN 1 + Cardinality(Incremented) ELSE 1
      BY DEF TreeInv, GlobalCount
    <3>5. QED
      BY <3>3, <3>4, PidsType
  <2>2. Tree!TypeOK
    BY <2>0, <2>1 DEF TreeInv, TreeShape, Processes, Statements, Tree!TypeOK
  <2>3. ASSUME NEW p \in Pids, NEW c \in Pids, procs[p].pc \in {"zombie", "reaped"},
               procs[c].parent = p
        PROVE  At(c, "reaped")
    BY <2>0, <2>3 DEF TreeInv, KinCount, Tree!ChildrenOf, Tree!At, At
  <2>4. QED
    BY <2>0, <2>2, <2>3 DEF NoneLeftBehind, Tree!NoneLeftBehind, Tree!At, At
<1>2. QED
  BY TreeInvHolds, <1>1, PTL

\* LinesTogether of Exercises.tla: the suspension of the parent under vfork
\* and the lock under flock keep the lines of every process together, and only
\* the children of vfork have incremented the global of the root, one each
\* (zad1/main_vfork.c, zad3/child.c).
THEOREM LinesTogetherHolds == Spec => []LinesTogether
<1>1. TreeInv => LinesTogether
  <2> SUFFICES ASSUME TreeInv PROVE LinesTogether
    OBVIOUS
  <2>0. Tree!Pids = Pids /\ Tree!Root = Root /\ Root \in Pids
    BY PidsType
  <2>1. exercise \in {"vfork", "flock"} => Blocks
    BY DEF TreeInv, LinesInv
  <2>2. ASSUME At(Root, "zombie")
        PROVE  global = IF exercise = "vfork" THEN Cardinality(Pids \ Tree!Free) ELSE 1
    <3>1. CASE exercise # "vfork"
      BY <3>1 DEF TreeInv, GlobalCount
    <3>2. CASE exercise = "vfork"
      <4>1. Pids \ Tree!Free = Incremented \cup {Root}
        BY <2>0, <2>2, <3>2 DEF TreeInv, VforkFamily, Incremented, Tree!Free, Tree!At, At
      <4>2. IsFiniteSet(Incremented) /\ Root \notin Incremented /\ Cardinality(Incremented) \in Nat
        <5>1. Incremented \in SUBSET Pids /\ Root \notin Incremented
          BY DEF Incremented
        <5>2. QED
          BY <5>1, PidsType, FS_Subset, FS_CardinalityType
      <4>3. Cardinality(Incremented \cup {Root}) = Cardinality(Incremented) + 1
        BY <4>2, FS_AddElement
      <4>4. QED
        BY <3>2, <4>1, <4>2, <4>3 DEF TreeInv, GlobalCount
    <3>3. QED
      BY <3>1, <3>2
  <2>3. Tree!At(Tree!Root, "zombie") <=> At(Root, "zombie")
    BY <2>0 DEF Tree!At, At
  <2>4. Tree!At(Tree!Root, "zombie") =>
            global = IF exercise = "vfork" THEN Cardinality(Tree!Pids \ Tree!Free) ELSE 1
    BY <2>0, <2>2, <2>3
  <2>5. QED
    BY <2>1, <2>4, Zenon DEF LinesTogether, Cardinality, Tree!Cardinality, Tree!LinesTogether, Blocks
<1>2. QED
  BY TreeInvHolds, <1>1, PTL

-----------------------------------------------------------------------------
(***************************************************************************)
(* Lab 3, exercise 2, FifoService.                                         *)
(***************************************************************************)
Server == "server"
Procs == Clients \cup {Server}
Generations == 1 .. MaxStarts
ReqFifos == {"req"} \X Generations
ResFifos == {"res"} \X Generations
Nowhere == <<"none", 0>>
Req == <<"req", path["req"]>>
Res == <<"res", path["res"]>>

Serving == pc[Server] \in {"open_req", "opening_req", "read", "close_req", "compute", "open_res",
                           "opening_res", "write", "close_res"}
Active == {c \in Clients : pc[c] \notin {"off", "ended", "failed", "interrupted"}}

\* The domains of the variables.
FifoTypes ==
    /\ readers \in [ReqFifos \cup ResFifos -> SUBSET Procs]
    /\ writers \in [ReqFifos \cup ResFifos -> SUBSET Procs]
    /\ data \in [ReqFifos \cup ResFifos -> Seq(Clients)]
    /\ fd \in [Procs -> ReqFifos \cup ResFifos \cup {Nowhere}] /\ blocked \in SUBSET Procs
FifoShape ==
    /\ FifoTypes /\ DOMAIN pc = Procs /\ sigpiped \in SUBSET Procs
    /\ path \in [{"req", "res"} -> 0 .. MaxStarts] /\ starts \in 0 .. MaxStarts
    /\ request \in Clients \cup {"none"} /\ answer \in [Clients -> Clients \cup {"none", "eof"}]
    /\ endless \in SUBSET Clients /\ alone \in SUBSET Clients /\ disturbed \in BOOLEAN

\* What each statement says of the descriptor and the other variables of its
\* process.
AtServer ==
    /\ pc[Server] \in {"opening_req", "read", "close_req"} => fd[Server] = Req
    /\ pc[Server] \in {"opening_res", "write", "close_res"} => fd[Server] = Res
    /\ pc[Server] \in {"off", "mkfifo_req", "mkfifo_res", "open_req", "compute", "open_res"} =>
        fd[Server] = Nowhere
    /\ Serving => path["req"] # 0 /\ path["res"] # 0
    /\ pc[Server] = "mkfifo_res" => path["req"] # 0
    /\ pc[Server] \in {"unlink_res", "exit"} => path["req"] = 0
    /\ pc[Server] = "exit" => path["res"] = 0
    /\ pc[Server] # "off" => starts # 0
    /\ pc[Server] \in {"compute", "open_res", "opening_res", "write"} => request # "none"
    /\ Serving \/ pc[Server] \in {"off", "mkfifo_req", "mkfifo_res", "unlink_req", "unlink_res", "exit"}
AtClient(c) ==
    /\ pc[c] \in {"opening_req", "write", "close_req"} => fd[c] \in ReqFifos
    /\ pc[c] \in {"opening_res", "read", "close_res"} => fd[c] \in ResFifos
    /\ pc[c] \in {"off", "open_req", "open_res", "ended", "failed", "interrupted"} => fd[c] = Nowhere
    /\ pc[c] \in {"off", "open_req", "opening_req", "write", "close_req", "open_res", "opening_res",
                  "read", "close_res", "ended", "failed", "interrupted"}
    /\ pc[c] = "off" => c \notin alone /\ answer[c] = "none"
AtStatement == AtServer /\ \A c \in Clients : AtClient(c)

\* Who reads and who writes; and a FIFO that nobody has open is empty.
Ends ==
    /\ \A f \in ReqFifos : /\ readers[f] = {p \in {Server} : fd[p] = f}
                           /\ writers[f] = {c \in Clients : fd[c] = f}
    /\ \A f \in ResFifos : /\ readers[f] = {c \in Clients : fd[c] = f}
                           /\ writers[f] = {p \in {Server} : fd[p] = f}
    /\ \A f \in ReqFifos \cup ResFifos : (\A p \in Procs : fd[p] # f) => data[f] = << >>

\* An open that waits has nobody on the other side.
Waiting ==
    /\ \A p \in blocked : pc[p] \in {"opening_req", "opening_res"}
    /\ \A c \in Clients : {c, Server} \cap blocked # {} => fd[c] # fd[Server] \/ fd[c] = Nowhere
    /\ Server \in blocked => data[fd[Server]] = << >>

Calm == ~disturbed \/ Active \cap alone # {}
Lone == Calm => \A c, d \in Active : c = d

\* Nobody has a FIFO open that is not made yet.
Fresh ==
    /\ \A p \in Procs : fd[p][2] <= starts
    /\ \A name \in {"req", "res"} : path[name] <= starts
    /\ pc[Server] = "mkfifo_req" =>
        /\ \A p \in Procs : fd[p][2] < starts
        /\ \A name \in {"req", "res"} : path[name] < starts
    /\ ~disturbed =>
        /\ pc[Server] \in {"off", "mkfifo_req"} => path["req"] = 0
        /\ pc[Server] = "mkfifo_res" => /\ data[Req] = << >>
                                        /\ \A c \in Clients : fd[c] = Req => c \in blocked

\* The request that is with the server, and the one who waits for its answer.
Taken == pc[Server] \in {"close_req", "compute", "open_res", "opening_res", "write"} /\ request # "none"
Waits(c) ==
    /\ c \in Clients /\ pc[c] \in {"close_req", "open_res", "opening_res", "read"}
    /\ pc[c] \in {"opening_res", "read"} => fd[c] = Res
    /\ data[Res] = << >>
Unserved(c) == pc[c] \in {"opening_res", "read"} => c \in blocked
RequestOf(c) ==
    /\ Waits(c)
    /\ Taken => request = c /\ data[Req] = << >>
    /\ data[Req] # << >> =>
        data[Req] = <<c>> /\ pc[Server] \in {"open_req", "opening_req", "read", "close_req"}
    /\ pc[Server] \in {"open_req", "opening_req", "read", "close_req", "compute", "open_res"} => Unserved(c)
    /\ pc[Server] = "write" \/ (pc[Server] = "opening_res" /\ Server \notin blocked) =>
        pc[c] \in {"opening_res", "read"}
OneRequest == (~Taken /\ data[Req] = << >>) \/ \E c \in Clients : RequestOf(c)
OneAtATime == Calm /\ Serving => OneRequest

\* How far a client that is alone and the server have come together.
Together(c) ==
    /\ Serving
    /\ pc[c] = "open_req" =>
        pc[Server] = "open_req" \/ (pc[Server] = "opening_req" /\ Server \in blocked)
    /\ pc[c] = "opening_req" =>
        /\ fd[c] = Req
        /\ (pc[Server] = "open_req" /\ c \in blocked) \/ pc[Server] \in {"opening_req", "read"}
    /\ pc[c] = "write" => fd[c] = Req /\ pc[Server] \in {"opening_req", "read"}
    /\ pc[c] \in {"close_req", "open_res", "opening_res", "read"} =>
        \/ data[Req] = <<c>> /\ pc[Server] \in {"opening_req", "read"}
        \/ Taken /\ request = c
        \/ pc[c] \in {"opening_res", "read"} /\ fd[c] = Res /\ data[Res] = <<c>>
Accompanied == \A c \in Active \cap alone : Together(c)

Answered ==
    /\ \A c \in alone : answer[c] \in {"none", c}
    /\ Server \in sigpiped => disturbed

FifoInv ==
    /\ FifoShape /\ AtStatement /\ Ends /\ Waiting /\ Lone /\ Fresh
    /\ OneAtATime /\ Accompanied /\ Answered

\* The names of processes and of FIFOs are apart.
LEMMA FifoNames ==
    /\ Server \notin Clients /\ "none" \notin Clients /\ Server = "server"
    /\ Procs = Clients \cup {Server} /\ Fifos!Procs = Procs /\ Fifos!Fifos = ReqFifos \cup ResFifos
    /\ ReqFifos \cap ResFifos = {} /\ Nowhere \notin ReqFifos \cup ResFifos
    /\ MaxStarts \in Nat /\ Nowhere[2] = 0
    /\ \A f \in ReqFifos : f = <<"req", f[2]>> /\ f[2] \in 1 .. MaxStarts
    /\ \A f \in ResFifos : f = <<"res", f[2]>> /\ f[2] \in 1 .. MaxStarts
    /\ \A g \in 1 .. MaxStarts : <<"req", g>> \in ReqFifos /\ <<"res", g>> \in ResFifos
<1>1. MaxStarts \in Nat /\ {"server", "none"} \cap Clients = {}
  BY ExercisesAssumption
<1>2. QED
  BY <1>1 DEF Server, Procs, Fifos!Procs, Fifos!Fifos, ReqFifos, ResFifos, Nowhere, Generations

\* The processes on the other side of what p has open.
Opposite(p) == IF p = Server THEN Clients ELSE {Server}

\* What a step may do to the FIFOs: nothing, open one, close one, put a message
\* into the one it has open or take one from it.
Stands == UNCHANGED <<readers, writers, fd, data, blocked>>
Opens(p, f) ==
    /\ fd[p] = Nowhere /\ f \in ReqFifos \cup ResFifos
    /\ fd'[p] = f /\ \A q \in Procs \ {p} : fd'[q] = fd[q]
    /\ data' = data
    /\ \/ (\E q \in Opposite(p) : fd[q] = f) /\ blocked' = blocked \ {q \in Opposite(p) : fd[q] = f}
       \/ (\A q \in Opposite(p) : fd[q] # f) /\ blocked' = blocked \cup {p}
    /\ FifoTypes' /\ Ends'
Closes(p) ==
    /\ fd'[p] = Nowhere /\ \A q \in Procs \ {p} : fd'[q] = fd[q]
    /\ \A f \in ReqFifos \cup ResFifos :
        \/ data'[f] = data[f]
        \/ data'[f] = << >> /\ \A q \in Procs : fd'[q] # f
    /\ blocked' = blocked \ {p}
    /\ FifoTypes' /\ Ends'
Puts(p, message) ==
    /\ \E q \in Opposite(p) : fd[q] = fd[p]
    /\ fd[p] \in ReqFifos \cup ResFifos /\ data'[fd[p]] = Append(data[fd[p]], message)
    /\ \A f \in (ReqFifos \cup ResFifos) \ {fd[p]} : data'[f] = data[f]
    /\ UNCHANGED <<fd, blocked>>
    /\ FifoTypes' /\ Ends'
Gets(p) ==
    /\ fd[p] \in ReqFifos \cup ResFifos /\ data[fd[p]] # << >>
    /\ data'[fd[p]] = Tail(data[fd[p]])
    /\ \A f \in (ReqFifos \cup ResFifos) \ {fd[p]} : data'[f] = data[f]
    /\ UNCHANGED <<fd, blocked>>
    /\ FifoTypes' /\ Ends'

\* The server opens the requests to read, a client opens them to write.
LEMMA OpenReqEffect ==
    ASSUME FifoShape, Ends, NEW p \in Procs, fd[p] = Nowhere,
           \/ p = Server /\ Fifos!OpenRead(p, "req")
           \/ p \in Clients /\ Fifos!OpenWrite(p, "req")
    PROVE  Opens(p, Req) /\ Req \in ReqFifos /\ path["req"] # 0
<1>1. /\ path["req"] # 0 /\ Req \in ReqFifos
      /\ fd' = [fd EXCEPT ![p] = Req] /\ data' = data
      /\ p = Server => /\ readers' = [readers EXCEPT ![Req] = @ \cup {p}] /\ writers' = writers
                       /\ blocked' = IF writers[Req] = {} THEN blocked \cup {p} ELSE blocked \ writers[Req]
      /\ p # Server => /\ writers' = [writers EXCEPT ![Req] = @ \cup {p}] /\ readers' = readers
                       /\ blocked' = IF readers[Req] = {} THEN blocked \cup {p} ELSE blocked \ readers[Req]
  <2>1. path["req"] # 0
    BY DEF Fifos!OpenRead, Fifos!OpenWrite
  <2>2. Req \in ReqFifos
    BY <2>1, FifoNames DEF FifoShape, Req, ReqFifos, Generations
  <2>3. QED
    BY <2>1, <2>2, FifoNames DEF Fifos!OpenRead, Fifos!OpenWrite, Fifos!Opening, Req
<1>2. /\ readers[Req] = {q \in {Server} : fd[q] = Req}
      /\ writers[Req] = {c \in Clients : fd[c] = Req}
  BY <1>1 DEF Ends
<1>3. FifoTypes'
  <2>1. blocked' \in SUBSET Procs
    BY <1>1, <1>2, FifoNames DEF FifoShape, FifoTypes
  <2>2. /\ readers' \in [ReqFifos \cup ResFifos -> SUBSET Procs]
        /\ writers' \in [ReqFifos \cup ResFifos -> SUBSET Procs]
    <3>1. /\ readers \in [ReqFifos \cup ResFifos -> SUBSET Procs]
          /\ writers \in [ReqFifos \cup ResFifos -> SUBSET Procs]
      BY DEF FifoShape, FifoTypes
    <3>2. readers[Req] \cup {p} \in SUBSET Procs /\ writers[Req] \cup {p} \in SUBSET Procs
      BY <1>1, <3>1
    <3>3. CASE p = Server
      BY <1>1, <3>1, <3>2, <3>3
    <3>4. CASE p # Server
      BY <1>1, <3>1, <3>2, <3>4
    <3>5. QED
      BY <3>3, <3>4
  <2>3. fd' \in [Procs -> ReqFifos \cup ResFifos \cup {Nowhere}]
    BY <1>1 DEF FifoShape, FifoTypes
  <2>4. QED
    BY <1>1, <2>1, <2>2, <2>3 DEF FifoShape, FifoTypes
<1>4. Ends'
  BY <1>1, FifoNames DEF Ends, FifoShape, FifoTypes
<1>5. fd'[p] = Req /\ \A q \in Procs \ {p} : fd'[q] = fd[q]
  BY <1>1 DEF FifoShape, FifoTypes
<1>6. \/ (\E q \in Opposite(p) : fd[q] = Req) /\ blocked' = blocked \ {q \in Opposite(p) : fd[q] = Req}
      \/ (\A q \in Opposite(p) : fd[q] # Req) /\ blocked' = blocked \cup {p}
  BY <1>1, <1>2, FifoNames DEF Opposite
<1>7. QED
  BY <1>1, <1>3, <1>4, <1>5, <1>6 DEF Opens

\* A client opens the answers to read, the server opens them to write.
LEMMA OpenResEffect ==
    ASSUME FifoShape, Ends, NEW p \in Procs, fd[p] = Nowhere,
           \/ p = Server /\ Fifos!OpenWrite(p, "res")
           \/ p \in Clients /\ Fifos!OpenRead(p, "res")
    PROVE  Opens(p, Res) /\ Res \in ResFifos /\ path["res"] # 0
<1>1. /\ path["res"] # 0 /\ Res \in ResFifos
      /\ fd' = [fd EXCEPT ![p] = Res] /\ data' = data
      /\ p # Server => /\ readers' = [readers EXCEPT ![Res] = @ \cup {p}] /\ writers' = writers
                       /\ blocked' = IF writers[Res] = {} THEN blocked \cup {p} ELSE blocked \ writers[Res]
      /\ p = Server => /\ writers' = [writers EXCEPT ![Res] = @ \cup {p}] /\ readers' = readers
                       /\ blocked' = IF readers[Res] = {} THEN blocked \cup {p} ELSE blocked \ readers[Res]
  <2>1. path["res"] # 0
    BY DEF Fifos!OpenRead, Fifos!OpenWrite
  <2>2. Res \in ResFifos
    BY <2>1, FifoNames DEF FifoShape, Res, ResFifos, Generations
  <2>3. QED
    BY <2>1, <2>2, FifoNames DEF Fifos!OpenRead, Fifos!OpenWrite, Fifos!Opening, Res
<1>2. /\ writers[Res] = {q \in {Server} : fd[q] = Res}
      /\ readers[Res] = {c \in Clients : fd[c] = Res}
  BY <1>1 DEF Ends
<1>3. FifoTypes'
  <2>1. blocked' \in SUBSET Procs
    BY <1>1, <1>2, FifoNames DEF FifoShape, FifoTypes
  <2>2. /\ readers' \in [ReqFifos \cup ResFifos -> SUBSET Procs]
        /\ writers' \in [ReqFifos \cup ResFifos -> SUBSET Procs]
    <3>1. /\ readers \in [ReqFifos \cup ResFifos -> SUBSET Procs]
          /\ writers \in [ReqFifos \cup ResFifos -> SUBSET Procs]
      BY DEF FifoShape, FifoTypes
    <3>2. readers[Res] \cup {p} \in SUBSET Procs /\ writers[Res] \cup {p} \in SUBSET Procs
      BY <1>1, <3>1
    <3>3. CASE p = Server
      BY <1>1, <3>1, <3>2, <3>3
    <3>4. CASE p # Server
      BY <1>1, <3>1, <3>2, <3>4
    <3>5. QED
      BY <3>3, <3>4
  <2>3. fd' \in [Procs -> ReqFifos \cup ResFifos \cup {Nowhere}]
    BY <1>1 DEF FifoShape, FifoTypes
  <2>4. QED
    BY <1>1, <2>1, <2>2, <2>3 DEF FifoShape, FifoTypes
<1>4. Ends'
  BY <1>1, FifoNames DEF Ends, FifoShape, FifoTypes
<1>5. fd'[p] = Res /\ \A q \in Procs \ {p} : fd'[q] = fd[q]
  BY <1>1 DEF FifoShape, FifoTypes
<1>6. \/ (\E q \in Opposite(p) : fd[q] = Res) /\ blocked' = blocked \ {q \in Opposite(p) : fd[q] = Res}
      \/ (\A q \in Opposite(p) : fd[q] # Res) /\ blocked' = blocked \cup {p}
  BY <1>1, <1>2, FifoNames DEF Opposite
<1>7. QED
  BY <1>1, <1>3, <1>4, <1>5, <1>6 DEF Opens

\* close: what is in a FIFO goes with the last descriptor of it.
LEMMA CloseEffect ==
    ASSUME FifoShape, Ends, NEW p \in Procs, Fifos!Close(p)
    PROVE  Closes(p)
<1>1. /\ readers' = [f \in ReqFifos \cup ResFifos |-> IF f = fd[p] THEN readers[f] \ {p} ELSE readers[f]]
      /\ writers' = [f \in ReqFifos \cup ResFifos |-> IF f = fd[p] THEN writers[f] \ {p} ELSE writers[f]]
      /\ data' = [f \in ReqFifos \cup ResFifos |->
                    IF readers'[f] \cup writers'[f] = {} THEN << >> ELSE data[f]]
      /\ fd' = [fd EXCEPT ![p] = Nowhere] /\ blocked' = blocked \ {p}
  BY FifoNames DEF Fifos!Close, Nowhere
<1>2. fd'[p] = Nowhere /\ \A q \in Procs \ {p} : fd'[q] = fd[q]
  BY <1>1 DEF FifoShape, FifoTypes
<1>3. /\ \A f \in ReqFifos : /\ readers'[f] = {q \in {Server} : fd'[q] = f}
                             /\ writers'[f] = {c \in Clients : fd'[c] = f}
      /\ \A f \in ResFifos : /\ readers'[f] = {c \in Clients : fd'[c] = f}
                             /\ writers'[f] = {q \in {Server} : fd'[q] = f}
  BY <1>1, <1>2, FifoNames DEF Ends
<1>4. \A f \in ReqFifos \cup ResFifos :
        readers'[f] \cup writers'[f] = {} <=> \A q \in Procs : fd'[q] # f
  BY <1>3, FifoNames
<1>5. \A f \in ReqFifos \cup ResFifos :
        \/ data'[f] = data[f] /\ \E q \in Procs : fd'[q] = f
        \/ data'[f] = << >> /\ \A q \in Procs : fd'[q] # f
  BY <1>1, <1>4
<1>6. FifoTypes'
  <2>1. data' \in [ReqFifos \cup ResFifos -> Seq(Clients)]
    BY <1>1 DEF FifoShape, FifoTypes
  <2>2. QED
    BY <1>1, <2>1 DEF FifoShape, FifoTypes
<1>7. Ends'
  BY <1>3, <1>5 DEF Ends
<1>8. QED
  BY <1>1, <1>2, <1>5, <1>6, <1>7 DEF Closes

\* write: the message is in the FIFO, or nobody is there to read it.
LEMMA WriteEffect ==
    ASSUME FifoShape, Ends, NEW p \in Procs, NEW message \in Clients, NEW next,
           fd[p] \in IF p = Server THEN ResFifos ELSE ReqFifos, Fifos!Write(p, message, next)
    PROVE  \/ Puts(p, message) /\ pc' = [pc EXCEPT ![p] = next] /\ sigpiped' = sigpiped
           \/ /\ Closes(p) /\ \A q \in Opposite(p) : fd[q] # fd[p]
              /\ pc' = [pc EXCEPT ![p] = IF p = Server THEN "off" ELSE "ended"]
              /\ sigpiped' = sigpiped \cup {p}
<1>1. readers[fd[p]] = {q \in Opposite(p) : fd[q] = fd[p]} /\ fd[p] \in ReqFifos \cup ResFifos
  BY FifoNames DEF Ends, Opposite
<1>2. CASE readers[fd[p]] # {}
  <2>1. /\ data' = [data EXCEPT ![fd[p]] = Append(@, message)] /\ pc' = [pc EXCEPT ![p] = next]
        /\ UNCHANGED <<readers, writers, fd, blocked, sigpiped>>
    BY <1>2 DEF Fifos!Write
  <2>2. /\ data'[fd[p]] = Append(data[fd[p]], message)
        /\ \A f \in (ReqFifos \cup ResFifos) \ {fd[p]} : data'[f] = data[f]
    BY <1>1, <2>1 DEF FifoShape, FifoTypes
  <2>3. FifoTypes'
    <3>1. data' \in [ReqFifos \cup ResFifos -> Seq(Clients)]
      BY <1>1, <2>1 DEF FifoShape, FifoTypes
    <3>2. QED
      BY <2>1, <3>1 DEF FifoShape, FifoTypes
  <2>4. Ends'
    BY <2>1, <2>2 DEF Ends
  <2>5. QED
    BY <1>1, <1>2, <2>1, <2>2, <2>3, <2>4 DEF Puts
<1>3. CASE readers[fd[p]] = {}
  BY <1>1, <1>3, CloseEffect DEF Fifos!Write, Server
<1>4. QED
  BY <1>2, <1>3

\* read: the first message is taken out.
LEMMA ReadEffect ==
    ASSUME FifoShape, Ends, NEW p \in Procs, fd[p] \in ReqFifos \cup ResFifos,
           data[fd[p]] # << >>, data' = [data EXCEPT ![fd[p]] = Tail(@)],
           UNCHANGED <<readers, writers, fd, blocked>>
    PROVE  Gets(p) /\ Head(data[fd[p]]) \in Clients
<1>1. data[fd[p]] \in Seq(Clients)
  BY DEF FifoShape, FifoTypes
<1>2. Tail(data[fd[p]]) \in Seq(Clients) /\ Head(data[fd[p]]) \in Clients
  BY <1>1
<1>3. FifoTypes'
  BY <1>2 DEF FifoShape, FifoTypes
<1>4. /\ data'[fd[p]] = Tail(data[fd[p]])
      /\ \A f \in (ReqFifos \cup ResFifos) \ {fd[p]} : data'[f] = data[f]
  BY DEF FifoShape, FifoTypes
<1>5. Ends'
  BY <1>4 DEF Ends
<1>6. QED
  BY <1>2, <1>3, <1>4, <1>5 DEF Gets

Moves(p, from, to) ==
    /\ pc[p] = from /\ pc'[p] = to /\ DOMAIN pc' = Procs
    /\ \A q \in Procs \ {p} : pc'[q] = pc[q]
users == <<answer, endless, alone, disturbed>>

\* A step of one process is one move.
LEMMA GotoMoves ==
    ASSUME FifoShape, NEW p \in Procs, NEW from, NEW to, Fifos!Goto(p, from, to)
    PROVE  Moves(p, from, to)
BY DEF Fifos!Goto, Moves, FifoShape

\* What the steps of the server do.
LEMMA ServerEffect ==
    ASSUME FifoShape, AtStatement, Ends
    PROVE
      /\ Fifos!S_Start =>
            /\ Moves(Server, "off", "mkfifo_req") /\ Stands
            /\ starts < MaxStarts /\ starts' = starts + 1 /\ UNCHANGED <<path, request, users, sigpiped>>
      /\ Fifos!Mkfifo("req", "mkfifo_req", "mkfifo_res") =>
            /\ Moves(Server, "mkfifo_req", "mkfifo_res") /\ Stands
            /\ path' = [path EXCEPT !["req"] = IF @ = 0 THEN starts ELSE @]
            /\ UNCHANGED <<starts, request, users, sigpiped>>
      /\ Fifos!Mkfifo("res", "mkfifo_res", "open_req") =>
            /\ Moves(Server, "mkfifo_res", "open_req") /\ Stands
            /\ path' = [path EXCEPT !["res"] = IF @ = 0 THEN starts ELSE @]
            /\ UNCHANGED <<starts, request, users, sigpiped>>
      /\ Fifos!S_OpenReq =>
            /\ Moves(Server, "open_req", "opening_req") /\ Opens(Server, Req) /\ Req \in ReqFifos
            /\ UNCHANGED <<path, starts, request, users, sigpiped>>
      /\ Fifos!Opened("server", "opening_req", "read") =>
            /\ Moves(Server, "opening_req", "read") /\ Server \notin blocked /\ Stands
            /\ UNCHANGED <<path, starts, request, users, sigpiped>>
      /\ Fifos!S_Read =>
            /\ Moves(Server, "read", "close_req") /\ fd[Server] = Req
            /\ \/ Gets(Server) /\ request' = Head(data[Req]) /\ request' \in Clients
               \/ /\ Stands /\ request' = "none"
                  /\ data[Req] = << >> /\ \A c \in Clients : fd[c] # Req
            /\ UNCHANGED <<path, starts, users, sigpiped>>
      /\ Fifos!S_CloseReq =>
            /\ Moves(Server, "close_req", IF request = "none" THEN "open_req" ELSE "compute")
            /\ Closes(Server) /\ UNCHANGED <<path, starts, request, users, sigpiped>>
      /\ Fifos!S_Compute =>
            /\ Moves(Server, "compute", "open_res") /\ Stands
            /\ UNCHANGED <<path, starts, request, users, sigpiped>>
      /\ Fifos!S_OpenRes =>
            /\ Moves(Server, "open_res", "opening_res") /\ Opens(Server, Res) /\ Res \in ResFifos
            /\ UNCHANGED <<path, starts, request, users, sigpiped>>
      /\ Fifos!Opened("server", "opening_res", "write") =>
            /\ Moves(Server, "opening_res", "write") /\ Server \notin blocked /\ Stands
            /\ UNCHANGED <<path, starts, request, users, sigpiped>>
      /\ Fifos!S_Write =>
            /\ fd[Server] = Res
            /\ \/ Moves(Server, "write", "close_res") /\ Puts(Server, request) /\ sigpiped' = sigpiped
               \/ /\ Moves(Server, "write", "off") /\ Closes(Server)
                  /\ \A c \in Clients : fd[c] # Res
                  /\ sigpiped' = sigpiped \cup {Server}
            /\ UNCHANGED <<path, starts, request, users>>
      /\ Fifos!S_CloseRes =>
            /\ Moves(Server, "close_res", "open_req") /\ Closes(Server)
            /\ UNCHANGED <<path, starts, request, users, sigpiped>>
      /\ Fifos!S_Signal =>
            /\ Moves(Server, pc[Server], "unlink_req")
            /\ pc[Server] \notin {"off", "unlink_req", "unlink_res", "exit"}
            /\ (Server \notin blocked /\ Stands) \/ Closes(Server)
            /\ alone' = alone \ Active
            /\ UNCHANGED <<path, starts, request, answer, endless, disturbed, sigpiped>>
      /\ Fifos!Unlink("req", "unlink_req", "unlink_res") =>
            /\ Moves(Server, "unlink_req", "unlink_res") /\ Stands
            /\ path' = [path EXCEPT !["req"] = 0]
            /\ UNCHANGED <<starts, request, users, sigpiped>>
      /\ Fifos!Unlink("res", "unlink_res", "exit") =>
            /\ Moves(Server, "unlink_res", "exit") /\ Stands
            /\ path' = [path EXCEPT !["res"] = 0]
            /\ UNCHANGED <<starts, request, users, sigpiped>>
      /\ Fifos!S_Exit =>
            /\ Moves(Server, "exit", "off") /\ Closes(Server)
            /\ UNCHANGED <<path, starts, request, users, sigpiped>>
<1>0. Server = "server" /\ Server \in Procs /\ Opposite(Server) = Clients
  BY FifoNames DEF Opposite
<1>1. ASSUME Fifos!S_OpenReq
      PROVE  /\ Moves(Server, "open_req", "opening_req") /\ Opens(Server, Req) /\ Req \in ReqFifos
             /\ UNCHANGED <<path, starts, request, users, sigpiped>>
  <2>1. Moves(Server, "open_req", "opening_req")
    BY <1>0, <1>1, GotoMoves DEF Fifos!S_OpenReq
  <2>2. fd[Server] = Nowhere /\ Fifos!OpenRead(Server, "req")
    BY <1>0, <1>1, <2>1 DEF Fifos!S_OpenReq, Moves, AtStatement, AtServer
  <2>3. QED
    BY <1>0, <1>1, <2>1, <2>2, OpenReqEffect DEF Fifos!S_OpenReq, Fifos!history, users
<1>2. ASSUME Fifos!S_OpenRes
      PROVE  /\ Moves(Server, "open_res", "opening_res") /\ Opens(Server, Res) /\ Res \in ResFifos
             /\ UNCHANGED <<path, starts, request, users, sigpiped>>
  <2>1. Moves(Server, "open_res", "opening_res")
    BY <1>0, <1>2, GotoMoves DEF Fifos!S_OpenRes
  <2>2. fd[Server] = Nowhere /\ Fifos!OpenWrite(Server, "res")
    BY <1>0, <1>2, <2>1 DEF Fifos!S_OpenRes, Moves, AtStatement, AtServer
  <2>3. QED
    BY <1>0, <1>2, <2>1, <2>2, OpenResEffect DEF Fifos!S_OpenRes, Fifos!history, users
<1>3. ASSUME Fifos!S_Read
      PROVE  /\ Moves(Server, "read", "close_req") /\ fd[Server] = Req
             /\ \/ Gets(Server) /\ request' = Head(data[Req]) /\ request' \in Clients
                \/ /\ Stands /\ request' = "none"
                   /\ data[Req] = << >> /\ \A c \in Clients : fd[c] # Req
             /\ UNCHANGED <<path, starts, users, sigpiped>>
  <2>1. Moves(Server, "read", "close_req")
    BY <1>0, <1>3, GotoMoves DEF Fifos!S_Read
  <2>2. fd[Server] = Req /\ Req \in ReqFifos
    <3>1. fd[Server] = Req /\ path["req"] # 0
      BY <2>1 DEF AtStatement, AtServer, Moves, Serving
    <3>2. QED
      BY <3>1, FifoNames DEF FifoShape, Req, ReqFifos, Generations
  <2>3. CASE data[Req] # << >> /\ request' = Head(data[Req]) /\ data' = [data EXCEPT ![Req] = Tail(@)]
    BY <1>0, <1>3, <2>1, <2>2, <2>3, ReadEffect DEF Fifos!S_Read, Fifos!history, users
  <2>4. CASE Fifos!EndOfFile(Req) /\ request' = "none" /\ UNCHANGED data
    <3>1. data[Req] = << >> /\ writers[Req] = {}
      BY <2>4 DEF Fifos!EndOfFile
    <3>2. \A c \in Clients : fd[c] # Req
      BY <2>2, <3>1 DEF Ends
    <3>3. QED
      BY <1>3, <2>1, <2>2, <2>4, <3>1, <3>2 DEF Fifos!S_Read, Fifos!history, users, Stands
  <2>5. QED
    BY <1>0, <1>3, <2>2, <2>3, <2>4 DEF Fifos!S_Read
<1>4. ASSUME Fifos!S_Write
      PROVE  /\ fd[Server] = Res
             /\ \/ Moves(Server, "write", "close_res") /\ Puts(Server, request) /\ sigpiped' = sigpiped
                \/ /\ Moves(Server, "write", "off") /\ Closes(Server)
                   /\ \A c \in Clients : fd[c] # Res
                   /\ sigpiped' = sigpiped \cup {Server}
             /\ UNCHANGED <<path, starts, request, users>>
  <2>1. pc[Server] = "write" /\ Fifos!Write(Server, request, "close_res")
        /\ UNCHANGED <<path, starts, request, users>>
    BY <1>0, <1>4 DEF Fifos!S_Write, Fifos!history, users
  <2>2. fd[Server] = Res /\ Res \in ResFifos /\ request \in Clients
    <3>1. fd[Server] = Res /\ path["res"] # 0 /\ request # "none"
      BY <2>1 DEF AtStatement, AtServer, Serving
    <3>2. QED
      BY <3>1, FifoNames DEF FifoShape, Res, ResFifos, Generations
  <2>3. \/ Puts(Server, request) /\ pc' = [pc EXCEPT ![Server] = "close_res"] /\ sigpiped' = sigpiped
        \/ /\ Closes(Server) /\ \A q \in Opposite(Server) : fd[q] # fd[Server]
           /\ pc' = [pc EXCEPT ![Server] = "off"]
           /\ sigpiped' = sigpiped \cup {Server}
    BY <1>0, <2>1, <2>2, WriteEffect
  <2>4. ASSUME NEW to, pc' = [pc EXCEPT ![Server] = to] PROVE Moves(Server, "write", to)
    BY <1>0, <2>1, <2>4 DEF FifoShape, Moves
  <2>5. QED
    BY <1>0, <2>1, <2>2, <2>3, <2>4
<1>5. ASSUME Fifos!S_Signal
      PROVE  /\ Moves(Server, pc[Server], "unlink_req")
             /\ pc[Server] \notin {"off", "unlink_req", "unlink_res", "exit"}
             /\ (Server \notin blocked /\ Stands) \/ Closes(Server)
             /\ alone' = alone \ Active
             /\ UNCHANGED <<path, starts, request, answer, endless, disturbed, sigpiped>>
  <2>1. (Server \notin blocked /\ Stands) \/ Closes(Server)
    BY <1>0, <1>5, CloseEffect DEF Fifos!S_Signal, Fifos!fifos, Stands
  <2>2. Moves(Server, pc[Server], "unlink_req")
    BY <1>0, <1>5 DEF Fifos!S_Signal, FifoShape, Moves
  <2>3. QED
    BY <1>0, <1>5, <2>1, <2>2 DEF Fifos!S_Signal, Fifos!Active, Active
<1>6. /\ Fifos!S_CloseReq =>
            /\ Moves(Server, "close_req", IF request = "none" THEN "open_req" ELSE "compute")
            /\ Closes(Server) /\ UNCHANGED <<path, starts, request, users, sigpiped>>
      /\ Fifos!S_CloseRes =>
            /\ Moves(Server, "close_res", "open_req") /\ Closes(Server)
            /\ UNCHANGED <<path, starts, request, users, sigpiped>>
      /\ Fifos!S_Exit =>
            /\ Moves(Server, "exit", "off") /\ Closes(Server)
            /\ UNCHANGED <<path, starts, request, users, sigpiped>>
  BY <1>0, GotoMoves, CloseEffect DEF Fifos!S_CloseReq, Fifos!S_CloseRes, Fifos!S_Exit,
    Fifos!history, users
<1>7. /\ Fifos!S_Start =>
            /\ Moves(Server, "off", "mkfifo_req") /\ Stands
            /\ starts < MaxStarts /\ starts' = starts + 1 /\ UNCHANGED <<path, request, users, sigpiped>>
      /\ Fifos!Opened("server", "opening_req", "read") =>
            /\ Moves(Server, "opening_req", "read") /\ Server \notin blocked /\ Stands
            /\ UNCHANGED <<path, starts, request, users, sigpiped>>
      /\ Fifos!S_Compute =>
            /\ Moves(Server, "compute", "open_res") /\ Stands
            /\ UNCHANGED <<path, starts, request, users, sigpiped>>
      /\ Fifos!Opened("server", "opening_res", "write") =>
            /\ Moves(Server, "opening_res", "write") /\ Server \notin blocked /\ Stands
            /\ UNCHANGED <<path, starts, request, users, sigpiped>>
  BY <1>0, GotoMoves DEF Fifos!S_Start, Fifos!Opened, Fifos!S_Compute, Fifos!fifos, Fifos!history,
    users, Stands
<1>8. /\ Fifos!Mkfifo("req", "mkfifo_req", "mkfifo_res") =>
            /\ Moves(Server, "mkfifo_req", "mkfifo_res") /\ Stands
            /\ path' = [path EXCEPT !["req"] = IF @ = 0 THEN starts ELSE @]
            /\ UNCHANGED <<starts, request, users, sigpiped>>
      /\ Fifos!Mkfifo("res", "mkfifo_res", "open_req") =>
            /\ Moves(Server, "mkfifo_res", "open_req") /\ Stands
            /\ path' = [path EXCEPT !["res"] = IF @ = 0 THEN starts ELSE @]
            /\ UNCHANGED <<starts, request, users, sigpiped>>
      /\ Fifos!Unlink("req", "unlink_req", "unlink_res") =>
            /\ Moves(Server, "unlink_req", "unlink_res") /\ Stands
            /\ path' = [path EXCEPT !["req"] = 0]
            /\ UNCHANGED <<starts, request, users, sigpiped>>
      /\ Fifos!Unlink("res", "unlink_res", "exit") =>
            /\ Moves(Server, "unlink_res", "exit") /\ Stands
            /\ path' = [path EXCEPT !["res"] = 0]
            /\ UNCHANGED <<starts, request, users, sigpiped>>
  BY <1>0, GotoMoves DEF Fifos!Mkfifo, Fifos!Unlink, Fifos!fifos, Fifos!history, users, Stands
<1>9. QED
  BY <1>1, <1>2, <1>3, <1>4, <1>5, <1>6, <1>7, <1>8
\* The clients that the model calls active.
LEMMA ActiveMeans ==
    /\ Fifos!Active = Active /\ Active \subseteq Clients
    /\ \A c \in Clients : c \in Active <=> pc[c] \notin {"off", "ended", "failed", "interrupted"}
BY DEF Fifos!Active, Active

\* What the steps of a client do.
LEMMA ClientEffect ==
    ASSUME FifoShape, AtStatement, Ends, NEW c \in Clients
    PROVE
      /\ Fifos!C_Start(c) =>
            /\ Moves(c, "off", "open_req") /\ Stands
            /\ endless' \in SUBSET Clients
            /\ alone' = IF Active = {} /\ Fifos!Ready THEN alone \cup {c} ELSE alone \ Active
            /\ disturbed' = (disturbed \/ Active # {})
            /\ UNCHANGED <<path, starts, request, answer, sigpiped>>
      /\ Fifos!C_OpenReq(c) =>
            /\ Moves(c, "open_req", "opening_req") /\ Opens(c, Req) /\ Req \in ReqFifos
            /\ path["req"] # 0 /\ UNCHANGED <<path, starts, request, users, sigpiped>>
      /\ Fifos!Opened(c, "opening_req", "write") =>
            /\ Moves(c, "opening_req", "write") /\ c \notin blocked /\ Stands
            /\ UNCHANGED <<path, starts, request, users, sigpiped>>
      /\ Fifos!C_Write(c) =>
            /\ fd[c] \in ReqFifos
            /\ \/ Moves(c, "write", "close_req") /\ Puts(c, c) /\ sigpiped' = sigpiped
               \/ /\ Moves(c, "write", "ended") /\ Closes(c)
                  /\ fd[Server] # fd[c] /\ sigpiped' = sigpiped \cup {c}
            /\ UNCHANGED <<path, starts, request, users>>
      /\ Fifos!C_CloseReq(c) =>
            /\ Moves(c, "close_req", "open_res") /\ Closes(c)
            /\ UNCHANGED <<path, starts, request, users, sigpiped>>
      /\ Fifos!C_OpenFails(c) =>
            /\ \/ Moves(c, "open_req", "failed") /\ path["req"] = 0
               \/ Moves(c, "open_res", "failed") /\ path["res"] = 0
            /\ Stands /\ UNCHANGED <<path, starts, request, users, sigpiped>>
      /\ Fifos!C_OpenRes(c) =>
            /\ Moves(c, "open_res", "opening_res") /\ Opens(c, Res) /\ Res \in ResFifos
            /\ path["res"] # 0 /\ UNCHANGED <<path, starts, request, users, sigpiped>>
      /\ Fifos!Opened(c, "opening_res", "read") =>
            /\ Moves(c, "opening_res", "read") /\ c \notin blocked /\ Stands
            /\ UNCHANGED <<path, starts, request, users, sigpiped>>
      /\ Fifos!C_Read(c) =>
            /\ Moves(c, "read", "close_res") /\ fd[c] \in ResFifos
            /\ \/ /\ Gets(c) /\ answer' = [answer EXCEPT ![c] = Head(data[fd[c]])]
                  /\ Head(data[fd[c]]) \in Clients
               \/ /\ Stands /\ answer' = [answer EXCEPT ![c] = "eof"]
                  /\ data[fd[c]] = << >> /\ fd[Server] # fd[c]
            /\ UNCHANGED <<path, starts, request, endless, alone, disturbed, sigpiped>>
      /\ Fifos!C_End(c) =>
            /\ Moves(c, "close_res", "ended") /\ Closes(c)
            /\ UNCHANGED <<path, starts, request, users, sigpiped>>
      /\ Fifos!C_Interrupt(c) =>
            /\ c \in Active /\ Moves(c, pc[c], "interrupted") /\ Closes(c)
            /\ disturbed' = (disturbed \/ pc[c] \in {"close_req", "open_res", "opening_res", "read"})
            /\ UNCHANGED <<path, starts, request, answer, endless, alone, sigpiped>>
<1>0. c \in Procs /\ c # Server /\ Server = "server" /\ Opposite(c) = {Server} /\ AtClient(c)
  BY FifoNames DEF Opposite, AtStatement
<1>1. ASSUME Fifos!C_Start(c)
      PROVE  /\ Moves(c, "off", "open_req") /\ Stands
             /\ endless' \in SUBSET Clients
             /\ alone' = IF Active = {} /\ Fifos!Ready THEN alone \cup {c} ELSE alone \ Active
             /\ disturbed' = (disturbed \/ Active # {})
             /\ UNCHANGED <<path, starts, request, answer, sigpiped>>
  <2>1. endless' \in SUBSET Clients
    BY <1>1 DEF Fifos!C_Start, FifoShape
  <2>2. Moves(c, "off", "open_req")
    BY <1>0, <1>1, GotoMoves DEF Fifos!C_Start
  <2>3. QED
    BY <1>1, <2>1, <2>2, ActiveMeans DEF Fifos!C_Start, Fifos!fifos, Stands
<1>2. ASSUME Fifos!C_OpenReq(c)
      PROVE  /\ Moves(c, "open_req", "opening_req") /\ Opens(c, Req) /\ Req \in ReqFifos
             /\ path["req"] # 0 /\ UNCHANGED <<path, starts, request, users, sigpiped>>
  <2>1. Moves(c, "open_req", "opening_req")
    BY <1>0, <1>2, GotoMoves DEF Fifos!C_OpenReq
  <2>2. fd[c] = Nowhere /\ Fifos!OpenWrite(c, "req")
    BY <1>0, <1>2, <2>1 DEF Fifos!C_OpenReq, Moves, AtClient
  <2>3. QED
    BY <1>0, <1>2, <2>1, <2>2, OpenReqEffect DEF Fifos!C_OpenReq, Fifos!history, users
<1>3. ASSUME Fifos!C_OpenRes(c)
      PROVE  /\ Moves(c, "open_res", "opening_res") /\ Opens(c, Res) /\ Res \in ResFifos
             /\ path["res"] # 0 /\ UNCHANGED <<path, starts, request, users, sigpiped>>
  <2>1. Moves(c, "open_res", "opening_res")
    BY <1>0, <1>3, GotoMoves DEF Fifos!C_OpenRes
  <2>2. fd[c] = Nowhere /\ Fifos!OpenRead(c, "res")
    BY <1>0, <1>3, <2>1 DEF Fifos!C_OpenRes, Moves, AtClient
  <2>3. QED
    BY <1>0, <1>3, <2>1, <2>2, OpenResEffect DEF Fifos!C_OpenRes, Fifos!history, users
<1>4. ASSUME Fifos!C_Write(c)
      PROVE  /\ fd[c] \in ReqFifos
             /\ \/ Moves(c, "write", "close_req") /\ Puts(c, c) /\ sigpiped' = sigpiped
                \/ /\ Moves(c, "write", "ended") /\ Closes(c)
                   /\ fd[Server] # fd[c] /\ sigpiped' = sigpiped \cup {c}
             /\ UNCHANGED <<path, starts, request, users>>
  <2>1. /\ pc[c] = "write" /\ Fifos!Write(c, c, "close_req")
        /\ UNCHANGED <<path, starts, request, users>>
    BY <1>4 DEF Fifos!C_Write, Fifos!history, users
  <2>2. fd[c] \in ReqFifos
    BY <1>0, <2>1 DEF AtClient
  <2>3. \/ Puts(c, c) /\ pc' = [pc EXCEPT ![c] = "close_req"] /\ sigpiped' = sigpiped
        \/ /\ Closes(c) /\ \A q \in Opposite(c) : fd[q] # fd[c]
           /\ pc' = [pc EXCEPT ![c] = "ended"]
           /\ sigpiped' = sigpiped \cup {c}
    BY <1>0, <2>1, <2>2, WriteEffect
  <2>4. ASSUME NEW to, pc' = [pc EXCEPT ![c] = to] PROVE Moves(c, "write", to)
    BY <1>0, <2>1, <2>4 DEF FifoShape, Moves
  <2>5. QED
    BY <1>0, <2>1, <2>2, <2>3, <2>4
<1>5. ASSUME Fifos!C_Read(c)
      PROVE  /\ Moves(c, "read", "close_res") /\ fd[c] \in ResFifos
             /\ \/ /\ Gets(c) /\ answer' = [answer EXCEPT ![c] = Head(data[fd[c]])]
                   /\ Head(data[fd[c]]) \in Clients
                \/ /\ Stands /\ answer' = [answer EXCEPT ![c] = "eof"]
                   /\ data[fd[c]] = << >> /\ fd[Server] # fd[c]
             /\ UNCHANGED <<path, starts, request, endless, alone, disturbed, sigpiped>>
  <2>1. Moves(c, "read", "close_res")
    BY <1>0, <1>5, GotoMoves DEF Fifos!C_Read
  <2>2. fd[c] \in ResFifos
    BY <1>0, <2>1 DEF AtClient, Moves
  <2>3. CASE /\ data[fd[c]] # << >> /\ data' = [data EXCEPT ![fd[c]] = Tail(@)]
             /\ answer' = [answer EXCEPT ![c] = Head(data[fd[c]])]
    BY <1>0, <1>5, <2>1, <2>2, <2>3, ReadEffect DEF Fifos!C_Read, Fifos!history
  <2>4. CASE Fifos!EndOfFile(fd[c]) /\ answer' = [answer EXCEPT ![c] = "eof"] /\ UNCHANGED data
    <3>1. data[fd[c]] = << >> /\ writers[fd[c]] = {}
      BY <2>4 DEF Fifos!EndOfFile
    <3>2. fd[Server] # fd[c]
      BY <2>2, <3>1 DEF Ends
    <3>3. QED
      BY <1>5, <2>1, <2>2, <2>4, <3>1, <3>2 DEF Fifos!C_Read, Fifos!history, Stands
  <2>5. QED
    BY <1>5, <2>3, <2>4 DEF Fifos!C_Read
<1>6. ASSUME Fifos!C_Interrupt(c)
      PROVE  /\ c \in Active /\ Moves(c, pc[c], "interrupted") /\ Closes(c)
             /\ disturbed' = (disturbed \/ pc[c] \in {"close_req", "open_res", "opening_res", "read"})
             /\ UNCHANGED <<path, starts, request, answer, endless, alone, sigpiped>>
  <2>1. Moves(c, pc[c], "interrupted")
    BY <1>0, <1>6 DEF Fifos!C_Interrupt, FifoShape, Moves
  <2>2. QED
    BY <1>0, <1>6, <2>1, CloseEffect, ActiveMeans DEF Fifos!C_Interrupt
<1>7. /\ Fifos!C_CloseReq(c) =>
            /\ Moves(c, "close_req", "open_res") /\ Closes(c)
            /\ UNCHANGED <<path, starts, request, users, sigpiped>>
      /\ Fifos!C_End(c) =>
            /\ Moves(c, "close_res", "ended") /\ Closes(c)
            /\ UNCHANGED <<path, starts, request, users, sigpiped>>
  BY <1>0, GotoMoves, CloseEffect DEF Fifos!C_CloseReq, Fifos!C_End, Fifos!history, users
<1>8. /\ Fifos!Opened(c, "opening_req", "write") =>
            /\ Moves(c, "opening_req", "write") /\ c \notin blocked /\ Stands
            /\ UNCHANGED <<path, starts, request, users, sigpiped>>
      /\ Fifos!Opened(c, "opening_res", "read") =>
            /\ Moves(c, "opening_res", "read") /\ c \notin blocked /\ Stands
            /\ UNCHANGED <<path, starts, request, users, sigpiped>>
      /\ Fifos!C_OpenFails(c) =>
            /\ \/ Moves(c, "open_req", "failed") /\ path["req"] = 0
               \/ Moves(c, "open_res", "failed") /\ path["res"] = 0
            /\ Stands /\ UNCHANGED <<path, starts, request, users, sigpiped>>
  BY <1>0, GotoMoves DEF Fifos!Opened, Fifos!C_OpenFails, Fifos!fifos, Fifos!history, users, Stands
<1>9. QED
  BY <1>1, <1>2, <1>3, <1>4, <1>5, <1>6, <1>7, <1>8
\* The actions, by the process that takes them.
ServerSteps ==
    \/ Fifos!S_Start \/ Fifos!Mkfifo("req", "mkfifo_req", "mkfifo_res")
    \/ Fifos!Mkfifo("res", "mkfifo_res", "open_req") \/ Fifos!S_OpenReq
    \/ Fifos!Opened("server", "opening_req", "read") \/ Fifos!S_Read \/ Fifos!S_CloseReq
    \/ Fifos!S_Compute \/ Fifos!S_OpenRes \/ Fifos!Opened("server", "opening_res", "write")
    \/ Fifos!S_Write \/ Fifos!S_CloseRes \/ Fifos!S_Signal
    \/ Fifos!Unlink("req", "unlink_req", "unlink_res") \/ Fifos!Unlink("res", "unlink_res", "exit")
    \/ Fifos!S_Exit
ClientSteps(c) ==
    \/ Fifos!C_Start(c) \/ Fifos!C_OpenReq(c) \/ Fifos!Opened(c, "opening_req", "write")
    \/ Fifos!C_Write(c) \/ Fifos!C_CloseReq(c) \/ Fifos!C_OpenFails(c) \/ Fifos!C_OpenRes(c)
    \/ Fifos!Opened(c, "opening_res", "read") \/ Fifos!C_Read(c) \/ Fifos!C_End(c)
    \/ Fifos!C_Interrupt(c)

\* Every step is one of these.
LEMMA FifoSteps ==
    ASSUME Fifos!Next
    PROVE  ServerSteps \/ \E c \in Clients : ClientSteps(c)
<1>1. \/ Fifos!Server \/ Fifos!S_Start \/ Fifos!S_Signal
      \/ \E c \in Clients : Fifos!Client(c) \/ Fifos!C_Start(c) \/ Fifos!C_Interrupt(c)
  BY DEF Fifos!Next
<1>2. Fifos!Server \/ Fifos!S_Start \/ Fifos!S_Signal => ServerSteps
  BY DEF Fifos!Server, ServerSteps
<1>3. ASSUME NEW c \in Clients
      PROVE  Fifos!Client(c) \/ Fifos!C_Start(c) \/ Fifos!C_Interrupt(c) => ClientSteps(c)
  BY DEF Fifos!Client, ClientSteps
<1>4. QED
  BY <1>1, <1>2, <1>3

\* A step of p: where p goes, and what becomes of the FIFOs.
StepOf(p) ==
    /\ DOMAIN pc' = Procs /\ \A q \in Procs \ {p} : pc'[q] = pc[q]
    /\ \/ Stands /\ p \notin blocked
       \/ \E f \in {Req, Res} : Opens(p, f) /\ p \notin blocked /\ pc'[p] \in {"opening_req", "opening_res"}
       \/ Closes(p)
       \/ \E message \in Clients : Puts(p, message) /\ p \notin blocked
       \/ Gets(p) /\ p \notin blocked

\* Only an open waits.
LEMMA NotBlocked ==
    ASSUME Waiting, NEW p, pc[p] \notin {"opening_req", "opening_res"}
    PROVE  p \notin blocked
BY DEF Waiting

\* The steps of the server are of that kind.
LEMMA ServerStepOf ==
    ASSUME FifoShape, AtStatement, Ends, Waiting, ServerSteps
    PROVE  StepOf(Server)
<1>1. ASSUME NEW from, NEW to, Moves(Server, from, to), from \notin {"opening_req", "opening_res"},
             \/ Stands
             \/ to \in {"opening_req", "opening_res"} /\ \E f \in {Req, Res} : Opens(Server, f)
             \/ \E message \in Clients : Puts(Server, message)
             \/ Gets(Server)
      PROVE  StepOf(Server)
  <2>1. Server \notin blocked
    BY <1>1, NotBlocked DEF Moves
  <2>2. QED
    BY <1>1, <2>1 DEF Moves, StepOf
<1>2. ASSUME NEW from, NEW to, Moves(Server, from, to), (Server \notin blocked /\ Stands) \/ Closes(Server)
      PROVE  StepOf(Server)
  BY <1>2 DEF Moves, StepOf
<1>3. CASE Fifos!S_Start \/ Fifos!Mkfifo("req", "mkfifo_req", "mkfifo_res") \/
           Fifos!Mkfifo("res", "mkfifo_res", "open_req") \/ Fifos!S_Compute \/
           Fifos!Unlink("req", "unlink_req", "unlink_res") \/ Fifos!Unlink("res", "unlink_res", "exit")
  BY <1>1, <1>3, ServerEffect
<1>4. CASE Fifos!S_OpenReq \/ Fifos!S_OpenRes
  BY <1>1, <1>4, ServerEffect
<1>5. CASE Fifos!Opened("server", "opening_req", "read") \/ Fifos!Opened("server", "opening_res", "write") \/
           Fifos!S_CloseReq \/ Fifos!S_CloseRes \/ Fifos!S_Signal \/ Fifos!S_Exit
  BY <1>2, <1>5, ServerEffect
<1>6. CASE Fifos!S_Read
  BY <1>1, <1>6, ServerEffect
<1>7. CASE Fifos!S_Write
  <2>1. request \in Clients
    <3>1. pc[Server] = "write"
      BY <1>7, ServerEffect DEF Moves
    <3>2. QED
      BY <3>1 DEF AtStatement, AtServer, FifoShape
  <2>2. QED
    BY <1>1, <1>2, <1>7, <2>1, ServerEffect
<1>8. QED
  BY <1>3, <1>4, <1>5, <1>6, <1>7 DEF ServerSteps

\* And so are the steps of a client.
LEMMA ClientStepOf ==
    ASSUME FifoShape, AtStatement, Ends, Waiting, NEW c \in Clients, ClientSteps(c)
    PROVE  StepOf(c)
<1>1. ASSUME NEW from, NEW to, Moves(c, from, to), from \notin {"opening_req", "opening_res"},
             \/ Stands
             \/ to \in {"opening_req", "opening_res"} /\ \E f \in {Req, Res} : Opens(c, f)
             \/ \E message \in Clients : Puts(c, message)
             \/ Gets(c)
      PROVE  StepOf(c)
  <2>1. c \notin blocked
    BY <1>1, NotBlocked DEF Moves
  <2>2. QED
    BY <1>1, <2>1 DEF Moves, StepOf
<1>2. ASSUME NEW from, NEW to, Moves(c, from, to), (c \notin blocked /\ Stands) \/ Closes(c)
      PROVE  StepOf(c)
  BY <1>2 DEF Moves, StepOf
<1>3. CASE Fifos!C_Start(c) \/ Fifos!C_OpenFails(c) \/ Fifos!C_Read(c)
  BY <1>1, <1>3, ClientEffect
<1>4. CASE Fifos!C_OpenReq(c) \/ Fifos!C_OpenRes(c)
  BY <1>1, <1>4, ClientEffect
<1>5. CASE Fifos!Opened(c, "opening_req", "write") \/ Fifos!Opened(c, "opening_res", "read") \/
           Fifos!C_CloseReq(c) \/ Fifos!C_End(c) \/ Fifos!C_Interrupt(c)
  BY <1>2, <1>5, ClientEffect
<1>6. CASE Fifos!C_Write(c)
  BY <1>1, <1>2, <1>6, ClientEffect
<1>7. QED
  BY <1>3, <1>4, <1>5, <1>6 DEF ClientSteps

\* Types.
LEMMA ShapeStep ==
    ASSUME FifoShape, AtStatement, Ends, Waiting, ServerSteps \/ \E c \in Clients : ClientSteps(c)
    PROVE  FifoShape' /\ Ends'
<1>1. PICK p \in Procs : StepOf(p)
  BY ServerStepOf, ClientStepOf, FifoNames
<1>2. FifoTypes' /\ Ends' /\ DOMAIN pc' = Procs
  <2>1. CASE Stands
    BY <1>1, <2>1 DEF StepOf, Stands, FifoShape, FifoTypes, Ends
  <2>2. CASE ~Stands
    BY <1>1, <2>2 DEF StepOf, Opens, Closes, Puts, Gets
  <2>3. QED
    BY <2>1, <2>2
<1>3. /\ sigpiped' \in SUBSET Procs
      /\ path' \in [{"req", "res"} -> 0 .. MaxStarts] /\ starts' \in 0 .. MaxStarts
      /\ request' \in Clients \cup {"none"} /\ answer' \in [Clients -> Clients \cup {"none", "eof"}]
      /\ endless' \in SUBSET Clients /\ alone' \in SUBSET Clients /\ disturbed' \in BOOLEAN
  <2>0. /\ sigpiped \in SUBSET Procs /\ Server \in Procs /\ Clients \subseteq Procs /\ MaxStarts \in Nat
        /\ path \in [{"req", "res"} -> 0 .. MaxStarts] /\ starts \in 0 .. MaxStarts
        /\ request \in Clients \cup {"none"} /\ answer \in [Clients -> Clients \cup {"none", "eof"}]
        /\ endless \in SUBSET Clients /\ alone \in SUBSET Clients /\ disturbed \in BOOLEAN
    BY FifoNames DEF FifoShape
  <2>1. CASE Fifos!S_Start \/ Fifos!Mkfifo("req", "mkfifo_req", "mkfifo_res") \/
             Fifos!Mkfifo("res", "mkfifo_res", "open_req") \/
             Fifos!Unlink("req", "unlink_req", "unlink_res") \/ Fifos!Unlink("res", "unlink_res", "exit")
    <3>1. /\ path' \in [{"req", "res"} -> 0 .. MaxStarts] /\ starts' \in 0 .. MaxStarts
          /\ UNCHANGED <<request, users, sigpiped>>
      BY <2>0, <2>1, ServerEffect
    <3>2. QED
      BY <2>0, <3>1 DEF users
  <2>2. CASE ServerSteps /\ ~(Fifos!S_Start \/ Fifos!Mkfifo("req", "mkfifo_req", "mkfifo_res") \/
             Fifos!Mkfifo("res", "mkfifo_res", "open_req") \/
             Fifos!Unlink("req", "unlink_req", "unlink_res") \/ Fifos!Unlink("res", "unlink_res", "exit"))
    <3>1. /\ UNCHANGED <<path, starts, answer, endless, disturbed>>
          /\ alone' \subseteq alone
          /\ request' = request \/ request' \in Clients \/ request' = "none"
          /\ sigpiped' = sigpiped \/ sigpiped' = sigpiped \cup {Server}
      BY <2>2, ServerEffect DEF ServerSteps, users
    <3>2. QED
      BY <2>0, <3>1
  <2>3. ASSUME NEW c \in Clients, ClientSteps(c)
        PROVE  /\ sigpiped' \in SUBSET Procs
               /\ path' \in [{"req", "res"} -> 0 .. MaxStarts] /\ starts' \in 0 .. MaxStarts
               /\ request' \in Clients \cup {"none"} /\ answer' \in [Clients -> Clients \cup {"none", "eof"}]
               /\ endless' \in SUBSET Clients /\ alone' \in SUBSET Clients /\ disturbed' \in BOOLEAN
    <3>1. /\ UNCHANGED <<path, starts, request>>
          /\ alone' \subseteq alone \cup {c} /\ endless' \in SUBSET Clients
          /\ sigpiped' = sigpiped \/ sigpiped' = sigpiped \cup {c}
          /\ disturbed' \in BOOLEAN
      BY <2>0, <2>3, ClientEffect DEF ClientSteps, users
    <3>2. answer' = answer \/ \E a \in Clients \cup {"eof"} : answer' = [answer EXCEPT ![c] = a]
      BY <2>3, ClientEffect DEF ClientSteps, users
    <3>3. QED
      BY <2>0, <2>3, <3>1, <3>2
  <2>4. QED
    BY <2>1, <2>2, <2>3
<1>4. QED
  BY <1>2, <1>3 DEF FifoShape
\* A step of one process leaves the statement of another as it was.
LEMMA OtherStands ==
    ASSUME NEW p \in Procs, NEW q \in Procs, q # p, StepOf(p)
    PROVE  fd'[q] = fd[q] /\ pc'[q] = pc[q]
<1>1. fd' = fd \/ fd'[q] = fd[q]
  BY DEF StepOf, Stands, Opens, Closes, Puts, Gets
<1>2. QED
  BY <1>1 DEF StepOf

\* Each statement of the server leads to one for which AtServer holds.
LEMMA AtServerStep ==
    ASSUME FifoShape, AtStatement, Ends, Waiting, ServerSteps
    PROVE  AtServer'
<1>0. /\ AtServer /\ Server \in Procs /\ path \in [{"req", "res"} -> 0 .. MaxStarts]
      /\ starts \in Nat /\ Server = "server" /\ MaxStarts \in Nat
  BY FifoNames DEF AtStatement, FifoShape
<1>1. CASE Fifos!S_Start
  <2>1. /\ Moves(Server, "off", "mkfifo_req") /\ Stands /\ starts' = starts + 1 /\ path' = path
    BY <1>1, ServerEffect
  <2>2. QED
    BY <1>0, <2>1 DEF AtServer, Moves, Stands, Serving
<1>2. CASE Fifos!Mkfifo("req", "mkfifo_req", "mkfifo_res")
  <2>1. /\ Moves(Server, "mkfifo_req", "mkfifo_res") /\ Stands /\ starts' = starts
        /\ path' = [path EXCEPT !["req"] = IF @ = 0 THEN starts ELSE @]
    BY <1>2, ServerEffect
  <2>2. path'["req"] # 0
    BY <1>0, <2>1 DEF AtServer, Moves
  <2>3. QED
    BY <1>0, <2>1, <2>2 DEF AtServer, Moves, Stands, Serving
<1>3. CASE Fifos!Mkfifo("res", "mkfifo_res", "open_req")
  <2>1. /\ Moves(Server, "mkfifo_res", "open_req") /\ Stands /\ starts' = starts
        /\ path' = [path EXCEPT !["res"] = IF @ = 0 THEN starts ELSE @]
    BY <1>3, ServerEffect
  <2>2. path'["res"] # 0 /\ path'["req"] # 0
    BY <1>0, <2>1 DEF AtServer, Moves
  <2>3. QED
    BY <1>0, <2>1, <2>2 DEF AtServer, Moves, Stands, Serving
<1>4. CASE Fifos!Unlink("req", "unlink_req", "unlink_res") \/ Fifos!Unlink("res", "unlink_res", "exit")
  <2>1. /\ Stands /\ starts' = starts
        /\ \/ Moves(Server, "unlink_req", "unlink_res") /\ path' = [path EXCEPT !["req"] = 0]
           \/ Moves(Server, "unlink_res", "exit") /\ path' = [path EXCEPT !["res"] = 0]
    BY <1>4, ServerEffect
  <2>2. QED
    BY <1>0, <2>1 DEF AtServer, Moves, Stands, Serving
<1>5. CASE Fifos!S_OpenReq \/ Fifos!S_OpenRes
  <2>1. /\ path' = path /\ starts' = starts /\ request' = request
        /\ \/ Moves(Server, "open_req", "opening_req") /\ Opens(Server, Req)
           \/ Moves(Server, "open_res", "opening_res") /\ Opens(Server, Res)
    BY <1>5, ServerEffect
  <2>2. Req' = Req /\ Res' = Res
    BY <2>1 DEF Req, Res
  <2>3. QED
    BY <1>0, <2>1, <2>2 DEF AtServer, Moves, Opens, Serving
<1>6. CASE Fifos!Opened("server", "opening_req", "read") \/ Fifos!Opened("server", "opening_res", "write")
           \/ Fifos!S_Compute
  <2>1. /\ path' = path /\ starts' = starts /\ request' = request /\ Stands
        /\ \/ Moves(Server, "opening_req", "read") \/ Moves(Server, "opening_res", "write")
           \/ Moves(Server, "compute", "open_res")
    BY <1>6, ServerEffect
  <2>2. Req' = Req /\ Res' = Res
    BY <2>1 DEF Req, Res
  <2>3. QED
    BY <1>0, <2>1, <2>2 DEF AtServer, Moves, Stands, Serving
<1>7. CASE Fifos!S_Read
  <2>1. /\ path' = path /\ starts' = starts /\ Moves(Server, "read", "close_req")
        /\ Gets(Server) \/ Stands
    BY <1>7, ServerEffect
  <2>2. Req' = Req /\ Res' = Res /\ fd' = fd
    BY <2>1 DEF Req, Res, Gets, Stands
  <2>3. QED
    BY <1>0, <2>1, <2>2 DEF AtServer, Moves, Serving
<1>8. CASE Fifos!S_CloseReq \/ Fifos!S_CloseRes \/ Fifos!S_Exit
  <2>1. /\ path' = path /\ starts' = starts /\ request' = request /\ Closes(Server)
        /\ \/ Moves(Server, "close_req", IF request = "none" THEN "open_req" ELSE "compute")
           \/ Moves(Server, "close_res", "open_req") \/ Moves(Server, "exit", "off")
    BY <1>8, ServerEffect
  <2>2. QED
    BY <1>0, <2>1 DEF AtServer, Moves, Closes, Serving
<1>9. CASE Fifos!S_Write
  <2>1. /\ path' = path /\ starts' = starts /\ request' = request
        /\ \/ Moves(Server, "write", "close_res") /\ Puts(Server, request)
           \/ Moves(Server, "write", "off") /\ Closes(Server)
    BY <1>9, ServerEffect DEF users
  <2>2. Req' = Req /\ Res' = Res
    BY <2>1 DEF Req, Res
  <2>3. QED
    BY <1>0, <2>1, <2>2 DEF AtServer, Moves, Puts, Closes, Serving
<1>10. CASE Fifos!S_Signal
  <2>1. /\ path' = path /\ starts' = starts /\ Moves(Server, pc[Server], "unlink_req")
        /\ pc[Server] # "off"
    BY <1>10, ServerEffect
  <2>2. QED
    BY <1>0, <2>1 DEF AtServer, Moves, Serving
<1>11. QED
  BY <1>1, <1>2, <1>3, <1>4, <1>5, <1>6, <1>7, <1>8, <1>9, <1>10 DEF ServerSteps

\* And so does each statement of a client.
LEMMA AtClientStep ==
    ASSUME FifoShape, AtStatement, Ends, Waiting, NEW c \in Clients, ClientSteps(c)
    PROVE  AtClient(c)'
<1>0. AtClient(c) /\ c \in Procs /\ alone \in SUBSET Clients /\ DOMAIN answer = Clients
  BY FifoNames DEF AtStatement, FifoShape
<1>1. CASE Fifos!C_Start(c) \/ Fifos!C_OpenFails(c)
  <2>1. /\ Stands
        /\ \/ Moves(c, "off", "open_req") \/ Moves(c, "open_req", "failed")
           \/ Moves(c, "open_res", "failed")
    BY <1>1, ClientEffect
  <2>2. QED
    BY <1>0, <2>1 DEF AtClient, Moves, Stands
<1>2. CASE Fifos!C_OpenReq(c) \/ Fifos!C_OpenRes(c)
  <2>1. \/ Moves(c, "open_req", "opening_req") /\ Opens(c, Req) /\ Req \in ReqFifos
        \/ Moves(c, "open_res", "opening_res") /\ Opens(c, Res) /\ Res \in ResFifos
    BY <1>2, ClientEffect
  <2>2. QED
    BY <1>0, <2>1 DEF AtClient, Moves, Opens
<1>3. CASE Fifos!Opened(c, "opening_req", "write") \/ Fifos!Opened(c, "opening_res", "read")
  <2>1. Stands /\ (Moves(c, "opening_req", "write") \/ Moves(c, "opening_res", "read"))
    BY <1>3, ClientEffect
  <2>2. QED
    BY <1>0, <2>1 DEF AtClient, Moves, Stands
<1>4. CASE Fifos!C_Write(c) \/ Fifos!C_Read(c)
  <2>1. \/ Moves(c, "write", "close_req") /\ Puts(c, c)
        \/ Moves(c, "write", "ended") /\ Closes(c)
        \/ Moves(c, "read", "close_res") /\ (Gets(c) \/ Stands)
    BY <1>4, ClientEffect
  <2>2. QED
    BY <1>0, <2>1 DEF AtClient, Moves, Puts, Closes, Gets, Stands
<1>5. CASE Fifos!C_CloseReq(c) \/ Fifos!C_End(c) \/ Fifos!C_Interrupt(c)
  <2>1. /\ Closes(c)
        /\ \/ Moves(c, "close_req", "open_res") \/ Moves(c, "close_res", "ended")
           \/ Moves(c, pc[c], "interrupted")
    BY <1>5, ClientEffect
  <2>2. QED
    BY <1>0, <2>1 DEF AtClient, Moves, Closes
<1>6. QED
  BY <1>1, <1>2, <1>3, <1>4, <1>5 DEF ClientSteps

\* What a step leaves of the variables of the clients.
LEMMA UsersStep ==
    ASSUME FifoShape, AtStatement, Ends, Waiting
    PROVE  /\ ServerSteps => alone' \subseteq alone /\ answer' = answer /\ disturbed' = disturbed
           /\ \A c \in Clients : ClientSteps(c) =>
                /\ UNCHANGED <<path, starts, request>>
                /\ alone' \subseteq alone \cup {c} /\ \A d \in Clients \ {c} : answer'[d] = answer[d]
<1>1. ServerSteps => alone' \subseteq alone /\ answer' = answer /\ disturbed' = disturbed
  BY ServerEffect DEF ServerSteps, users
<1>2. ASSUME NEW c \in Clients, ClientSteps(c)
      PROVE  /\ UNCHANGED <<path, starts, request>> /\ alone' \subseteq alone \cup {c}
             /\ answer' = answer \/ \E a \in Clients \cup {"eof"} : answer' = [answer EXCEPT ![c] = a]
  BY <1>2, ClientEffect DEF ClientSteps, users
<1>3. QED
  BY <1>1, <1>2 DEF FifoShape

\* Whoever moves, the others stand where they were.
LEMMA AtStatementStep ==
    ASSUME FifoShape, AtStatement, Ends, Waiting, ServerSteps \/ \E c \in Clients : ClientSteps(c)
    PROVE  AtStatement'
<1>1. CASE ServerSteps
  <2>1. StepOf(Server)
    BY <1>1, ServerStepOf
  <2>2. ASSUME NEW c \in Clients PROVE AtClient(c)'
    <3>1. fd'[c] = fd[c] /\ pc'[c] = pc[c]
      BY <2>1, FifoNames, OtherStands
    <3>2. AtClient(c) /\ alone' \subseteq alone /\ answer' = answer
      BY <1>1, UsersStep DEF AtStatement
    <3>3. QED
      BY <3>1, <3>2 DEF AtClient
  <2>3. QED
    BY <1>1, <2>2, AtServerStep DEF AtStatement
<1>2. ASSUME NEW c \in Clients, ClientSteps(c) PROVE AtStatement'
  <2>1. StepOf(c)
    BY <1>2, ClientStepOf
  <2>2. AtServer'
    <3>1. fd'[Server] = fd[Server] /\ pc'[Server] = pc[Server]
      BY <2>1, FifoNames, OtherStands
    <3>2. AtServer /\ UNCHANGED <<path, starts, request>>
      BY <1>2, UsersStep DEF AtStatement
    <3>3. QED
      BY <3>1, <3>2 DEF AtServer, Serving, Req, Res
  <2>3. ASSUME NEW d \in Clients, d # c PROVE AtClient(d)'
    <3>1. fd'[d] = fd[d] /\ pc'[d] = pc[d]
      BY <2>1, <2>3, FifoNames, OtherStands
    <3>2. AtClient(d) /\ alone' \subseteq alone \cup {c} /\ answer'[d] = answer[d]
      BY <1>2, <2>3, UsersStep DEF AtStatement
    <3>3. QED
      BY <2>3, <3>1, <3>2 DEF AtClient
  <2>4. QED
    BY <1>2, <2>2, <2>3, AtClientStep DEF AtStatement
<1>3. QED
  BY <1>1, <1>2
\* An open that waits still has nobody on the other side.
LEMMA WaitingStep ==
    ASSUME FifoShape, AtStatement, Ends, Waiting, ServerSteps \/ \E c \in Clients : ClientSteps(c)
    PROVE  Waiting'
<1>1. PICK p \in Procs : StepOf(p)
  BY ServerStepOf, ClientStepOf, FifoNames
<1>2. \A q \in blocked' : pc'[q] \in {"opening_req", "opening_res"}
  <2>1. blocked \subseteq Procs /\ \A q \in blocked : pc[q] \in {"opening_req", "opening_res"}
    BY DEF FifoShape, FifoTypes, Waiting
  <2>2. \/ blocked' \subseteq blocked /\ p \notin blocked'
        \/ blocked' \subseteq blocked \cup {p} /\ pc'[p] \in {"opening_req", "opening_res"}
    BY <1>1 DEF StepOf, Stands, Opens, Closes, Puts, Gets
  <2>3. QED
    BY <1>1, <2>1, <2>2 DEF StepOf
<1>3. \A c \in Clients : {c, Server} \cap blocked' # {} => fd'[c] # fd'[Server] \/ fd'[c] = Nowhere
  <2>0. \A c \in Clients : {c, Server} \cap blocked # {} => fd[c] # fd[Server] \/ fd[c] = Nowhere
    BY DEF Waiting
  <2>1. CASE fd' = fd /\ blocked' = blocked
    BY <2>0, <2>1
  <2>2. CASE Closes(p)
    BY <2>0, <2>2, FifoNames DEF Closes
  <2>3. ASSUME NEW f \in {Req, Res}, Opens(p, f), p \notin blocked
        PROVE  \A c \in Clients : {c, Server} \cap blocked' # {} => fd'[c] # fd'[Server] \/ fd'[c] = Nowhere
    <3>1. f # Nowhere
      BY <2>3, FifoNames DEF Opens
    <3>2. CASE p = Server
      BY <2>0, <2>3, <3>1, <3>2, FifoNames DEF Opens, Opposite
    <3>3. CASE p # Server
      BY <2>0, <2>3, <3>1, <3>3, FifoNames DEF Opens, Opposite
    <3>4. QED
      BY <3>2, <3>3
  <2>4. QED
    BY <1>1, <2>1, <2>2, <2>3 DEF StepOf, Stands, Puts, Gets
<1>4. Server \in blocked' => data'[fd'[Server]] = << >>
  <2>0. /\ Server \in blocked => data[fd[Server]] = << >> /\ pc[Server] \in {"opening_req", "opening_res"}
        /\ Server \in blocked => fd[Server] \in ReqFifos \cup ResFifos
    <3>1. Server \in blocked => data[fd[Server]] = << >> /\ pc[Server] \in {"opening_req", "opening_res"}
      BY DEF Waiting
    <3>2. pc[Server] \in {"opening_req", "opening_res"} => fd[Server] \in ReqFifos \cup ResFifos
      <4>1. pc[Server] \in {"opening_req", "opening_res"} =>
              /\ fd[Server] \in {Req, Res} /\ path["req"] \in 1 .. MaxStarts
              /\ path["res"] \in 1 .. MaxStarts
        BY FifoNames DEF AtStatement, AtServer, Serving, FifoShape
      <4>2. QED
        BY <4>1, FifoNames DEF Req, Res
    <3>3. QED
      BY <3>1, <3>2
  <2>1. CASE Stands
    BY <2>0, <2>1 DEF Stands
  <2>2. CASE Closes(p)
    <3>1. CASE p = Server
      BY <2>2, <3>1 DEF Closes
    <3>2. CASE p # Server
      BY <2>0, <2>2, <3>2, FifoNames DEF Closes
    <3>3. QED
      BY <3>1, <3>2
  <2>3. ASSUME NEW f \in {Req, Res}, Opens(p, f), p \notin blocked
        PROVE  Server \in blocked' => data'[fd'[Server]] = << >>
    <3>1. CASE p = Server
      <4>1. Server \in blocked' => \A q \in Procs : fd[q] # f
        BY <2>3, <3>1, FifoNames DEF Opens, Opposite
      <4>2. f \in ReqFifos \cup ResFifos /\ fd'[Server] = f /\ data' = data
        BY <2>3, <3>1 DEF Opens
      <4>3. QED
        BY <4>1, <4>2 DEF Ends
    <3>2. CASE p # Server
      BY <2>0, <2>3, <3>2, FifoNames DEF Opens
    <3>3. QED
      BY <3>1, <3>2
  <2>4. ASSUME NEW message \in Clients, Puts(p, message), p \notin blocked
        PROVE  Server \in blocked' => data'[fd'[Server]] = << >>
    <3>1. CASE p = Server
      BY <2>4, <3>1 DEF Puts
    <3>2. CASE p # Server
      <4>1. p \in Clients /\ fd[Server] = fd[p] /\ fd[p] # Nowhere
        BY <2>4, <3>2, FifoNames DEF Puts, Opposite
      <4>2. Server \notin blocked
        BY <4>1 DEF Waiting
      <4>3. QED
        BY <2>4, <4>2 DEF Puts
    <3>3. QED
      BY <3>1, <3>2
  <2>5. CASE Gets(p) /\ p \notin blocked
    BY <2>0, <2>5 DEF Gets
  <2>6. QED
    BY <1>1, <2>1, <2>2, <2>3, <2>4, <2>5 DEF StepOf
<1>5. QED
  BY <1>2, <1>3, <1>4 DEF Waiting

\* Who is active after a step.
LEMMA ActiveStep ==
    ASSUME FifoShape, AtStatement, Ends, Waiting
    PROVE  /\ ServerSteps => Active' = Active
           /\ \A c \in Clients : ClientSteps(c) =>
                /\ Active' \subseteq Active \cup {c} /\ Active \subseteq Active' \cup {c}
                /\ c \in Active \/ (Fifos!C_Start(c) /\ c \notin alone)
<1>1. ASSUME ServerSteps PROVE Active' = Active
  <2>1. \A c \in Clients : pc'[c] = pc[c]
    BY <1>1, ServerStepOf, FifoNames DEF StepOf
  <2>2. QED
    BY <2>1 DEF Active
<1>2. ASSUME NEW c \in Clients, ClientSteps(c)
      PROVE  /\ Active' \subseteq Active \cup {c} /\ Active \subseteq Active' \cup {c}
             /\ c \in Active \/ (Fifos!C_Start(c) /\ c \notin alone)
  <2>1. \A d \in Clients \ {c} : pc'[d] = pc[d]
    BY <1>2, ClientStepOf, FifoNames DEF StepOf
  <2>2. c \in Active \/ Fifos!C_Start(c)
    BY <1>2, ClientEffect DEF ClientSteps, Moves, Active
  <2>3. pc[c] = "off" => c \notin alone
    BY DEF AtStatement, AtClient
  <2>4. Fifos!C_Start(c) => pc[c] = "off"
    BY ClientEffect DEF Moves
  <2>5. Active' \subseteq Active \cup {c} /\ Active \subseteq Active' \cup {c}
    BY <2>1 DEF Active
  <2>6. QED
    BY <2>2, <2>3, <2>4, <2>5
<1>3. QED
  BY <1>1, <1>2

\* Calm is not regained but by a client that starts while none is active.
LEMMA CalmBefore ==
    ASSUME FifoShape, AtStatement, Ends, Waiting, Calm'
    PROVE  /\ ServerSteps => Calm
           /\ \A c \in Clients : ClientSteps(c) =>
                /\ Calm \/ (Fifos!C_Start(c) /\ Active = {} /\ Fifos!Ready)
                /\ Fifos!C_Start(c) => Active = {}
<1>1. ServerSteps => Calm
  BY ActiveStep, UsersStep DEF Calm
<1>2. ASSUME NEW c \in Clients, ClientSteps(c), ~Fifos!C_Start(c) PROVE Calm
  <2>1. alone' = alone /\ (disturbed => disturbed')
    <3>1. disturbed \in BOOLEAN
      BY DEF FifoShape
    <3>2. alone' = alone /\ (disturbed' = disturbed \/ \E b \in BOOLEAN : disturbed' = (disturbed \/ b))
      BY <1>2, ClientEffect DEF ClientSteps, users
    <3>3. QED
      BY <3>1, <3>2
  <2>2. Active' \subseteq Active
    BY <1>2, ActiveStep DEF Active
  <2>3. QED
    BY <2>1, <2>2 DEF Calm
<1>3. ASSUME NEW c \in Clients, Fifos!C_Start(c)
      PROVE  Active = {} /\ (Calm \/ Fifos!Ready)
  <2>1. /\ alone' = IF Active = {} /\ Fifos!Ready THEN alone \cup {c} ELSE alone \ Active
        /\ disturbed' = (disturbed \/ Active # {}) /\ Moves(c, "off", "open_req")
    BY <1>3, ClientEffect
  <2>2. Active' = Active \cup {c} /\ c \notin alone
    <3>1. \A d \in Clients : d # c => pc'[d] = pc[d]
      BY <2>1, FifoNames DEF Moves
    <3>2. c \notin alone
      BY <2>1 DEF Moves, AtStatement, AtClient
    <3>3. QED
      BY <2>1, <3>1, <3>2 DEF Moves, Active
  <2>3. Active = {}
    BY <2>1, <2>2 DEF Calm
  <2>4. Calm \/ Fifos!Ready
    BY <2>1, <2>2, <2>3 DEF Calm
  <2>5. QED
    BY <2>3, <2>4
<1>4. QED
  BY <1>1, <1>2, <1>3

\* One client at a time, as long as none has disturbed another.
LEMMA LoneStep ==
    ASSUME FifoShape, AtStatement, Ends, Waiting, Lone,
           ServerSteps \/ \E c \in Clients : ClientSteps(c)
    PROVE  Lone'
<1> SUFFICES ASSUME Calm' PROVE \A c, d \in Active' : c = d
  BY DEF Lone
<1>1. CASE ServerSteps
  BY <1>1, CalmBefore, ActiveStep DEF Lone
<1>2. ASSUME NEW c \in Clients, ClientSteps(c) PROVE \A d, e \in Active' : d = e
  <2>1. CASE Fifos!C_Start(c)
    BY <1>2, <2>1, CalmBefore, ActiveStep
  <2>2. CASE ~Fifos!C_Start(c)
    BY <1>2, <2>2, CalmBefore, ActiveStep DEF Lone
  <2>3. QED
    BY <2>1, <2>2
<1>3. QED
  BY <1>1, <1>2
\* Nobody has a FIFO open that is still to be made.
LEMMA FreshStep ==
    ASSUME FifoShape, AtStatement, Ends, Waiting, Fresh, ~disturbed /\ Serving => OneRequest,
           ServerSteps \/ \E c \in Clients : ClientSteps(c)
    PROVE  Fresh'
<1>0. /\ Server \in Procs /\ Clients \subseteq Procs /\ starts \in Nat /\ MaxStarts \in Nat
      /\ path \in [{"req", "res"} -> 0 .. MaxStarts] /\ Nowhere[2] = 0 /\ Server = "server"
      /\ disturbed \in BOOLEAN
      /\ \A p \in Procs : fd[p] \in ReqFifos \cup ResFifos \cup {Nowhere}
      /\ \A p \in Procs : fd[p][2] \in Nat
  <2>1. /\ Server \in Procs /\ Clients \subseteq Procs /\ starts \in Nat /\ MaxStarts \in Nat
        /\ path \in [{"req", "res"} -> 0 .. MaxStarts] /\ Nowhere[2] = 0 /\ Server = "server"
        /\ disturbed \in BOOLEAN
        /\ \A p \in Procs : fd[p] \in ReqFifos \cup ResFifos \cup {Nowhere}
    BY FifoNames DEF FifoShape, FifoTypes
  <2>2. \A f \in ReqFifos \cup ResFifos : f[2] \in Nat
    BY <2>1, FifoNames
  <2>3. QED
    BY <2>1, <2>2
<1>1. CASE ServerSteps
  <2>0. StepOf(Server) /\ disturbed' = disturbed
    BY <1>1, ServerStepOf, UsersStep
  <2>1. CASE Fifos!S_Start
    <3>1. /\ Moves(Server, "off", "mkfifo_req") /\ Stands /\ starts' = starts + 1 /\ path' = path
      BY <2>1, ServerEffect
    <3>2. ASSUME NEW p \in Procs PROVE fd'[p][2] < starts' /\ fd'[p][2] <= starts'
      <4>1. fd[p][2] \in Nat /\ fd[p][2] <= starts /\ fd'[p] = fd[p]
        BY <1>0, <3>1 DEF Stands, Fresh
      <4>2. QED
        BY <1>0, <3>1, <4>1
    <3>3. ASSUME NEW name \in {"req", "res"} PROVE path'[name] < starts' /\ path'[name] <= starts'
      <4>1. path[name] \in Nat /\ path[name] <= starts
        BY <1>0 DEF Fresh
      <4>2. QED
        BY <1>0, <3>1, <4>1
    <3>4. ~disturbed => path["req"] = 0
      BY <3>1 DEF Fresh, Moves
    <3>5. QED
      BY <2>0, <3>1, <3>2, <3>3, <3>4 DEF Fresh, Moves
  <2>2. CASE Fifos!Mkfifo("req", "mkfifo_req", "mkfifo_res")
    <3>1. /\ Moves(Server, "mkfifo_req", "mkfifo_res") /\ Stands /\ starts' = starts
          /\ path' = [path EXCEPT !["req"] = IF @ = 0 THEN starts ELSE @]
      BY <2>2, ServerEffect
    <3>2. /\ \A p \in Procs : fd[p][2] < starts
          /\ path["req"] <= starts /\ path["res"] <= starts
          /\ ~disturbed => path["req"] = 0
      BY <3>1 DEF Fresh, Moves
    <3>3. path'["req"] <= starts /\ path'["res"] <= starts
      BY <1>0, <3>1, <3>2
    <3>4. ASSUME ~disturbed
          PROVE  data'[Req'] = << >> /\ \A c \in Clients : fd'[c] # Req'
      <4>1. path'["req"] = starts
        BY <1>0, <3>1, <3>2, <3>4
      <4>2. Req' = <<"req", starts>> /\ starts \in 1 .. MaxStarts
        BY <1>0, <3>1, <4>1 DEF Req, AtStatement, AtServer, Moves, FifoShape
      <4>3. \A p \in Procs : fd[p] # Req'
        <5>1. ASSUME NEW p \in Procs, fd[p] = Req' PROVE FALSE
          <6>1. fd[p][2] = starts
            BY <4>2, <5>1
          <6>2. QED
            BY <1>0, <3>2, <6>1
        <5>2. QED
          BY <5>1
      <4>4. Req' \in ReqFifos
        BY <4>2, FifoNames
      <4>5. QED
        BY <1>0, <3>1, <4>3, <4>4 DEF Ends, Stands
    <3>5. \A p \in Procs : fd'[p][2] <= starts
      BY <1>0, <3>1, <3>2 DEF Stands
    <3>6. QED
      BY <2>0, <3>1, <3>3, <3>4, <3>5 DEF Fresh, Moves
  <2>3. CASE Fifos!Mkfifo("res", "mkfifo_res", "open_req")
    <3>1. /\ Moves(Server, "mkfifo_res", "open_req") /\ Stands /\ starts' = starts
          /\ path' = [path EXCEPT !["res"] = IF @ = 0 THEN starts ELSE @]
      BY <2>3, ServerEffect
    <3>2. path'["req"] <= starts /\ path'["res"] <= starts
      BY <1>0, <3>1 DEF Fresh
    <3>3. QED
      BY <2>0, <3>1, <3>2 DEF Fresh, Moves, Stands
  <2>4. CASE Fifos!Unlink("req", "unlink_req", "unlink_res") \/ Fifos!Unlink("res", "unlink_res", "exit")
    <3>1. /\ Stands /\ starts' = starts
          /\ \/ Moves(Server, "unlink_req", "unlink_res") /\ path' = [path EXCEPT !["req"] = 0]
             \/ Moves(Server, "unlink_res", "exit") /\ path' = [path EXCEPT !["res"] = 0]
      BY <2>4, ServerEffect
    <3>2. path'["req"] <= starts /\ path'["res"] <= starts
      BY <1>0, <3>1 DEF Fresh
    <3>3. QED
      BY <2>0, <3>1, <3>2 DEF Fresh, Moves, Stands
  <2>5. CASE Fifos!S_Exit
    <3>1. /\ Moves(Server, "exit", "off") /\ Closes(Server) /\ starts' = starts /\ path' = path
      BY <2>5, ServerEffect
    <3>2. path["req"] = 0
      BY <3>1 DEF Moves, AtStatement, AtServer
    <3>3. \A p \in Procs : fd'[p][2] <= starts
      BY <1>0, <3>1 DEF Fresh, Closes
    <3>4. QED
      BY <2>0, <3>1, <3>2, <3>3 DEF Fresh, Moves
  <2>6. CASE Fifos!S_Write
    <3>1. /\ starts' = starts /\ path' = path /\ fd[Server] = Res
          /\ \/ Moves(Server, "write", "close_res") /\ Puts(Server, request)
             \/ Moves(Server, "write", "off") /\ Closes(Server) /\ \A c \in Clients : fd[c] # Res
      BY <2>6, ServerEffect
    <3>2. \A p \in Procs : fd'[p][2] <= starts
      BY <1>0, <3>1 DEF Fresh, Closes, Puts
    <3>3. ~disturbed => pc'[Server] # "off"
      <4>1. SUFFICES ASSUME ~disturbed, \A c \in Clients : fd[c] # Res PROVE FALSE
        BY <3>1 DEF Moves
      <4>2. pc[Server] = "write" /\ Serving /\ OneRequest /\ request # "none"
        BY <3>1, <4>1 DEF Moves, Serving, AtStatement, AtServer
      <4>3. Waits(request) /\ pc[request] \in {"opening_res", "read"}
        BY <4>2 DEF OneRequest, RequestOf, Taken
      <4>4. QED
        BY <4>1, <4>3 DEF Waits
    <3>4. QED
      BY <2>0, <3>1, <3>2, <3>3 DEF Fresh, Moves
  <2>7. CASE Fifos!S_OpenReq \/ Fifos!S_OpenRes
    <3>1. /\ starts' = starts /\ path' = path
          /\ \/ Moves(Server, "open_req", "opening_req") /\ Opens(Server, Req)
             \/ Moves(Server, "open_res", "opening_res") /\ Opens(Server, Res)
      BY <2>7, ServerEffect
    <3>2. \A p \in Procs : fd'[p][2] <= starts
      BY <1>0, <3>1 DEF Fresh, Opens, Req, Res
    <3>3. QED
      BY <2>0, <3>1, <3>2 DEF Fresh, Moves
  <2>8. CASE Fifos!Opened("server", "opening_req", "read") \/ Fifos!Opened("server", "opening_res", "write")
           \/ Fifos!S_Compute \/ Fifos!S_Read
    <3>1. /\ starts' = starts /\ path' = path /\ pc'[Server] \notin {"off", "mkfifo_req", "mkfifo_res"}
          /\ Stands \/ Gets(Server)
      BY <2>8, ServerEffect DEF Moves
    <3>2. QED
      BY <2>0, <3>1 DEF Fresh, Stands, Gets
  <2>9. CASE Fifos!S_CloseReq \/ Fifos!S_CloseRes
    <3>1. /\ starts' = starts /\ path' = path /\ pc'[Server] \notin {"off", "mkfifo_req", "mkfifo_res"}
          /\ Closes(Server)
      BY <2>9, ServerEffect DEF Moves
    <3>2. \A p \in Procs : fd'[p][2] <= starts
      BY <1>0, <3>1 DEF Fresh, Closes
    <3>3. QED
      BY <2>0, <3>1, <3>2 DEF Fresh
  <2>10. CASE Fifos!S_Signal
    <3>1. /\ starts' = starts /\ path' = path /\ pc'[Server] \notin {"off", "mkfifo_req", "mkfifo_res"}
          /\ Stands \/ Closes(Server)
      BY <2>10, ServerEffect DEF Moves
    <3>2. \A p \in Procs : fd'[p][2] <= starts
      BY <1>0, <3>1 DEF Fresh, Closes, Stands
    <3>3. QED
      BY <2>0, <3>1, <3>2 DEF Fresh
  <2>11. QED
    BY <1>1, <2>1, <2>2, <2>3, <2>4, <2>5, <2>6, <2>7, <2>8, <2>9, <2>10 DEF ServerSteps
<1>2. ASSUME NEW c \in Clients, ClientSteps(c) PROVE Fresh'
  <2>0. StepOf(c) /\ UNCHANGED <<path, starts, request>> /\ c # Server /\ c \in Procs
    BY <1>2, ClientStepOf, UsersStep, FifoNames
  <2>1. pc'[Server] = pc[Server] /\ fd'[Server] = fd[Server] /\ Req' = Req
    BY <1>0, <2>0, OtherStands DEF Req
  <2>2. disturbed => disturbed'
    <3>1. disturbed' = disturbed \/ \E b \in BOOLEAN : disturbed' = (disturbed \/ b)
      BY <1>2, ClientEffect DEF ClientSteps, users
    <3>2. QED
      BY <1>0, <3>1
  <2>3. fd'[c] \in {fd[c], Nowhere, Req, Res}
    BY <2>0 DEF StepOf, Stands, Opens, Closes, Puts, Gets
  <2>4. \A p \in Procs \ {c} : fd'[p] = fd[p]
    BY <2>0, OtherStands
  <2>5. \A p \in Procs : fd'[p][2] <= starts
    BY <1>0, <2>3, <2>4 DEF Fresh, Req, Res
  <2>6. pc[Server] = "mkfifo_req" => \A p \in Procs : fd'[p][2] < starts
    <3>1. ASSUME pc[Server] = "mkfifo_req" PROVE starts > 0
      BY <1>0, <3>1 DEF AtStatement, AtServer
    <3>2. QED
      BY <1>0, <2>3, <2>4, <3>1 DEF Fresh, Req, Res
  <2>7. ASSUME ~disturbed', pc[Server] = "mkfifo_res"
        PROVE  data'[Req] = << >> /\ \A d \in Clients : fd'[d] = Req => d \in blocked'
    <3>1. /\ data[Req] = << >> /\ \A d \in Clients : fd[d] = Req => d \in blocked
          /\ fd[Server] = Nowhere
      BY <1>0, <2>2, <2>7 DEF Fresh, AtStatement, AtServer
    <3>2. Req \in ReqFifos
      <4>1. path["req"] \in 1 .. MaxStarts
        BY <1>0, <2>7 DEF AtStatement, AtServer
      <4>2. QED
        BY <4>1, FifoNames DEF Req
    <3>3. CASE Stands
      BY <3>1, <3>3 DEF Stands
    <3>4. CASE Closes(c)
      BY <1>0, <3>1, <3>2, <3>4, FifoNames DEF Closes
    <3>5. ASSUME NEW f \in {Req, Res}, Opens(c, f)
          PROVE  data'[Req] = << >> /\ \A d \in Clients : fd'[d] = Req => d \in blocked'
      <4>1. fd[Server] # f
        BY <3>1, <3>5, FifoNames DEF Opens
      <4>2. blocked' = blocked \cup {c}
        BY <2>0, <3>5, <4>1 DEF Opens, Opposite
      <4>3. QED
        BY <1>0, <3>1, <3>5, <4>2 DEF Opens
    <3>6. ASSUME NEW message \in Clients, Puts(c, message) PROVE FALSE
      BY <2>0, <3>1, <3>6, FifoNames DEF Puts, Opposite
    <3>7. CASE Gets(c)
      <4>1. fd[c] # Req
        BY <3>1, <3>7 DEF Gets
      <4>2. QED
        BY <3>1, <3>2, <3>7, <4>1 DEF Gets
    <3>8. QED
      BY <2>0, <3>3, <3>4, <3>5, <3>6, <3>7 DEF StepOf
  <2>8. QED
    BY <2>0, <2>1, <2>2, <2>5, <2>6, <2>7 DEF Fresh
<1>3. QED
  BY <1>1, <1>2
\* While the server is at work both names lead to FIFOs, and not to the same.
LEMMA NamesServed ==
    ASSUME FifoShape, AtStatement, Serving
    PROVE  Req \in ReqFifos /\ Res \in ResFifos /\ Req # Res
<1>1. path["req"] \in 1 .. MaxStarts /\ path["res"] \in 1 .. MaxStarts
  BY FifoNames DEF FifoShape, AtStatement, AtServer
<1>2. QED
  BY <1>1, FifoNames DEF Req, Res

\* If one client is active, whatever request there is is the request of it.
LEMMA OnlyWaiter ==
    ASSUME Lone, Calm, OneRequest, NEW c \in Active, Taken \/ data[Req] # << >>
    PROVE  RequestOf(c) /\ pc[c] \in {"close_req", "open_res", "opening_res", "read"}
<1>1. PICK d \in Clients : RequestOf(d)
  BY DEF OneRequest
<1>2. d = c
  BY <1>1 DEF Lone, RequestOf, Waits, Active
<1>3. QED
  BY <1>1, <1>2 DEF RequestOf, Waits

\* The server takes one request, and takes it to the end.
LEMMA OneAtATimeServer ==
    ASSUME FifoShape, AtStatement, Ends, Waiting, Lone, Fresh, OneAtATime, Accompanied,
           ServerSteps, Calm, Serving'
    PROVE  OneRequest'
<1>0. /\ Server = "server" /\ Server \in Procs /\ Clients \subseteq Procs /\ Opposite(Server) = Clients
      /\ AtServer /\ \A c \in Clients : AtClient(c)
      /\ \A c \in Clients : pc'[c] = pc[c] /\ fd'[c] = fd[c]
  <2>1. Server = "server" /\ Server \in Procs /\ Clients \subseteq Procs /\ Opposite(Server) = Clients
    BY FifoNames DEF Opposite
  <2>2. \A c \in Clients : pc'[c] = pc[c] /\ fd'[c] = fd[c]
    BY <2>1, ServerStepOf, FifoNames, OtherStands
  <2>3. QED
    BY <2>1, <2>2 DEF AtStatement
<1>1. CASE Fifos!Mkfifo("res", "mkfifo_res", "open_req")
  <2>1. /\ Moves(Server, "mkfifo_res", "open_req") /\ Stands
        /\ path' = [path EXCEPT !["res"] = IF @ = 0 THEN starts ELSE @]
    BY <1>1, ServerEffect
  <2>2. ~disturbed
    BY <2>1 DEF Calm, Accompanied, Together, Serving, Moves
  <2>3. data[Req] = << >>
    BY <2>1, <2>2 DEF Fresh, Moves
  <2>4. data' = data /\ Req' = Req /\ pc'[Server] = "open_req"
    BY <2>1 DEF Stands, Req, FifoShape, Moves
  <2>5. QED
    BY <2>3, <2>4 DEF OneRequest, Taken
<1>2. CASE ~Fifos!Mkfifo("res", "mkfifo_res", "open_req")
  <2>0. ~(Fifos!S_Start \/ Fifos!Mkfifo("req", "mkfifo_req", "mkfifo_res") \/ Fifos!S_Signal \/
          Fifos!Unlink("req", "unlink_req", "unlink_res") \/ Fifos!Unlink("res", "unlink_res", "exit")
          \/ Fifos!S_Exit)
    BY ServerEffect DEF Moves, Serving
  <2>1. Serving /\ path' = path
    BY <1>2, <2>0, ServerEffect DEF ServerSteps, Moves, Serving
  <2>2. OneRequest /\ Req \in ReqFifos /\ Res \in ResFifos /\ Req # Res /\ Req' = Req /\ Res' = Res
    BY <2>1, NamesServed DEF OneAtATime, Req, Res
  <2>3. \/ Moves(Server, "write", "close_res") /\ Puts(Server, request) /\ fd[Server] = Res
        \/ ~Fifos!S_Write
    <3>1. ~Moves(Server, "write", "off")
      BY DEF Moves, Serving
    <3>2. QED
      BY <3>1, ServerEffect
  <2>4. CASE ~Taken /\ data[Req] = << >>
    <3>1. data'[Req] = << >>
      <4>1. data'[Req] = data[Req] \/ data'[Req] = << >>
        BY <2>0, <1>2, <2>2, <2>3, <2>4, ServerEffect
           DEF ServerSteps, Stands, Opens, Closes, Puts, Gets
      <4>2. QED
        BY <2>4, <4>1
    <3>2. ~Taken'
      <4>1. CASE Fifos!S_Read
        BY <2>4, <4>1, ServerEffect DEF Taken, Gets
      <4>2. CASE ~Fifos!S_Read
        <5>1. /\ request' = request
              /\ pc'[Server] \in {"close_req", "compute", "open_res", "opening_res", "write"} /\ request # "none"
                   => pc[Server] \in {"close_req", "compute", "open_res", "opening_res", "write"}
          BY <1>2, <2>0, <2>3, <4>2, ServerEffect DEF ServerSteps, Moves
        <5>2. QED
          BY <2>4, <5>1 DEF Taken
      <4>3. QED
        BY <4>1, <4>2
    <3>3. QED
      BY <2>2, <3>1, <3>2 DEF OneRequest
  <2>5. ASSUME NEW c \in Clients, RequestOf(c), Taken \/ data[Req] # << >>
        PROVE  OneRequest'
    <3>0. c \in Active /\ data[Res] = << >> /\ Waits(c)
      BY <2>5 DEF RequestOf, Waits, Active
    <3>1. ASSUME data'[Res] = << >> PROVE Waits(c)'
      BY <1>0, <2>2, <2>5, <3>0, <3>1 DEF Waits
    <3>2. ASSUME c \in blocked => c \in blocked', Unserved(c) PROVE Unserved(c)'
      BY <1>0, <3>2 DEF Unserved
    <3>3. ASSUME RequestOf(c)' PROVE OneRequest'
      BY <3>3 DEF OneRequest
    <3>4. CASE Fifos!S_OpenReq
      <4>1. Moves(Server, "open_req", "opening_req") /\ Opens(Server, Req) /\ request' = request
        BY <3>4, ServerEffect
      <4>2. Waits(c)'
        BY <3>0, <3>1, <4>1 DEF Opens
      <4>3. Unserved(c)'
        <5>1. pc[c] \in {"opening_res", "read"} => fd[c] # Req
          BY <2>2, <3>0 DEF Waits
        <5>2. QED
          BY <1>0, <2>5, <4>1, <5>1 DEF Opens, Unserved, RequestOf, Moves
      <4>4. QED
        BY <2>2, <2>5, <3>3, <4>1, <4>2, <4>3 DEF RequestOf, Opens, Taken, Moves
    <3>5. CASE Fifos!Opened("server", "opening_req", "read") \/ Fifos!S_Compute
               \/ Fifos!Opened("server", "opening_res", "write")
      <4>1. /\ Stands /\ request' = request
            /\ \/ Moves(Server, "opening_req", "read") \/ Moves(Server, "compute", "open_res")
               \/ Moves(Server, "opening_res", "write") /\ Server \notin blocked
        BY <3>5, ServerEffect
      <4>2. Waits(c)' /\ (Unserved(c) => Unserved(c)')
        BY <3>0, <3>1, <3>2, <4>1 DEF Stands
      <4>3. QED
        BY <1>0, <2>2, <2>5, <3>3, <4>1, <4>2 DEF RequestOf, Stands, Taken, Moves
    <3>6. CASE Fifos!S_Read
      <4>1. /\ Moves(Server, "read", "close_req") /\ fd[Server] = Req
            /\ \/ Gets(Server) /\ request' = Head(data[Req])
               \/ Stands /\ request' = "none" /\ data[Req] = << >>
        BY <3>6, ServerEffect
      <4>2. data[Req] = <<c>> /\ Unserved(c)
        BY <2>5, <4>1 DEF RequestOf, Taken, Moves
      <4>3. request' = c /\ data'[Req] = << >> /\ data'[Res] = << >> /\ blocked' = blocked
        BY <2>2, <3>0, <4>1, <4>2 DEF Gets
      <4>4. Waits(c)' /\ Unserved(c)'
        BY <3>1, <3>2, <4>2, <4>3
      <4>5. QED
        BY <2>2, <3>3, <4>1, <4>3, <4>4 DEF RequestOf, Moves
    <3>7. CASE Fifos!S_CloseReq
      <4>1. /\ Moves(Server, "close_req", IF request = "none" THEN "open_req" ELSE "compute")
            /\ Closes(Server) /\ request' = request
        BY <3>7, ServerEffect
      <4>2. /\ data'[Req] \in {data[Req], << >>} /\ data'[Res] \in {data[Res], << >>}
            /\ c \in blocked => c \in blocked'
        BY <2>2, <4>1, FifoNames DEF Closes
      <4>3. Waits(c)' /\ Unserved(c)'
        BY <2>5, <3>0, <3>1, <3>2, <4>1, <4>2 DEF RequestOf, Moves
      <4>4. Taken' => Taken
        BY <4>1 DEF Taken, Moves
      <4>5. request # "none" => Taken
        BY <4>1 DEF Taken, Moves
      <4>6. QED
        BY <2>2, <2>5, <3>3, <4>1, <4>2, <4>3, <4>4, <4>5 DEF RequestOf, Moves
    <3>8. CASE Fifos!S_OpenRes
      <4>1. Moves(Server, "open_res", "opening_res") /\ Opens(Server, Res) /\ request' = request
        BY <3>8, ServerEffect
      <4>2. data' = data /\ Waits(c)'
        BY <3>0, <3>1, <4>1 DEF Opens
      <4>3. Server \notin blocked' => pc'[c] \in {"opening_res", "read"}
        <5>1. SUFFICES ASSUME NEW d \in Clients, fd[d] = Res PROVE pc[c] \in {"opening_res", "read"}
          BY <1>0, <4>1 DEF Opens
        <5>2. d \in Active /\ pc[d] \in {"opening_res", "read", "close_res"}
          BY <1>0, <2>2, <5>1, FifoNames DEF AtClient, Active
        <5>3. d = c
          BY <3>0, <5>2 DEF Lone
        <5>4. QED
          BY <3>0, <5>2, <5>3 DEF Waits
      <4>4. Taken' => Taken
        BY <4>1 DEF Taken, Moves
      <4>5. data[Req] = << >>
        BY <2>5, <4>1 DEF RequestOf, Moves
      <4>6. QED
        BY <2>2, <2>5, <3>3, <4>1, <4>2, <4>3, <4>4, <4>5 DEF RequestOf, Moves
    <3>9. CASE Fifos!S_Write
      <4>1. Moves(Server, "write", "close_res") /\ Puts(Server, request) /\ fd[Server] = Res
        BY <2>3, <3>9
      <4>2. data[Req] = << >>
        BY <2>5, <4>1 DEF RequestOf, Moves
      <4>3. data'[Req] = << >> /\ ~Taken'
        BY <2>2, <4>1, <4>2 DEF Puts, Taken, Moves
      <4>4. QED
        BY <2>2, <4>3 DEF OneRequest
    <3>10. CASE Fifos!S_CloseRes
      <4>1. pc[Server] = "close_res"
        BY <3>10, ServerEffect DEF Moves
      <4>2. QED
        BY <2>5, <4>1 DEF RequestOf, Taken
    <3>11. QED
      BY <1>2, <2>0, <3>4, <3>5, <3>6, <3>7, <3>8, <3>9, <3>10 DEF ServerSteps
  <2>6. QED
    BY <2>2, <2>4, <2>5 DEF OneRequest
<1>3. QED
  BY <1>1, <1>2
\* A client asks when there is no request, and what it asks is the request.
LEMMA OneAtATimeClient ==
    ASSUME FifoShape, AtStatement, Ends, Waiting, Lone, Fresh, OneAtATime,
           NEW c \in Clients, ClientSteps(c), Calm, Calm', Serving
    PROVE  OneRequest'
<1>0. /\ c # Server /\ c \in Procs /\ Server \in Procs /\ Opposite(c) = {Server}
      /\ AtServer /\ AtClient(c) /\ Clients \subseteq Procs
  BY FifoNames DEF Opposite, AtStatement
<1>1. /\ OneRequest /\ Req \in ReqFifos /\ Res \in ResFifos /\ Req # Res
      /\ Req' = Req /\ Res' = Res /\ path' = path /\ request' = request
      /\ path["req"] # 0 /\ path["res"] # 0
  <2>1. path' = path /\ request' = request
    BY UsersStep
  <2>2. QED
    BY <1>0, <2>1, NamesServed DEF OneAtATime, Req, Res, AtServer
<1>2. pc'[Server] = pc[Server] /\ fd'[Server] = fd[Server] /\ (Taken' <=> Taken)
  <2>1. pc'[Server] = pc[Server] /\ fd'[Server] = fd[Server]
    BY <1>0, ClientStepOf, OtherStands
  <2>2. QED
    BY <1>1, <2>1 DEF Taken
<1>3. fd[Server] = Req => pc[Server] \in {"opening_req", "read", "close_req"}
  BY <1>0, <1>1, FifoNames DEF AtServer, Serving
<1>4. fd[Server] \in ReqFifos => fd[Server] = Req
  BY <1>0, <1>1, FifoNames DEF AtServer, Serving
<1>5. CASE ~Taken /\ data[Req] = << >>
  <2>1. CASE Fifos!C_Write(c)
    <3>1. /\ fd[c] \in ReqFifos
          /\ \/ Moves(c, "write", "close_req") /\ Puts(c, c)
             \/ Moves(c, "write", "ended") /\ Closes(c)
      BY <2>1, ClientEffect
    <3>2. CASE Moves(c, "write", "close_req") /\ Puts(c, c)
      <4>1. fd[Server] = Req /\ fd[c] = Req
        BY <1>0, <1>4, <3>1, <3>2 DEF Puts
      <4>2. pc[Server] \in {"opening_req", "read", "close_req"}
        BY <1>3, <4>1
      <4>3. \A p \in Procs : fd[p] # Res
        <5>1. ASSUME NEW d \in Clients, fd[d] = Res PROVE FALSE
          <6>1. d \in Active /\ c \in Active
            BY <1>1, <3>2, <5>1, FifoNames DEF AtStatement, AtClient, Active, Moves
          <6>2. d = c
            BY <6>1 DEF Lone
          <6>3. QED
            BY <1>1, <4>1, <5>1, <6>2
        <5>2. QED
          BY <1>1, <4>1, <5>1, FifoNames
      <4>4. data[Res] = << >>
        BY <1>1, <4>3 DEF Ends
      <4>5. data'[Req] = <<c>> /\ data'[Res] = << >>
        BY <1>1, <1>5, <3>2, <4>1, <4>4 DEF Puts
      <4>6. Waits(c)' /\ Unserved(c)'
        BY <1>1, <3>2, <4>5 DEF Waits, Unserved, Moves
      <4>7. RequestOf(c)'
        BY <1>1, <1>2, <1>5, <4>2, <4>5, <4>6 DEF RequestOf
      <4>8. QED
        BY <4>7 DEF OneRequest
    <3>3. CASE Closes(c)
      BY <1>1, <1>2, <1>5, <3>3 DEF Closes, OneRequest
    <3>4. QED
      BY <3>1, <3>2, <3>3
  <2>2. CASE ~Fifos!C_Write(c)
    <3>1. data'[Req] = data[Req] \/ data'[Req] = << >>
      <4>1. Fifos!C_Read(c) => Stands \/ (Gets(c) /\ fd[c] # Req)
        BY <1>1, ClientEffect, FifoNames
      <4>2. Stands \/ (\E f \in {Req, Res} : Opens(c, f)) \/ Closes(c) \/ (Gets(c) /\ fd[c] # Req)
        BY <2>2, <4>1, ClientEffect DEF ClientSteps
      <4>3. QED
        BY <1>1, <4>2 DEF Stands, Opens, Closes, Gets
    <3>2. QED
      BY <1>1, <1>2, <1>5, <3>1 DEF OneRequest
  <2>3. QED
    BY <2>1, <2>2
<1>6. CASE Taken \/ data[Req] # << >>
  <2>0. c \in Active
    <3>1. PICK d \in Clients : RequestOf(d)
      BY <1>1, <1>6 DEF OneRequest
    <3>2. d \in Active
      BY <3>1 DEF RequestOf, Waits, Active
    <3>3. QED
      BY <3>2, ActiveStep, CalmBefore
  <2>1. /\ RequestOf(c) /\ Waits(c) /\ pc[c] \in {"close_req", "open_res", "opening_res", "read"}
        /\ data[Res] = << >> /\ (pc[c] \in {"opening_res", "read"} => fd[c] = Res)
    BY <1>1, <1>6, <2>0, OnlyWaiter DEF RequestOf, Waits
  <2>2. pc[Server] \in {"open_req", "opening_req", "read", "close_req", "compute", "open_res",
                        "opening_res", "write"}
    BY <1>6, <2>1 DEF Taken, RequestOf
  <2>3. pc[Server] \in {"opening_res", "write"} => fd[Server] = Res
    BY <1>0 DEF AtServer
  <2>4. ASSUME Waits(c)', RequestOf(c)' PROVE OneRequest'
    BY <2>4 DEF OneRequest
  <2>5. CASE Fifos!C_CloseReq(c)
    <3>1. Moves(c, "close_req", "open_res") /\ Closes(c)
      BY <2>5, ClientEffect
    <3>2. /\ data'[Req] \in {data[Req], << >>} /\ data'[Res] = << >>
          /\ Server \in blocked => Server \in blocked'
      BY <1>0, <1>1, <2>1, <3>1 DEF Closes
    <3>3. Waits(c)' /\ Unserved(c)'
      BY <1>1, <3>1, <3>2 DEF Waits, Unserved, Moves
    <3>4. pc[Server] # "write" /\ (pc[Server] = "opening_res" => Server \in blocked)
      BY <2>1, <3>1 DEF RequestOf, Moves
    <3>5. RequestOf(c)'
      BY <1>1, <1>2, <2>1, <3>2, <3>3, <3>4 DEF RequestOf
    <3>6. QED
      BY <2>4, <3>3, <3>5
  <2>6. CASE Fifos!C_OpenRes(c)
    <3>1. Moves(c, "open_res", "opening_res") /\ Opens(c, Res)
      BY <2>6, ClientEffect
    <3>2. data' = data /\ fd'[c] = Res
      BY <3>1 DEF Opens
    <3>3. Waits(c)'
      BY <1>1, <2>1, <3>1, <3>2 DEF Waits, Moves
    <3>4. pc[Server] \in {"open_req", "opening_req", "read", "close_req", "compute", "open_res"} =>
            fd[Server] # Res
      BY <1>0, <1>1, FifoNames DEF AtServer
    <3>5. pc[Server] \in {"open_req", "opening_req", "read", "close_req", "compute", "open_res"} =>
            Unserved(c)'
      BY <1>0, <3>1, <3>4 DEF Opens, Unserved
    <3>6. RequestOf(c)'
      BY <1>1, <1>2, <2>1, <3>1, <3>2, <3>3, <3>5 DEF RequestOf, Moves
    <3>7. QED
      BY <2>4, <3>3, <3>6
  <2>7. CASE Fifos!Opened(c, "opening_res", "read")
    <3>1. Moves(c, "opening_res", "read") /\ Stands /\ c \notin blocked
      BY <2>7, ClientEffect
    <3>2. Waits(c)'
      BY <1>1, <2>1, <3>1 DEF Waits, Moves, Stands
    <3>3. ~Unserved(c)
      BY <3>1 DEF Unserved, Moves
    <3>4. RequestOf(c)'
      BY <1>1, <1>2, <2>1, <3>1, <3>2, <3>3 DEF RequestOf, Moves, Stands
    <3>5. QED
      BY <2>4, <3>2, <3>4
  <2>8. CASE Fifos!C_Read(c)
    <3>1. /\ pc[c] = "read"
          /\ Gets(c) \/ fd[Server] # fd[c]
      BY <2>8, ClientEffect DEF Moves
    <3>2. fd[c] = Res /\ ~Gets(c)
      BY <2>1, <3>1 DEF Gets
    <3>3. c \notin blocked
      BY <3>1, NotBlocked
    <3>4. ~Unserved(c)
      BY <3>1, <3>3 DEF Unserved
    <3>5. QED
      BY <2>1, <2>2, <2>3, <3>1, <3>2, <3>4 DEF RequestOf
  <2>9. CASE Fifos!C_Interrupt(c)
    <3>1. disturbed' /\ alone' = alone /\ Moves(c, pc[c], "interrupted")
      BY <2>1, <2>9, ClientEffect
    <3>2. PICK d \in Active' : d \in alone
      BY <3>1 DEF Calm
    <3>3. d # c /\ d \in Active
      BY <1>0, <3>1, <3>2 DEF Active, Moves
    <3>4. QED
      BY <2>0, <3>3 DEF Lone
  <2>10. CASE Fifos!C_OpenFails(c)
    BY <1>1, <2>10, ClientEffect
  <2>11. ~(Fifos!C_Start(c) \/ Fifos!C_OpenReq(c) \/ Fifos!Opened(c, "opening_req", "write") \/
           Fifos!C_Write(c) \/ Fifos!C_End(c))
    BY <2>1, ClientEffect DEF Moves
  <2>12. QED
    BY <2>5, <2>6, <2>7, <2>8, <2>9, <2>10, <2>11 DEF ClientSteps
<1>7. QED
  BY <1>5, <1>6

\* There is one request at a time.
LEMMA OneAtATimeStep ==
    ASSUME FifoShape, AtStatement, Ends, Waiting, Lone, Fresh, OneAtATime, Accompanied,
           ServerSteps \/ \E c \in Clients : ClientSteps(c)
    PROVE  OneAtATime'
<1> SUFFICES ASSUME Calm', Serving' PROVE OneRequest'
  BY DEF OneAtATime
<1>1. CASE ServerSteps
  BY <1>1, CalmBefore, OneAtATimeServer
<1>2. ASSUME NEW c \in Clients, ClientSteps(c) PROVE OneRequest'
  <2>1. pc'[Server] = pc[Server] /\ fd'[Server] = fd[Server] /\ Serving /\ Req' = Req
    <3>1. pc'[Server] = pc[Server] /\ fd'[Server] = fd[Server]
      BY <1>2, ClientStepOf, FifoNames, OtherStands
    <3>2. QED
      BY <1>2, <3>1, UsersStep DEF Serving, Req
  <2>2. CASE Calm
    BY <1>2, <2>1, <2>2, OneAtATimeClient
  <2>3. CASE Fifos!C_Start(c) /\ Active = {} /\ Fifos!Ready
    <3>1. \/ pc[Server] = "open_req"
          \/ pc[Server] = "opening_req" /\ Server \in blocked
      BY <2>3, FifoNames DEF Fifos!Ready
    <3>2. Stands
      BY <2>3, ClientEffect
    <3>3. data[Req] = << >>
      <4>1. CASE pc[Server] = "open_req"
        <5>1. \A d \in Clients : fd[d] = Nowhere
          BY <2>3 DEF AtStatement, AtClient, Active
        <5>2. fd[Server] = Nowhere /\ Req \in ReqFifos
          BY <2>1, <4>1, NamesServed DEF AtStatement, AtServer
        <5>3. \A p \in Procs : fd[p] # Req
          BY <5>1, <5>2, FifoNames
        <5>4. QED
          BY <5>2, <5>3 DEF Ends
      <4>2. CASE pc[Server] = "opening_req" /\ Server \in blocked
        BY <4>2 DEF Waiting, AtStatement, AtServer
      <4>3. QED
        BY <3>1, <4>1, <4>2
    <3>4. QED
      BY <2>1, <3>1, <3>2, <3>3 DEF OneRequest, Taken, Stands
  <2>4. QED
    BY <1>2, <2>2, <2>3, CalmBefore
<1>3. QED
  BY <1>1, <1>2
\* The server meets the client that is alone with it.
LEMMA TogetherServer ==
    ASSUME FifoShape, AtStatement, Ends, Waiting, Lone, Fresh, OneAtATime, Accompanied,
           ServerSteps, NEW c \in Active' \cap alone'
    PROVE  Together(c)'
<1>0. /\ Server = "server" /\ Server \in Procs /\ Clients \subseteq Procs /\ Opposite(Server) = Clients
      /\ AtServer /\ AtClient(c) /\ c \in Clients /\ c \in Active /\ c \in alone
      /\ pc'[c] = pc[c] /\ fd'[c] = fd[c] /\ ~Fifos!S_Signal
  <2>1. c \in Active /\ c \in alone /\ c \in Clients
    BY ActiveStep, UsersStep DEF Active
  <2>2. Server = "server" /\ Server \in Procs /\ Clients \subseteq Procs /\ Opposite(Server) = Clients
    BY FifoNames DEF Opposite
  <2>3. pc'[c] = pc[c] /\ fd'[c] = fd[c]
    BY <2>1, <2>2, ServerStepOf, FifoNames, OtherStands
  <2>4. ~Fifos!S_Signal
    BY <2>1, ServerEffect
  <2>5. QED
    BY <2>1, <2>2, <2>3, <2>4 DEF AtStatement
<1>1. Together(c) /\ Serving /\ Calm
  BY <1>0 DEF Accompanied, Together, Calm
<1>2. /\ OneRequest /\ Req \in ReqFifos /\ Res \in ResFifos /\ Req # Res
  BY <1>1, NamesServed DEF OneAtATime
<1>3. /\ Taken \/ data[Req] # << >> => RequestOf(c)
      /\ Taken \/ data[Req] # << >> => pc[c] \in {"close_req", "open_res", "opening_res", "read"}
      /\ Taken \/ data[Req] # << >> => Waits(c)
  BY <1>0, <1>1, <1>2, OnlyWaiter DEF RequestOf
<1>4. ~(Fifos!S_Start \/ Fifos!Mkfifo("req", "mkfifo_req", "mkfifo_res") \/
        Fifos!Mkfifo("res", "mkfifo_res", "open_req") \/
        Fifos!Unlink("req", "unlink_req", "unlink_res") \/ Fifos!Unlink("res", "unlink_res", "exit")
        \/ Fifos!S_Exit)
  BY <1>1, ServerEffect DEF Moves, Serving
<1>5. Req' = Req /\ Res' = Res
  <2>1. path' = path
    BY <1>0, <1>4, ServerEffect DEF ServerSteps
  <2>2. QED
    BY <2>1 DEF Req, Res
<1>6. CASE Fifos!S_OpenReq
  <2>1. Moves(Server, "open_req", "opening_req") /\ Opens(Server, Req)
    BY <1>6, ServerEffect
  <2>2. pc[c] = "open_req" => Server \in blocked'
    <3>1. ASSUME pc[c] = "open_req", NEW d \in Clients PROVE fd[d] # Req
      <4>1. CASE d = c
        BY <1>0, <1>2, <3>1, <4>1, FifoNames DEF AtClient
      <4>2. CASE d # c
        <5>1. d \notin Active
          BY <1>0, <1>1, <4>2 DEF Lone
        <5>2. QED
          BY <1>2, <5>1, FifoNames DEF AtStatement, AtClient, Active
      <4>3. QED
        BY <4>1, <4>2
    <3>2. QED
      BY <1>0, <2>1, <3>1 DEF Opens
  <2>3. QED
    BY <1>0, <1>1, <1>5, <2>1, <2>2 DEF Together, Moves, Opens, Serving, Taken
<1>7. CASE Fifos!Opened("server", "opening_req", "read") \/ Fifos!S_Compute
           \/ Fifos!Opened("server", "opening_res", "write")
  <2>1. /\ Stands /\ request' = request
        /\ \/ Moves(Server, "opening_req", "read") /\ Server \notin blocked
           \/ Moves(Server, "compute", "open_res")
           \/ Moves(Server, "opening_res", "write") /\ Server \notin blocked
    BY <1>7, ServerEffect
  <2>2. QED
    BY <1>0, <1>1, <1>5, <2>1 DEF Together, Moves, Stands, Serving, Taken
<1>8. CASE Fifos!S_Read
  <2>1. /\ Moves(Server, "read", "close_req") /\ fd[Server] = Req
        /\ \/ Gets(Server) /\ request' = Head(data[Req]) /\ request' \in Clients
           \/ /\ Stands /\ request' = "none"
              /\ data[Req] = << >> /\ \A d \in Clients : fd[d] # Req
    BY <1>8, ServerEffect
  <2>2. pc[c] \notin {"open_req", "opening_req", "write"}
    <3>1. data[Req] # << >> => pc[c] \notin {"open_req", "opening_req", "write"}
      BY <1>3
    <3>2. pc[c] \in {"opening_req", "write"} => fd[c] = Req
      BY <1>1 DEF Together
    <3>3. pc[c] # "open_req"
      BY <1>1, <2>1 DEF Together, Moves
    <3>4. QED
      BY <1>0, <2>1, <3>1, <3>2, <3>3 DEF Gets
  <2>3. ASSUME data[Req] = <<c>> PROVE Taken' /\ request' = c
    <3>1. Gets(Server) /\ request' = c
      BY <2>1, <2>3
    <3>2. QED
      BY <1>0, <2>1, <3>1, FifoNames DEF Taken, Moves
  <2>4. data[Res] = <<c>> => data'[Res] = <<c>>
    BY <1>2, <2>1 DEF Gets, Stands
  <2>5. QED
    BY <1>0, <1>1, <1>5, <2>1, <2>2, <2>3, <2>4 DEF Together, Moves, Serving, Taken
<1>9. CASE Fifos!S_CloseReq
  <2>1. /\ Moves(Server, "close_req", IF request = "none" THEN "open_req" ELSE "compute")
        /\ Closes(Server) /\ request' = request
    BY <1>9, ServerEffect
  <2>2. fd[c] = Res => data'[Res] = data[Res]
    BY <1>0, <1>2, <2>1 DEF Closes
  <2>3. Taken => Taken'
    BY <2>1 DEF Taken, Moves
  <2>4. QED
    BY <1>0, <1>1, <1>5, <2>1, <2>2, <2>3 DEF Together, Moves, Serving
<1>10. CASE Fifos!S_OpenRes
  <2>1. Moves(Server, "open_res", "opening_res") /\ Opens(Server, Res) /\ request' = request
    BY <1>10, ServerEffect
  <2>2. QED
    BY <1>0, <1>1, <1>5, <2>1 DEF Together, Moves, Opens, Serving, Taken
<1>11. CASE Fifos!S_Write
  <2>1. pc[Server] = "write" /\ request # "none"
    BY <1>0, <1>11, ServerEffect DEF Moves, AtServer
  <2>2. Taken
    BY <2>1 DEF Taken
  <2>3. /\ request = c /\ pc[c] \in {"opening_res", "read"} /\ fd[c] = Res /\ data[Res] = << >>
    BY <1>3, <2>1, <2>2 DEF RequestOf, Waits
  <2>4. Moves(Server, "write", "close_res") /\ Puts(Server, request) /\ fd[Server] = Res
    BY <1>0, <1>11, <2>3, ServerEffect
  <2>5. data'[Res] = <<c>>
    BY <2>3, <2>4 DEF Puts
  <2>6. QED
    BY <1>0, <1>5, <2>3, <2>4, <2>5 DEF Together, Moves, Serving
<1>12. CASE Fifos!S_CloseRes
  <2>1. Moves(Server, "close_res", "open_req") /\ Closes(Server)
    BY <1>12, ServerEffect
  <2>2. fd[c] = Res => data'[Res] = data[Res]
    BY <1>0, <1>2, <2>1 DEF Closes
  <2>3. QED
    BY <1>0, <1>1, <1>5, <2>1, <2>2 DEF Together, Moves, Serving, Taken
<1>13. QED
  BY <1>0, <1>4, <1>6, <1>7, <1>8, <1>9, <1>10, <1>11, <1>12 DEF ServerSteps

\* And the client that is alone meets the server.
LEMMA TogetherClient ==
    ASSUME FifoShape, AtStatement, Ends, Waiting, Lone, Fresh, OneAtATime, Accompanied,
           NEW c \in Active \cap alone, c \in Active', ClientSteps(c)
    PROVE  Together(c)'
<1>0. /\ c # Server /\ c \in Procs /\ Server \in Procs /\ Opposite(c) = {Server}
      /\ AtServer /\ AtClient(c) /\ Clients \subseteq Procs /\ c \in Clients
  BY FifoNames DEF Opposite, AtStatement, Active
<1>1. Together(c) /\ Serving /\ Calm
  BY DEF Accompanied, Together, Calm
<1>2. /\ OneRequest /\ Req \in ReqFifos /\ Res \in ResFifos /\ Req # Res
  BY <1>1, NamesServed DEF OneAtATime
<1>3. /\ Taken \/ data[Req] # << >> => pc[c] \in {"close_req", "open_res", "opening_res", "read"}
  BY <1>1, <1>2, OnlyWaiter
<1>4. /\ pc'[Server] = pc[Server] /\ fd'[Server] = fd[Server] /\ (Taken' <=> Taken)
      /\ Req' = Req /\ Res' = Res /\ request' = request /\ Serving'
  <2>1. pc'[Server] = pc[Server] /\ fd'[Server] = fd[Server]
    BY <1>0, ClientStepOf, OtherStands
  <2>2. path' = path /\ request' = request
    BY <1>0, UsersStep
  <2>3. QED
    BY <1>1, <2>1, <2>2 DEF Taken, Req, Res, Serving
<1>5. CASE Fifos!C_OpenReq(c)
  <2>1. Moves(c, "open_req", "opening_req") /\ Opens(c, Req)
    BY <1>0, <1>5, ClientEffect
  <2>2. pc[Server] = "open_req" => c \in blocked'
    <3>1. pc[Server] = "open_req" => fd[Server] # Req
      BY <1>0, <1>2, FifoNames DEF AtServer
    <3>2. QED
      BY <1>0, <2>1, <3>1 DEF Opens
  <2>3. QED
    BY <1>1, <1>4, <2>1, <2>2 DEF Together, Moves, Opens
<1>6. CASE Fifos!Opened(c, "opening_req", "write") \/ Fifos!Opened(c, "opening_res", "read")
  <2>1. /\ Stands /\ c \notin blocked
        /\ Moves(c, "opening_req", "write") \/ Moves(c, "opening_res", "read")
    BY <1>0, <1>6, ClientEffect
  <2>2. QED
    BY <1>1, <1>4, <2>1 DEF Together, Moves, Stands
<1>7. CASE Fifos!C_Write(c)
  <2>1. Moves(c, "write", "close_req") /\ Puts(c, c)
    <3>1. ~Moves(c, "write", "ended")
      BY DEF Moves, Active
    <3>2. QED
      BY <1>0, <1>7, <3>1, ClientEffect
  <2>2. fd[c] = Req /\ pc[Server] \in {"opening_req", "read"} /\ data[Req] = << >>
    BY <1>1, <1>3, <2>1 DEF Together, Moves
  <2>3. data'[Req] = <<c>>
    BY <2>1, <2>2 DEF Puts
  <2>4. QED
    BY <1>4, <2>1, <2>2, <2>3 DEF Together, Moves
<1>8. CASE Fifos!C_CloseReq(c)
  <2>1. Moves(c, "close_req", "open_res") /\ Closes(c)
    BY <1>0, <1>8, ClientEffect
  <2>2. pc[Server] \in {"opening_req", "read"} => data'[Req] = data[Req]
    BY <1>0, <1>2, <1>4, <2>1 DEF Closes, AtServer
  <2>3. QED
    BY <1>1, <1>4, <2>1, <2>2 DEF Together, Moves
<1>9. CASE Fifos!C_OpenRes(c)
  <2>1. Moves(c, "open_res", "opening_res") /\ Opens(c, Res)
    BY <1>0, <1>9, ClientEffect
  <2>2. QED
    BY <1>1, <1>4, <2>1 DEF Together, Moves, Opens
<1>10. CASE Fifos!C_Read(c)
  <2>1. Moves(c, "read", "close_res")
    BY <1>0, <1>10, ClientEffect
  <2>2. QED
    BY <1>4, <2>1 DEF Together, Moves
<1>11. ~(Fifos!C_Start(c) \/ Fifos!C_OpenFails(c) \/ Fifos!C_End(c) \/ Fifos!C_Interrupt(c))
  BY <1>0, ClientEffect DEF Moves, Active
<1>12. QED
  BY <1>5, <1>6, <1>7, <1>8, <1>9, <1>10, <1>11 DEF ClientSteps

\* The two that meet are met whoever moves.
LEMMA AccompaniedStep ==
    ASSUME FifoShape, AtStatement, Ends, Waiting, Lone, Fresh, OneAtATime, Accompanied,
           ServerSteps \/ \E c \in Clients : ClientSteps(c)
    PROVE  Accompanied'
<1>1. CASE ServerSteps
  BY <1>1, TogetherServer DEF Accompanied
<1>2. ASSUME NEW c \in Clients, ClientSteps(c) PROVE Accompanied'
  <2>1. SUFFICES ASSUME NEW d \in Active', d \in alone' PROVE Together(d)'
    BY DEF Accompanied
  <2>2. CASE Fifos!C_Start(c)
    <3>1. /\ Moves(c, "off", "open_req")
          /\ alone' = IF Active = {} /\ Fifos!Ready THEN alone \cup {c} ELSE alone \ Active
      BY <2>2, ClientEffect
    <3>2. d \in Active \/ d = c
      BY <1>2, ActiveStep
    <3>3. c \notin alone
      BY <3>1 DEF AtStatement, AtClient, Moves
    <3>4. d = c /\ Fifos!Ready
      BY <2>1, <3>1, <3>2, <3>3
    <3>5. /\ pc'[c] = "open_req"
          /\ pc'[Server] = "open_req" \/ (pc'[Server] = "opening_req" /\ Server \in blocked')
      <4>1. pc'[Server] = pc[Server] /\ blocked' = blocked
        BY <1>2, <2>2, ClientEffect, FifoNames DEF Moves, Stands
      <4>2. QED
        BY <3>1, <3>4, <4>1, FifoNames DEF Fifos!Ready, Moves
    <3>6. QED
      BY <3>4, <3>5 DEF Together, Serving
  <2>3. CASE ~Fifos!C_Start(c)
    <3>1. c \in Active /\ d \in Active \cup {c}
      BY <1>2, <2>1, <2>3, ActiveStep
    <3>2. alone' = alone
      BY <1>2, <2>3, ClientEffect DEF ClientSteps, users
    <3>3. d = c
      BY <2>1, <3>1, <3>2 DEF Lone, Calm
    <3>4. QED
      BY <1>2, <2>1, <3>1, <3>2, <3>3, TogetherClient
  <2>4. QED
    BY <2>2, <2>3
<1>3. QED
  BY <1>1, <1>2

\* What a client that is alone reads is its own answer, and somebody reads what
\* the server writes.
LEMMA AnsweredStep ==
    ASSUME FifoShape, AtStatement, Ends, Waiting, Lone, OneAtATime, Accompanied, Answered,
           ServerSteps \/ \E c \in Clients : ClientSteps(c)
    PROVE  Answered'
<1>1. CASE ServerSteps
  <2>1. /\ alone' \subseteq alone /\ answer' = answer /\ disturbed' = disturbed
    BY <1>1, UsersStep
  <2>2. CASE Fifos!S_Write
    <3>1. /\ pc[Server] = "write"
          /\ sigpiped' = sigpiped \/ (fd[Server] = Res /\ \A c \in Clients : fd[c] # Res)
      BY <2>2, ServerEffect DEF Moves
    <3>2. ASSUME ~disturbed, \A c \in Clients : fd[c] # Res PROVE FALSE
      <4>1. Taken /\ OneRequest
        BY <3>1, <3>2 DEF OneAtATime, Calm, Serving, Taken, AtStatement, AtServer
      <4>2. PICK c \in Clients : RequestOf(c)
        BY <4>1 DEF OneRequest
      <4>3. Waits(c) /\ pc[c] \in {"opening_res", "read"}
        BY <3>1, <4>2 DEF RequestOf
      <4>4. QED
        BY <3>2, <4>3 DEF Waits
    <3>3. QED
      BY <2>1, <3>1, <3>2 DEF Answered
  <2>3. CASE ~Fifos!S_Write
    <3>1. sigpiped' = sigpiped
      BY <1>1, <2>3, ServerEffect DEF ServerSteps
    <3>2. QED
      BY <2>1, <3>1 DEF Answered
  <2>4. QED
    BY <2>2, <2>3
<1>2. ASSUME NEW c \in Clients, ClientSteps(c) PROVE Answered'
  <2>1. Server \in sigpiped' => disturbed'
    <3>1. sigpiped' = sigpiped \/ sigpiped' = sigpiped \cup {c}
      BY <1>2, ClientEffect DEF ClientSteps
    <3>2. disturbed' = disturbed \/ \E b \in BOOLEAN : disturbed' = (disturbed \/ b)
      BY <1>2, ClientEffect DEF ClientSteps, users
    <3>3. disturbed \in BOOLEAN /\ c # Server
      BY FifoNames DEF FifoShape
    <3>4. QED
      BY <3>1, <3>2, <3>3 DEF Answered
  <2>2. CASE Fifos!C_Read(c)
    <3>1. /\ pc[c] = "read" /\ alone' = alone
          /\ \/ Gets(c) /\ answer' = [answer EXCEPT ![c] = Head(data[fd[c]])]
             \/ data[fd[c]] = << >> /\ fd[Server] # fd[c]
      BY <2>2, ClientEffect DEF Moves
    <3>2. \A d \in Clients \ {c} : answer'[d] = answer[d]
      BY <1>2, UsersStep
    <3>3. ASSUME c \in alone PROVE answer'[c] = c
      <4>1. Together(c) /\ Serving /\ Calm /\ c \in Active
        BY <3>1, <3>3 DEF Accompanied, Together, Calm, Active
      <4>2. ~Taken /\ data[Req] = << >>
        <5>1. SUFFICES ASSUME Taken \/ data[Req] # << >> PROVE FALSE
          OBVIOUS
        <5>2. RequestOf(c) /\ Waits(c) /\ data[Res] = << >> /\ fd[c] = Res
          BY <3>1, <4>1, <5>1, OnlyWaiter DEF OneAtATime, RequestOf, Waits
        <5>3. ~Unserved(c)
          BY <3>1, NotBlocked DEF Unserved
        <5>4. pc[Server] \in {"opening_res", "write"}
          BY <5>1, <5>2, <5>3 DEF RequestOf, Taken
        <5>5. QED
          BY <3>1, <5>2, <5>4 DEF Gets, AtStatement, AtServer
      <4>3. fd[c] = Res /\ data[Res] = <<c>>
        <5>1. data[Req] # <<c>>
          BY <4>2
        <5>2. QED
          BY <3>1, <4>1, <4>2, <5>1 DEF Together
      <4>4. QED
        BY <3>1, <4>3 DEF FifoShape
    <3>4. QED
      BY <2>1, <3>1, <3>2, <3>3 DEF Answered, FifoShape
  <2>3. CASE ~Fifos!C_Read(c)
    <3>1. answer' = answer /\ alone' \subseteq alone \cup {c}
      BY <1>2, <2>3, ClientEffect DEF ClientSteps, users
    <3>2. c \in alone' => c \in alone \/ answer[c] = "none"
      <4>1. CASE Fifos!C_Start(c)
        BY <4>1, ClientEffect DEF Moves, AtStatement, AtClient
      <4>2. CASE ~Fifos!C_Start(c)
        BY <1>2, <4>2, ClientEffect DEF ClientSteps, users
      <4>3. QED
        BY <4>1, <4>2
    <3>3. QED
      BY <2>1, <3>1, <3>2 DEF Answered
  <2>4. QED
    BY <2>2, <2>3
<1>3. QED
  BY <1>1, <1>2

\* FifoInv is inductive.
LEMMA FifoStep ==
    ASSUME FifoInv, Fifos!Next
    PROVE  FifoInv'
<1>1. /\ FifoShape /\ AtStatement /\ Ends /\ Waiting /\ Lone /\ Fresh
      /\ OneAtATime /\ Accompanied /\ Answered
      /\ ServerSteps \/ \E c \in Clients : ClientSteps(c)
  BY FifoSteps DEF FifoInv
<1>2. ~disturbed /\ Serving => OneRequest
  BY <1>1 DEF OneAtATime, Calm
<1>3. FifoShape' /\ Ends'
  BY <1>1, ShapeStep
<1>4. AtStatement' /\ Waiting' /\ Lone' /\ Fresh'
  BY <1>1, <1>2, AtStatementStep, WaitingStep, LoneStep, FreshStep
<1>5. OneAtATime' /\ Accompanied' /\ Answered'
  BY <1>1, OneAtATimeStep, AccompaniedStep, AnsweredStep
<1>6. QED
  BY <1>3, <1>4, <1>5 DEF FifoInv
\* The other programs do not touch the FIFOs.
LEMMA FifosKept ==
    ASSUME FifoInv, UNCHANGED fifos
    PROVE  FifoInv'
<1>1. UNCHANGED <<path, readers, writers, data, fd, blocked, pc, starts, request, answer, endless,
                  alone, disturbed, sigpiped>>
  BY DEF fifos
<1>2. /\ Req' = Req /\ Res' = Res /\ Serving' = Serving /\ Active' = Active /\ Taken' = Taken
      /\ Calm' = Calm
  BY <1>1 DEF Req, Res, Serving, Active, Taken, Calm
<1>3. FifoShape' /\ Ends' /\ Waiting'
  BY <1>1 DEF FifoInv, FifoShape, FifoTypes, Ends, Waiting
<1>4. AtStatement'
  BY <1>1, <1>2 DEF FifoInv, AtStatement, AtServer, AtClient
<1>5. Lone' /\ Fresh' /\ Answered'
  BY <1>1, <1>2 DEF FifoInv, Lone, Fresh, Answered
<1>6. OneAtATime'
  <2>1. \A c : RequestOf(c)' <=> RequestOf(c)
    BY <1>1, <1>2 DEF RequestOf, Waits, Unserved
  <2>2. OneRequest' <=> OneRequest
    BY <1>1, <1>2, <2>1 DEF OneRequest
  <2>3. QED
    BY <1>2, <2>2 DEF FifoInv, OneAtATime
<1>7. Accompanied'
  <2>1. \A c : Together(c)' <=> Together(c)
    BY <1>1, <1>2 DEF Together
  <2>2. QED
    BY <1>1, <1>2, <2>1 DEF FifoInv, Accompanied
<1>8. QED
  BY <1>3, <1>4, <1>5, <1>6, <1>7 DEF FifoInv

\* FifoInv holds before anything is launched and for ever.
LEMMA FifoInvHolds == Spec => []FifoInv
<1>1. Init => FifoInv
  <2> SUFFICES ASSUME Fifos!Init PROVE FifoInv
    BY DEF Init
  <2>0. /\ Server \notin Clients /\ Server = "server" /\ Fifos!Procs = Procs
        /\ Procs = Clients \cup {Server} /\ Fifos!Fifos = ReqFifos \cup ResFifos
        /\ Nowhere \notin ReqFifos \cup ResFifos /\ MaxStarts \in Nat /\ Nowhere[2] = 0
    BY FifoNames
  <2>1. /\ path = [name \in {"req", "res"} |-> 0]
        /\ readers = [f \in ReqFifos \cup ResFifos |-> {}]
        /\ writers = [f \in ReqFifos \cup ResFifos |-> {}]
        /\ data = [f \in ReqFifos \cup ResFifos |-> << >>]
        /\ fd = [p \in Procs |-> Nowhere] /\ blocked = {}
        /\ pc = [p \in Procs |-> "off"] /\ starts = 0 /\ request = "none"
        /\ answer = [c \in Clients |-> "none"] /\ endless = {}
        /\ alone = {} /\ disturbed = FALSE /\ sigpiped = {}
    BY <2>0 DEF Fifos!Init, Nowhere
  <2>2. Active = {} /\ ~Serving
    BY <2>0, <2>1 DEF Active, Serving
  <2>3. FifoShape
    <3>1. FifoTypes
      BY <2>1 DEF FifoTypes
    <3>2. disturbed \in BOOLEAN
      BY <2>1, Zenon
    <3>3. path \in [{"req", "res"} -> 0 .. MaxStarts] /\ starts \in 0 .. MaxStarts
      BY <2>0, <2>1
    <3>4. answer \in [Clients -> Clients \cup {"none", "eof"}] /\ DOMAIN pc = Procs
      BY <2>1
    <3>5. QED
      BY <2>1, <3>1, <3>2, <3>3, <3>4 DEF FifoShape
  <2>4. AtStatement
    BY <2>0, <2>1, <2>2 DEF AtStatement, AtServer, AtClient
  <2>5. Ends /\ Waiting
    BY <2>0, <2>1 DEF Ends, Waiting
  <2>6. Lone /\ OneAtATime /\ Accompanied /\ Answered
    BY <2>1, <2>2 DEF Lone, OneAtATime, Accompanied, Answered
  <2>7. Fresh
    BY <2>0, <2>1 DEF Fresh
  <2>8. QED
    BY <2>3, <2>4, <2>5, <2>6, <2>7 DEF FifoInv
<1>2. FifoInv /\ [Next]_vars => FifoInv'
  BY FifoStep, FifosKept DEF Next, vars, RunTree, RunSignals, RunPipes, RunFifos
<1>3. QED
  BY <1>1, <1>2, PTL DEF Spec

\* OwnAnswer of Exercises.tla: a client that program2.c serves alone reads the
\* answer to its own request or nothing, whatever became of the clients before
\* it, and a server that exits has removed both FIFOs, for any number of
\* clients and of starts of the server.
THEOREM OwnAnswerHolds == Spec => []OwnAnswer
<1>1. FifoInv => OwnAnswer
  <2> SUFFICES ASSUME FifoInv PROVE OwnAnswer
    OBVIOUS
  <2>1. /\ Fifos!Procs = Procs /\ Fifos!Fifos = ReqFifos \cup ResFifos /\ Server = "server"
    BY FifoNames
  <2>2. Fifos!TypeOK
    BY <2>1 DEF FifoInv, FifoShape, FifoTypes, Fifos!TypeOK, Nowhere
  <2>3. pc["server"] = "exit" => path["req"] = 0 /\ path["res"] = 0
    BY <2>1 DEF FifoInv, AtStatement, AtServer
  <2>4. QED
    BY <2>1, <2>2, <2>3 DEF FifoInv, Answered, OwnAnswer, Fifos!OwnAnswer
<1>2. QED
  BY FifoInvHolds, <1>1, PTL
=============================================================================
