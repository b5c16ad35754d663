-------------------------- MODULE FrameBufferProofs --------------------------
(***************************************************************************)
(* Safety of FrameBuffer, and that it implements FrameQueue, for every     *)
(* size of the buffer, any number of frames and all finite sets of pushing *)
(* and popping threads, with spurious wakeups and with the SIGINT handler  *)
(* at any point.                                                           *)
(*                                                                         *)
(* The inductive invariant is IInv.  NoSleepingWithData is inductive once  *)
(* Tested is known: the only step that puts a thread to sleep is taken     *)
(* with the mutex held since count was seen to be 0.                       *)
(***************************************************************************)
EXTENDS FrameBuffer, BufferLemmas

U_Labels == {"u_loop", "u_lock", "u_insert", "u_signal", "u_unlock", "done"}
O_Labels == {"o_loop", "o_lock", "o_test", "o_wait", "o_blocked", "o_relock",
             "o_take", "o_unlock", "o_abort", "done"}

\* Every thread is at a statement of its own program.
PcShape ==
    /\ pc \in [Threads -> U_Labels \cup O_Labels]
    /\ \A u \in Pushers : pc[u] \in U_Labels
    /\ \A o \in Poppers : pc[o] \in O_Labels

\* The result of the last test of count, while the mutex is still held.
Tested ==
    \A o \in Poppers : /\ pc[o] = "o_take" => count > 0
                       /\ pc[o] = "o_wait" => count = 0

\* The frames that wait begin at tail and end before head.
Indices == head = (tail + count) % Size

\* A pusher numbers its frames from 1.
Numbered == \A u \in Pushers : pc[u] \in {"u_lock", "u_insert"} => id[u] > 0

\* The frames pushed so far.
Past == {f \in Frames : \/ f[2] < id[f[1]]
                        \/ f[2] = id[f[1]] /\ pc[f[1]] \notin {"u_lock", "u_insert"}}

Queue == Segment(buffer, Size, tail, count)

\* Only frames that have been pushed wait or have been taken.
OnlyPast == Queue \in Seq(Past) /\ taken \subseteq Past

IInv == /\ PcShape /\ TypeOK /\ Tested /\ Indices /\ Numbered /\ OnlyPast
        /\ NoSleepingWithData

-----------------------------------------------------------------------------
\* The signals under way, and the poppers on their way to a frame.
Signals == NumAt(pc, Pushers, {"u_signal"})
Takers == NumAt(pc, Poppers, {"o_relock", "o_test", "o_take"})

\* These are numbers, before and after a step.
LEMMA NumsType ==
    /\ Signals \in Nat /\ Takers \in Nat
    /\ Signals' \in Nat /\ Takers' \in Nat
BY ThreadAssumption, NumberType DEF Signals, Takers

\* What a step of a pusher does to these numbers.
LEMMA PusherMoves ==
    ASSUME PcShape, NEW u \in Pushers, NEW from, NEW to, Goto(u, from, to)
    PROVE  /\ Signals' = Signals + One(to, {"u_signal"}) - One(from, {"u_signal"})
           /\ Takers' = Takers
<1>1. /\ pc[u] = from /\ pc'[u] = to /\ SameExcept(pc, pc', Pushers, u)
      /\ \A o \in Poppers : pc'[o] = pc[o]
  BY ThreadAssumption DEF Goto, SameExcept, PcShape, Threads
<1>2. Signals' = Signals + One(to, {"u_signal"}) - One(from, {"u_signal"})
  BY <1>1, ThreadAssumption, NumberAfterMove DEF Signals
<1>3. QED
  BY <1>1, <1>2, NumberUnmoved DEF Takers

\* And a step of a popper.
LEMMA PopperMoves ==
    ASSUME PcShape, NEW o \in Poppers, NEW from, NEW to, Goto(o, from, to)
    PROVE  /\ Signals' = Signals
           /\ Takers' = Takers + One(to, {"o_relock", "o_test", "o_take"})
                          - One(from, {"o_relock", "o_test", "o_take"})
<1>1. /\ pc[o] = from /\ pc'[o] = to /\ SameExcept(pc, pc', Poppers, o)
      /\ \A u \in Pushers : pc'[u] = pc[u]
  BY ThreadAssumption DEF Goto, SameExcept, PcShape, Threads
<1>2. Takers' = Takers + One(to, {"o_relock", "o_test", "o_take"})
                  - One(from, {"o_relock", "o_test", "o_take"})
  BY <1>1, ThreadAssumption, NumberAfterMove DEF Takers
<1>3. QED
  BY <1>1, <1>2, NumberUnmoved DEF Signals

\* The frame a pusher is about to insert is one of its frames.
LEMMA NextFrame ==
    ASSUME TypeOK, Numbered, NEW u \in Pushers, pc[u] \in {"u_lock", "u_insert"}
    PROVE  <<u, id[u]>> \in Frames
BY MaxFramesAssumption DEF TypeOK, Numbered, Frames

\* The slots in use are a segment of the ring.
LEMMA RingType ==
    ASSUME TypeOK
    PROVE  /\ IsRing(buffer, Size, Frames \cup {NoFrame})
           /\ IsSegment(Size, tail, count)
BY SizeAssumption DEF TypeOK, IsRing, IsSegment

\* The slot at tail of a buffer that is not empty holds a frame.
LEMMA OldestFrame ==
    ASSUME TypeOK, OnlyPast, count > 0
    PROVE  buffer[tail] \in Frames
<1>1. Queue # << >> /\ Head(Queue) = buffer[tail]
  BY RingType, SegmentShrinks DEF Queue
<1>2. Head(Queue) \in Past
  BY <1>1, HeadTailProperties DEF OnlyPast
<1>3. QED
  BY <1>1, <1>2 DEF Past

\* Every step takes a thread to a statement of its own program.
LEMMA PcStep ==
    ASSUME PcShape, TypeOK, [Next]_vars
    PROVE  PcShape'
<1>1. ASSUME NEW u \in Pushers, U_Loop(u) PROVE PcShape'
  BY <1>1, ThreadAssumption DEF U_Loop, Goto, PcShape, TypeOK, Threads,
    U_Labels, O_Labels
<1>2. ASSUME NEW u \in Pushers, U_Stop(u) PROVE PcShape'
  BY <1>2, ThreadAssumption DEF U_Stop, Goto, PcShape, TypeOK, Threads,
    U_Labels, O_Labels
<1>3. ASSUME NEW u \in Pushers, U_Lock(u) PROVE PcShape'
  BY <1>3, ThreadAssumption DEF U_Lock, Goto, Lock, PcShape, TypeOK, Threads,
    U_Labels, O_Labels
<1>4. ASSUME NEW u \in Pushers, U_Insert(u) PROVE PcShape'
  BY <1>4, ThreadAssumption DEF U_Insert, Goto, DropOldest, PcShape, TypeOK,
    Threads, U_Labels, O_Labels
<1>5. ASSUME NEW u \in Pushers, U_Signal(u) PROVE PcShape'
  BY <1>5, ThreadAssumption DEF U_Signal, Signal, PcShape, TypeOK, Threads,
    U_Labels, O_Labels
<1>6. ASSUME NEW u \in Pushers, U_Unlock(u) PROVE PcShape'
  BY <1>6, ThreadAssumption DEF U_Unlock, Goto, Unlock, PcShape, TypeOK,
    Threads, U_Labels, O_Labels
<1>7. ASSUME NEW o \in Poppers, O_Loop(o) PROVE PcShape'
  BY <1>7, ThreadAssumption DEF O_Loop, Goto, PcShape, TypeOK, Threads,
    U_Labels, O_Labels
<1>8. ASSUME NEW o \in Poppers, O_Lock(o) PROVE PcShape'
  BY <1>8, ThreadAssumption DEF O_Lock, Goto, Lock, PcShape, TypeOK, Threads,
    U_Labels, O_Labels
<1>9. ASSUME NEW o \in Poppers, O_Test(o) PROVE PcShape'
  BY <1>9, ThreadAssumption DEF O_Test, Goto, PcShape, TypeOK, Threads,
    U_Labels, O_Labels
<1>10. ASSUME NEW o \in Poppers, O_Wait(o) PROVE PcShape'
  BY <1>10, ThreadAssumption DEF O_Wait, Goto, Unlock, PcShape, TypeOK,
    Threads, U_Labels, O_Labels
<1>11. ASSUME NEW o \in Poppers, O_Spurious(o) PROVE PcShape'
  BY <1>11, ThreadAssumption DEF O_Spurious, Goto, PcShape, TypeOK, Threads,
    U_Labels, O_Labels
<1>12. ASSUME NEW o \in Poppers, O_Relock(o) PROVE PcShape'
  BY <1>12, ThreadAssumption DEF O_Relock, Goto, Lock, PcShape, TypeOK,
    Threads, U_Labels, O_Labels
<1>13. ASSUME NEW o \in Poppers, O_Take(o) PROVE PcShape'
  BY <1>13, ThreadAssumption DEF O_Take, Goto, PcShape, TypeOK, Threads,
    U_Labels, O_Labels
<1>14. ASSUME NEW o \in Poppers, O_Unlock(o) PROVE PcShape'
  BY <1>14, ThreadAssumption DEF O_Unlock, Goto, Unlock, PcShape, TypeOK,
    Threads, U_Labels, O_Labels
<1>15. ASSUME NEW o \in Poppers, O_Abort(o) PROVE PcShape'
  BY <1>15, ThreadAssumption DEF O_Abort, Goto, Unlock, PcShape, TypeOK,
    Threads, U_Labels, O_Labels
<1>16. CASE H_Clear
  BY <1>16, ThreadAssumption DEF H_Clear, PcShape, TypeOK, Threads, U_Labels,
    O_Labels
<1>17. CASE H_Broadcast
  BY <1>17, ThreadAssumption DEF H_Broadcast, PcShape, TypeOK, Threads,
    U_Labels, O_Labels
<1>18. CASE UNCHANGED vars
  BY <1>18, ThreadAssumption DEF vars, PcShape, TypeOK, Threads, U_Labels,
    O_Labels
<1>19. QED
  BY <1>1, <1>2, <1>3, <1>4, <1>5, <1>6, <1>7, <1>8, <1>9, <1>10, <1>11,
    <1>12, <1>13, <1>14, <1>15, <1>16, <1>17, <1>18 DEF Next, Pusher, Popper

\* Every step keeps the types of the variables and the owner of the mutex.
LEMMA TypeStep ==
    ASSUME PcShape, TypeOK, Tested, Numbered, OnlyPast, [Next]_vars
    PROVE  TypeOK'
<1>1. ASSUME NEW u \in Pushers, U_Loop(u) PROVE TypeOK'
  BY <1>1, ThreadAssumption, MaxFramesAssumption DEF U_Loop, Goto, ring,
    TypeOK, PcShape, Threads, U_Labels, O_Labels
<1>2. ASSUME NEW u \in Pushers, U_Stop(u) PROVE TypeOK'
  BY <1>2, ThreadAssumption, MaxFramesAssumption DEF U_Stop, Goto, ring,
    TypeOK, PcShape, Threads, U_Labels, O_Labels
<1>3. ASSUME NEW u \in Pushers, U_Lock(u) PROVE TypeOK'
  BY <1>3, ThreadAssumption, MaxFramesAssumption DEF U_Lock, Goto, Lock,
    ring, TypeOK, PcShape, Threads, U_Labels, O_Labels
<1>4. ASSUME NEW u \in Pushers, U_Insert(u) PROVE TypeOK'
  <2>1. head' \in 0 .. Size - 1 /\ tail' \in 0 .. Size - 1 /\ count' \in 0 .. Size
    <3>1. tail + 1 \in Nat /\ head + 1 \in Nat
      BY DEF TypeOK
    <3>2. (tail + 1) % Size \in 0 .. Size - 1 /\ (head + 1) % Size \in 0 .. Size - 1
      BY <3>1, SizeAssumption, IndexInRing
    <3>3. /\ head' = (head + 1) % Size /\ tail' \in {(tail + 1) % Size, tail}
          /\ count' = count \/ (count # Size /\ count' = count + 1)
      BY <1>4 DEF U_Insert, DropOldest
    <3>4. count' \in 0 .. Size
      BY <3>3, SizeAssumption DEF TypeOK
    <3>5. QED
      BY <3>2, <3>3, <3>4 DEF TypeOK
  <2>2. <<u, id[u]>> \in Frames
    BY <1>4, NextFrame DEF U_Insert, Goto
  <2>3. buffer' \in [0 .. Size - 1 -> Frames \cup {NoFrame}]
    BY <1>4, <2>2 DEF U_Insert, TypeOK
  <2>4. QED
    BY <1>4, <2>1, <2>3, ThreadAssumption DEF U_Insert, Goto, TypeOK, PcShape, Threads
<1>5. ASSUME NEW u \in Pushers, U_Signal(u) PROVE TypeOK'
  BY <1>5, ThreadAssumption, MaxFramesAssumption DEF U_Signal, Signal, ring,
    TypeOK, PcShape, Threads, U_Labels, O_Labels
<1>6. ASSUME NEW u \in Pushers, U_Unlock(u) PROVE TypeOK'
  BY <1>6, ThreadAssumption, MaxFramesAssumption DEF U_Unlock, Goto, Unlock,
    ring, TypeOK, PcShape, Threads, U_Labels, O_Labels
<1>7. ASSUME NEW o \in Poppers, O_Loop(o) PROVE TypeOK'
  BY <1>7, ThreadAssumption, MaxFramesAssumption DEF O_Loop, Goto, ring,
    TypeOK, PcShape, Threads, U_Labels, O_Labels
<1>8. ASSUME NEW o \in Poppers, O_Lock(o) PROVE TypeOK'
  BY <1>8, ThreadAssumption, MaxFramesAssumption DEF O_Lock, Goto, Lock,
    ring, TypeOK, PcShape, Threads, U_Labels, O_Labels
<1>9. ASSUME NEW o \in Poppers, O_Test(o) PROVE TypeOK'
  BY <1>9, ThreadAssumption, MaxFramesAssumption DEF O_Test, Goto, ring,
    TypeOK, PcShape, Threads, U_Labels, O_Labels
<1>10. ASSUME NEW o \in Poppers, O_Wait(o) PROVE TypeOK'
  BY <1>10, ThreadAssumption, MaxFramesAssumption DEF O_Wait, Goto, Unlock,
    ring, TypeOK, PcShape, Threads, U_Labels, O_Labels
<1>11. ASSUME NEW o \in Poppers, O_Spurious(o) PROVE TypeOK'
  BY <1>11, ThreadAssumption, MaxFramesAssumption DEF O_Spurious, Goto, ring,
    TypeOK, PcShape, Threads, U_Labels, O_Labels
<1>12. ASSUME NEW o \in Poppers, O_Relock(o) PROVE TypeOK'
  BY <1>12, ThreadAssumption, MaxFramesAssumption DEF O_Relock, Goto, Lock,
    ring, TypeOK, PcShape, Threads, U_Labels, O_Labels
<1>13. ASSUME NEW o \in Poppers, O_Take(o) PROVE TypeOK'
  <2>1. count > 0 /\ pc[o] = "o_take"
    BY <1>13 DEF O_Take, Goto, Tested
  <2>2. tail' \in 0 .. Size - 1 /\ count' \in 0 .. Size
    BY <1>13, <2>1, SizeAssumption, IndexInRing DEF O_Take, TypeOK
  <2>3. buffer[tail] \in Frames
    BY <2>1, OldestFrame
  <2>4. frame' \in [Poppers -> Frames \cup {NoFrame}]
    BY <1>13, <2>3 DEF O_Take, TypeOK
  <2>5. QED
    BY <1>13, <2>2, <2>4, ThreadAssumption DEF O_Take, Goto, TypeOK, PcShape, Threads
<1>14. ASSUME NEW o \in Poppers, O_Unlock(o) PROVE TypeOK'
  BY <1>14, ThreadAssumption, MaxFramesAssumption DEF O_Unlock, Goto, Unlock,
    ring, TypeOK, PcShape, Threads, U_Labels, O_Labels
<1>15. ASSUME NEW o \in Poppers, O_Abort(o) PROVE TypeOK'
  BY <1>15, ThreadAssumption, MaxFramesAssumption DEF O_Abort, Goto, Unlock,
    ring, TypeOK, PcShape, Threads, U_Labels, O_Labels
<1>16. CASE H_Clear
  BY <1>16, ThreadAssumption, MaxFramesAssumption DEF H_Clear, ring, TypeOK,
    PcShape, Threads, U_Labels, O_Labels
<1>17. CASE H_Broadcast
  BY <1>17, ThreadAssumption, MaxFramesAssumption DEF H_Broadcast, ring,
    TypeOK, PcShape, Threads, U_Labels, O_Labels
<1>18. CASE UNCHANGED vars
  BY <1>18 DEF vars, TypeOK
<1>19. QED
  BY <1>1, <1>2, <1>3, <1>4, <1>5, <1>6, <1>7, <1>8, <1>9, <1>10, <1>11,
    <1>12, <1>13, <1>14, <1>15, <1>16, <1>17, <1>18 DEF Next, Pusher, Popper

\* A test of count stays true until the popper that made it acts on it.
LEMMA TestedStep ==
    ASSUME PcShape, TypeOK, Tested, [Next]_vars
    PROVE  Tested'
<1>1. ASSUME NEW u \in Pushers, U_Loop(u) PROVE Tested'
  BY <1>1, ThreadAssumption, SizeAssumption DEF U_Loop, Goto, ring, Tested,
    TypeOK, PcShape, Threads
<1>2. ASSUME NEW u \in Pushers, U_Stop(u) PROVE Tested'
  BY <1>2, ThreadAssumption, SizeAssumption DEF U_Stop, Goto, ring, Tested,
    TypeOK, PcShape, Threads
<1>3. ASSUME NEW u \in Pushers, U_Lock(u) PROVE Tested'
  BY <1>3, ThreadAssumption, SizeAssumption DEF U_Lock, Goto, Lock, ring,
    Tested, TypeOK, PcShape, Threads
<1>4. ASSUME NEW u \in Pushers, U_Insert(u) PROVE Tested'
  BY <1>4, ThreadAssumption, SizeAssumption DEF U_Insert, Goto, DropOldest,
    ring, Tested, TypeOK, PcShape, Threads
<1>5. ASSUME NEW u \in Pushers, U_Signal(u) PROVE Tested'
  BY <1>5, ThreadAssumption, SizeAssumption DEF U_Signal, Signal, ring,
    Tested, TypeOK, PcShape, Threads
<1>6. ASSUME NEW u \in Pushers, U_Unlock(u) PROVE Tested'
  BY <1>6, ThreadAssumption, SizeAssumption DEF U_Unlock, Goto, Unlock, ring,
    Tested, TypeOK, PcShape, Threads
<1>7. ASSUME NEW o \in Poppers, O_Loop(o) PROVE Tested'
  BY <1>7, ThreadAssumption, SizeAssumption DEF O_Loop, Goto, ring, Tested,
    TypeOK, PcShape, Threads
<1>8. ASSUME NEW o \in Poppers, O_Lock(o) PROVE Tested'
  BY <1>8, ThreadAssumption, SizeAssumption DEF O_Lock, Goto, Lock, ring,
    Tested, TypeOK, PcShape, Threads
<1>9. ASSUME NEW o \in Poppers, O_Test(o) PROVE Tested'
  BY <1>9, ThreadAssumption, SizeAssumption DEF O_Test, Goto, ring, Tested,
    TypeOK, PcShape, Threads
<1>10. ASSUME NEW o \in Poppers, O_Wait(o) PROVE Tested'
  BY <1>10, ThreadAssumption, SizeAssumption DEF O_Wait, Goto, Unlock, ring,
    Tested, TypeOK, PcShape, Threads
<1>11. ASSUME NEW o \in Poppers, O_Spurious(o) PROVE Tested'
  BY <1>11, ThreadAssumption, SizeAssumption DEF O_Spurious, Goto, ring,
    Tested, TypeOK, PcShape, Threads
<1>12. ASSUME NEW o \in Poppers, O_Relock(o) PROVE Tested'
  BY <1>12, ThreadAssumption, SizeAssumption DEF O_Relock, Goto, Lock, ring,
    Tested, TypeOK, PcShape, Threads
<1>13. ASSUME NEW o \in Poppers, O_Take(o) PROVE Tested'
  BY <1>13, ThreadAssumption, SizeAssumption DEF O_Take, Goto, ring, Tested,
    TypeOK, PcShape, Threads
<1>14. ASSUME NEW o \in Poppers, O_Unlock(o) PROVE Tested'
  BY <1>14, ThreadAssumption, SizeAssumption DEF O_Unlock, Goto, Unlock,
    ring, Tested, TypeOK, PcShape, Threads
<1>15. ASSUME NEW o \in Poppers, O_Abort(o) PROVE Tested'
  BY <1>15, ThreadAssumption, SizeAssumption DEF O_Abort, Goto, Unlock, ring,
    Tested, TypeOK, PcShape, Threads
<1>16. CASE H_Clear
  BY <1>16, ThreadAssumption, SizeAssumption DEF H_Clear, ring, Tested,
    TypeOK, PcShape, Threads
<1>17. CASE H_Broadcast
  BY <1>17, ThreadAssumption, SizeAssumption DEF H_Broadcast, ring, Tested,
    TypeOK, PcShape, Threads
<1>18. CASE UNCHANGED vars
  BY <1>18 DEF vars, Tested
<1>19. QED
  BY <1>1, <1>2, <1>3, <1>4, <1>5, <1>6, <1>7, <1>8, <1>9, <1>10, <1>11,
    <1>12, <1>13, <1>14, <1>15, <1>16, <1>17, <1>18 DEF Next, Pusher, Popper

\* Frame numbers keep growing.
LEMMA NumberedStep ==
    ASSUME PcShape, TypeOK, Numbered, [Next]_vars
    PROVE  Numbered'
<1>1. ASSUME NEW u \in Pushers, U_Loop(u) PROVE Numbered'
  BY <1>1, ThreadAssumption DEF U_Loop, Goto, Numbered, TypeOK, PcShape,
    Threads
<1>2. ASSUME NEW u \in Pushers, U_Stop(u) PROVE Numbered'
  BY <1>2, ThreadAssumption DEF U_Stop, Goto, Numbered, TypeOK, PcShape,
    Threads
<1>3. ASSUME NEW u \in Pushers, U_Lock(u) PROVE Numbered'
  BY <1>3, ThreadAssumption DEF U_Lock, Goto, Lock, Numbered, TypeOK,
    PcShape, Threads
<1>4. ASSUME NEW u \in Pushers, U_Insert(u) PROVE Numbered'
  BY <1>4, ThreadAssumption DEF U_Insert, Goto, DropOldest, Numbered, TypeOK,
    PcShape, Threads
<1>5. ASSUME NEW u \in Pushers, U_Signal(u) PROVE Numbered'
  BY <1>5, ThreadAssumption DEF U_Signal, Signal, Numbered, TypeOK, PcShape,
    Threads
<1>6. ASSUME NEW u \in Pushers, U_Unlock(u) PROVE Numbered'
  BY <1>6, ThreadAssumption DEF U_Unlock, Goto, Unlock, Numbered, TypeOK,
    PcShape, Threads
<1>7. ASSUME NEW o \in Poppers, O_Loop(o) PROVE Numbered'
  BY <1>7, ThreadAssumption DEF O_Loop, Goto, Numbered, TypeOK, PcShape,
    Threads
<1>8. ASSUME NEW o \in Poppers, O_Lock(o) PROVE Numbered'
  BY <1>8, ThreadAssumption DEF O_Lock, Goto, Lock, Numbered, TypeOK,
    PcShape, Threads
<1>9. ASSUME NEW o \in Poppers, O_Test(o) PROVE Numbered'
  BY <1>9, ThreadAssumption DEF O_Test, Goto, Numbered, TypeOK, PcShape,
    Threads
<1>10. ASSUME NEW o \in Poppers, O_Wait(o) PROVE Numbered'
  BY <1>10, ThreadAssumption DEF O_Wait, Goto, Unlock, Numbered, TypeOK,
    PcShape, Threads
<1>11. ASSUME NEW o \in Poppers, O_Spurious(o) PROVE Numbered'
  BY <1>11, ThreadAssumption DEF O_Spurious, Goto, Numbered, TypeOK, PcShape,
    Threads
<1>12. ASSUME NEW o \in Poppers, O_Relock(o) PROVE Numbered'
  BY <1>12, ThreadAssumption DEF O_Relock, Goto, Lock, Numbered, TypeOK,
    PcShape, Threads
<1>13. ASSUME NEW o \in Poppers, O_Take(o) PROVE Numbered'
  BY <1>13, ThreadAssumption DEF O_Take, Goto, Numbered, TypeOK, PcShape,
    Threads
<1>14. ASSUME NEW o \in Poppers, O_Unlock(o) PROVE Numbered'
  BY <1>14, ThreadAssumption DEF O_Unlock, Goto, Unlock, Numbered, TypeOK,
    PcShape, Threads
<1>15. ASSUME NEW o \in Poppers, O_Abort(o) PROVE Numbered'
  BY <1>15, ThreadAssumption DEF O_Abort, Goto, Unlock, Numbered, TypeOK,
    PcShape, Threads
<1>16. CASE H_Clear
  BY <1>16, ThreadAssumption DEF H_Clear, Numbered, TypeOK, PcShape, Threads
<1>17. CASE H_Broadcast
  BY <1>17, ThreadAssumption DEF H_Broadcast, Numbered, TypeOK, PcShape,
    Threads
<1>18. CASE UNCHANGED vars
  BY <1>18 DEF vars, Numbered
<1>19. QED
  BY <1>1, <1>2, <1>3, <1>4, <1>5, <1>6, <1>7, <1>8, <1>9, <1>10, <1>11,
    <1>12, <1>13, <1>14, <1>15, <1>16, <1>17, <1>18 DEF Next, Pusher, Popper

\* Every step leaves a signal or a popper for every frame a sleeper could take.
LEMMA SleepStep ==
    ASSUME PcShape, TypeOK, Tested, NoSleepingWithData, [Next]_vars
    PROVE  NoSleepingWithData'
<1>1. ASSUME NEW u \in Pushers, U_Loop(u) PROVE NoSleepingWithData'
  <2>1. Goto(u, "u_loop", "u_lock")
    BY <1>1 DEF U_Loop
  <2>2. Signals' = Signals /\ Takers' = Takers
    BY <2>1, PusherMoves, NumsType DEF One
  <2>3. QED
    BY <1>1, <2>2 DEF U_Loop, ring, NoSleepingWithData, Signals, Takers
<1>2. ASSUME NEW u \in Pushers, U_Stop(u) PROVE NoSleepingWithData'
  <2>1. Goto(u, "u_loop", "done")
    BY <1>2 DEF U_Stop
  <2>2. Signals' = Signals /\ Takers' = Takers
    BY <2>1, PusherMoves, NumsType DEF One
  <2>3. QED
    BY <1>2, <2>2 DEF U_Stop, ring, NoSleepingWithData, Signals, Takers
<1>3. ASSUME NEW u \in Pushers, U_Lock(u) PROVE NoSleepingWithData'
  <2>1. Goto(u, "u_lock", "u_insert")
    BY <1>3 DEF U_Lock
  <2>2. Signals' = Signals /\ Takers' = Takers
    BY <2>1, PusherMoves, NumsType DEF One
  <2>3. QED
    BY <1>3, <2>2 DEF U_Lock, ring, NoSleepingWithData, Signals, Takers
<1>4. ASSUME NEW u \in Pushers, U_Insert(u) PROVE NoSleepingWithData'
  <2>1. Goto(u, "u_insert", "u_signal")
    BY <1>4 DEF U_Insert
  <2>2. Signals' = Signals + 1 /\ Takers' = Takers
    BY <2>1, PusherMoves, NumsType DEF One
  <2>3. count' <= count + 1 /\ waiting' = waiting
    BY <1>4 DEF U_Insert, DropOldest, TypeOK
  <2>4. count \in Int /\ count' \in Int
    BY <1>4 DEF U_Insert, DropOldest, TypeOK
  <2>5. QED
    BY <2>2, <2>3, <2>4, NumsType DEF NoSleepingWithData, Signals, Takers
<1>5. ASSUME NEW u \in Pushers, U_Signal(u) PROVE NoSleepingWithData'
  <2>1. CASE waiting = {}
    BY <1>5, <2>1 DEF U_Signal, Signal, NoSleepingWithData
  <2>2. CASE waiting # {}
    <3>1. PICK w \in waiting :
             /\ pc' = [pc EXCEPT ![u] = "u_unlock", ![w] = "o_relock"]
             /\ waiting' = waiting \ {w}
      BY <1>5, <2>2 DEF U_Signal, Signal
    <3>2. /\ pc[u] = "u_signal" /\ count' = count /\ count \in Int
          /\ w \in Poppers /\ pc[w] = "o_blocked"
      BY <1>5 DEF U_Signal, Signal, ring, TypeOK
    <3>3. /\ pc'[u] = "u_unlock" /\ SameExcept(pc, pc', Pushers, u)
          /\ pc'[w] = "o_relock" /\ SameExcept(pc, pc', Poppers, w)
      BY <3>1, <3>2, ThreadAssumption DEF SameExcept, PcShape, Threads
    <3>4. Signals' = Signals + One("u_unlock", {"u_signal"}) - One("u_signal", {"u_signal"})
      BY <3>2, <3>3, ThreadAssumption, NumberAfterMove DEF Signals
    <3>5. Takers' = Takers + One("o_relock", {"o_relock", "o_test", "o_take"})
                      - One("o_blocked", {"o_relock", "o_test", "o_take"})
      BY <3>2, <3>3, ThreadAssumption, NumberAfterMove DEF Takers
    <3>6. Signals' = Signals - 1 /\ Takers' = Takers + 1
      BY <3>4, <3>5, NumsType DEF One
    <3>7. QED
      BY <2>2, <3>2, <3>6, NumsType DEF NoSleepingWithData, Signals, Takers
  <2>3. QED
    BY <2>1, <2>2
<1>6. ASSUME NEW u \in Pushers, U_Unlock(u) PROVE NoSleepingWithData'
  <2>1. Goto(u, "u_unlock", "u_loop")
    BY <1>6 DEF U_Unlock
  <2>2. Signals' = Signals /\ Takers' = Takers
    BY <2>1, PusherMoves, NumsType DEF One
  <2>3. QED
    BY <1>6, <2>2 DEF U_Unlock, ring, NoSleepingWithData, Signals, Takers
<1>7. ASSUME NEW o \in Poppers, O_Loop(o) PROVE NoSleepingWithData'
  <2>1. PICK to \in {"o_lock", "done"} : Goto(o, "o_loop", to)
    BY <1>7 DEF O_Loop
  <2>2. Signals' = Signals /\ Takers' = Takers
    BY <2>1, PopperMoves, NumsType DEF One
  <2>3. QED
    BY <1>7, <2>2 DEF O_Loop, ring, NoSleepingWithData, Signals, Takers
<1>8. ASSUME NEW o \in Poppers, O_Lock(o) PROVE NoSleepingWithData'
  <2>1. Goto(o, "o_lock", "o_test")
    BY <1>8 DEF O_Lock
  <2>2. Signals' = Signals /\ Takers' = Takers + 1
    BY <2>1, PopperMoves, NumsType DEF One
  <2>3. count' = count /\ waiting' = waiting /\ count \in Int
    BY <1>8 DEF O_Lock, ring, TypeOK
  <2>4. QED
    BY <2>2, <2>3, NumsType DEF NoSleepingWithData, Signals, Takers
<1>9. ASSUME NEW o \in Poppers, O_Test(o) PROVE NoSleepingWithData'
  <2>1. CASE count > 0
    <3>1. Goto(o, "o_test", "o_take")
      BY <1>9, <2>1 DEF O_Test
    <3>2. Signals' = Signals /\ Takers' = Takers
      BY <3>1, PopperMoves, NumsType DEF One
    <3>3. QED
      BY <1>9, <3>2 DEF O_Test, ring, NoSleepingWithData, Signals, Takers
  <2>2. CASE count = 0
    <3>1. Signals' \in Nat /\ Takers' \in Nat
      BY NumsType
    <3>2. QED
      BY <1>9, <2>2, <3>1 DEF O_Test, ring, NoSleepingWithData, Signals, Takers
  <2>3. QED
    BY <2>1, <2>2 DEF TypeOK
<1>10. ASSUME NEW o \in Poppers, O_Wait(o) PROVE NoSleepingWithData'
  <2>1. count' = 0
    BY <1>10 DEF O_Wait, Goto, ring, Tested
  <2>2. Signals' \in Nat /\ Takers' \in Nat
    BY NumsType
  <2>3. QED
    BY <2>1, <2>2 DEF NoSleepingWithData, Signals, Takers
<1>11. ASSUME NEW o \in Poppers, O_Spurious(o) PROVE NoSleepingWithData'
  <2>1. Goto(o, "o_blocked", "o_relock")
    BY <1>11 DEF O_Spurious
  <2>2. Signals' = Signals /\ Takers' = Takers + 1
    BY <2>1, PopperMoves, NumsType DEF One
  <2>3. count' = count /\ waiting # {} /\ count \in Int
    BY <1>11 DEF O_Spurious, ring, TypeOK
  <2>4. QED
    BY <2>2, <2>3, NumsType DEF NoSleepingWithData, Signals, Takers
<1>12. ASSUME NEW o \in Poppers, O_Relock(o) PROVE NoSleepingWithData'
  <2>1. Goto(o, "o_relock", "o_test")
    BY <1>12 DEF O_Relock
  <2>2. Signals' = Signals /\ Takers' = Takers
    BY <2>1, PopperMoves, NumsType DEF One
  <2>3. QED
    BY <1>12, <2>2 DEF O_Relock, ring, NoSleepingWithData, Signals, Takers
<1>13. ASSUME NEW o \in Poppers, O_Take(o) PROVE NoSleepingWithData'
  <2>1. Goto(o, "o_take", "o_unlock")
    BY <1>13 DEF O_Take
  <2>2. Signals' = Signals /\ Takers' = Takers - 1
    BY <2>1, PopperMoves, NumsType DEF One
  <2>3. count' = count - 1 /\ waiting' = waiting /\ count \in Int
    BY <1>13 DEF O_Take, TypeOK
  <2>4. QED
    BY <2>2, <2>3, NumsType DEF NoSleepingWithData, Signals, Takers
<1>14. ASSUME NEW o \in Poppers, O_Unlock(o) PROVE NoSleepingWithData'
  <2>1. Goto(o, "o_unlock", "o_loop")
    BY <1>14 DEF O_Unlock
  <2>2. Signals' = Signals /\ Takers' = Takers
    BY <2>1, PopperMoves, NumsType DEF One
  <2>3. QED
    BY <1>14, <2>2 DEF O_Unlock, ring, NoSleepingWithData, Signals, Takers
<1>15. ASSUME NEW o \in Poppers, O_Abort(o) PROVE NoSleepingWithData'
  <2>1. Goto(o, "o_abort", "done")
    BY <1>15 DEF O_Abort
  <2>2. Signals' = Signals /\ Takers' = Takers
    BY <2>1, PopperMoves, NumsType DEF One
  <2>3. QED
    BY <1>15, <2>2 DEF O_Abort, ring, NoSleepingWithData, Signals, Takers
<1>16. CASE H_Clear
  BY <1>16 DEF H_Clear, ring, NoSleepingWithData
<1>17. CASE H_Broadcast
  BY <1>17 DEF H_Broadcast, NoSleepingWithData
<1>18. CASE UNCHANGED vars
  BY <1>18 DEF vars, NoSleepingWithData
<1>19. QED
  BY <1>1, <1>2, <1>3, <1>4, <1>5, <1>6, <1>7, <1>8, <1>9, <1>10, <1>11,
    <1>12, <1>13, <1>14, <1>15, <1>16, <1>17, <1>18 DEF Next, Pusher, Popper

\* What has been pushed once has been pushed for good.
LEMMA PastGrows ==
    ASSUME PcShape, TypeOK, [Next]_vars
    PROVE  Past \subseteq Past'
<1>1. ASSUME NEW u \in Pushers, U_Loop(u) PROVE Past \subseteq Past'
  BY <1>1, ThreadAssumption DEF U_Loop, Goto, Past, Frames, TypeOK, PcShape,
    Threads
<1>2. ASSUME NEW u \in Pushers, U_Stop(u) PROVE Past \subseteq Past'
  BY <1>2, ThreadAssumption DEF U_Stop, Goto, Past, Frames, TypeOK, PcShape,
    Threads
<1>3. ASSUME NEW u \in Pushers, U_Lock(u) PROVE Past \subseteq Past'
  BY <1>3, ThreadAssumption DEF U_Lock, Goto, Lock, Past, Frames, TypeOK,
    PcShape, Threads
<1>4. ASSUME NEW u \in Pushers, U_Insert(u) PROVE Past \subseteq Past'
  BY <1>4, ThreadAssumption DEF U_Insert, Goto, DropOldest, Past, Frames,
    TypeOK, PcShape, Threads
<1>5. ASSUME NEW u \in Pushers, U_Signal(u) PROVE Past \subseteq Past'
  BY <1>5, ThreadAssumption DEF U_Signal, Signal, Past, Frames, TypeOK,
    PcShape, Threads
<1>6. ASSUME NEW u \in Pushers, U_Unlock(u) PROVE Past \subseteq Past'
  BY <1>6, ThreadAssumption DEF U_Unlock, Goto, Unlock, Past, Frames, TypeOK,
    PcShape, Threads
<1>7. ASSUME NEW o \in Poppers, O_Loop(o) PROVE Past \subseteq Past'
  BY <1>7, ThreadAssumption DEF O_Loop, Goto, Past, Frames, TypeOK, PcShape,
    Threads
<1>8. ASSUME NEW o \in Poppers, O_Lock(o) PROVE Past \subseteq Past'
  BY <1>8, ThreadAssumption DEF O_Lock, Goto, Lock, Past, Frames, TypeOK,
    PcShape, Threads
<1>9. ASSUME NEW o \in Poppers, O_Test(o) PROVE Past \subseteq Past'
  BY <1>9, ThreadAssumption DEF O_Test, Goto, Past, Frames, TypeOK, PcShape,
    Threads
<1>10. ASSUME NEW o \in Poppers, O_Wait(o) PROVE Past \subseteq Past'
  BY <1>10, ThreadAssumption DEF O_Wait, Goto, Unlock, Past, Frames, TypeOK,
    PcShape, Threads
<1>11. ASSUME NEW o \in Poppers, O_Spurious(o) PROVE Past \subseteq Past'
  BY <1>11, ThreadAssumption DEF O_Spurious, Goto, Past, Frames, TypeOK,
    PcShape, Threads
<1>12. ASSUME NEW o \in Poppers, O_Relock(o) PROVE Past \subseteq Past'
  BY <1>12, ThreadAssumption DEF O_Relock, Goto, Lock, Past, Frames, TypeOK,
    PcShape, Threads
<1>13. ASSUME NEW o \in Poppers, O_Take(o) PROVE Past \subseteq Past'
  BY <1>13, ThreadAssumption DEF O_Take, Goto, Past, Frames, TypeOK, PcShape,
    Threads
<1>14. ASSUME NEW o \in Poppers, O_Unlock(o) PROVE Past \subseteq Past'
  BY <1>14, ThreadAssumption DEF O_Unlock, Goto, Unlock, Past, Frames,
    TypeOK, PcShape, Threads
<1>15. ASSUME NEW o \in Poppers, O_Abort(o) PROVE Past \subseteq Past'
  BY <1>15, ThreadAssumption DEF O_Abort, Goto, Unlock, Past, Frames, TypeOK,
    PcShape, Threads
<1>16. CASE H_Clear
  BY <1>16, ThreadAssumption DEF H_Clear, Past, Frames, TypeOK, PcShape,
    Threads
<1>17. CASE H_Broadcast
  BY <1>17, ThreadAssumption DEF H_Broadcast, Past, Frames, TypeOK, PcShape,
    Threads
<1>18. CASE UNCHANGED vars
  BY <1>18 DEF vars, Past
<1>19. QED
  BY <1>1, <1>2, <1>3, <1>4, <1>5, <1>6, <1>7, <1>8, <1>9, <1>10, <1>11,
    <1>12, <1>13, <1>14, <1>15, <1>16, <1>17, <1>18 DEF Next, Pusher, Popper

\* Only an insertion and a take change the ring or what has been taken.
RingStep ==
    \/ UNCHANGED ring /\ taken' = taken
    \/ \E u \in Pushers : U_Insert(u)
    \/ \E o \in Poppers : O_Take(o)

\* Every step is one of these.
LEMMA RingSteps ==
    ASSUME [Next]_vars
    PROVE  RingStep
<1>1. ASSUME NEW u \in Pushers, U_Loop(u) PROVE RingStep
  BY <1>1 DEF U_Loop, ring, RingStep
<1>2. ASSUME NEW u \in Pushers, U_Stop(u) PROVE RingStep
  BY <1>2 DEF U_Stop, ring, RingStep
<1>3. ASSUME NEW u \in Pushers, U_Lock(u) PROVE RingStep
  BY <1>3 DEF U_Lock, ring, RingStep
<1>4. ASSUME NEW u \in Pushers, U_Insert(u) PROVE RingStep
  BY <1>4 DEF U_Insert, ring, RingStep
<1>5. ASSUME NEW u \in Pushers, U_Signal(u) PROVE RingStep
  BY <1>5 DEF U_Signal, ring, RingStep
<1>6. ASSUME NEW u \in Pushers, U_Unlock(u) PROVE RingStep
  BY <1>6 DEF U_Unlock, ring, RingStep
<1>7. ASSUME NEW o \in Poppers, O_Loop(o) PROVE RingStep
  BY <1>7 DEF O_Loop, ring, RingStep
<1>8. ASSUME NEW o \in Poppers, O_Lock(o) PROVE RingStep
  BY <1>8 DEF O_Lock, ring, RingStep
<1>9. ASSUME NEW o \in Poppers, O_Test(o) PROVE RingStep
  BY <1>9 DEF O_Test, ring, RingStep
<1>10. ASSUME NEW o \in Poppers, O_Wait(o) PROVE RingStep
  BY <1>10 DEF O_Wait, ring, RingStep
<1>11. ASSUME NEW o \in Poppers, O_Spurious(o) PROVE RingStep
  BY <1>11 DEF O_Spurious, ring, RingStep
<1>12. ASSUME NEW o \in Poppers, O_Relock(o) PROVE RingStep
  BY <1>12 DEF O_Relock, ring, RingStep
<1>13. ASSUME NEW o \in Poppers, O_Take(o) PROVE RingStep
  BY <1>13 DEF O_Take, ring, RingStep
<1>14. ASSUME NEW o \in Poppers, O_Unlock(o) PROVE RingStep
  BY <1>14 DEF O_Unlock, ring, RingStep
<1>15. ASSUME NEW o \in Poppers, O_Abort(o) PROVE RingStep
  BY <1>15 DEF O_Abort, ring, RingStep
<1>16. CASE H_Clear
  BY <1>16 DEF H_Clear, ring, RingStep
<1>17. CASE H_Broadcast
  BY <1>17 DEF H_Broadcast, ring, RingStep
<1>18. CASE UNCHANGED vars
  BY <1>18 DEF vars, ring, RingStep
<1>19. QED
  BY <1>1, <1>2, <1>3, <1>4, <1>5, <1>6, <1>7, <1>8, <1>9, <1>10, <1>11,
    <1>12, <1>13, <1>14, <1>15, <1>16, <1>17, <1>18 DEF Next, Pusher, Popper

\* A pusher inserts a frame it has not pushed before.
LEMMA PushIsNew ==
    ASSUME PcShape, TypeOK, Numbered, NEW u \in Pushers, U_Insert(u)
    PROVE  /\ <<u, id[u]>> \in Frames
           /\ <<u, id[u]>> \in Past' /\ <<u, id[u]>> \notin Past
<1>1. pc[u] = "u_insert" /\ pc'[u] = "u_signal" /\ id' = id /\ id[u] \in Int
  BY DEF U_Insert, Goto, PcShape, Threads, TypeOK
<1>2. <<u, id[u]>> \in Frames
  BY <1>1, NextFrame
<1>3. QED
  BY <1>1, <1>2 DEF Past

\* What an insertion into a buffer with room does to the frames that wait.
LEMMA QueueAfterPush ==
    ASSUME IInv, NEW u \in Pushers, U_Insert(u), count < Size
    PROVE  Queue' = Append(Queue, <<u, id[u]>>) /\ Indices'
<1>1. /\ tail' = tail /\ count' = count + 1 /\ head' = (head + 1) % Size
      /\ buffer' = [buffer EXCEPT ![head] = <<u, id[u]>>]
      /\ TypeOK /\ Indices
  BY DEF U_Insert, DropOldest, IInv, TypeOK
<1>2. IsRing(buffer, Size, Frames \cup {NoFrame}) /\ IsSegment(Size, tail, count)
  BY <1>1, RingType
<1>3. IsRing(buffer', Size, Frames \cup {NoFrame})
  <2>1. <<u, id[u]>> \in Frames
    BY PushIsNew DEF IInv
  <2>2. QED
    BY <1>1, <1>2, <2>1 DEF IsRing
<1>4. SameExcept(buffer, buffer', 0 .. Size - 1, (tail + count) % Size)
  BY <1>1, <1>2 DEF SameExcept, Indices, IsRing
<1>5. Segment(buffer', Size, tail, count) = Queue
  BY <1>2, <1>4, SegmentKept DEF Queue
<1>6. Segment(buffer', Size, tail, count + 1)
        = Append(Segment(buffer', Size, tail, count), buffer'[(tail + count) % Size])
  BY <1>2, <1>3, SegmentGrows
<1>7. buffer'[(tail + count) % Size] = <<u, id[u]>>
  BY <1>1 DEF Indices, TypeOK
<1>8. (((tail + count) % Size) + 1) % Size = (tail + (count + 1)) % Size
  <2>1. tail \in 0 .. Size - 1 /\ count \in 0 .. Size - 1
    BY <1>1, SizeAssumption DEF TypeOK
  <2>2. QED
    BY <2>1, SizeAssumption, IndexShift
<1>9. Indices'
  BY <1>1, <1>8 DEF Indices
<1>10. QED
  BY <1>1, <1>5, <1>6, <1>7, <1>9 DEF Queue

\* And one into a full buffer, which drops the oldest frame.
LEMMA QueueAfterDrop ==
    ASSUME IInv, NEW u \in Pushers, U_Insert(u), count = Size
    PROVE  Queue' = Append(Tail(Queue), <<u, id[u]>>) /\ Indices'
<1> DEFINE second == (tail + 1) % Size
<1>1. /\ tail' = second /\ count' = count /\ head' = (head + 1) % Size
      /\ buffer' = [buffer EXCEPT ![head] = <<u, id[u]>>]
      /\ TypeOK /\ Indices
  BY DEF U_Insert, DropOldest, IInv
<1>2. IsRing(buffer, Size, Frames \cup {NoFrame}) /\ IsSegment(Size, tail, count)
  BY <1>1, RingType
<1>3. PICK n \in 0 .. Size - 1 : n + 1 = count
  <2>1. Size - 1 \in 0 .. Size - 1 /\ (Size - 1) + 1 = Size
    BY SizeAssumption
  <2>2. QED
    BY <2>1
<1>4. n \in Nat /\ n < Size /\ count > 0 /\ count - 1 = n
  BY <1>3, SizeAssumption
<1>5. IsSegment(Size, second, n)
  <2>1. tail + 1 \in Nat
    BY <1>1 DEF TypeOK
  <2>2. second \in 0 .. Size - 1
    BY <2>1, SizeAssumption, IndexInRing
  <2>3. QED
    BY <1>4, <2>2, SizeAssumption DEF IsSegment
<1>6. Segment(buffer, Size, second, n) = Tail(Queue)
  BY <1>2, <1>4, SegmentShrinks DEF Queue
<1>7. /\ (second + n) % Size = (tail + count) % Size
      /\ (((tail + n) % Size) + 1) % Size = (tail + count) % Size
  <2>1. tail \in 0 .. Size - 1
    BY <1>1 DEF TypeOK
  <2>2. QED
    BY <1>3, <2>1, SizeAssumption, IndexShift
<1>8. IsRing(buffer', Size, Frames \cup {NoFrame})
  <2>1. <<u, id[u]>> \in Frames
    BY PushIsNew DEF IInv
  <2>2. QED
    BY <1>1, <1>2, <2>1 DEF IsRing
<1>9. (second + n) % Size = head
  BY <1>1, <1>7 DEF Indices
<1>10. SameExcept(buffer, buffer', 0 .. Size - 1, (second + n) % Size)
  BY <1>1, <1>2, <1>9 DEF SameExcept, IsRing
<1> HIDE DEF second
<1>11. Segment(buffer', Size, second, n) = Segment(buffer, Size, second, n)
  BY <1>2, <1>4, <1>5, <1>10, SegmentKept
<1>12. Segment(buffer', Size, second, n + 1)
         = Append(Segment(buffer', Size, second, n), buffer'[(second + n) % Size])
  BY <1>4, <1>5, <1>8, SegmentGrows
<1>13. buffer'[(second + n) % Size] = <<u, id[u]>>
  BY <1>1, <1>9 DEF TypeOK
<1>14. Queue' = Append(Tail(Queue), <<u, id[u]>>)
  BY <1>1, <1>3, <1>6, <1>11, <1>12, <1>13 DEF Queue
<1>15. (head + 1) % Size = (second + count) % Size
  <2>1. second \in 0 .. Size - 1
    BY <1>5 DEF IsSegment
  <2>2. (((second + n) % Size) + 1) % Size = (second + (n + 1)) % Size
    BY <2>1, SizeAssumption, IndexShift
  <2>3. QED
    BY <1>3, <1>9, <2>2
<1>16. QED
  BY <1>1, <1>14, <1>15 DEF Indices

\* And what a take does.
LEMMA QueueAfterPop ==
    ASSUME IInv, NEW o \in Poppers, O_Take(o)
    PROVE  /\ Queue # << >> /\ Queue' = Tail(Queue)
           /\ taken' = taken \cup {Head(Queue)} /\ Indices'
<1>1. /\ tail' = (tail + 1) % Size /\ count' = count - 1 /\ count > 0
      /\ head' = head /\ buffer' = buffer /\ taken' = taken \cup {buffer[tail]}
      /\ TypeOK /\ Indices
  BY DEF O_Take, Goto, IInv, Tested
<1>2. /\ Queue # << >> /\ Head(Queue) = buffer[tail]
      /\ Segment(buffer, Size, (tail + 1) % Size, count - 1) = Tail(Queue)
  BY <1>1, RingType, SegmentShrinks DEF Queue
<1>3. (((tail + 1) % Size) + (count - 1)) % Size = (tail + count) % Size
  <2>1. PICK n \in 0 .. Size - 1 : n = count - 1
    BY <1>1, SizeAssumption DEF TypeOK
  <2>2. n + 1 = count /\ tail \in 0 .. Size - 1
    BY <1>1, <2>1 DEF TypeOK
  <2>3. (((tail + 1) % Size) + n) % Size = (tail + (n + 1)) % Size
    BY <2>2, SizeAssumption, IndexShift
  <2>4. QED
    BY <2>1, <2>2, <2>3
<1>4. Indices'
  BY <1>1, <1>3 DEF Indices
<1>5. QED
  BY <1>1, <1>2, <1>4 DEF Queue

\* The steps of FrameBuffer, in terms of the frames that wait.
LEMMA QueueStep ==
    ASSUME IInv, [Next]_vars
    PROVE  /\ Indices'
           /\ \/ Queue' = Queue /\ taken' = taken
              \/ \E u \in Pushers :
                    /\ U_Insert(u) /\ taken' = taken
                    /\ Queue' = Append(IF Len(Queue) = Size THEN Tail(Queue) ELSE Queue,
                                       <<u, id[u]>>)
              \/ /\ Queue # << >> /\ Queue' = Tail(Queue)
                 /\ taken' = taken \cup {Head(Queue)}
<1>1. CASE UNCHANGED ring /\ taken' = taken
  BY <1>1 DEF ring, Queue, Indices, IInv
<1>2. ASSUME NEW u \in Pushers, U_Insert(u)
      PROVE  /\ Indices' /\ taken' = taken
             /\ Queue' = Append(IF Len(Queue) = Size THEN Tail(Queue) ELSE Queue,
                                <<u, id[u]>>)
  <2>1. Len(Queue) = count /\ (count = Size \/ count < Size)
    BY RingType, SegmentType, SizeAssumption DEF Queue, IInv, TypeOK
  <2>2. taken' = taken
    BY <1>2 DEF U_Insert
  <2>3. CASE count = Size
    BY <1>2, <2>1, <2>2, <2>3, QueueAfterDrop
  <2>4. CASE count < Size
    <3>1. Len(Queue) # Size
      BY <2>1, <2>4, SizeAssumption DEF IInv, TypeOK
    <3>2. QED
      BY <1>2, <2>2, <2>4, <3>1, QueueAfterPush
  <2>5. QED
    BY <2>1, <2>3, <2>4
<1>3. ASSUME NEW o \in Poppers, O_Take(o)
      PROVE  /\ Indices' /\ Queue # << >> /\ Queue' = Tail(Queue)
             /\ taken' = taken \cup {Head(Queue)}
  BY <1>3, QueueAfterPop
<1>4. QED
  BY <1>1, <1>2, <1>3, RingSteps DEF RingStep

\* Every step keeps to frames that have been pushed.
LEMMA OnlyPastStep ==
    ASSUME IInv, [Next]_vars
    PROVE  OnlyPast'
<1>1. Past \subseteq Past' /\ Queue \in Seq(Past) /\ taken \subseteq Past
  BY PastGrows DEF IInv, OnlyPast
<1>2. Queue \in Seq(Past')
  BY <1>1, SeqInLarger
<1>3. CASE Queue' = Queue /\ taken' = taken
  BY <1>1, <1>2, <1>3 DEF OnlyPast
<1>4. ASSUME NEW u \in Pushers, U_Insert(u), taken' = taken,
             Queue' = Append(IF Len(Queue) = Size THEN Tail(Queue) ELSE Queue,
                             <<u, id[u]>>)
      PROVE  OnlyPast'
  <2>1. <<u, id[u]>> \in Past'
    BY <1>4, PushIsNew DEF IInv
  <2>2. (IF Len(Queue) = Size THEN Tail(Queue) ELSE Queue) \in Seq(Past')
    <3>1. CASE Len(Queue) = Size
      <4>1. Queue # << >>
        BY <3>1, EmptySeq, SizeAssumption
      <4>2. QED
        BY <1>2, <3>1, <4>1, HeadTailProperties
    <3>2. QED
      BY <1>2, <3>1
  <2>3. Queue' \in Seq(Past')
    BY <1>4, <2>1, <2>2, AppendProperties
  <2>4. QED
    BY <1>1, <1>4, <2>3 DEF OnlyPast
<1>5. CASE /\ Queue # << >> /\ Queue' = Tail(Queue)
           /\ taken' = taken \cup {Head(Queue)}
  <2>1. Tail(Queue) \in Seq(Past') /\ Head(Queue) \in Past'
    BY <1>2, <1>5, HeadTailProperties
  <2>2. QED
    BY <1>1, <1>5, <2>1 DEF OnlyPast
<1>6. QED
  BY <1>3, <1>4, <1>5, QueueStep

\* The initial state satisfies the inductive invariant.
LEMMA InitHolds == Init => IInv /\ Queue = << >> /\ taken = {}
<1> SUFFICES ASSUME Init PROVE IInv /\ Queue = << >> /\ taken = {}
  OBVIOUS
<1>1. PcShape
  BY ThreadAssumption DEF Init, PcShape, Threads, U_Labels, O_Labels
<1>2. TypeOK
  BY ThreadAssumption, SizeAssumption, MaxFramesAssumption DEF Init, TypeOK, Threads
<1>3. Tested /\ Numbered /\ NoSleepingWithData
  BY ThreadAssumption DEF Init, Tested, Numbered, NoSleepingWithData, Threads
<1>4. Indices
  <2>1. 0 = (0 + 0) % Size
    BY SizeAssumption, IndexAfter
  <2>2. QED
    BY <2>1 DEF Init, Indices
<1>5. Queue = << >>
  BY <1>2, RingType, SegmentEmpty DEF Init, Queue, TypeOK
<1>6. taken = {} /\ OnlyPast
  BY <1>5, EmptySeq DEF Init, OnlyPast
<1>7. QED
  BY <1>1, <1>2, <1>3, <1>4, <1>5, <1>6 DEF IInv

\* IInv holds in every reachable state.
THEOREM IInvHolds == Spec => []IInv
<1>1. IInv /\ [Next]_vars => IInv'
  BY PcStep, TypeStep, TestedStep, NumberedStep, SleepStep, QueueStep,
     OnlyPastStep DEF IInv
<1>2. QED
  BY InitHolds, <1>1, PTL DEF Spec

\* RingConsistent of FrameBuffer.tla: head, tail and count of frame_buffer_t
\* describe one segment of the ring, and only a thread inside buffer_push or
\* buffer_pop holds the mutex.
THEOREM RingConsistentHolds == Spec => []RingConsistent
<1>1. IInv => RingConsistent
  BY DEF IInv, RingConsistent, Indices
<1>2. QED
  BY IInvHolds, <1>1, PTL

\* NoSleepingWithData of FrameBuffer.tla: no wakeup of common.c is lost.
THEOREM NoSleepingWithDataHolds == Spec => []NoSleepingWithData
<1>1. IInv => NoSleepingWithData
  BY DEF IInv
<1>2. QED
  BY IInvHolds, <1>1, PTL

\* ImplementsFrameQueue of FrameBuffer.tla: buffer_push and buffer_pop are, seen
\* from outside, the atomic operations of a drop-oldest queue.
THEOREM FrameQueueImplemented == Spec => ImplementsFrameQueue
<1>1. Init => FQ!Init
  BY InitHolds DEF FQ!Init, Queue
<1>2. IInv /\ [Next]_vars => [FQ!Next]_(FQ!vars)
  <2> SUFFICES ASSUME IInv, [Next]_vars PROVE [FQ!Next]_(FQ!vars)
    OBVIOUS
  <2>1. Queue \in Seq(Past) /\ taken \subseteq Past
    BY DEF IInv, OnlyPast
  <2>2. CASE Queue' = Queue /\ taken' = taken
    BY <2>2 DEF FQ!vars, Queue
  <2>3. ASSUME NEW u \in Pushers, U_Insert(u), taken' = taken,
               Queue' = Append(IF Len(Queue) = Size THEN Tail(Queue) ELSE Queue,
                               <<u, id[u]>>)
        PROVE  FQ!Next
    <3>1. <<u, id[u]>> \in Frames /\ <<u, id[u]>> \notin Past
      BY <2>3, PushIsNew DEF IInv
    <3>2. \A j \in DOMAIN Queue : Queue[j] \in Past
      BY <2>1, ElementOfSeq, LenProperties
    <3>3. FQ!Push(<<u, id[u]>>)
      BY <2>1, <2>3, <3>1, <3>2 DEF FQ!Push, Queue
    <3>4. QED
      BY <3>1, <3>3 DEF FQ!Next
  <2>4. CASE /\ Queue # << >> /\ Queue' = Tail(Queue)
             /\ taken' = taken \cup {Head(Queue)}
    BY <2>4 DEF FQ!Next, FQ!Pop, Queue
  <2>5. QED
    BY <2>2, <2>3, <2>4, QueueStep
<1>3. QED
  BY <1>1, <1>2, IInvHolds, PTL DEF Spec, ImplementsFrameQueue, FQ!Spec
=============================================================================
