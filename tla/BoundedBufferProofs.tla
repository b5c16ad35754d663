------------------------- MODULE BoundedBufferProofs -------------------------
(***************************************************************************)
(* Safety of BoundedBuffer, and that it implements TaskQueue, for every    *)
(* size of the buffer, every number of tasks and all finite sets of        *)
(* producers and consumers, any of which may be killed at any statement.   *)
(*                                                                         *)
(* The inductive invariant is IInv.  SlotCounts is its heart: the program  *)
(* has no counter, so that a segment of the ring is in use at all, and     *)
(* that its two ends never pass each other, follows only from the          *)
(* semaphores and from where every process is.  InTransit and OnlyPast     *)
(* carry the contents of the ring through the steps of one operation.      *)
(***************************************************************************)
EXTENDS BoundedBuffer, BufferLemmas

P_Labels == {"p_empty", "p_lock", "p_copy", "p_tail", "p_unlock", "p_full", "p_done"}
C_Labels == {"c_full", "c_lock", "c_copy", "c_head", "c_unlock", "c_empty", "c_process"}

\* Every process is at a statement of its own program.
PcShape ==
    /\ pc \in [Procs -> P_Labels \cup C_Labels]
    /\ \A p \in Producers : pc[p] \in P_Labels
    /\ \A c \in Consumers : pc[c] \in C_Labels

\* The domains of the variables, without the bounds on the semaphores.
Shape ==
    /\ mutex \in Nat /\ empty \in Nat /\ full \in Nat
    /\ buffer \in [0 .. K - 1 -> Tasks \cup {NoTask}]
    /\ head \in 0 .. K - 1 /\ tail \in 0 .. K - 1
    /\ PcShape
    /\ i \in [Producers -> 0 .. N]
    /\ \A p \in Producers : pc[p] \notin {"p_empty", "p_done"} => i[p] < N
    /\ task_str \in [Consumers -> Tasks \cup {NoTask}]

\* Between sem_wait(mutex) and sem_post(mutex).
Critical == {"p_copy", "p_tail", "p_unlock", "c_copy", "c_head", "c_unlock"}

\* Who holds the difference between the semaphores and the ring: a producer
\* that has a slot and no task in it yet, one that has not announced its task,
\* a consumer that has not removed the task it was promised, one that has not
\* given back the slot.
Reserving == {"p_lock", "p_copy", "p_tail"}
Announcing == {"p_unlock", "p_full"}
Claiming == {"c_lock", "c_copy", "c_head"}
Freeing == {"c_unlock", "c_empty"}

\* mutex is 1 when no process is in its critical section, 0 when one is.
MutexCounts == mutex + Num(Critical) = 1

\* Every slot is free, reserved, used or about to be freed.
SlotCounts == empty + Num(Reserving) + Length + Num(Freeing) = K

\* The tasks that wait begin at head and end before tail.
Indices == tail = (head + Length) % K

\* What a process between its copy and the move of the index has copied.
InTransit ==
    /\ \A p \in Producers : pc[p] = "p_tail" => buffer[tail] = <<p, i[p]>>
    /\ \A c \in Consumers : pc[c] = "c_head" => task_str[c] = buffer[head]

\* The tasks producers have put into the buffer so far.
Past == {t \in Tasks : \/ t[2] < i[t[1]]
                       \/ t[2] = i[t[1]] /\ pc[t[1]] \in Announcing}

Queue == Segment(buffer, K, head, Length)

\* Only tasks that have been put in wait or have been taken.
OnlyPast == Queue \in Seq(Past) /\ Delivered \subseteq Past

IInv == Shape /\ MutexCounts /\ SlotCounts /\ Indices /\ InTransit /\ OnlyPast

-----------------------------------------------------------------------------
\* There are finitely many processes.
LEMMA ProcsFinite == IsFiniteSet(Procs)
BY ProcAssumption, FS_Union DEF Procs

\* The processes at some statements can be counted.
LEMMA NumType ==
    ASSUME NEW S
    PROVE  Num(S) \in Nat
BY ProcsFinite, NumberType DEF Num

\* What a step between two labels does to the numbers of the invariant.
Counted(from, to) ==
    /\ Num(Critical)' = Num(Critical) + One(to, Critical) - One(from, Critical)
    /\ Num(Reserving)' = Num(Reserving) + One(to, Reserving) - One(from, Reserving)
    /\ Num(Announcing)' = Num(Announcing) + One(to, Announcing) - One(from, Announcing)
    /\ Num(Claiming)' = Num(Claiming) + One(to, Claiming) - One(from, Claiming)
    /\ Num(Freeing)' = Num(Freeing) + One(to, Freeing) - One(from, Freeing)

\* A step of one process changes such a number by one at most.
LEMMA StepNums ==
    ASSUME Shape, NEW p \in Procs, NEW from, NEW to, Step(p, from, to)
    PROVE  Counted(from, to)
<1>1. ASSUME NEW S PROVE Num(S)' = Num(S) + One(to, S) - One(from, S)
  <2>1. pc[p] = from /\ pc'[p] = to /\ SameExcept(pc, pc', Procs, p)
    BY DEF Step, SameExcept, Shape, PcShape
  <2>2. NumAt(pc', Procs, S) = NumAt(pc, Procs, S) + One(pc'[p], S) - One(pc[p], S)
    BY <2>1, ProcsFinite, NumberAfterMove
  <2>3. QED
    BY <2>1, <2>2 DEF Num
<1>2. QED
  BY <1>1 DEF Counted

\* The four counts of processes in the middle of an operation are numbers.
LEMMA NumsType ==
    /\ Num(Critical) \in Nat /\ Num(Reserving) \in Nat /\ Num(Announcing) \in Nat
    /\ Num(Claiming) \in Nat /\ Num(Freeing) \in Nat
BY NumType

\* Length and its primed value as sums of the named numbers.
LEMMA LengthSum ==
    /\ Length = full + Num(Announcing) + Num(Claiming)
    /\ Length' = full' + Num(Announcing)' + Num(Claiming)'
BY DEF Length, Announcing, Claiming

\* A segment of at most K slots is in use.
LEMMA LengthType ==
    ASSUME Shape, SlotCounts
    PROVE  Length \in Nat /\ Length <= K /\ IsSegment(K, head, Length)
<1>1. Length \in Nat
  BY LengthSum, NumsType DEF Shape
<1>2. Length <= K
  BY <1>1, NumsType, KAssumption DEF Shape, SlotCounts
<1>3. QED
  BY <1>1, <1>2 DEF IsSegment, Shape

\* A producer on its way to put a task in has a slot that is not in use.
LEMMA RoomLeft ==
    ASSUME Shape, SlotCounts, NEW p \in Producers, pc[p] \in Reserving
    PROVE  Length < K
<1>1. Num(Reserving) >= 1
  BY ProcsFinite, AtLeastOne DEF Num, Procs
<1>2. QED
  BY <1>1, LengthType, NumsType, KAssumption DEF Shape, SlotCounts

\* A consumer on its way to remove a task has one to remove.
LEMMA TaskLeft ==
    ASSUME Shape, SlotCounts, NEW c \in Consumers, pc[c] \in Claiming
    PROVE  Length > 0
<1>1. Num(Claiming) >= 1
  BY ProcsFinite, AtLeastOne DEF Num, Procs
<1>2. QED
  BY <1>1, LengthSum, NumsType DEF Shape

\* One process at a time is between sem_wait(mutex) and sem_post(mutex).
LEMMA OneInCritical ==
    ASSUME Shape, MutexCounts, NEW p \in Procs, NEW q \in Procs,
           pc[p] \in Critical, pc[q] \in Critical
    PROVE  p = q
<1>1. Num(Critical) <= 1
  BY NumsType DEF Shape, MutexCounts
<1>2. QED
  BY <1>1, ProcsFinite, AtMostOne DEF Num

\* A producer inside its loop body works on one of its N tasks.
LEMMA NextTask ==
    ASSUME Shape, NEW p \in Producers, pc[p] \notin {"p_empty", "p_done"}
    PROVE  i[p] \in 0 .. N - 1 /\ <<p, i[p]>> \in Tasks
<1>1. i[p] < N /\ i[p] \in 0 .. N
  BY DEF Shape
<1>2. i[p] \in 0 .. N - 1
  BY <1>1, NAssumption
<1>3. QED
  BY <1>2 DEF Tasks

\* A step within one program keeps every process in its own program.
LEMMA PcStep ==
    ASSUME Shape, NEW p \in Procs, NEW from, NEW to, Step(p, from, to),
           \/ p \in Producers /\ to \in P_Labels
           \/ p \in Consumers /\ to \in C_Labels
    PROVE  PcShape'
BY ProcAssumption DEF Shape, PcShape, Step, Procs

\* Every step keeps the domains of the variables.
LEMMA ShapeStep ==
    ASSUME Shape, [Next]_vars
    PROVE  Shape'
<1>1. ASSUME NEW p \in Producers, P_Empty(p) PROVE Shape'
  <2>1. PcShape'
    BY <1>1, PcStep DEF P_Empty, P_Labels, Procs
  <2>2. QED
    BY <1>1, <2>1, NAssumption DEF P_Empty, Step, shm, Shape, PcShape
<1>2. ASSUME NEW p \in Producers, P_Lock(p) PROVE Shape'
  <2>1. PcShape'
    BY <1>2, PcStep DEF P_Lock, P_Labels, Procs
  <2>2. QED
    BY <1>2, <2>1 DEF P_Lock, Step, MutexWait, sems, shm, Shape
<1>3. ASSUME NEW p \in Producers, P_Copy(p) PROVE Shape'
  <2>1. PcShape'
    BY <1>3, PcStep DEF P_Copy, P_Labels, Procs
  <2>2. <<p, i[p]>> \in Tasks
    BY <1>3, NextTask DEF P_Copy, Step
  <2>3. QED
    BY <1>3, <2>1, <2>2 DEF P_Copy, Step, sems, Shape
<1>4. ASSUME NEW p \in Producers, P_Tail(p) PROVE Shape'
  <2>1. PcShape'
    BY <1>4, PcStep DEF P_Tail, P_Labels, Procs
  <2>2. tail' \in 0 .. K - 1
    BY <1>4, KAssumption, IndexInRing DEF P_Tail, Shape
  <2>3. QED
    BY <1>4, <2>1, <2>2 DEF P_Tail, Step, sems, Shape
<1>5. ASSUME NEW p \in Producers, P_Unlock(p) PROVE Shape'
  <2>1. PcShape'
    BY <1>5, PcStep DEF P_Unlock, P_Labels, Procs
  <2>2. QED
    BY <1>5, <2>1 DEF P_Unlock, Step, MutexPost, sems, shm, Shape
<1>6. ASSUME NEW p \in Producers, P_Full(p) PROVE Shape'
  <2>1. PcShape'
    BY <1>6, PcStep DEF P_Full, P_Labels, Procs
  <2>2. QED
    BY <1>6, <2>1, NAssumption DEF P_Full, Step, shm, Shape, PcShape
<1>7. ASSUME NEW p \in Producers, P_Exit(p) PROVE Shape'
  <2>1. PcShape'
    BY <1>7, PcStep DEF P_Exit, P_Labels, Procs
  <2>2. QED
    BY <1>7, <2>1 DEF P_Exit, Step, sems, shm, Shape
<1>8. ASSUME NEW c \in Consumers, C_Full(c) PROVE Shape'
  <2>1. PcShape'
    BY <1>8, PcStep DEF C_Full, C_Labels, Procs
  <2>2. QED
    BY <1>8, <2>1 DEF C_Full, Step, sems, shm, Shape
<1>9. ASSUME NEW c \in Consumers, C_Lock(c) PROVE Shape'
  <2>1. PcShape'
    BY <1>9, PcStep DEF C_Lock, C_Labels, Procs
  <2>2. QED
    BY <1>9, <2>1 DEF C_Lock, Step, MutexWait, sems, shm, Shape
<1>10. ASSUME NEW c \in Consumers, C_Copy(c) PROVE Shape'
  <2>1. PcShape'
    BY <1>10, PcStep DEF C_Copy, C_Labels, Procs
  <2>2. buffer[head] \in Tasks \cup {NoTask}
    BY DEF Shape
  <2>3. QED
    BY <1>10, <2>1, <2>2 DEF C_Copy, Step, sems, shm, Shape
<1>11. ASSUME NEW c \in Consumers, C_Head(c) PROVE Shape'
  <2>1. PcShape'
    BY <1>11, PcStep DEF C_Head, C_Labels, Procs
  <2>2. head' \in 0 .. K - 1
    BY <1>11, KAssumption, IndexInRing DEF C_Head, Shape
  <2>3. QED
    BY <1>11, <2>1, <2>2 DEF C_Head, Step, sems, Shape
<1>12. ASSUME NEW c \in Consumers, C_Unlock(c) PROVE Shape'
  <2>1. PcShape'
    BY <1>12, PcStep DEF C_Unlock, C_Labels, Procs
  <2>2. QED
    BY <1>12, <2>1 DEF C_Unlock, Step, MutexPost, sems, shm, Shape
<1>13. ASSUME NEW c \in Consumers, C_Empty(c) PROVE Shape'
  <2>1. PcShape'
    BY <1>13, PcStep DEF C_Empty, C_Labels, Procs
  <2>2. QED
    BY <1>13, <2>1 DEF C_Empty, Step, sems, shm, Shape
<1>14. ASSUME NEW c \in Consumers, C_Process(c) PROVE Shape'
  <2>1. PcShape'
    BY <1>14, PcStep DEF C_Process, C_Labels, Procs
  <2>2. QED
    BY <1>14, <2>1 DEF C_Process, Step, sems, shm, Shape
<1>15. ASSUME NEW p \in Procs, Kill(p) PROVE Shape'
  BY <1>15 DEF Kill, sems, shm, Shape, PcShape
<1>16. CASE UNCHANGED vars
  BY <1>16 DEF vars, Shape, PcShape
<1>17. QED
  BY <1>1, <1>2, <1>3, <1>4, <1>5, <1>6, <1>7, <1>8, <1>9, <1>10, <1>11,
    <1>12, <1>13, <1>14, <1>15, <1>16 DEF Next, Producer, Consumer

\* What a step may do to the ring and to the tasks taken from it: only a
\* producer's move of tail makes the segment in use longer, only a consumer's
\* move of head makes it shorter, and that is when the task counts as taken.
RingStep ==
    \/ /\ Length' = Length /\ UNCHANGED <<head, tail>> /\ Delivered' = Delivered
       /\ UNCHANGED buffer \/ \E p \in Producers : P_Copy(p)
    \/ \E p \in Producers :
          P_Tail(p) /\ Length' = Length + 1 /\ Delivered' = Delivered
    \/ \E c \in Consumers :
          /\ C_Head(c) /\ Length' = Length - 1
          /\ Delivered' = Delivered \cup {task_str[c]}

\* Every step keeps the semaphores in agreement with where the processes are.
LEMMA CountsStep ==
    ASSUME Shape, MutexCounts, SlotCounts, [Next]_vars
    PROVE  MutexCounts' /\ SlotCounts' /\ RingStep
<1> DEFINE Goal == MutexCounts' /\ SlotCounts' /\ RingStep
<1>1. ASSUME NEW p \in Producers, P_Empty(p) PROVE Goal
  <2>1. p \in Procs /\ Step(p, "p_empty", "p_lock")
    BY <1>1 DEF P_Empty, Procs
  <2>2. Counted("p_empty", "p_lock")
    BY <2>1, StepNums
  <2>3. /\ Num(Critical)' = Num(Critical)
        /\ Num(Reserving)' = Num(Reserving) + 1 /\ Num(Announcing)' = Num(Announcing)
        /\ Num(Claiming)' = Num(Claiming) /\ Num(Freeing)' = Num(Freeing)
    BY <2>2, NumsType DEF Counted, One, Critical, Reserving, Announcing,
      Claiming, Freeing
  <2>4. Length' = Length
    BY <1>1, <2>3, LengthSum, NumsType DEF P_Empty, sems, Shape
  <2>5. Delivered' = Delivered
    BY <1>1, ProcAssumption DEF P_Empty, Step, Delivered, Shape, PcShape,
      Procs
  <2>6. UNCHANGED <<head, tail>> /\ (UNCHANGED buffer \/ \E q \in Producers : P_Copy(q))
    BY <1>1 DEF P_Empty, shm
  <2>7. MutexCounts' /\ SlotCounts'
    BY <1>1, <2>3, <2>4, LengthSum, NumsType, KAssumption DEF P_Empty,
      MutexCounts, SlotCounts, sems, shm, Shape
  <2>8. QED
    BY <1>1, <2>4, <2>5, <2>6, <2>7 DEF RingStep
<1>2. ASSUME NEW p \in Producers, P_Lock(p) PROVE Goal
  <2>1. p \in Procs /\ Step(p, "p_lock", "p_copy")
    BY <1>2 DEF P_Lock, Procs
  <2>2. Counted("p_lock", "p_copy")
    BY <2>1, StepNums
  <2>3. /\ Num(Critical)' = Num(Critical) + 1
        /\ Num(Reserving)' = Num(Reserving) /\ Num(Announcing)' = Num(Announcing)
        /\ Num(Claiming)' = Num(Claiming) /\ Num(Freeing)' = Num(Freeing)
    BY <2>2, NumsType DEF Counted, One, Critical, Reserving, Announcing,
      Claiming, Freeing
  <2>4. Length' = Length
    BY <1>2, <2>3, LengthSum, NumsType DEF P_Lock, MutexWait, sems, Shape
  <2>5. Delivered' = Delivered
    BY <1>2, ProcAssumption DEF P_Lock, Step, Delivered, Shape, PcShape,
      Procs
  <2>6. UNCHANGED <<head, tail>> /\ (UNCHANGED buffer \/ \E q \in Producers : P_Copy(q))
    BY <1>2 DEF P_Lock, shm
  <2>7. MutexCounts' /\ SlotCounts'
    BY <1>2, <2>3, <2>4, LengthSum, NumsType, KAssumption DEF P_Lock,
      MutexWait, MutexCounts, SlotCounts, sems, shm, Shape
  <2>8. QED
    BY <1>2, <2>4, <2>5, <2>6, <2>7 DEF RingStep
<1>3. ASSUME NEW p \in Producers, P_Copy(p) PROVE Goal
  <2>1. p \in Procs /\ Step(p, "p_copy", "p_tail")
    BY <1>3 DEF P_Copy, Procs
  <2>2. Counted("p_copy", "p_tail")
    BY <2>1, StepNums
  <2>3. /\ Num(Critical)' = Num(Critical)
        /\ Num(Reserving)' = Num(Reserving) /\ Num(Announcing)' = Num(Announcing)
        /\ Num(Claiming)' = Num(Claiming) /\ Num(Freeing)' = Num(Freeing)
    BY <2>2, NumsType DEF Counted, One, Critical, Reserving, Announcing,
      Claiming, Freeing
  <2>4. Length' = Length
    BY <1>3, <2>3, LengthSum, NumsType DEF P_Copy, sems, Shape
  <2>5. Delivered' = Delivered
    BY <1>3, ProcAssumption DEF P_Copy, Step, Delivered, Shape, PcShape,
      Procs
  <2>6. UNCHANGED <<head, tail>> /\ (UNCHANGED buffer \/ \E q \in Producers : P_Copy(q))
    BY <1>3 DEF P_Copy, shm
  <2>7. MutexCounts' /\ SlotCounts'
    BY <1>3, <2>3, <2>4, LengthSum, NumsType, KAssumption DEF P_Copy,
      MutexCounts, SlotCounts, sems, shm, Shape
  <2>8. QED
    BY <1>3, <2>4, <2>5, <2>6, <2>7 DEF RingStep
<1>4. ASSUME NEW p \in Producers, P_Tail(p) PROVE Goal
  <2>1. p \in Procs /\ Step(p, "p_tail", "p_unlock")
    BY <1>4 DEF P_Tail, Procs
  <2>2. Counted("p_tail", "p_unlock")
    BY <2>1, StepNums
  <2>3. /\ Num(Critical)' = Num(Critical)
        /\ Num(Reserving)' = Num(Reserving) - 1 /\ Num(Announcing)' = Num(Announcing) + 1
        /\ Num(Claiming)' = Num(Claiming) /\ Num(Freeing)' = Num(Freeing)
    BY <2>2, NumsType DEF Counted, One, Critical, Reserving, Announcing,
      Claiming, Freeing
  <2>4. Length' = Length + 1
    BY <1>4, <2>3, LengthSum, NumsType, SMTT(30) DEF P_Tail, sems, Shape
  <2>5. Delivered' = Delivered
    <3>1. printed' = printed /\ task_str' = task_str /\ \A c \in Consumers : pc'[c] = pc[c]
      BY <1>4, ProcAssumption DEF P_Tail, Step, Shape, PcShape, Procs
    <3>2. QED
      BY <3>1 DEF Delivered
  <2>6. mutex' = mutex /\ empty' = empty
    BY <1>4 DEF P_Tail, sems
  <2>7. MutexCounts' /\ SlotCounts'
    <3>1. mutex \in Nat /\ empty \in Nat /\ Length \in Nat
      BY LengthType DEF Shape
    <3>2. QED
      BY <2>3, <2>4, <2>6, <3>1, NumsType, KAssumption DEF MutexCounts, SlotCounts
  <2>8. QED
    BY <1>4, <2>4, <2>5, <2>6, <2>7 DEF RingStep
<1>5. ASSUME NEW p \in Producers, P_Unlock(p) PROVE Goal
  <2>1. p \in Procs /\ Step(p, "p_unlock", "p_full")
    BY <1>5 DEF P_Unlock, Procs
  <2>2. Counted("p_unlock", "p_full")
    BY <2>1, StepNums
  <2>3. /\ Num(Critical)' = Num(Critical) - 1
        /\ Num(Reserving)' = Num(Reserving) /\ Num(Announcing)' = Num(Announcing)
        /\ Num(Claiming)' = Num(Claiming) /\ Num(Freeing)' = Num(Freeing)
    BY <2>2, NumsType DEF Counted, One, Critical, Reserving, Announcing,
      Claiming, Freeing
  <2>4. Length' = Length
    BY <1>5, <2>3, LengthSum, NumsType DEF P_Unlock, MutexPost, sems, Shape
  <2>5. Delivered' = Delivered
    BY <1>5, ProcAssumption DEF P_Unlock, Step, Delivered, Shape, PcShape,
      Procs
  <2>6. UNCHANGED <<head, tail>> /\ (UNCHANGED buffer \/ \E q \in Producers : P_Copy(q))
    BY <1>5 DEF P_Unlock, shm
  <2>7. MutexCounts' /\ SlotCounts'
    BY <1>5, <2>3, <2>4, LengthSum, NumsType, KAssumption DEF P_Unlock,
      MutexPost, MutexCounts, SlotCounts, sems, shm, Shape
  <2>8. QED
    BY <1>5, <2>4, <2>5, <2>6, <2>7 DEF RingStep
<1>6. ASSUME NEW p \in Producers, P_Full(p) PROVE Goal
  <2>1. p \in Procs /\ Step(p, "p_full", "p_empty")
    BY <1>6 DEF P_Full, Procs
  <2>2. Counted("p_full", "p_empty")
    BY <2>1, StepNums
  <2>3. /\ Num(Critical)' = Num(Critical)
        /\ Num(Reserving)' = Num(Reserving) /\ Num(Announcing)' = Num(Announcing) - 1
        /\ Num(Claiming)' = Num(Claiming) /\ Num(Freeing)' = Num(Freeing)
    BY <2>2, NumsType DEF Counted, One, Critical, Reserving, Announcing,
      Claiming, Freeing
  <2>4. Length' = Length
    BY <1>6, <2>3, LengthSum, NumsType DEF P_Full, sems, Shape
  <2>5. Delivered' = Delivered
    BY <1>6, ProcAssumption DEF P_Full, Step, Delivered, Shape, PcShape,
      Procs
  <2>6. UNCHANGED <<head, tail>> /\ (UNCHANGED buffer \/ \E q \in Producers : P_Copy(q))
    BY <1>6 DEF P_Full, shm
  <2>7. MutexCounts' /\ SlotCounts'
    BY <1>6, <2>3, <2>4, LengthSum, NumsType, KAssumption DEF P_Full,
      MutexCounts, SlotCounts, sems, shm, Shape
  <2>8. QED
    BY <1>6, <2>4, <2>5, <2>6, <2>7 DEF RingStep
<1>7. ASSUME NEW p \in Producers, P_Exit(p) PROVE Goal
  <2>1. p \in Procs /\ Step(p, "p_empty", "p_done")
    BY <1>7 DEF P_Exit, Procs
  <2>2. Counted("p_empty", "p_done")
    BY <2>1, StepNums
  <2>3. /\ Num(Critical)' = Num(Critical)
        /\ Num(Reserving)' = Num(Reserving) /\ Num(Announcing)' = Num(Announcing)
        /\ Num(Claiming)' = Num(Claiming) /\ Num(Freeing)' = Num(Freeing)
    BY <2>2, NumsType DEF Counted, One, Critical, Reserving, Announcing,
      Claiming, Freeing
  <2>4. Length' = Length
    BY <1>7, <2>3, LengthSum, NumsType DEF P_Exit, sems, Shape
  <2>5. Delivered' = Delivered
    BY <1>7, ProcAssumption DEF P_Exit, Step, Delivered, Shape, PcShape,
      Procs
  <2>6. UNCHANGED <<head, tail>> /\ (UNCHANGED buffer \/ \E q \in Producers : P_Copy(q))
    BY <1>7 DEF P_Exit, shm
  <2>7. MutexCounts' /\ SlotCounts'
    BY <1>7, <2>3, <2>4, LengthSum, NumsType, KAssumption DEF P_Exit,
      MutexCounts, SlotCounts, sems, shm, Shape
  <2>8. QED
    BY <1>7, <2>4, <2>5, <2>6, <2>7 DEF RingStep
<1>8. ASSUME NEW c \in Consumers, C_Full(c) PROVE Goal
  <2>1. c \in Procs /\ Step(c, "c_full", "c_lock")
    BY <1>8 DEF C_Full, Procs
  <2>2. Counted("c_full", "c_lock")
    BY <2>1, StepNums
  <2>3. /\ Num(Critical)' = Num(Critical)
        /\ Num(Reserving)' = Num(Reserving) /\ Num(Announcing)' = Num(Announcing)
        /\ Num(Claiming)' = Num(Claiming) + 1 /\ Num(Freeing)' = Num(Freeing)
    BY <2>2, NumsType DEF Counted, One, Critical, Reserving, Announcing,
      Claiming, Freeing
  <2>4. Length' = Length
    BY <1>8, <2>3, LengthSum, NumsType DEF C_Full, sems, Shape
  <2>5. Delivered' = Delivered
    BY <1>8, ProcAssumption DEF C_Full, Step, Delivered, Shape, PcShape,
      Procs
  <2>6. UNCHANGED <<head, tail>> /\ (UNCHANGED buffer \/ \E q \in Producers : P_Copy(q))
    BY <1>8 DEF C_Full, shm
  <2>7. MutexCounts' /\ SlotCounts'
    BY <1>8, <2>3, <2>4, LengthSum, NumsType, KAssumption DEF C_Full,
      MutexCounts, SlotCounts, sems, shm, Shape
  <2>8. QED
    BY <1>8, <2>4, <2>5, <2>6, <2>7 DEF RingStep
<1>9. ASSUME NEW c \in Consumers, C_Lock(c) PROVE Goal
  <2>1. c \in Procs /\ Step(c, "c_lock", "c_copy")
    BY <1>9 DEF C_Lock, Procs
  <2>2. Counted("c_lock", "c_copy")
    BY <2>1, StepNums
  <2>3. /\ Num(Critical)' = Num(Critical) + 1
        /\ Num(Reserving)' = Num(Reserving) /\ Num(Announcing)' = Num(Announcing)
        /\ Num(Claiming)' = Num(Claiming) /\ Num(Freeing)' = Num(Freeing)
    BY <2>2, NumsType DEF Counted, One, Critical, Reserving, Announcing,
      Claiming, Freeing
  <2>4. Length' = Length
    BY <1>9, <2>3, LengthSum, NumsType DEF C_Lock, MutexWait, sems, Shape
  <2>5. Delivered' = Delivered
    BY <1>9, ProcAssumption DEF C_Lock, Step, Delivered, Shape, PcShape,
      Procs
  <2>6. UNCHANGED <<head, tail>> /\ (UNCHANGED buffer \/ \E q \in Producers : P_Copy(q))
    BY <1>9 DEF C_Lock, shm
  <2>7. MutexCounts' /\ SlotCounts'
    BY <1>9, <2>3, <2>4, LengthSum, NumsType, KAssumption DEF C_Lock,
      MutexWait, MutexCounts, SlotCounts, sems, shm, Shape
  <2>8. QED
    BY <1>9, <2>4, <2>5, <2>6, <2>7 DEF RingStep
<1>10. ASSUME NEW c \in Consumers, C_Copy(c) PROVE Goal
  <2>1. c \in Procs /\ Step(c, "c_copy", "c_head")
    BY <1>10 DEF C_Copy, Procs
  <2>2. Counted("c_copy", "c_head")
    BY <2>1, StepNums
  <2>3. /\ Num(Critical)' = Num(Critical)
        /\ Num(Reserving)' = Num(Reserving) /\ Num(Announcing)' = Num(Announcing)
        /\ Num(Claiming)' = Num(Claiming) /\ Num(Freeing)' = Num(Freeing)
    BY <2>2, NumsType DEF Counted, One, Critical, Reserving, Announcing,
      Claiming, Freeing
  <2>4. Length' = Length
    BY <1>10, <2>3, LengthSum, NumsType DEF C_Copy, sems, Shape
  <2>5. Delivered' = Delivered
    BY <1>10, ProcAssumption DEF C_Copy, Step, Delivered, Shape, PcShape,
      Procs
  <2>6. UNCHANGED <<head, tail>> /\ (UNCHANGED buffer \/ \E q \in Producers : P_Copy(q))
    BY <1>10 DEF C_Copy, shm
  <2>7. MutexCounts' /\ SlotCounts'
    BY <1>10, <2>3, <2>4, LengthSum, NumsType, KAssumption DEF C_Copy,
      MutexCounts, SlotCounts, sems, shm, Shape
  <2>8. QED
    BY <1>10, <2>4, <2>5, <2>6, <2>7 DEF RingStep
<1>11. ASSUME NEW c \in Consumers, C_Head(c) PROVE Goal
  <2>1. c \in Procs /\ Step(c, "c_head", "c_unlock")
    BY <1>11 DEF C_Head, Procs
  <2>2. Counted("c_head", "c_unlock")
    BY <2>1, StepNums
  <2>3. /\ Num(Critical)' = Num(Critical)
        /\ Num(Reserving)' = Num(Reserving) /\ Num(Announcing)' = Num(Announcing)
        /\ Num(Claiming)' = Num(Claiming) - 1 /\ Num(Freeing)' = Num(Freeing) + 1
    BY <2>2, NumsType DEF Counted, One, Critical, Reserving, Announcing,
      Claiming, Freeing
  <2>4. Length' = Length - 1
    BY <1>11, <2>3, LengthSum, NumsType, SMTT(30) DEF C_Head, sems, Shape
  <2>5. Delivered' = Delivered \cup {task_str[c]}
    BY <1>11, ProcAssumption DEF C_Head, Step, Delivered, Shape, PcShape,
      Procs
  <2>6. mutex' = mutex /\ empty' = empty
    BY <1>11 DEF C_Head, sems
  <2>7. MutexCounts' /\ SlotCounts'
    <3>1. mutex \in Nat /\ empty \in Nat /\ Length \in Nat
      BY LengthType DEF Shape
    <3>2. QED
      BY <2>3, <2>4, <2>6, <3>1, NumsType, KAssumption DEF MutexCounts, SlotCounts
  <2>8. QED
    BY <1>11, <2>4, <2>5, <2>6, <2>7 DEF RingStep
<1>12. ASSUME NEW c \in Consumers, C_Unlock(c) PROVE Goal
  <2>1. c \in Procs /\ Step(c, "c_unlock", "c_empty")
    BY <1>12 DEF C_Unlock, Procs
  <2>2. Counted("c_unlock", "c_empty")
    BY <2>1, StepNums
  <2>3. /\ Num(Critical)' = Num(Critical) - 1
        /\ Num(Reserving)' = Num(Reserving) /\ Num(Announcing)' = Num(Announcing)
        /\ Num(Claiming)' = Num(Claiming) /\ Num(Freeing)' = Num(Freeing)
    BY <2>2, NumsType DEF Counted, One, Critical, Reserving, Announcing,
      Claiming, Freeing
  <2>4. Length' = Length
    BY <1>12, <2>3, LengthSum, NumsType DEF C_Unlock, MutexPost, sems, Shape
  <2>5. Delivered' = Delivered
    BY <1>12, ProcAssumption DEF C_Unlock, Step, Delivered, Shape, PcShape,
      Procs
  <2>6. UNCHANGED <<head, tail>> /\ (UNCHANGED buffer \/ \E q \in Producers : P_Copy(q))
    BY <1>12 DEF C_Unlock, shm
  <2>7. MutexCounts' /\ SlotCounts'
    BY <1>12, <2>3, <2>4, LengthSum, NumsType, KAssumption DEF C_Unlock,
      MutexPost, MutexCounts, SlotCounts, sems, shm, Shape
  <2>8. QED
    BY <1>12, <2>4, <2>5, <2>6, <2>7 DEF RingStep
<1>13. ASSUME NEW c \in Consumers, C_Empty(c) PROVE Goal
  <2>1. c \in Procs /\ Step(c, "c_empty", "c_process")
    BY <1>13 DEF C_Empty, Procs
  <2>2. Counted("c_empty", "c_process")
    BY <2>1, StepNums
  <2>3. /\ Num(Critical)' = Num(Critical)
        /\ Num(Reserving)' = Num(Reserving) /\ Num(Announcing)' = Num(Announcing)
        /\ Num(Claiming)' = Num(Claiming) /\ Num(Freeing)' = Num(Freeing) - 1
    BY <2>2, NumsType DEF Counted, One, Critical, Reserving, Announcing,
      Claiming, Freeing
  <2>4. Length' = Length
    BY <1>13, <2>3, LengthSum, NumsType DEF C_Empty, sems, Shape
  <2>5. Delivered' = Delivered
    BY <1>13, ProcAssumption DEF C_Empty, Step, Delivered, Shape, PcShape,
      Procs
  <2>6. UNCHANGED <<head, tail>> /\ (UNCHANGED buffer \/ \E q \in Producers : P_Copy(q))
    BY <1>13 DEF C_Empty, shm
  <2>7. MutexCounts' /\ SlotCounts'
    BY <1>13, <2>3, <2>4, LengthSum, NumsType, KAssumption, SMTT(30) DEF C_Empty,
      MutexCounts, SlotCounts, sems, shm, Shape
  <2>8. QED
    BY <1>13, <2>4, <2>5, <2>6, <2>7 DEF RingStep
<1>14. ASSUME NEW c \in Consumers, C_Process(c) PROVE Goal
  <2>1. c \in Procs /\ Step(c, "c_process", "c_full")
    BY <1>14 DEF C_Process, Procs
  <2>2. Counted("c_process", "c_full")
    BY <2>1, StepNums
  <2>3. /\ Num(Critical)' = Num(Critical)
        /\ Num(Reserving)' = Num(Reserving) /\ Num(Announcing)' = Num(Announcing)
        /\ Num(Claiming)' = Num(Claiming) /\ Num(Freeing)' = Num(Freeing)
    BY <2>2, NumsType DEF Counted, One, Critical, Reserving, Announcing,
      Claiming, Freeing
  <2>4. Length' = Length
    BY <1>14, <2>3, LengthSum, NumsType DEF C_Process, sems, Shape
  <2>5. Delivered' = Delivered
    BY <1>14, ProcAssumption DEF C_Process, Step, Delivered, Shape, PcShape,
      Procs
  <2>6. UNCHANGED <<head, tail>> /\ (UNCHANGED buffer \/ \E q \in Producers : P_Copy(q))
    BY <1>14 DEF C_Process, shm
  <2>7. MutexCounts' /\ SlotCounts'
    BY <1>14, <2>3, <2>4, LengthSum, NumsType, KAssumption DEF C_Process,
      MutexCounts, SlotCounts, sems, shm, Shape
  <2>8. QED
    BY <1>14, <2>4, <2>5, <2>6, <2>7 DEF RingStep
<1>15. ASSUME NEW p \in Procs, Kill(p) PROVE Goal
  BY <1>15 DEF Kill, sems, shm, MutexCounts, SlotCounts, RingStep, Delivered,
    Length, Num
<1>16. CASE UNCHANGED vars
  BY <1>16 DEF vars, MutexCounts, SlotCounts, RingStep, Delivered, Length, Num
<1>17. QED
  BY <1>1, <1>2, <1>3, <1>4, <1>5, <1>6, <1>7, <1>8, <1>9, <1>10, <1>11,
    <1>12, <1>13, <1>14, <1>15, <1>16 DEF Next, Producer, Consumer

\* What a process has copied stays what the next index move is about.
LEMMA InTransitStep ==
    ASSUME Shape, MutexCounts, InTransit, [Next]_vars
    PROVE  InTransit'
<1>1. ASSUME NEW p \in Producers, P_Empty(p) PROVE InTransit'
  BY <1>1, ProcAssumption DEF P_Empty, Step, sems, shm, Shape, PcShape,
    InTransit, Procs
<1>2. ASSUME NEW p \in Producers, P_Lock(p) PROVE InTransit'
  BY <1>2, ProcAssumption DEF P_Lock, Step, MutexWait, sems, shm, Shape,
    PcShape, InTransit, Procs
<1>3. ASSUME NEW p \in Producers, P_Copy(p) PROVE InTransit'
  <2>1. \A q \in Procs : pc[q] \in Critical => q = p
    BY <1>3, OneInCritical DEF P_Copy, Step, Critical, Procs
  <2>2. QED
    BY <1>3, <2>1, ProcAssumption DEF P_Copy, Step, sems, Shape, PcShape,
      InTransit, Critical, Procs
<1>4. ASSUME NEW p \in Producers, P_Tail(p) PROVE InTransit'
  <2>1. \A q \in Procs : pc[q] \in Critical => q = p
    BY <1>4, OneInCritical DEF P_Tail, Step, Critical, Procs
  <2>2. QED
    BY <1>4, <2>1, ProcAssumption DEF P_Tail, Step, sems, Shape, PcShape,
      InTransit, Critical, Procs
<1>5. ASSUME NEW p \in Producers, P_Unlock(p) PROVE InTransit'
  BY <1>5, ProcAssumption DEF P_Unlock, Step, MutexPost, sems, shm, Shape,
    PcShape, InTransit, Procs
<1>6. ASSUME NEW p \in Producers, P_Full(p) PROVE InTransit'
  BY <1>6, ProcAssumption DEF P_Full, Step, sems, shm, Shape, PcShape,
    InTransit, Procs
<1>7. ASSUME NEW p \in Producers, P_Exit(p) PROVE InTransit'
  BY <1>7, ProcAssumption DEF P_Exit, Step, sems, shm, Shape, PcShape,
    InTransit, Procs
<1>8. ASSUME NEW c \in Consumers, C_Full(c) PROVE InTransit'
  BY <1>8, ProcAssumption DEF C_Full, Step, sems, shm, Shape, PcShape,
    InTransit, Procs
<1>9. ASSUME NEW c \in Consumers, C_Lock(c) PROVE InTransit'
  BY <1>9, ProcAssumption DEF C_Lock, Step, MutexWait, sems, shm, Shape,
    PcShape, InTransit, Procs
<1>10. ASSUME NEW c \in Consumers, C_Copy(c) PROVE InTransit'
  BY <1>10, ProcAssumption DEF C_Copy, Step, sems, shm, Shape, PcShape,
    InTransit, Procs
<1>11. ASSUME NEW c \in Consumers, C_Head(c) PROVE InTransit'
  <2>1. \A q \in Procs : pc[q] \in Critical => q = c
    BY <1>11, OneInCritical DEF C_Head, Step, Critical, Procs
  <2>2. QED
    BY <1>11, <2>1, ProcAssumption DEF C_Head, Step, sems, Shape, PcShape,
      InTransit, Critical, Procs
<1>12. ASSUME NEW c \in Consumers, C_Unlock(c) PROVE InTransit'
  BY <1>12, ProcAssumption DEF C_Unlock, Step, MutexPost, sems, shm, Shape,
    PcShape, InTransit, Procs
<1>13. ASSUME NEW c \in Consumers, C_Empty(c) PROVE InTransit'
  BY <1>13, ProcAssumption DEF C_Empty, Step, sems, shm, Shape, PcShape,
    InTransit, Procs
<1>14. ASSUME NEW c \in Consumers, C_Process(c) PROVE InTransit'
  BY <1>14, ProcAssumption DEF C_Process, Step, sems, shm, Shape, PcShape,
    InTransit, Procs
<1>15. ASSUME NEW p \in Procs, Kill(p) PROVE InTransit'
  BY <1>15 DEF Kill, sems, shm, InTransit
<1>16. CASE UNCHANGED vars
  BY <1>16 DEF vars, InTransit
<1>17. QED
  BY <1>1, <1>2, <1>3, <1>4, <1>5, <1>6, <1>7, <1>8, <1>9, <1>10, <1>11,
    <1>12, <1>13, <1>14, <1>15, <1>16 DEF Next, Producer, Consumer

\* What has been put in once has been put in for good.
LEMMA PastGrows ==
    ASSUME Shape, [Next]_vars
    PROVE  Past \subseteq Past'
<1>1. ASSUME NEW p \in Producers, P_Empty(p) PROVE Past \subseteq Past'
  BY <1>1, ProcAssumption DEF P_Empty, Step, Past, Shape, PcShape,
    Announcing, Tasks, Procs
<1>2. ASSUME NEW p \in Producers, P_Lock(p) PROVE Past \subseteq Past'
  BY <1>2, ProcAssumption DEF P_Lock, Step, Past, Shape, PcShape, Announcing,
    Tasks, Procs
<1>3. ASSUME NEW p \in Producers, P_Copy(p) PROVE Past \subseteq Past'
  BY <1>3, ProcAssumption DEF P_Copy, Step, Past, Shape, PcShape, Announcing,
    Tasks, Procs
<1>4. ASSUME NEW p \in Producers, P_Tail(p) PROVE Past \subseteq Past'
  BY <1>4, ProcAssumption DEF P_Tail, Step, Past, Shape, PcShape, Announcing,
    Tasks, Procs
<1>5. ASSUME NEW p \in Producers, P_Unlock(p) PROVE Past \subseteq Past'
  BY <1>5, ProcAssumption DEF P_Unlock, Step, Past, Shape, PcShape,
    Announcing, Tasks, Procs
<1>6. ASSUME NEW p \in Producers, P_Full(p) PROVE Past \subseteq Past'
  BY <1>6, ProcAssumption DEF P_Full, Step, Past, Shape, PcShape, Announcing,
    Tasks, Procs
<1>7. ASSUME NEW p \in Producers, P_Exit(p) PROVE Past \subseteq Past'
  BY <1>7, ProcAssumption DEF P_Exit, Step, Past, Shape, PcShape, Announcing,
    Tasks, Procs
<1>8. ASSUME NEW c \in Consumers, C_Full(c) PROVE Past \subseteq Past'
  BY <1>8, ProcAssumption DEF C_Full, Step, Past, Shape, PcShape, Announcing,
    Tasks, Procs
<1>9. ASSUME NEW c \in Consumers, C_Lock(c) PROVE Past \subseteq Past'
  BY <1>9, ProcAssumption DEF C_Lock, Step, Past, Shape, PcShape, Announcing,
    Tasks, Procs
<1>10. ASSUME NEW c \in Consumers, C_Copy(c) PROVE Past \subseteq Past'
  BY <1>10, ProcAssumption DEF C_Copy, Step, Past, Shape, PcShape,
    Announcing, Tasks, Procs
<1>11. ASSUME NEW c \in Consumers, C_Head(c) PROVE Past \subseteq Past'
  BY <1>11, ProcAssumption DEF C_Head, Step, Past, Shape, PcShape,
    Announcing, Tasks, Procs
<1>12. ASSUME NEW c \in Consumers, C_Unlock(c) PROVE Past \subseteq Past'
  BY <1>12, ProcAssumption DEF C_Unlock, Step, Past, Shape, PcShape,
    Announcing, Tasks, Procs
<1>13. ASSUME NEW c \in Consumers, C_Empty(c) PROVE Past \subseteq Past'
  BY <1>13, ProcAssumption DEF C_Empty, Step, Past, Shape, PcShape,
    Announcing, Tasks, Procs
<1>14. ASSUME NEW c \in Consumers, C_Process(c) PROVE Past \subseteq Past'
  BY <1>14, ProcAssumption DEF C_Process, Step, Past, Shape, PcShape,
    Announcing, Tasks, Procs
<1>15. ASSUME NEW p \in Procs, Kill(p) PROVE Past \subseteq Past'
  BY <1>15 DEF Kill, Past
<1>16. CASE UNCHANGED vars
  BY <1>16 DEF vars, Past
<1>17. QED
  BY <1>1, <1>2, <1>3, <1>4, <1>5, <1>6, <1>7, <1>8, <1>9, <1>10, <1>11,
    <1>12, <1>13, <1>14, <1>15, <1>16 DEF Next, Producer, Consumer

\* A producer puts in a task that it has not put in before.
LEMMA PutIsNew ==
    ASSUME Shape, NEW p \in Producers, P_Tail(p)
    PROVE  <<p, i[p]>> \in Tasks /\ <<p, i[p]>> \in Past' /\ <<p, i[p]>> \notin Past
<1>1. <<p, i[p]>> \in Tasks
  BY NextTask DEF P_Tail, Step
<1>2. pc[p] = "p_tail" /\ pc'[p] = "p_unlock" /\ i' = i
  BY DEF P_Tail, Step, Shape, PcShape, Procs
<1>3. QED
  BY <1>1, <1>2 DEF Past, Announcing, Shape

\* The slots of the ring hold tasks that have been put in, or nothing.
LEMMA RingType ==
    ASSUME Shape
    PROVE  IsRing(buffer, K, Tasks \cup {NoTask})
BY KAssumption DEF IsRing, Shape

\* What each kind of step does to the tasks that wait.
LEMMA QueueAfterPut ==
    ASSUME IInv, NEW p \in Producers, P_Tail(p), Length' = Length + 1
    PROVE  /\ Queue' = Append(Queue, <<p, i[p]>>)
           /\ Indices' /\ Length < K
<1>1. /\ Shape /\ Indices /\ pc[p] = "p_tail" /\ tail' = (tail + 1) % K
      /\ buffer' = buffer /\ head' = head
  BY DEF IInv, P_Tail, Step
<1>2. Length < K /\ Length \in Nat /\ IsSegment(K, head, Length)
  BY <1>1, RoomLeft, LengthType DEF IInv, Reserving
<1>3. buffer[(head + Length) % K] = <<p, i[p]>>
  BY <1>1 DEF IInv, InTransit, Indices
<1>4. Segment(buffer, K, head, Length + 1)
        = Append(Segment(buffer, K, head, Length), <<p, i[p]>>)
  <2>1. IsRing(buffer, K, Tasks \cup {NoTask})
    BY <1>1, RingType
  <2>2. Segment(buffer, K, head, Length + 1)
          = Append(Segment(buffer, K, head, Length), buffer[(head + Length) % K])
    BY <1>2, <2>1, SegmentGrows
  <2>3. QED
    BY <1>3, <2>2
<1>5. (((head + Length) % K) + 1) % K = (head + (Length + 1)) % K
  <2>1. head \in 0 .. K - 1 /\ Length \in 0 .. K - 1
    BY <1>1, <1>2, KAssumption DEF Shape
  <2>2. QED
    BY <2>1, KAssumption, IndexShift
<1>6. Indices'
  BY <1>1, <1>5 DEF Indices
<1>7. QED
  BY <1>1, <1>2, <1>4, <1>6 DEF Queue

\* A consumer that moves head on takes the first of the waiting tasks.
LEMMA QueueAfterGet ==
    ASSUME IInv, NEW c \in Consumers, C_Head(c), Length' = Length - 1
    PROVE  /\ Queue # << >> /\ Queue' = Tail(Queue) /\ task_str[c] = Head(Queue)
           /\ Indices'
<1>1. /\ Shape /\ Indices /\ pc[c] = "c_head" /\ head' = (head + 1) % K
      /\ buffer' = buffer /\ tail' = tail
  BY DEF IInv, C_Head, Step
<1>2. Length > 0 /\ Length \in Nat /\ IsSegment(K, head, Length) /\ Length <= K
  BY <1>1, TaskLeft, LengthType DEF IInv, Claiming
<1>3. task_str[c] = buffer[head]
  BY <1>1 DEF IInv, InTransit
<1>4. /\ Queue # << >> /\ Head(Queue) = buffer[head]
      /\ Segment(buffer, K, (head + 1) % K, Length - 1) = Tail(Queue)
  BY <1>1, <1>2, RingType, SegmentShrinks DEF Queue
<1>5. (((head + 1) % K) + (Length - 1)) % K = (head + Length) % K
  <2>1. PICK n \in 0 .. K - 1 : n = Length - 1
    BY <1>2, KAssumption
  <2>2. n + 1 = Length
    BY <1>2, <2>1
  <2>3. (((head + 1) % K) + n) % K = (head + (n + 1)) % K
    BY <1>1, KAssumption, IndexShift DEF Shape
  <2>4. QED
    BY <2>1, <2>2, <2>3
<1>6. Indices'
  BY <1>1, <1>5 DEF Indices
<1>7. QED
  BY <1>1, <1>3, <1>4, <1>6 DEF Queue

\* A step that moves neither end of the ring leaves the waiting tasks alone.
LEMMA QueueOtherwise ==
    ASSUME IInv, Length' = Length, UNCHANGED <<head, tail>>,
           UNCHANGED buffer \/ \E p \in Producers : P_Copy(p)
    PROVE  Queue' = Queue /\ Indices'
<1>1. Shape /\ Indices /\ Length \in Nat /\ IsSegment(K, head, Length)
  BY LengthType DEF IInv
<1>2. Indices'
  BY <1>1 DEF Indices
<1>3. CASE UNCHANGED buffer
  BY <1>2, <1>3 DEF Queue
<1>4. ASSUME NEW p \in Producers, P_Copy(p) PROVE Queue' = Queue
  <2>1. /\ buffer' = [buffer EXCEPT ![tail] = <<p, i[p]>>]
        /\ pc[p] = "p_copy"
    BY <1>4 DEF P_Copy, Step
  <2>2. Length < K
    BY <1>1, <2>1, RoomLeft DEF IInv, Reserving
  <2>3. IsRing(buffer, K, Tasks \cup {NoTask})
    BY <1>1, RingType
  <2>4. SameExcept(buffer, buffer', 0 .. K - 1, (head + Length) % K)
    BY <1>1, <2>1 DEF SameExcept, Indices, Shape
  <2>5. Segment(buffer', K, head, Length) = Segment(buffer, K, head, Length)
    BY <1>1, <2>2, <2>3, <2>4, SegmentKept
  <2>6. QED
    BY <2>5 DEF Queue
<1>5. QED
  BY <1>2, <1>3, <1>4

\* The three cases of RingStep, in terms of the tasks that wait.
LEMMA QueueStep ==
    ASSUME IInv, [Next]_vars
    PROVE  /\ Indices'
           /\ \/ Queue' = Queue /\ Delivered' = Delivered
              \/ \E p \in Producers :
                    /\ P_Tail(p) /\ Length < K
                    /\ Queue' = Append(Queue, <<p, i[p]>>) /\ Delivered' = Delivered
              \/ /\ Queue # << >> /\ Queue' = Tail(Queue)
                 /\ Delivered' = Delivered \cup {Head(Queue)}
BY CountsStep, QueueAfterPut, QueueAfterGet, QueueOtherwise DEF RingStep, IInv

\* Every step keeps to tasks that have been put in.
LEMMA OnlyPastStep ==
    ASSUME IInv, [Next]_vars
    PROVE  OnlyPast'
<1>1. Shape /\ Past \subseteq Past' /\ Queue \in Seq(Past) /\ Delivered \subseteq Past
  BY PastGrows DEF IInv, OnlyPast
<1>2. Queue \in Seq(Past')
  BY <1>1, SeqInLarger
<1>3. CASE Queue' = Queue /\ Delivered' = Delivered
  BY <1>1, <1>2, <1>3 DEF OnlyPast
<1>4. ASSUME NEW p \in Producers, P_Tail(p),
             Queue' = Append(Queue, <<p, i[p]>>), Delivered' = Delivered
      PROVE  OnlyPast'
  <2>1. <<p, i[p]>> \in Past'
    BY <1>1, <1>4, PutIsNew
  <2>2. Append(Queue, <<p, i[p]>>) \in Seq(Past')
    BY <1>2, <2>1, AppendProperties
  <2>3. QED
    BY <1>1, <1>4, <2>2 DEF OnlyPast
<1>5. CASE /\ Queue # << >> /\ Queue' = Tail(Queue)
           /\ Delivered' = Delivered \cup {Head(Queue)}
  <2>1. Tail(Queue) \in Seq(Past') /\ Head(Queue) \in Past'
    BY <1>2, <1>5, HeadTailProperties
  <2>2. QED
    BY <1>1, <1>5, <2>1 DEF OnlyPast
<1>6. QED
  BY <1>3, <1>4, <1>5, QueueStep

\* The initial state satisfies the inductive invariant.
LEMMA InitHolds == Init => IInv
<1> SUFFICES ASSUME Init PROVE IInv
  OBVIOUS
<1>1. Shape
  <2>1. PcShape
    BY ProcAssumption DEF Init, PcShape, Procs, P_Labels, C_Labels
  <2>2. QED
    BY <2>1, KAssumption, NAssumption DEF Init, Shape
<1>2. /\ Num(Critical) = 0 /\ Num(Reserving) = 0 /\ Num(Announcing) = 0
      /\ Num(Claiming) = 0 /\ Num(Freeing) = 0
  <2>1. \A p \in Procs : pc[p] \in {"p_empty", "c_full"}
    BY DEF Init
  <2>2. ASSUME NEW S, S \cap {"p_empty", "c_full"} = {}
        PROVE  Num(S) = 0
    <3>1. \A p \in Procs : pc[p] \notin S
      BY <2>1, <2>2
    <3>2. QED
      BY <3>1, NoneThere DEF Num
  <2>3. QED
    BY <2>2 DEF Critical, Reserving, Announcing, Claiming, Freeing
<1>3. Length = 0
  BY <1>2, LengthSum DEF Init
<1>4. MutexCounts /\ SlotCounts
  BY <1>2, <1>3, KAssumption DEF Init, MutexCounts, SlotCounts
<1>5. Indices
  <2>1. 0 = (0 + 0) % K
    BY KAssumption, IndexAfter
  <2>2. QED
    BY <1>3, <2>1 DEF Init, Indices
<1>6. InTransit
  BY ProcAssumption DEF Init, InTransit, Procs
<1>7. Queue = << >>
  BY <1>1, <1>3, RingType, SegmentEmpty DEF Queue, Shape
<1>8. Delivered = {}
  BY ProcAssumption DEF Init, Delivered, Procs
<1>9. OnlyPast
  BY <1>7, <1>8, EmptySeq DEF OnlyPast
<1>10. QED
  BY <1>1, <1>4, <1>5, <1>6, <1>9 DEF IInv

\* IInv holds in every reachable state.
THEOREM IInvHolds == Spec => []IInv
<1>1. IInv /\ [Next]_vars => IInv'
  BY ShapeStep, CountsStep, InTransitStep, QueueStep, OnlyPastStep DEF IInv
<1>2. QED
  BY InitHolds, <1>1, PTL DEF Spec

\* RingConsistent of BoundedBuffer.tla: the semaphores of producer.c and
\* consumer.c stay within 0..K and keep head, tail and the tasks in between
\* together.
THEOREM RingConsistentHolds == Spec => []RingConsistent
<1>1. ASSUME IInv PROVE RingConsistent
  <2>1. Shape /\ MutexCounts /\ SlotCounts /\ Indices /\ OnlyPast
    BY <1>1 DEF IInv
  <2>2. mutex \in {0, 1}
    BY <2>1, NumsType DEF Shape, MutexCounts
  <2>3. empty \in 0 .. K /\ full \in 0 .. K
    BY <2>1, LengthSum, LengthType, NumsType, KAssumption, SMTT(30) DEF Shape, SlotCounts
  <2>4. printed \subseteq Tasks
    BY <2>1 DEF OnlyPast, Delivered, Past
  <2>5. TypeOK
    BY <2>1, <2>2, <2>3, <2>4 DEF TypeOK, Shape
  <2>6. QED
    BY <2>1, <2>5 DEF RingConsistent, SlotCounts, Indices, Reserving, Freeing
<1>2. QED
  BY IInvHolds, <1>1, PTL

\* ImplementsTaskQueue of BoundedBuffer.tla: seen from outside, the ring, the
\* semaphores and all the steps in between are an atomic FIFO queue of K tasks.
THEOREM TaskQueueImplemented == Spec => ImplementsTaskQueue
<1>1. Init => TQ!Init
  <2> SUFFICES ASSUME Init PROVE TQ!Init
    OBVIOUS
  <2>1. Shape /\ Length = 0
    <3>1. Shape
      BY InitHolds DEF IInv
    <3>2. Length = 0
      <4>1. \A p \in Procs : pc[p] \notin Announcing /\ pc[p] \notin Claiming
        BY DEF Init, Announcing, Claiming
      <4>2. Num(Announcing) = 0 /\ Num(Claiming) = 0
        BY <4>1, NoneThere DEF Num
      <4>3. QED
        BY <4>2, LengthSum DEF Init
    <3>3. QED
      BY <3>1, <3>2
  <2>2. Segment(buffer, K, head, Length) = << >>
    BY <2>1, RingType, SegmentEmpty DEF Shape
  <2>3. Delivered = {}
    BY ProcAssumption DEF Init, Delivered, Procs
  <2>4. QED
    BY <2>2, <2>3 DEF TQ!Init
<1>2. IInv /\ [Next]_vars => [TQ!Next]_(TQ!vars)
  <2> SUFFICES ASSUME IInv, [Next]_vars PROVE [TQ!Next]_(TQ!vars)
    OBVIOUS
  <2>1. Shape /\ Queue \in Seq(Past) /\ Delivered \subseteq Past /\ Len(Queue) = Length
    BY RingType, LengthType, SegmentType DEF IInv, OnlyPast, Queue
  <2>2. CASE Queue' = Queue /\ Delivered' = Delivered
    BY <2>2 DEF TQ!vars, Queue
  <2>3. ASSUME NEW p \in Producers, P_Tail(p), Length < K,
               Queue' = Append(Queue, <<p, i[p]>>), Delivered' = Delivered
        PROVE  TQ!Next
    <3>1. <<p, i[p]>> \in Tasks /\ <<p, i[p]>> \notin Past
      BY <2>1, <2>3, PutIsNew
    <3>2. \A j \in DOMAIN Queue : Queue[j] \in Past
      BY <2>1, ElementOfSeq, LenProperties
    <3>3. <<p, i[p]>> \notin TQ!Elements(<< >>) \cup TQ!Elements(Queue) \cup Delivered
      BY <2>1, <3>1, <3>2, EmptySeq DEF TQ!Elements
    <3>4. Len(<< >>) + Len(Queue) < K
      BY <2>1, <2>3, LengthType, EmptySeq DEF IInv
    <3>5. TQ!Put(<<p, i[p]>>)
      BY <2>3, <3>3, <3>4 DEF TQ!Put, Queue
    <3>6. QED
      BY <3>1, <3>5 DEF TQ!Next
  <2>4. CASE /\ Queue # << >> /\ Queue' = Tail(Queue)
             /\ Delivered' = Delivered \cup {Head(Queue)}
    BY <2>4 DEF TQ!Next, TQ!Get, Queue
  <2>5. QED
    BY <2>2, <2>3, <2>4, QueueStep
<1>3. QED
  BY <1>1, <1>2, IInvHolds, PTL DEF Spec, ImplementsTaskQueue, TQ!Spec
=============================================================================
