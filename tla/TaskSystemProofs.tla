-------------------------- MODULE TaskSystemProofs --------------------------
(***************************************************************************)
(* Safety of TaskSystem, and that it implements TaskQueue, for every       *)
(* capacity, every number of tasks and all finite sets of producers,       *)
(* consumers and managers, any of which may be killed at any statement.    *)
(*                                                                         *)
(* The inductive invariant is IInv.  Its heart is Accounting: the          *)
(* semaphores agree with the counters once every process in the middle of  *)
(* an operation is counted.  It makes the ranges of TypeOK inductive and   *)
(* is why a consumer's else branch finds a task.  RingInv adds the two     *)
(* rings: Indices says that head, tail and count agree up to the statement *)
(* their one writer has reached, InTransit what a process in the middle of *)
(* an operation carries.  From it, every step of the program is a step of  *)
(* TaskQueue or a stutter.                                                 *)
(***************************************************************************)
EXTENDS TaskSystem, BufferLemmas

\* Every process is at a statement of its own program.
PcShape ==
    /\ pc \in [Procs -> P_Labels \cup C_Labels \cup M_Labels]
    /\ \A p \in Producers : pc[p] \in P_Labels
    /\ \A c \in Consumers : pc[c] \in C_Labels
    /\ \A m \in Managers : pc[m] \in M_Labels

\* The domains of the variables, without the bounds on the counters.
Shape ==
    /\ mutex \in Nat /\ empty \in Nat /\ full \in Nat
    /\ slot \in [Class -> [0 .. K - 1 -> Tasks \cup {NoTask}]]
    /\ head \in [Class -> 0 .. K - 1] /\ tail \in [Class -> 0 .. K - 1]
    /\ count \in [Class -> Int]
    /\ PcShape
    /\ i \in [Producers -> 0 .. N] /\ cls \in [Producers -> Class]
    /\ \A p \in Producers : pc[p] \notin {"p_create", "p_done"} => i[p] < N
    /\ task_str \in [Consumers \cup Managers -> Tasks \cup {NoTask}]
    /\ src \in [Consumers -> Class]
    /\ printed \subseteq Tasks \cup {NoTask}
    /\ dead \subseteq Killable

\* mutex is 1 when no process is in its critical section, 0 when one is.
MutexCounts == mutex + Num(Critical) = 1

\* A process that has decided to remove a task has one to remove.
Removable ==
    /\ \A q \in Class : count[q] >= 0
    /\ \A c \in Consumers : pc[c] \in {"c_head", "c_count"} => count[src[c]] > 0
    /\ \A m \in Managers : pc[m] \in {"m_head", "m_count"} => count["normal"] > 0

IInv == Shape /\ MutexCounts /\ Accounting /\ Removable

\* There are finitely many processes.
LEMMA ProcsFinite == IsFiniteSet(Procs)
BY ProcAssumption, FS_Union DEF Procs

\* The processes at some statements can be counted.
LEMMA NumType ==
    ASSUME NEW S
    PROVE  Num(S) \in Nat
BY ProcsFinite, NumberType DEF Num

\* What one step of a live process does to the number of processes at S.
LEMMA StepNum ==
    ASSUME pc \in [Procs -> P_Labels \cup C_Labels \cup M_Labels],
           NEW p \in Procs, NEW from, NEW to, Step(p, from, to), NEW S
    PROVE  Num(S)' = Num(S) + One(to, S) - One(from, S)
<1>1. pc[p] = from /\ pc'[p] = to /\ SameExcept(pc, pc', Procs, p)
  BY DEF Step, SameExcept
<1>2. NumAt(pc', Procs, S) = NumAt(pc, Procs, S) + One(pc'[p], S) - One(pc[p], S)
  BY <1>1, ProcsFinite, NumberAfterMove
<1>3. QED
  BY <1>1, <1>2 DEF Num

\* What a step between two labels does to the numbers of the invariant.
Counted(from, to) ==
    /\ Num(Critical)' = Num(Critical) + One(to, Critical) - One(from, Critical)
    /\ Num(Reserving)' = Num(Reserving) + One(to, Reserving) - One(from, Reserving)
    /\ Num(Announcing)' = Num(Announcing) + One(to, Announcing) - One(from, Announcing)
    /\ Num(Claiming)' = Num(Claiming) + One(to, Claiming) - One(from, Claiming)
    /\ Num(Freeing)' = Num(Freeing) + One(to, Freeing) - One(from, Freeing)
    /\ Num(Moving)' = Num(Moving) + One(to, Moving) - One(from, Moving)

\* A step of one process changes such a number by one at most.
LEMMA StepNums ==
    ASSUME Shape, NEW p \in Procs, NEW from, NEW to, Step(p, from, to)
    PROVE  Counted(from, to)
<1>1. pc \in [Procs -> P_Labels \cup C_Labels \cup M_Labels]
  BY DEF Shape, PcShape
<1>2. ASSUME NEW S PROVE Num(S)' = Num(S) + One(to, S) - One(from, S)
  BY <1>1, StepNum
<1>3. QED
  BY <1>2 DEF Counted

\* The counts of processes in the middle of an operation are numbers.
LEMMA NumsType ==
    /\ Num(Critical) \in Nat /\ Num(Reserving) \in Nat /\ Num(Announcing) \in Nat
    /\ Num(Claiming) \in Nat /\ Num(Freeing) \in Nat /\ Num(Moving) \in Nat
BY NumType

\* Two processes in their critical sections are the same process.
LEMMA OneInCritical ==
    ASSUME Shape, MutexCounts
    PROVE  MutualExclusion
<1>1. Num(Critical) <= 1
  BY NumType DEF Shape, MutexCounts
<1>2. QED
  BY <1>1, ProcsFinite, AtMostOne DEF MutualExclusion, Num

\* A consumer that has locked the mutex finds a task in one of the rings.
LEMMA TaskFound ==
    ASSUME IInv, NEW c \in Consumers, pc[c] = "c_copy"
    PROVE  count[QueueSource] > 0
<1>1. c \in Procs
  BY DEF Procs
<1>2. Num(Claiming) >= 1
  BY <1>1, ProcsFinite, AtLeastOne DEF Num, Claiming
<1>3. Num(Moving) = 0
  <2>1. \A p \in Procs : pc[p] \notin Moving
    BY <1>1, OneInCritical DEF IInv, MutualExclusion, Critical, Moving
  <2>2. QED
    BY <2>1, NoneThere DEF Num
<1>4. total >= 1
  BY <1>2, <1>3, NumType DEF IInv, Shape, Accounting, total, Class
<1>5. QED
  BY <1>4 DEF IInv, Shape, Removable, QueueSource, total, Class

\* A step within one program keeps every process in its own program.
LEMMA PcStep ==
    ASSUME Shape, NEW p \in Procs, NEW from, NEW to, Step(p, from, to),
           \/ p \in Producers /\ to \in P_Labels
           \/ p \in Consumers /\ to \in C_Labels
           \/ p \in Managers /\ to \in M_Labels
    PROVE  PcShape'
BY ProcAssumption DEF Shape, PcShape, Step, Procs

\* Every step keeps the domains of the variables.
LEMMA ShapeStep ==
    ASSUME Shape, [Next]_vars
    PROVE  Shape'
<1> DEFINE Goal == Shape'
<1>1. ASSUME NEW p \in Producers, P_Create(p) PROVE Goal
  <2>1. PcShape'
    BY <1>1, PcStep DEF P_Create, P_Labels, Procs
  <2>2. QED
    BY <1>1, <2>1, KAssumption, NAssumption DEF P_Create, Step, sems, shm,
      locals, Shape, Class
<1>2. ASSUME NEW p \in Producers, P_Empty(p) PROVE Goal
  <2>1. PcShape'
    BY <1>2, PcStep DEF P_Empty, P_Labels, Procs
  <2>2. QED
    BY <1>2, <2>1, KAssumption, NAssumption DEF P_Empty, Step, EmptyWait,
      sems, shm, locals, Shape
<1>3. ASSUME NEW p \in Producers, P_Lock(p) PROVE Goal
  <2>1. PcShape'
    BY <1>3, PcStep DEF P_Lock, P_Labels, Procs
  <2>2. QED
    BY <1>3, <2>1, KAssumption, NAssumption DEF P_Lock, Step, MutexWait, sems,
      shm, locals, Shape
<1>4. ASSUME NEW p \in Producers, P_Copy(p) PROVE Goal
  <2>1. PcShape'
    BY <1>4, PcStep DEF P_Copy, P_Labels, Procs
  <2>2. i[p] \in 0 .. N - 1
    <3>1. pc[p] = "p_copy"
      BY <1>4 DEF P_Copy, Step
    <3>2. i[p] < N /\ i[p] \in 0 .. N
      BY <3>1 DEF Shape
    <3>3. QED
      BY <3>2, NAssumption
  <2>3. <<p, i[p]>> \in Tasks /\ cls[p] \in Class
    BY <2>2 DEF Tasks, Shape
  <2>4. slot' \in [Class -> [0 .. K - 1 -> Tasks \cup {NoTask}]]
    BY <1>4, <2>3 DEF P_Copy, CopyIn, Shape
  <2>5. QED
    BY <1>4, <2>1, <2>4 DEF P_Copy, Step, CopyIn, sems, locals, Shape
<1>5. ASSUME NEW p \in Producers, P_Tail(p) PROVE Goal
  <2>1. PcShape'
    BY <1>5, PcStep DEF P_Tail, P_Labels, Procs
  <2>2. QED
    BY <1>5, <2>1, KAssumption, NAssumption, SMTT(30) DEF P_Tail, Step, AdvanceTail,
      sems, shm, locals, Shape, Class
<1>6. ASSUME NEW p \in Producers, P_Count(p) PROVE Goal
  <2>1. PcShape'
    BY <1>6, PcStep DEF P_Count, P_Labels, Procs
  <2>2. QED
    BY <1>6, <2>1, KAssumption, NAssumption DEF P_Count, Step, Incr, sems,
      shm, locals, Shape, Class
<1>7. ASSUME NEW p \in Producers, P_Unlock(p) PROVE Goal
  <2>1. PcShape'
    BY <1>7, PcStep DEF P_Unlock, P_Labels, Procs
  <2>2. QED
    BY <1>7, <2>1, KAssumption, NAssumption DEF P_Unlock, Step, MutexPost,
      sems, shm, locals, Shape
<1>8. ASSUME NEW p \in Producers, P_Full(p) PROVE Goal
  <2>1. PcShape'
    BY <1>8, PcStep DEF P_Full, P_Labels, Procs
  <2>2. i[p] \in 0 .. N - 1
    <3>1. pc[p] = "p_full"
      BY <1>8 DEF P_Full, Step
    <3>2. i[p] < N /\ i[p] \in 0 .. N
      BY <3>1 DEF Shape
    <3>3. QED
      BY <3>2, NAssumption
  <2>3. i' \in [Producers -> 0 .. N]
    BY <1>8, <2>2, NAssumption DEF P_Full, Shape
  <2>4. QED
    BY <1>8, <2>1, <2>3 DEF P_Full, Step, FullPost, shm, Shape, PcShape
<1>9. ASSUME NEW p \in Producers, P_Exit(p) PROVE Goal
  <2>1. PcShape'
    BY <1>9, PcStep DEF P_Exit, P_Labels, Procs
  <2>2. QED
    BY <1>9, <2>1, KAssumption, NAssumption DEF P_Exit, Step, sems, shm,
      locals, Shape
<1>10. ASSUME NEW p \in Producers, P_Relaunch(p) PROVE Goal
  <2>1. PcShape'
    BY <1>10, PcStep DEF P_Relaunch, P_Labels, Procs
  <2>2. QED
    BY <1>10, <2>1, KAssumption, NAssumption DEF P_Relaunch, Step, sems, shm,
      locals, Shape
<1>11. ASSUME NEW c \in Consumers, C_Full(c) PROVE Goal
  <2>1. PcShape'
    BY <1>11, PcStep DEF C_Full, C_Labels, Procs
  <2>2. QED
    BY <1>11, <2>1, KAssumption, NAssumption DEF C_Full, Step, FullWait, sems,
      shm, locals, Shape
<1>12. ASSUME NEW c \in Consumers, C_Lock(c) PROVE Goal
  <2>1. PcShape'
    BY <1>12, PcStep DEF C_Lock, C_Labels, Procs
  <2>2. QED
    BY <1>12, <2>1, KAssumption, NAssumption DEF C_Lock, Step, MutexWait,
      sems, shm, locals, Shape
<1>13. ASSUME NEW c \in Consumers, C_Copy(c) PROVE Goal
  <2>1. PcShape'
    BY <1>13, PcStep DEF C_Copy, C_Labels, Procs
  <2>2. QED
    BY <1>13, <2>1, KAssumption, NAssumption DEF C_Copy, Step, sems, shm,
      locals, Shape, Class, QueueSource
<1>14. ASSUME NEW c \in Consumers, C_Head(c) PROVE Goal
  <2>1. PcShape'
    BY <1>14, PcStep DEF C_Head, C_Labels, Procs
  <2>2. QED
    BY <1>14, <2>1, KAssumption, NAssumption, SMTT(30) DEF C_Head, Step, AdvanceHead,
      sems, shm, locals, Shape, Class
<1>15. ASSUME NEW c \in Consumers, C_Count(c) PROVE Goal
  <2>1. PcShape'
    BY <1>15, PcStep DEF C_Count, C_Labels, Procs
  <2>2. QED
    BY <1>15, <2>1, KAssumption, NAssumption DEF C_Count, Step, Decr, sems,
      shm, locals, Shape, Class
<1>16. ASSUME NEW c \in Consumers, C_Unlock(c) PROVE Goal
  <2>1. PcShape'
    BY <1>16, PcStep DEF C_Unlock, C_Labels, Procs
  <2>2. QED
    BY <1>16, <2>1, KAssumption, NAssumption DEF C_Unlock, Step, MutexPost,
      sems, shm, locals, Shape
<1>17. ASSUME NEW c \in Consumers, C_Empty(c) PROVE Goal
  <2>1. PcShape'
    BY <1>17, PcStep DEF C_Empty, C_Labels, Procs
  <2>2. QED
    BY <1>17, <2>1, KAssumption, NAssumption DEF C_Empty, Step, EmptyPost,
      sems, shm, locals, Shape
<1>18. ASSUME NEW c \in Consumers, C_Process(c) PROVE Goal
  <2>1. PcShape'
    BY <1>18, PcStep DEF C_Process, C_Labels, Procs
  <2>2. QED
    BY <1>18, <2>1, KAssumption, NAssumption DEF C_Process, Step, sems, shm,
      locals, Shape, Class
<1>19. ASSUME NEW m \in Managers, M_Lock(m) PROVE Goal
  <2>1. PcShape'
    BY <1>19, PcStep DEF M_Lock, M_Labels, Procs
  <2>2. QED
    BY <1>19, <2>1, KAssumption, NAssumption DEF M_Lock, Step, MutexWait,
      sems, shm, locals, Shape
<1>20. ASSUME NEW m \in Managers, M_Age(m) PROVE Goal
  <2>1. PcShape'
    BY <1>20, PcStep DEF M_Age, M_Labels, Procs
  <2>2. QED
    BY <1>20, <2>1, KAssumption, NAssumption DEF M_Age, Step, CanAge, sems,
      shm, locals, Shape, Class
<1>21. ASSUME NEW m \in Managers, M_NoAge(m) PROVE Goal
  <2>1. PcShape'
    BY <1>21, PcStep DEF M_NoAge, M_Labels, Procs
  <2>2. QED
    BY <1>21, <2>1, KAssumption, NAssumption DEF M_NoAge, Step, sems, shm,
      locals, Shape
<1>22. ASSUME NEW m \in Managers, M_Head(m) PROVE Goal
  <2>1. PcShape'
    BY <1>22, PcStep DEF M_Head, M_Labels, Procs
  <2>2. QED
    BY <1>22, <2>1, KAssumption, NAssumption DEF M_Head, Step, AdvanceHead,
      sems, shm, locals, Shape, Class
<1>23. ASSUME NEW m \in Managers, M_Count(m) PROVE Goal
  <2>1. PcShape'
    BY <1>23, PcStep DEF M_Count, M_Labels, Procs
  <2>2. QED
    BY <1>23, <2>1, KAssumption, NAssumption DEF M_Count, Step, Decr, sems,
      shm, locals, Shape, Class
<1>24. ASSUME NEW m \in Managers, M_Copy(m) PROVE Goal
  <2>1. PcShape'
    BY <1>24, PcStep DEF M_Copy, M_Labels, Procs
  <2>2. QED
    BY <1>24, <2>1, KAssumption, NAssumption DEF M_Copy, Step, CopyIn, sems,
      shm, locals, Shape, Class
<1>25. ASSUME NEW m \in Managers, M_Tail(m) PROVE Goal
  <2>1. PcShape'
    BY <1>25, PcStep DEF M_Tail, M_Labels, Procs
  <2>2. QED
    BY <1>25, <2>1, KAssumption, NAssumption DEF M_Tail, Step, AdvanceTail,
      sems, shm, locals, Shape, Class
<1>26. ASSUME NEW m \in Managers, M_Incr(m) PROVE Goal
  <2>1. PcShape'
    BY <1>26, PcStep DEF M_Incr, M_Labels, Procs
  <2>2. QED
    BY <1>26, <2>1, KAssumption, NAssumption DEF M_Incr, Step, Incr, sems,
      shm, locals, Shape, Class
<1>27. ASSUME NEW m \in Managers, M_Monitor(m) PROVE Goal
  <2>1. PcShape'
    BY <1>27, PcStep DEF M_Monitor, M_Labels, Procs
  <2>2. QED
    BY <1>27, <2>1, KAssumption, NAssumption DEF M_Monitor, Step, sems, shm,
      locals, Shape
<1>28. ASSUME NEW m \in Managers, M_Unlock(m) PROVE Goal
  <2>1. PcShape'
    BY <1>28, PcStep DEF M_Unlock, M_Labels, Procs
  <2>2. QED
    BY <1>28, <2>1, KAssumption, NAssumption DEF M_Unlock, Step, MutexPost,
      sems, shm, locals, Shape
<1>29. ASSUME NEW p \in Procs, Kill(p) PROVE Goal
  BY <1>29 DEF Kill, sems, shm, locals, Shape, PcShape, Procs
<1>30. CASE UNCHANGED vars
  BY <1>30 DEF vars, Shape, PcShape
<1>31. QED
  BY <1>1, <1>2, <1>3, <1>4, <1>5, <1>6, <1>7, <1>8, <1>9, <1>10, <1>11,
     <1>12, <1>13, <1>14, <1>15, <1>16, <1>17, <1>18, <1>19, <1>20, <1>21,
     <1>22, <1>23, <1>24, <1>25, <1>26, <1>27, <1>28, <1>29, <1>30
     DEF Next, Producer, Consumer, Manager

\* Every step keeps the agreement of the semaphores with the counters.
LEMMA CountsStep ==
    ASSUME Shape, MutexCounts, Accounting, [Next]_vars
    PROVE  MutexCounts' /\ Accounting'
<1> DEFINE Goal == MutexCounts' /\ Accounting'
<1>1. ASSUME NEW p \in Producers, P_Create(p) PROVE Goal
  <2>1. p \in Procs /\ Step(p, "p_create", "p_empty")
    BY <1>1 DEF P_Create, Procs
  <2>2. Counted("p_create", "p_empty")
    BY <2>1, StepNums
  <2>3. /\ Num(Critical)' = Num(Critical) /\ Num(Reserving)' = Num(Reserving)
        /\ Num(Announcing)' = Num(Announcing) /\ Num(Claiming)' = Num(Claiming)
        /\ Num(Freeing)' = Num(Freeing) /\ Num(Moving)' = Num(Moving)
    BY <2>2, NumsType DEF Counted, One, Critical, Reserving, Announcing,
      Claiming, Freeing, Moving
  <2>4. QED
    BY <1>1, <2>3, NumsType DEF P_Create, MutexCounts, Accounting, total,
      Shape, Class, sems, shm, locals
<1>2. ASSUME NEW p \in Producers, P_Empty(p) PROVE Goal
  <2>1. p \in Procs /\ Step(p, "p_empty", "p_lock")
    BY <1>2 DEF P_Empty, Procs
  <2>2. Counted("p_empty", "p_lock")
    BY <2>1, StepNums
  <2>3. /\ Num(Critical)' = Num(Critical) /\ Num(Reserving)' = Num(Reserving) + 1
        /\ Num(Announcing)' = Num(Announcing) /\ Num(Claiming)' = Num(Claiming)
        /\ Num(Freeing)' = Num(Freeing) /\ Num(Moving)' = Num(Moving)
    BY <2>2, NumsType DEF Counted, One, Critical, Reserving, Announcing,
      Claiming, Freeing, Moving
  <2>4. QED
    BY <1>2, <2>3, NumsType DEF P_Empty, EmptyWait, MutexCounts, Accounting,
      total, Shape, Class, sems, shm, locals
<1>3. ASSUME NEW p \in Producers, P_Lock(p) PROVE Goal
  <2>1. p \in Procs /\ Step(p, "p_lock", "p_copy")
    BY <1>3 DEF P_Lock, Procs
  <2>2. Counted("p_lock", "p_copy")
    BY <2>1, StepNums
  <2>3. /\ Num(Critical)' = Num(Critical) + 1 /\ Num(Reserving)' = Num(Reserving)
        /\ Num(Announcing)' = Num(Announcing) /\ Num(Claiming)' = Num(Claiming)
        /\ Num(Freeing)' = Num(Freeing) /\ Num(Moving)' = Num(Moving)
    BY <2>2, NumsType DEF Counted, One, Critical, Reserving, Announcing,
      Claiming, Freeing, Moving
  <2>4. QED
    BY <1>3, <2>3, NumsType DEF P_Lock, MutexWait, MutexCounts, Accounting,
      total, Shape, Class, sems, shm, locals
<1>4. ASSUME NEW p \in Producers, P_Copy(p) PROVE Goal
  <2>1. p \in Procs /\ Step(p, "p_copy", "p_tail")
    BY <1>4 DEF P_Copy, Procs
  <2>2. Counted("p_copy", "p_tail")
    BY <2>1, StepNums
  <2>3. /\ Num(Critical)' = Num(Critical) /\ Num(Reserving)' = Num(Reserving)
        /\ Num(Announcing)' = Num(Announcing) /\ Num(Claiming)' = Num(Claiming)
        /\ Num(Freeing)' = Num(Freeing) /\ Num(Moving)' = Num(Moving)
    BY <2>2, NumsType DEF Counted, One, Critical, Reserving, Announcing,
      Claiming, Freeing, Moving
  <2>4. QED
    BY <1>4, <2>3, NumsType DEF P_Copy, CopyIn, MutexCounts, Accounting,
      total, Shape, Class, sems, shm, locals
<1>5. ASSUME NEW p \in Producers, P_Tail(p) PROVE Goal
  <2>1. p \in Procs /\ Step(p, "p_tail", "p_count")
    BY <1>5 DEF P_Tail, Procs
  <2>2. Counted("p_tail", "p_count")
    BY <2>1, StepNums
  <2>3. /\ Num(Critical)' = Num(Critical) /\ Num(Reserving)' = Num(Reserving)
        /\ Num(Announcing)' = Num(Announcing) /\ Num(Claiming)' = Num(Claiming)
        /\ Num(Freeing)' = Num(Freeing) /\ Num(Moving)' = Num(Moving)
    BY <2>2, NumsType DEF Counted, One, Critical, Reserving, Announcing,
      Claiming, Freeing, Moving
  <2>4. QED
    BY <1>5, <2>3, NumsType DEF P_Tail, AdvanceTail, MutexCounts, Accounting,
      total, Shape, Class, sems, shm, locals
<1>6. ASSUME NEW p \in Producers, P_Count(p) PROVE Goal
  <2>1. p \in Procs /\ Step(p, "p_count", "p_unlock")
    BY <1>6 DEF P_Count, Procs
  <2>2. Counted("p_count", "p_unlock")
    BY <2>1, StepNums
  <2>3. /\ Num(Critical)' = Num(Critical) /\ Num(Reserving)' = Num(Reserving) - 1
        /\ Num(Announcing)' = Num(Announcing) + 1 /\ Num(Claiming)' = Num(Claiming)
        /\ Num(Freeing)' = Num(Freeing) /\ Num(Moving)' = Num(Moving)
    BY <2>2, NumsType DEF Counted, One, Critical, Reserving, Announcing,
      Claiming, Freeing, Moving
  <2>4. cls[p] \in Class /\ count \in [Class -> Int]
    BY <1>6 DEF Shape, Class
  <2>5. total' = total + 1 /\ total \in Int
    BY <1>6, <2>4 DEF P_Count, Incr, total, Class
  <2>6. QED
    <3>1. mutex' = mutex /\ empty' = empty /\ full' = full
      BY <1>6 DEF P_Count, sems
    <3>2. mutex \in Nat /\ empty \in Nat /\ full \in Nat
      BY DEF Shape
    <3>3. MutexCounts'
      BY <3>1, <3>2, <2>3, NumsType DEF MutexCounts
    <3>4. Accounting'
      BY <3>1, <3>2, <2>3, <2>5, NumsType, KAssumption DEF Accounting
    <3>5. QED
      BY <3>3, <3>4
<1>7. ASSUME NEW p \in Producers, P_Unlock(p) PROVE Goal
  <2>1. p \in Procs /\ Step(p, "p_unlock", "p_full")
    BY <1>7 DEF P_Unlock, Procs
  <2>2. Counted("p_unlock", "p_full")
    BY <2>1, StepNums
  <2>3. /\ Num(Critical)' = Num(Critical) - 1 /\ Num(Reserving)' = Num(Reserving)
        /\ Num(Announcing)' = Num(Announcing) /\ Num(Claiming)' = Num(Claiming)
        /\ Num(Freeing)' = Num(Freeing) /\ Num(Moving)' = Num(Moving)
    BY <2>2, NumsType DEF Counted, One, Critical, Reserving, Announcing,
      Claiming, Freeing, Moving
  <2>4. QED
    BY <1>7, <2>3, NumsType DEF P_Unlock, MutexPost, MutexCounts, Accounting,
      total, Shape, Class, sems, shm, locals
<1>8. ASSUME NEW p \in Producers, P_Full(p) PROVE Goal
  <2>1. p \in Procs /\ Step(p, "p_full", "p_create")
    BY <1>8 DEF P_Full, Procs
  <2>2. Counted("p_full", "p_create")
    BY <2>1, StepNums
  <2>3. /\ Num(Critical)' = Num(Critical) /\ Num(Reserving)' = Num(Reserving)
        /\ Num(Announcing)' = Num(Announcing) - 1 /\ Num(Claiming)' = Num(Claiming)
        /\ Num(Freeing)' = Num(Freeing) /\ Num(Moving)' = Num(Moving)
    BY <2>2, NumsType DEF Counted, One, Critical, Reserving, Announcing,
      Claiming, Freeing, Moving
  <2>4. QED
    BY <1>8, <2>3, NumsType DEF P_Full, FullPost, MutexCounts, Accounting,
      total, Shape, Class, sems, shm, locals
<1>9. ASSUME NEW p \in Producers, P_Exit(p) PROVE Goal
  <2>1. p \in Procs /\ Step(p, "p_create", "p_done")
    BY <1>9 DEF P_Exit, Procs
  <2>2. Counted("p_create", "p_done")
    BY <2>1, StepNums
  <2>3. /\ Num(Critical)' = Num(Critical) /\ Num(Reserving)' = Num(Reserving)
        /\ Num(Announcing)' = Num(Announcing) /\ Num(Claiming)' = Num(Claiming)
        /\ Num(Freeing)' = Num(Freeing) /\ Num(Moving)' = Num(Moving)
    BY <2>2, NumsType DEF Counted, One, Critical, Reserving, Announcing,
      Claiming, Freeing, Moving
  <2>4. QED
    BY <1>9, <2>3, NumsType DEF P_Exit, MutexCounts, Accounting, total, Shape,
      Class, sems, shm, locals
<1>10. ASSUME NEW p \in Producers, P_Relaunch(p) PROVE Goal
  <2>1. p \in Procs /\ Step(p, "p_done", "p_create")
    BY <1>10 DEF P_Relaunch, Procs
  <2>2. Counted("p_done", "p_create")
    BY <2>1, StepNums
  <2>3. /\ Num(Critical)' = Num(Critical) /\ Num(Reserving)' = Num(Reserving)
        /\ Num(Announcing)' = Num(Announcing) /\ Num(Claiming)' = Num(Claiming)
        /\ Num(Freeing)' = Num(Freeing) /\ Num(Moving)' = Num(Moving)
    BY <2>2, NumsType DEF Counted, One, Critical, Reserving, Announcing,
      Claiming, Freeing, Moving
  <2>4. QED
    BY <1>10, <2>3, NumsType DEF P_Relaunch, MutexCounts, Accounting, total,
      Shape, Class, sems, shm, locals
<1>11. ASSUME NEW c \in Consumers, C_Full(c) PROVE Goal
  <2>1. c \in Procs /\ Step(c, "c_full", "c_lock")
    BY <1>11 DEF C_Full, Procs
  <2>2. Counted("c_full", "c_lock")
    BY <2>1, StepNums
  <2>3. /\ Num(Critical)' = Num(Critical) /\ Num(Reserving)' = Num(Reserving)
        /\ Num(Announcing)' = Num(Announcing) /\ Num(Claiming)' = Num(Claiming) + 1
        /\ Num(Freeing)' = Num(Freeing) /\ Num(Moving)' = Num(Moving)
    BY <2>2, NumsType DEF Counted, One, Critical, Reserving, Announcing,
      Claiming, Freeing, Moving
  <2>4. QED
    BY <1>11, <2>3, NumsType DEF C_Full, FullWait, MutexCounts, Accounting,
      total, Shape, Class, sems, shm, locals
<1>12. ASSUME NEW c \in Consumers, C_Lock(c) PROVE Goal
  <2>1. c \in Procs /\ Step(c, "c_lock", "c_copy")
    BY <1>12 DEF C_Lock, Procs
  <2>2. Counted("c_lock", "c_copy")
    BY <2>1, StepNums
  <2>3. /\ Num(Critical)' = Num(Critical) + 1 /\ Num(Reserving)' = Num(Reserving)
        /\ Num(Announcing)' = Num(Announcing) /\ Num(Claiming)' = Num(Claiming)
        /\ Num(Freeing)' = Num(Freeing) /\ Num(Moving)' = Num(Moving)
    BY <2>2, NumsType DEF Counted, One, Critical, Reserving, Announcing,
      Claiming, Freeing, Moving
  <2>4. QED
    BY <1>12, <2>3, NumsType DEF C_Lock, MutexWait, MutexCounts, Accounting,
      total, Shape, Class, sems, shm, locals
<1>13. ASSUME NEW c \in Consumers, C_Copy(c) PROVE Goal
  <2>1. c \in Procs /\ Step(c, "c_copy", "c_head")
    BY <1>13 DEF C_Copy, Procs
  <2>2. Counted("c_copy", "c_head")
    BY <2>1, StepNums
  <2>3. /\ Num(Critical)' = Num(Critical) /\ Num(Reserving)' = Num(Reserving)
        /\ Num(Announcing)' = Num(Announcing) /\ Num(Claiming)' = Num(Claiming)
        /\ Num(Freeing)' = Num(Freeing) /\ Num(Moving)' = Num(Moving)
    BY <2>2, NumsType DEF Counted, One, Critical, Reserving, Announcing,
      Claiming, Freeing, Moving
  <2>4. QED
    BY <1>13, <2>3, NumsType DEF C_Copy, MutexCounts, Accounting, total,
      Shape, Class, sems, shm, locals
<1>14. ASSUME NEW c \in Consumers, C_Head(c) PROVE Goal
  <2>1. c \in Procs /\ Step(c, "c_head", "c_count")
    BY <1>14 DEF C_Head, Procs
  <2>2. Counted("c_head", "c_count")
    BY <2>1, StepNums
  <2>3. /\ Num(Critical)' = Num(Critical) /\ Num(Reserving)' = Num(Reserving)
        /\ Num(Announcing)' = Num(Announcing) /\ Num(Claiming)' = Num(Claiming)
        /\ Num(Freeing)' = Num(Freeing) /\ Num(Moving)' = Num(Moving)
    BY <2>2, NumsType DEF Counted, One, Critical, Reserving, Announcing,
      Claiming, Freeing, Moving
  <2>4. QED
    BY <1>14, <2>3, NumsType DEF C_Head, AdvanceHead, MutexCounts, Accounting,
      total, Shape, Class, sems, shm, locals
<1>15. ASSUME NEW c \in Consumers, C_Count(c) PROVE Goal
  <2>1. c \in Procs /\ Step(c, "c_count", "c_unlock")
    BY <1>15 DEF C_Count, Procs
  <2>2. Counted("c_count", "c_unlock")
    BY <2>1, StepNums
  <2>3. /\ Num(Critical)' = Num(Critical) /\ Num(Reserving)' = Num(Reserving)
        /\ Num(Announcing)' = Num(Announcing) /\ Num(Claiming)' = Num(Claiming) - 1
        /\ Num(Freeing)' = Num(Freeing) + 1 /\ Num(Moving)' = Num(Moving)
    BY <2>2, NumsType DEF Counted, One, Critical, Reserving, Announcing,
      Claiming, Freeing, Moving
  <2>4. src[c] \in Class /\ count \in [Class -> Int]
    BY <1>15 DEF Shape, Class
  <2>5. total' = total - 1 /\ total \in Int
    BY <1>15, <2>4 DEF C_Count, Decr, total, Class
  <2>6. QED
    <3>1. mutex' = mutex /\ empty' = empty /\ full' = full
      BY <1>15 DEF C_Count, sems
    <3>2. mutex \in Nat /\ empty \in Nat /\ full \in Nat
      BY DEF Shape
    <3>3. MutexCounts'
      BY <3>1, <3>2, <2>3, NumsType DEF MutexCounts
    <3>4. Accounting'
      BY <3>1, <3>2, <2>3, <2>5, NumsType, KAssumption DEF Accounting
    <3>5. QED
      BY <3>3, <3>4
<1>16. ASSUME NEW c \in Consumers, C_Unlock(c) PROVE Goal
  <2>1. c \in Procs /\ Step(c, "c_unlock", "c_empty")
    BY <1>16 DEF C_Unlock, Procs
  <2>2. Counted("c_unlock", "c_empty")
    BY <2>1, StepNums
  <2>3. /\ Num(Critical)' = Num(Critical) - 1 /\ Num(Reserving)' = Num(Reserving)
        /\ Num(Announcing)' = Num(Announcing) /\ Num(Claiming)' = Num(Claiming)
        /\ Num(Freeing)' = Num(Freeing) /\ Num(Moving)' = Num(Moving)
    BY <2>2, NumsType DEF Counted, One, Critical, Reserving, Announcing,
      Claiming, Freeing, Moving
  <2>4. QED
    BY <1>16, <2>3, NumsType, SMTT(30) DEF C_Unlock, MutexPost, MutexCounts, Accounting,
      total, Shape, Class, sems, shm, locals
<1>17. ASSUME NEW c \in Consumers, C_Empty(c) PROVE Goal
  <2>1. c \in Procs /\ Step(c, "c_empty", "c_process")
    BY <1>17 DEF C_Empty, Procs
  <2>2. Counted("c_empty", "c_process")
    BY <2>1, StepNums
  <2>3. /\ Num(Critical)' = Num(Critical) /\ Num(Reserving)' = Num(Reserving)
        /\ Num(Announcing)' = Num(Announcing) /\ Num(Claiming)' = Num(Claiming)
        /\ Num(Freeing)' = Num(Freeing) - 1 /\ Num(Moving)' = Num(Moving)
    BY <2>2, NumsType DEF Counted, One, Critical, Reserving, Announcing,
      Claiming, Freeing, Moving
  <2>4. QED
    BY <1>17, <2>3, NumsType, SMTT(30) DEF C_Empty, EmptyPost, MutexCounts, Accounting,
      total, Shape, Class, sems, shm, locals
<1>18. ASSUME NEW c \in Consumers, C_Process(c) PROVE Goal
  <2>1. c \in Procs /\ Step(c, "c_process", "c_full")
    BY <1>18 DEF C_Process, Procs
  <2>2. Counted("c_process", "c_full")
    BY <2>1, StepNums
  <2>3. /\ Num(Critical)' = Num(Critical) /\ Num(Reserving)' = Num(Reserving)
        /\ Num(Announcing)' = Num(Announcing) /\ Num(Claiming)' = Num(Claiming)
        /\ Num(Freeing)' = Num(Freeing) /\ Num(Moving)' = Num(Moving)
    BY <2>2, NumsType DEF Counted, One, Critical, Reserving, Announcing,
      Claiming, Freeing, Moving
  <2>4. QED
    BY <1>18, <2>3, NumsType DEF C_Process, MutexCounts, Accounting, total,
      Shape, Class, sems, shm, locals
<1>19. ASSUME NEW m \in Managers, M_Lock(m) PROVE Goal
  <2>1. m \in Procs /\ Step(m, "m_lock", "m_test")
    BY <1>19 DEF M_Lock, Procs
  <2>2. Counted("m_lock", "m_test")
    BY <2>1, StepNums
  <2>3. /\ Num(Critical)' = Num(Critical) + 1 /\ Num(Reserving)' = Num(Reserving)
        /\ Num(Announcing)' = Num(Announcing) /\ Num(Claiming)' = Num(Claiming)
        /\ Num(Freeing)' = Num(Freeing) /\ Num(Moving)' = Num(Moving)
    BY <2>2, NumsType DEF Counted, One, Critical, Reserving, Announcing,
      Claiming, Freeing, Moving
  <2>4. QED
    BY <1>19, <2>3, NumsType DEF M_Lock, MutexWait, MutexCounts, Accounting,
      total, Shape, Class, sems, shm, locals
<1>20. ASSUME NEW m \in Managers, M_Age(m) PROVE Goal
  <2>1. m \in Procs /\ Step(m, "m_test", "m_head")
    BY <1>20 DEF M_Age, Procs
  <2>2. Counted("m_test", "m_head")
    BY <2>1, StepNums
  <2>3. /\ Num(Critical)' = Num(Critical) /\ Num(Reserving)' = Num(Reserving)
        /\ Num(Announcing)' = Num(Announcing) /\ Num(Claiming)' = Num(Claiming)
        /\ Num(Freeing)' = Num(Freeing) /\ Num(Moving)' = Num(Moving)
    BY <2>2, NumsType DEF Counted, One, Critical, Reserving, Announcing,
      Claiming, Freeing, Moving
  <2>4. QED
    BY <1>20, <2>3, NumsType DEF M_Age, CanAge, MutexCounts, Accounting,
      total, Shape, Class, sems, shm, locals
<1>21. ASSUME NEW m \in Managers, M_NoAge(m) PROVE Goal
  <2>1. m \in Procs /\ Step(m, "m_test", "m_monitor")
    BY <1>21 DEF M_NoAge, Procs
  <2>2. Counted("m_test", "m_monitor")
    BY <2>1, StepNums
  <2>3. /\ Num(Critical)' = Num(Critical) /\ Num(Reserving)' = Num(Reserving)
        /\ Num(Announcing)' = Num(Announcing) /\ Num(Claiming)' = Num(Claiming)
        /\ Num(Freeing)' = Num(Freeing) /\ Num(Moving)' = Num(Moving)
    BY <2>2, NumsType DEF Counted, One, Critical, Reserving, Announcing,
      Claiming, Freeing, Moving
  <2>4. QED
    BY <1>21, <2>3, NumsType DEF M_NoAge, MutexCounts, Accounting, total,
      Shape, Class, sems, shm, locals
<1>22. ASSUME NEW m \in Managers, M_Head(m) PROVE Goal
  <2>1. m \in Procs /\ Step(m, "m_head", "m_count")
    BY <1>22 DEF M_Head, Procs
  <2>2. Counted("m_head", "m_count")
    BY <2>1, StepNums
  <2>3. /\ Num(Critical)' = Num(Critical) /\ Num(Reserving)' = Num(Reserving)
        /\ Num(Announcing)' = Num(Announcing) /\ Num(Claiming)' = Num(Claiming)
        /\ Num(Freeing)' = Num(Freeing) /\ Num(Moving)' = Num(Moving)
    BY <2>2, NumsType DEF Counted, One, Critical, Reserving, Announcing,
      Claiming, Freeing, Moving
  <2>4. QED
    BY <1>22, <2>3, NumsType DEF M_Head, AdvanceHead, MutexCounts, Accounting,
      total, Shape, Class, sems, shm, locals
<1>23. ASSUME NEW m \in Managers, M_Count(m) PROVE Goal
  <2>1. m \in Procs /\ Step(m, "m_count", "m_copy")
    BY <1>23 DEF M_Count, Procs
  <2>2. Counted("m_count", "m_copy")
    BY <2>1, StepNums
  <2>3. /\ Num(Critical)' = Num(Critical) /\ Num(Reserving)' = Num(Reserving)
        /\ Num(Announcing)' = Num(Announcing) /\ Num(Claiming)' = Num(Claiming)
        /\ Num(Freeing)' = Num(Freeing) /\ Num(Moving)' = Num(Moving) + 1
    BY <2>2, NumsType DEF Counted, One, Critical, Reserving, Announcing,
      Claiming, Freeing, Moving
  <2>4. "normal" \in Class /\ count \in [Class -> Int]
    BY <1>23 DEF Shape, Class
  <2>5. total' = total - 1 /\ total \in Int
    BY <1>23, <2>4 DEF M_Count, Decr, total, Class
  <2>6. QED
    <3>1. mutex' = mutex /\ empty' = empty /\ full' = full
      BY <1>23 DEF M_Count, sems
    <3>2. mutex \in Nat /\ empty \in Nat /\ full \in Nat
      BY DEF Shape
    <3>3. MutexCounts'
      BY <3>1, <3>2, <2>3, NumsType DEF MutexCounts
    <3>4. Accounting'
      BY <3>1, <3>2, <2>3, <2>5, NumsType, KAssumption DEF Accounting
    <3>5. QED
      BY <3>3, <3>4
<1>24. ASSUME NEW m \in Managers, M_Copy(m) PROVE Goal
  <2>1. m \in Procs /\ Step(m, "m_copy", "m_tail")
    BY <1>24 DEF M_Copy, Procs
  <2>2. Counted("m_copy", "m_tail")
    BY <2>1, StepNums
  <2>3. /\ Num(Critical)' = Num(Critical) /\ Num(Reserving)' = Num(Reserving)
        /\ Num(Announcing)' = Num(Announcing) /\ Num(Claiming)' = Num(Claiming)
        /\ Num(Freeing)' = Num(Freeing) /\ Num(Moving)' = Num(Moving)
    BY <2>2, NumsType DEF Counted, One, Critical, Reserving, Announcing,
      Claiming, Freeing, Moving
  <2>4. QED
    BY <1>24, <2>3, NumsType DEF M_Copy, CopyIn, MutexCounts, Accounting,
      total, Shape, Class, sems, shm, locals
<1>25. ASSUME NEW m \in Managers, M_Tail(m) PROVE Goal
  <2>1. m \in Procs /\ Step(m, "m_tail", "m_incr")
    BY <1>25 DEF M_Tail, Procs
  <2>2. Counted("m_tail", "m_incr")
    BY <2>1, StepNums
  <2>3. /\ Num(Critical)' = Num(Critical) /\ Num(Reserving)' = Num(Reserving)
        /\ Num(Announcing)' = Num(Announcing) /\ Num(Claiming)' = Num(Claiming)
        /\ Num(Freeing)' = Num(Freeing) /\ Num(Moving)' = Num(Moving)
    BY <2>2, NumsType DEF Counted, One, Critical, Reserving, Announcing,
      Claiming, Freeing, Moving
  <2>4. QED
    BY <1>25, <2>3, NumsType DEF M_Tail, AdvanceTail, MutexCounts, Accounting,
      total, Shape, Class, sems, shm, locals
<1>26. ASSUME NEW m \in Managers, M_Incr(m) PROVE Goal
  <2>1. m \in Procs /\ Step(m, "m_incr", "m_monitor")
    BY <1>26 DEF M_Incr, Procs
  <2>2. Counted("m_incr", "m_monitor")
    BY <2>1, StepNums
  <2>3. /\ Num(Critical)' = Num(Critical) /\ Num(Reserving)' = Num(Reserving)
        /\ Num(Announcing)' = Num(Announcing) /\ Num(Claiming)' = Num(Claiming)
        /\ Num(Freeing)' = Num(Freeing) /\ Num(Moving)' = Num(Moving) - 1
    BY <2>2, NumsType DEF Counted, One, Critical, Reserving, Announcing,
      Claiming, Freeing, Moving
  <2>4. "priority" \in Class /\ count \in [Class -> Int]
    BY <1>26 DEF Shape, Class
  <2>5. total' = total + 1 /\ total \in Int
    BY <1>26, <2>4 DEF M_Incr, Incr, total, Class
  <2>6. QED
    <3>1. mutex' = mutex /\ empty' = empty /\ full' = full
      BY <1>26 DEF M_Incr, sems
    <3>2. mutex \in Nat /\ empty \in Nat /\ full \in Nat
      BY DEF Shape
    <3>3. MutexCounts'
      BY <3>1, <3>2, <2>3, NumsType DEF MutexCounts
    <3>4. Accounting'
      BY <3>1, <3>2, <2>3, <2>5, NumsType, KAssumption DEF Accounting
    <3>5. QED
      BY <3>3, <3>4
<1>27. ASSUME NEW m \in Managers, M_Monitor(m) PROVE Goal
  <2>1. m \in Procs /\ Step(m, "m_monitor", "m_unlock")
    BY <1>27 DEF M_Monitor, Procs
  <2>2. Counted("m_monitor", "m_unlock")
    BY <2>1, StepNums
  <2>3. /\ Num(Critical)' = Num(Critical) /\ Num(Reserving)' = Num(Reserving)
        /\ Num(Announcing)' = Num(Announcing) /\ Num(Claiming)' = Num(Claiming)
        /\ Num(Freeing)' = Num(Freeing) /\ Num(Moving)' = Num(Moving)
    BY <2>2, NumsType DEF Counted, One, Critical, Reserving, Announcing,
      Claiming, Freeing, Moving
  <2>4. QED
    BY <1>27, <2>3, NumsType DEF M_Monitor, MutexCounts, Accounting, total,
      Shape, Class, sems, shm, locals
<1>28. ASSUME NEW m \in Managers, M_Unlock(m) PROVE Goal
  <2>1. m \in Procs /\ Step(m, "m_unlock", "m_lock")
    BY <1>28 DEF M_Unlock, Procs
  <2>2. Counted("m_unlock", "m_lock")
    BY <2>1, StepNums
  <2>3. /\ Num(Critical)' = Num(Critical) - 1 /\ Num(Reserving)' = Num(Reserving)
        /\ Num(Announcing)' = Num(Announcing) /\ Num(Claiming)' = Num(Claiming)
        /\ Num(Freeing)' = Num(Freeing) /\ Num(Moving)' = Num(Moving)
    BY <2>2, NumsType DEF Counted, One, Critical, Reserving, Announcing,
      Claiming, Freeing, Moving
  <2>4. QED
    BY <1>28, <2>3, NumsType DEF M_Unlock, MutexPost, MutexCounts, Accounting,
      total, Shape, Class, sems, shm, locals
<1>29. ASSUME NEW p \in Procs, Kill(p) PROVE Goal
  BY <1>29 DEF Kill, sems, shm, locals, MutexCounts, Accounting, total, Num
<1>30. CASE UNCHANGED vars
  BY <1>30 DEF vars, MutexCounts, Accounting, total, Num
<1>31. QED
  BY <1>1, <1>2, <1>3, <1>4, <1>5, <1>6, <1>7, <1>8, <1>9, <1>10, <1>11,
     <1>12, <1>13, <1>14, <1>15, <1>16, <1>17, <1>18, <1>19, <1>20, <1>21,
     <1>22, <1>23, <1>24, <1>25, <1>26, <1>27, <1>28, <1>29, <1>30
     DEF Next, Producer, Consumer, Manager

\* Every step leaves a task for whoever has decided to remove one.
LEMMA RemovableStep ==
    ASSUME IInv, [Next]_vars
    PROVE  Removable'
<1> DEFINE Goal == Removable'
<1>1. ASSUME NEW p \in Producers, P_Create(p) PROVE Goal
  BY <1>1, ProcAssumption DEF P_Create, Step, sems, shm, locals, IInv, Shape,
    Removable, Class, Procs
<1>2. ASSUME NEW p \in Producers, P_Empty(p) PROVE Goal
  BY <1>2, ProcAssumption DEF P_Empty, Step, EmptyWait, sems, shm, locals,
    IInv, Shape, Removable, Class, Procs
<1>3. ASSUME NEW p \in Producers, P_Lock(p) PROVE Goal
  BY <1>3, ProcAssumption DEF P_Lock, Step, MutexWait, sems, shm, locals,
    IInv, Shape, Removable, Class, Procs
<1>4. ASSUME NEW p \in Producers, P_Copy(p) PROVE Goal
  BY <1>4, ProcAssumption DEF P_Copy, Step, CopyIn, sems, shm, locals, IInv,
    Shape, Removable, Class, Procs
<1>5. ASSUME NEW p \in Producers, P_Tail(p) PROVE Goal
  BY <1>5, ProcAssumption DEF P_Tail, Step, AdvanceTail, sems, shm, locals,
    IInv, Shape, Removable, Class, Procs
<1>6. ASSUME NEW p \in Producers, P_Count(p) PROVE Goal
  BY <1>6, ProcAssumption DEF P_Count, Step, Incr, sems, shm, locals, IInv,
    Shape, Removable, Class, Procs
<1>7. ASSUME NEW p \in Producers, P_Unlock(p) PROVE Goal
  BY <1>7, ProcAssumption DEF P_Unlock, Step, MutexPost, sems, shm, locals,
    IInv, Shape, Removable, Class, Procs
<1>8. ASSUME NEW p \in Producers, P_Full(p) PROVE Goal
  BY <1>8, ProcAssumption DEF P_Full, Step, FullPost, sems, shm, locals, IInv,
    Shape, Removable, Class, Procs
<1>9. ASSUME NEW p \in Producers, P_Exit(p) PROVE Goal
  BY <1>9, ProcAssumption DEF P_Exit, Step, sems, shm, locals, IInv, Shape,
    Removable, Class, Procs
<1>10. ASSUME NEW p \in Producers, P_Relaunch(p) PROVE Goal
  BY <1>10, ProcAssumption DEF P_Relaunch, Step, sems, shm, locals, IInv,
    Shape, Removable, Class, Procs
<1>11. ASSUME NEW c \in Consumers, C_Full(c) PROVE Goal
  BY <1>11, ProcAssumption DEF C_Full, Step, FullWait, sems, shm, locals,
    IInv, Shape, Removable, Class, Procs
<1>12. ASSUME NEW c \in Consumers, C_Lock(c) PROVE Goal
  BY <1>12, ProcAssumption DEF C_Lock, Step, MutexWait, sems, shm, locals,
    IInv, Shape, Removable, Class, Procs
<1>13. ASSUME NEW c \in Consumers, C_Copy(c) PROVE Goal
  <2>1. count[QueueSource] > 0 /\ QueueSource \in Class
    BY <1>13, TaskFound DEF C_Copy, Step, QueueSource, Class
  <2>2. QED
    BY <1>13, <2>1, ProcAssumption DEF C_Copy, Step, sems, shm, locals, IInv,
      Shape, Removable, Class, Procs
<1>14. ASSUME NEW c \in Consumers, C_Head(c) PROVE Goal
  BY <1>14, ProcAssumption DEF C_Head, Step, AdvanceHead, sems, shm, locals,
    IInv, Shape, Removable, Class, Procs
<1>15. ASSUME NEW c \in Consumers, C_Count(c) PROVE Goal
  <2>1. \A q \in Procs : pc[q] \in Critical => q = c
    BY <1>15, OneInCritical DEF IInv, MutualExclusion, Procs, Critical,
      C_Count, Step
  <2>2. QED
    BY <1>15, <2>1, ProcAssumption DEF C_Count, Step, Decr, sems, shm, locals,
      IInv, Shape, Removable, Class, Procs, Critical, PcShape
<1>16. ASSUME NEW c \in Consumers, C_Unlock(c) PROVE Goal
  BY <1>16, ProcAssumption DEF C_Unlock, Step, MutexPost, sems, shm, locals,
    IInv, Shape, Removable, Class, Procs
<1>17. ASSUME NEW c \in Consumers, C_Empty(c) PROVE Goal
  BY <1>17, ProcAssumption DEF C_Empty, Step, EmptyPost, sems, shm, locals,
    IInv, Shape, Removable, Class, Procs
<1>18. ASSUME NEW c \in Consumers, C_Process(c) PROVE Goal
  BY <1>18, ProcAssumption DEF C_Process, Step, sems, shm, locals, IInv,
    Shape, Removable, Class, Procs
<1>19. ASSUME NEW m \in Managers, M_Lock(m) PROVE Goal
  BY <1>19, ProcAssumption DEF M_Lock, Step, MutexWait, sems, shm, locals,
    IInv, Shape, Removable, Class, Procs
<1>20. ASSUME NEW m \in Managers, M_Age(m) PROVE Goal
  BY <1>20, ProcAssumption DEF M_Age, Step, CanAge, sems, shm, locals, IInv,
    Shape, Removable, Class, Procs
<1>21. ASSUME NEW m \in Managers, M_NoAge(m) PROVE Goal
  BY <1>21, ProcAssumption DEF M_NoAge, Step, sems, shm, locals, IInv, Shape,
    Removable, Class, Procs
<1>22. ASSUME NEW m \in Managers, M_Head(m) PROVE Goal
  BY <1>22, ProcAssumption DEF M_Head, Step, AdvanceHead, sems, shm, locals,
    IInv, Shape, Removable, Class, Procs
<1>23. ASSUME NEW m \in Managers, M_Count(m) PROVE Goal
  <2>1. \A q \in Procs : pc[q] \in Critical => q = m
    BY <1>23, OneInCritical DEF IInv, MutualExclusion, Procs, Critical,
      M_Count, Step
  <2>2. QED
    BY <1>23, <2>1, ProcAssumption DEF M_Count, Step, Decr, sems, shm, locals,
      IInv, Shape, Removable, Class, Procs, Critical, PcShape
<1>24. ASSUME NEW m \in Managers, M_Copy(m) PROVE Goal
  BY <1>24, ProcAssumption DEF M_Copy, Step, CopyIn, sems, shm, locals, IInv,
    Shape, Removable, Class, Procs
<1>25. ASSUME NEW m \in Managers, M_Tail(m) PROVE Goal
  BY <1>25, ProcAssumption DEF M_Tail, Step, AdvanceTail, sems, shm, locals,
    IInv, Shape, Removable, Class, Procs
<1>26. ASSUME NEW m \in Managers, M_Incr(m) PROVE Goal
  BY <1>26, ProcAssumption DEF M_Incr, Step, Incr, sems, shm, locals, IInv,
    Shape, Removable, Class, Procs
<1>27. ASSUME NEW m \in Managers, M_Monitor(m) PROVE Goal
  BY <1>27, ProcAssumption DEF M_Monitor, Step, sems, shm, locals, IInv,
    Shape, Removable, Class, Procs
<1>28. ASSUME NEW m \in Managers, M_Unlock(m) PROVE Goal
  BY <1>28, ProcAssumption DEF M_Unlock, Step, MutexPost, sems, shm, locals,
    IInv, Shape, Removable, Class, Procs
<1>29. ASSUME NEW p \in Procs, Kill(p) PROVE Goal
  BY <1>29 DEF Kill, sems, shm, locals, IInv, Removable
<1>30. CASE UNCHANGED vars
  BY <1>30 DEF vars, IInv, Removable
<1>31. QED
  BY <1>1, <1>2, <1>3, <1>4, <1>5, <1>6, <1>7, <1>8, <1>9, <1>10, <1>11,
     <1>12, <1>13, <1>14, <1>15, <1>16, <1>17, <1>18, <1>19, <1>20, <1>21,
     <1>22, <1>23, <1>24, <1>25, <1>26, <1>27, <1>28, <1>29, <1>30
     DEF Next, Producer, Consumer, Manager

\* The inductive invariant bounds the semaphores and the counters.
LEMMA TypeFollows ==
    ASSUME IInv
    PROVE  TypeOK
<1>1. Shape /\ MutexCounts /\ Accounting /\ Removable
  BY DEF IInv
<1>2. mutex \in {0, 1}
  BY <1>1, NumsType DEF Shape, MutexCounts
<1>3. count["priority"] \in Nat /\ count["normal"] \in Nat
  BY <1>1 DEF Shape, Removable, Class
<1>4. /\ empty \in 0 .. K /\ full \in 0 .. K
      /\ count["priority"] \in 0 .. K /\ count["normal"] \in 0 .. K
  <2>1. empty \in Nat /\ full \in Nat
    BY <1>1 DEF Shape
  <2>2. /\ total + Num(Moving) = full + Num(Claiming) + Num(Announcing)
        /\ empty + Num(Reserving) + Num(Freeing) + total + Num(Moving) = K
    BY <1>1 DEF Accounting
  <2>3. total = count["priority"] + count["normal"] /\ total \in Nat
    BY <1>3 DEF total
  <2>4. total + Num(Moving) <= K /\ empty <= K /\ total <= K
    BY <2>1, <2>2, <2>3, NumsType, KAssumption
  <2>5. full <= K
    BY <2>1, <2>2, <2>3, <2>4, NumsType, KAssumption
  <2>6. QED
    BY <1>3, <2>1, <2>3, <2>4, <2>5, KAssumption
<1>5. count \in [Class -> 0 .. K]
  BY <1>1, <1>4 DEF Shape, Class
<1>6. QED
  BY <1>1, <1>2, <1>4, <1>5 DEF TypeOK, Shape, PcShape

\* The initial state satisfies the inductive invariant.
LEMMA InitHolds == Init => IInv
<1> SUFFICES ASSUME Init PROVE IInv
  OBVIOUS
<1>1. Shape
  <2>1. PcShape
    BY ProcAssumption DEF Init, PcShape, Procs, P_Labels, C_Labels, M_Labels
  <2>2. QED
    BY <2>1, KAssumption, NAssumption DEF Init, Shape, Class, Tasks, Procs
<1>2. /\ Num(Critical) = 0 /\ Num(Reserving) = 0 /\ Num(Announcing) = 0
      /\ Num(Claiming) = 0 /\ Num(Freeing) = 0 /\ Num(Moving) = 0
  <2>1. \A p \in Procs : pc[p] \in {"p_create", "c_full", "m_lock"}
    BY DEF Init
  <2>2. ASSUME NEW S, S \cap {"p_create", "c_full", "m_lock"} = {}
        PROVE  Num(S) = 0
    <3>1. \A p \in Procs : pc[p] \notin S
      BY <2>1, <2>2
    <3>2. QED
      BY <3>1, NoneThere DEF Num
  <2>3. QED
    BY <2>2 DEF Critical, Reserving, Announcing, Claiming, Freeing, Moving
<1>3. MutexCounts
  BY <1>2 DEF Init, MutexCounts
<1>4. Accounting
  BY <1>2, KAssumption DEF Init, Accounting, total, Class
<1>5. Removable
  BY ProcAssumption DEF Init, Removable, Procs, Class
<1>6. QED
  BY <1>1, <1>3, <1>4, <1>5 DEF IInv

\* IInv holds in every reachable state.
THEOREM IInvHolds == Spec => []IInv
<1>1. IInv /\ [Next]_vars => IInv'
  BY ShapeStep, CountsStep, RemovableStep DEF IInv
<1>2. QED
  BY InitHolds, <1>1, PTL DEF Spec

\* TypeOK of TaskSystem.tla: in particular the semaphores and the counters of
\* consumer.c, producer.c and manager.c stay within 0..K.
THEOREM TypeCorrect == Spec => []TypeOK
BY IInvHolds, TypeFollows, PTL

\* MutualExclusion of TaskSystem.tla: one process at a time is between
\* sem_wait(mutex) and sem_post(mutex), also when processes are killed there.
THEOREM MutualExclusionHolds == Spec => []MutualExclusion
<1>1. IInv => MutualExclusion
  BY OneInCritical DEF IInv
<1>2. QED
  BY IInvHolds, <1>1, PTL

\* Accounting of TaskSystem.tla: full and empty agree with the two counters.
THEOREM AccountingHolds == Spec => []Accounting
<1>1. IInv => Accounting
  BY DEF IInv
<1>2. QED
  BY IInvHolds, <1>1, PTL

\* ConsumerFindsTask of TaskSystem.tla: consumer.c's "it must be in normal".
THEOREM ConsumerFindsTaskHolds == Spec => []ConsumerFindsTask
<1>1. IInv => ConsumerFindsTask
  BY TaskFound DEF ConsumerFindsTask
<1>2. QED
  BY IInvHolds, <1>1, PTL
-----------------------------------------------------------------------------
(***************************************************************************)
(* The two rings.  Between two assignments of one operation a ring holds   *)
(* a task more or less than its counter says; Held and Pending say by how  *)
(* much, and Indices and InTransit are invariant once they do.             *)
(***************************************************************************)

\* A process has moved the tail of class q and not yet incremented its counter.
Extending(q) == \/ \E p \in Producers : pc[p] = "p_count" /\ cls[p] = q
                \/ q = "priority" /\ \E m \in Managers : pc[m] = "m_incr"

\* The tasks that wait in class q, and the slots taken behind them.
Held(q) == IF Removing(q) THEN count[q] - 1 ELSE count[q]
Pending(q) == IF Extending(q) THEN 1 ELSE 0

\* The tasks that wait begin at head and, but for one on its way in, end
\* before tail.
Indices == \A q \in Class : tail[q] = (head[q] + (Held(q) + Pending(q))) % K

\* The slot of the oldest task of class q, and the one behind its tasks.
Front(q) == slot[q][head[q]]
Behind(q) == slot[q][(head[q] + Held(q)) % K]

\* What a process between its copy and its last assignment to the ring has
\* copied; a consumer's test of the counters stays true until it acts on it.
P_InTransit(p) ==
    pc[p] \in {"p_tail", "p_count"} => Behind(cls[p]) = <<p, i[p]>>
C_InTransit(c) ==
    pc[c] = "c_head" => /\ task_str[c] = Front(src[c])
                        /\ src[c] = "normal" => count["priority"] = 0
M_InTransit(m) ==
    /\ pc[m] = "m_head" => task_str[m] = Front("normal")
    /\ pc[m] \in {"m_tail", "m_incr"} => task_str[m] = Behind("priority")
InTransit ==
    /\ \A p \in Producers : P_InTransit(p)
    /\ \A c \in Consumers : C_InTransit(c)
    /\ \A m \in Managers : M_InTransit(m)

\* A process in its critical section is the only one there.
LEMMA Alone ==
    ASSUME Shape, MutexCounts, NEW p \in Procs, pc[p] \in Critical
    PROVE  \A r \in Procs : r # p => pc[r] \notin Critical
BY OneInCritical DEF MutualExclusion

\* Whether class q is being shortened or extended before and after a step
\* depends on the process that takes it only, when that is in its critical
\* section.
LEMMA AloneStep ==
    ASSUME Shape, MutexCounts, NEW p \in Procs, NEW from, NEW to, Step(p, from, to),
           from \in Critical, UNCHANGED <<cls, src>>, NEW q
    PROVE  /\ Removing(q) <=> \/ p \in Consumers /\ from = "c_count" /\ src[p] = q
                              \/ p \in Managers /\ from = "m_count" /\ q = "normal"
           /\ Removing(q)' <=> \/ p \in Consumers /\ to = "c_count" /\ src[p] = q
                               \/ p \in Managers /\ to = "m_count" /\ q = "normal"
           /\ Extending(q) <=> \/ p \in Producers /\ from = "p_count" /\ cls[p] = q
                               \/ p \in Managers /\ from = "m_incr" /\ q = "priority"
           /\ Extending(q)' <=> \/ p \in Producers /\ to = "p_count" /\ cls[p] = q
                                \/ p \in Managers /\ to = "m_incr" /\ q = "priority"
<1>1. pc[p] = from /\ pc'[p] = to /\ \A r \in Procs : r # p => pc'[r] = pc[r]
  BY DEF Step, Shape, PcShape
<1>2. \A r \in Procs : r # p => pc[r] \notin {"c_count", "m_count", "p_count", "m_incr"}
  BY <1>1, Alone DEF Critical
<1>3. \A r \in Procs : r # p => pc'[r] \notin {"c_count", "m_count", "p_count", "m_incr"}
  BY <1>1, <1>2
<1>4. cls' = cls /\ src' = src
  OBVIOUS
<1>5. Removing(q) <=> \/ p \in Consumers /\ from = "c_count" /\ src[p] = q
                      \/ p \in Managers /\ from = "m_count" /\ q = "normal"
  BY <1>1, <1>2 DEF Removing, Procs
<1>6. Removing(q)' <=> \/ p \in Consumers /\ to = "c_count" /\ src[p] = q
                       \/ p \in Managers /\ to = "m_count" /\ q = "normal"
  BY <1>1, <1>3, <1>4 DEF Removing, Procs
<1>7. Extending(q) <=> \/ p \in Producers /\ from = "p_count" /\ cls[p] = q
                       \/ p \in Managers /\ from = "m_incr" /\ q = "priority"
  BY <1>1, <1>2 DEF Extending, Procs
<1>8. Extending(q)' <=> \/ p \in Producers /\ to = "p_count" /\ cls[p] = q
                        \/ p \in Managers /\ to = "m_incr" /\ q = "priority"
  BY <1>1, <1>3, <1>4 DEF Extending, Procs
<1>9. QED
  BY <1>5, <1>6, <1>7, <1>8

\* The counters of the two classes and the room left in the rings.
LEMMA HeldType ==
    ASSUME IInv, NEW q \in Class
    PROVE  Held(q) \in 0 .. K /\ count[q] \in 0 .. K /\ IsSegment(K, head[q], Held(q))
<1>1. count[q] \in 0 .. K /\ head[q] \in 0 .. K - 1
  BY TypeFollows DEF TypeOK
<1>2. Removing(q) => count[q] > 0
  BY DEF IInv, Removable, Removing
<1>3. Held(q) \in 0 .. K
  BY <1>1, <1>2, KAssumption DEF Held
<1>4. QED
  BY <1>1, <1>3, KAssumption DEF IsSegment

\* A process that has reserved a slot, or taken a task out to append it
\* again, has room for it in either class.
LEMMA RoomLeft ==
    ASSUME IInv, NEW p \in Procs, pc[p] \in Reserving \cup Moving, NEW q \in Class
    PROVE  count[q] < K /\ Held(q) < K
<1>1. Num(Reserving) + Num(Moving) >= 1
  <2>1. CASE pc[p] \in Reserving
    <3>1. Num(Reserving) >= 1
      BY <2>1, ProcsFinite, AtLeastOne DEF Num
    <3>2. QED
      BY <3>1, NumsType
  <2>2. CASE pc[p] \in Moving
    <3>1. Num(Moving) >= 1
      BY <2>2, ProcsFinite, AtLeastOne DEF Num
    <3>2. QED
      BY <3>1, NumsType
  <2>3. QED
    BY <2>1, <2>2
<1>2. /\ count["priority"] \in 0 .. K /\ count["normal"] \in 0 .. K /\ empty \in Nat
      /\ empty + Num(Reserving) + Num(Freeing) + total + Num(Moving) = K
  <2>1. count \in [Class -> 0 .. K] /\ empty \in 0 .. K
    BY TypeFollows DEF TypeOK
  <2>2. count["priority"] \in 0 .. K /\ count["normal"] \in 0 .. K /\ empty \in Nat
    BY <2>1, KAssumption DEF Class
  <2>3. QED
    BY <2>2 DEF IInv, Accounting
<1>3. count["priority"] < K /\ count["normal"] < K
  BY <1>1, <1>2, NumsType, KAssumption DEF total
<1>4. count[q] < K
  BY <1>3 DEF Class
<1>5. count[q] \in 0 .. K
  BY HeldType
<1>6. QED
  BY <1>4, <1>5, KAssumption DEF Held

-----------------------------------------------------------------------------
\* What a step can do to the ring of class q: nothing; a write behind the
\* tasks that wait; the tail moves past it; it becomes one of the tasks that
\* wait; the oldest task leaves.
Same(q) ==
    /\ Held(q)' = Held(q) /\ Pending(q)' = Pending(q)
    /\ head'[q] = head[q] /\ tail'[q] = tail[q] /\ slot'[q] = slot[q]
Copied(q, t) ==
    /\ Held(q)' = Held(q) /\ Pending(q)' = 0 /\ Pending(q) = 0 /\ Held(q) < K
    /\ head'[q] = head[q] /\ tail'[q] = tail[q]
    /\ slot'[q] = [slot[q] EXCEPT ![tail[q]] = t]
Extended(q) ==
    /\ Held(q)' = Held(q) /\ Pending(q)' = 1 /\ Pending(q) = 0 /\ Held(q) < K
    /\ head'[q] = head[q] /\ tail'[q] = (tail[q] + 1) % K /\ slot'[q] = slot[q]
Added(q) ==
    /\ Held(q)' = Held(q) + 1 /\ Pending(q)' = 0 /\ Pending(q) = 1 /\ Held(q) < K
    /\ head'[q] = head[q] /\ tail'[q] = tail[q] /\ slot'[q] = slot[q]
Removed(q) ==
    /\ Held(q)' = Held(q) - 1 /\ Pending(q)' = 0 /\ Pending(q) = 0 /\ Held(q) > 0
    /\ head'[q] = (head[q] + 1) % K /\ tail'[q] = tail[q] /\ slot'[q] = slot[q]

OthersSame(q) == \A r \in Class : r # q => Same(r)

\* A step of a process that is not about to change a ring, nor in the middle
\* of changing one, changes neither.
LEMMA SameStep ==
    ASSUME Shape, NEW p \in Procs, NEW from, NEW to, Step(p, from, to),
           from \notin {"p_count", "c_count", "m_count", "m_incr"},
           to \notin {"p_count", "c_count", "m_count", "m_incr"},
           UNCHANGED shm,
           \A r \in Producers : r # p => cls'[r] = cls[r],
           \A r \in Consumers : r # p => src'[r] = src[r]
    PROVE  \A q \in Class : Same(q)
<1>1. pc[p] = from /\ pc'[p] = to /\ \A r \in Procs : r # p => pc'[r] = pc[r]
  BY DEF Step, Shape, PcShape
<1>2. TAKE q \in Class
<1>3. Removing(q)' <=> Removing(q)
  BY <1>1 DEF Removing, Procs
<1>4. Extending(q)' <=> Extending(q)
  BY <1>1 DEF Extending, Procs
<1>5. QED
  BY <1>3, <1>4 DEF Same, Held, Pending, shm

\* The copy of a task behind the ones that wait in its ring.
LEMMA P_CopyRing ==
    ASSUME IInv, NEW p \in Producers, P_Copy(p)
    PROVE  Copied(cls[p], <<p, i[p]>>) /\ OthersSame(cls[p])
<1>1. /\ p \in Procs /\ Step(p, "p_copy", "p_tail") /\ pc[p] = "p_copy"
      /\ "p_copy" \in Critical /\ UNCHANGED <<cls, src>>
  BY DEF P_Copy, Step, locals, Procs, Critical
<1>2. ASSUME NEW q \in Class
      PROVE  /\ ~Removing(q) /\ ~Removing(q)'
             /\ ~Extending(q) /\ ~Extending(q)'
  BY <1>1, AloneStep, ProcAssumption DEF IInv, Procs
<1>3. ASSUME NEW q \in Class
      PROVE  /\ Held(q) = count[q] /\ Pending(q) = 0
             /\ Held(q)' = count'[q] /\ Pending(q)' = 0
  BY <1>2 DEF Held, Pending
<1>4. cls[p] \in Class /\ count[cls[p]] < K
  BY <1>1, RoomLeft DEF IInv, Shape, Reserving, Moving, Class
<1>5. /\ slot' = [slot EXCEPT ![cls[p]][tail[cls[p]]] = <<p, i[p]>>]
      /\ head' = head
      /\ tail' = tail
      /\ count' = count
  BY DEF P_Copy, CopyIn, IInv, Shape
<1>6. QED
  BY <1>1, <1>3, <1>4, <1>5 DEF Copied, OthersSame, Same, IInv, Shape, Class

\* The move of the tail past the copied task.
LEMMA P_TailRing ==
    ASSUME IInv, NEW p \in Producers, P_Tail(p)
    PROVE  Extended(cls[p]) /\ OthersSame(cls[p])
<1>1. /\ p \in Procs /\ Step(p, "p_tail", "p_count") /\ pc[p] = "p_tail"
      /\ "p_tail" \in Critical /\ UNCHANGED <<cls, src>>
  BY DEF P_Tail, Step, locals, Procs, Critical
<1>2. ASSUME NEW q \in Class
      PROVE  /\ ~Removing(q) /\ ~Removing(q)'
             /\ ~Extending(q) /\ (Extending(q)' <=> cls[p] = q)
  BY <1>1, AloneStep, ProcAssumption DEF IInv, Procs
<1>3. ASSUME NEW q \in Class
      PROVE  /\ Held(q) = count[q] /\ Pending(q) = 0
             /\ Held(q)' = count'[q] /\ Pending(q)' = (IF cls[p] = q THEN 1 ELSE 0)
  BY <1>2 DEF Held, Pending
<1>4. cls[p] \in Class /\ count[cls[p]] < K
  BY <1>1, RoomLeft DEF IInv, Shape, Reserving, Moving, Class
<1>5. /\ tail' = [tail EXCEPT ![cls[p]] = (@ + 1) % K]
      /\ slot' = slot
      /\ head' = head
      /\ count' = count
  BY DEF P_Tail, AdvanceTail, IInv, Shape
<1>6. QED
  BY <1>1, <1>3, <1>4, <1>5 DEF Extended, OthersSame, Same, IInv, Shape, Class

\* The increment of the counter, which puts the task in.
LEMMA P_CountRing ==
    ASSUME IInv, NEW p \in Producers, P_Count(p)
    PROVE  Added(cls[p]) /\ OthersSame(cls[p])
<1>1. /\ p \in Procs /\ Step(p, "p_count", "p_unlock") /\ pc[p] = "p_count"
      /\ "p_count" \in Critical /\ UNCHANGED <<cls, src>>
  BY DEF P_Count, Step, locals, Procs, Critical
<1>2. ASSUME NEW q \in Class
      PROVE  /\ ~Removing(q) /\ ~Removing(q)'
             /\ (Extending(q) <=> cls[p] = q) /\ ~Extending(q)'
  BY <1>1, AloneStep, ProcAssumption DEF IInv, Procs
<1>3. ASSUME NEW q \in Class
      PROVE  /\ Held(q) = count[q] /\ Pending(q) = (IF cls[p] = q THEN 1 ELSE 0)
             /\ Held(q)' = count'[q] /\ Pending(q)' = 0
  BY <1>2 DEF Held, Pending
<1>4. cls[p] \in Class /\ count[cls[p]] < K
  BY <1>1, RoomLeft DEF IInv, Shape, Reserving, Moving, Class
<1>5. /\ count' = [count EXCEPT ![cls[p]] = @ + 1]
      /\ slot' = slot
      /\ head' = head
      /\ tail' = tail
  BY DEF P_Count, Incr, IInv, Shape
<1>6. QED
  BY <1>1, <1>3, <1>4, <1>5 DEF Added, OthersSame, Same, IInv, Shape, Class

\* The move of the head past the oldest task, which takes it out.
LEMMA C_HeadRing ==
    ASSUME IInv, NEW c \in Consumers, C_Head(c)
    PROVE  Removed(src[c]) /\ OthersSame(src[c])
<1>1. /\ c \in Procs /\ Step(c, "c_head", "c_count") /\ pc[c] = "c_head"
      /\ "c_head" \in Critical /\ UNCHANGED <<cls, src>>
  BY DEF C_Head, Step, locals, Procs, Critical
<1>2. ASSUME NEW q \in Class
      PROVE  /\ ~Removing(q) /\ (Removing(q)' <=> src[c] = q)
             /\ ~Extending(q) /\ ~Extending(q)'
  BY <1>1, AloneStep, ProcAssumption DEF IInv, Procs
<1>3. ASSUME NEW q \in Class
      PROVE  /\ Held(q) = count[q] /\ Pending(q) = 0
             /\ Held(q)' = (IF src[c] = q THEN count'[q] - 1 ELSE count'[q]) /\ Pending(q)' = 0
  BY <1>2 DEF Held, Pending
<1>4. src[c] \in Class /\ count[src[c]] > 0
  BY <1>1 DEF IInv, Shape, Removable, Class
<1>5. /\ head' = [head EXCEPT ![src[c]] = (@ + 1) % K]
      /\ slot' = slot
      /\ tail' = tail
      /\ count' = count
  BY DEF C_Head, AdvanceHead, IInv, Shape
<1>6. QED
  BY <1>1, <1>3, <1>4, <1>5 DEF Removed, OthersSame, Same, IInv, Shape, Class

\* The decrement of the counter, which follows the head.
LEMMA C_CountRing ==
    ASSUME IInv, NEW c \in Consumers, C_Count(c)
    PROVE  \A q \in Class : Same(q)
<1>1. /\ c \in Procs /\ Step(c, "c_count", "c_unlock") /\ pc[c] = "c_count"
      /\ "c_count" \in Critical /\ UNCHANGED <<cls, src>>
  BY DEF C_Count, Step, locals, Procs, Critical
<1>2. ASSUME NEW q \in Class
      PROVE  /\ (Removing(q) <=> src[c] = q) /\ ~Removing(q)'
             /\ ~Extending(q) /\ ~Extending(q)'
  BY <1>1, AloneStep, ProcAssumption DEF IInv, Procs
<1>3. ASSUME NEW q \in Class
      PROVE  /\ Held(q) = (IF src[c] = q THEN count[q] - 1 ELSE count[q]) /\ Pending(q) = 0
             /\ Held(q)' = count'[q] /\ Pending(q)' = 0
  BY <1>2 DEF Held, Pending
<1>4. src[c] \in Class /\ count[src[c]] > 0
  BY <1>1 DEF IInv, Shape, Removable, Class
<1>5. /\ count' = [count EXCEPT ![src[c]] = @ - 1]
      /\ slot' = slot
      /\ head' = head
      /\ tail' = tail
  BY DEF C_Count, Decr, IInv, Shape
<1>6. QED
  BY <1>1, <1>3, <1>4, <1>5 DEF Same, OthersSame, Same, IInv, Shape, Class

\* The move of the head past the oldest task, which takes it out.
LEMMA M_HeadRing ==
    ASSUME IInv, NEW m \in Managers, M_Head(m)
    PROVE  Removed("normal") /\ OthersSame("normal")
<1>1. /\ m \in Procs /\ Step(m, "m_head", "m_count") /\ pc[m] = "m_head"
      /\ "m_head" \in Critical /\ UNCHANGED <<cls, src>>
  BY DEF M_Head, Step, locals, Procs, Critical
<1>2. ASSUME NEW q \in Class
      PROVE  /\ ~Removing(q) /\ (Removing(q)' <=> q = "normal")
             /\ ~Extending(q) /\ ~Extending(q)'
  BY <1>1, AloneStep, ProcAssumption DEF IInv, Procs
<1>3. ASSUME NEW q \in Class
      PROVE  /\ Held(q) = count[q] /\ Pending(q) = 0
             /\ Held(q)' = (IF q = "normal" THEN count'[q] - 1 ELSE count'[q]) /\ Pending(q)' = 0
  BY <1>2 DEF Held, Pending
<1>4. "normal" \in Class /\ count["normal"] > 0
  BY <1>1 DEF IInv, Shape, Removable, Class
<1>5. /\ head' = [head EXCEPT !["normal"] = (@ + 1) % K]
      /\ slot' = slot
      /\ tail' = tail
      /\ count' = count
  BY DEF M_Head, AdvanceHead, IInv, Shape
<1>6. QED
  BY <1>1, <1>3, <1>4, <1>5 DEF Removed, OthersSame, Same, IInv, Shape, Class

\* The decrement of the counter, which follows the head.
LEMMA M_CountRing ==
    ASSUME IInv, NEW m \in Managers, M_Count(m)
    PROVE  \A q \in Class : Same(q)
<1>1. /\ m \in Procs /\ Step(m, "m_count", "m_copy") /\ pc[m] = "m_count"
      /\ "m_count" \in Critical /\ UNCHANGED <<cls, src>>
  BY DEF M_Count, Step, locals, Procs, Critical
<1>2. ASSUME NEW q \in Class
      PROVE  /\ (Removing(q) <=> q = "normal") /\ ~Removing(q)'
             /\ ~Extending(q) /\ ~Extending(q)'
  BY <1>1, AloneStep, ProcAssumption DEF IInv, Procs
<1>3. ASSUME NEW q \in Class
      PROVE  /\ Held(q) = (IF q = "normal" THEN count[q] - 1 ELSE count[q]) /\ Pending(q) = 0
             /\ Held(q)' = count'[q] /\ Pending(q)' = 0
  BY <1>2 DEF Held, Pending
<1>4. "normal" \in Class /\ count["normal"] > 0
  BY <1>1 DEF IInv, Shape, Removable, Class
<1>5. /\ count' = [count EXCEPT !["normal"] = @ - 1]
      /\ slot' = slot
      /\ head' = head
      /\ tail' = tail
  BY DEF M_Count, Decr, IInv, Shape
<1>6. QED
  BY <1>1, <1>3, <1>4, <1>5 DEF Same, OthersSame, Same, IInv, Shape, Class

\* The copy of a task behind the ones that wait in its ring.
LEMMA M_CopyRing ==
    ASSUME IInv, NEW m \in Managers, M_Copy(m)
    PROVE  Copied("priority", task_str[m]) /\ OthersSame("priority")
<1>1. /\ m \in Procs /\ Step(m, "m_copy", "m_tail") /\ pc[m] = "m_copy"
      /\ "m_copy" \in Critical /\ UNCHANGED <<cls, src>>
  BY DEF M_Copy, Step, locals, Procs, Critical
<1>2. ASSUME NEW q \in Class
      PROVE  /\ ~Removing(q) /\ ~Removing(q)'
             /\ ~Extending(q) /\ ~Extending(q)'
  BY <1>1, AloneStep, ProcAssumption DEF IInv, Procs
<1>3. ASSUME NEW q \in Class
      PROVE  /\ Held(q) = count[q] /\ Pending(q) = 0
             /\ Held(q)' = count'[q] /\ Pending(q)' = 0
  BY <1>2 DEF Held, Pending
<1>4. "priority" \in Class /\ count["priority"] < K
  BY <1>1, RoomLeft DEF IInv, Shape, Reserving, Moving, Class
<1>5. /\ slot' = [slot EXCEPT !["priority"][tail["priority"]] = task_str[m]]
      /\ head' = head
      /\ tail' = tail
      /\ count' = count
  BY DEF M_Copy, CopyIn, IInv, Shape
<1>6. QED
  BY <1>1, <1>3, <1>4, <1>5 DEF Copied, OthersSame, Same, IInv, Shape, Class

\* The move of the tail past the copied task.
LEMMA M_TailRing ==
    ASSUME IInv, NEW m \in Managers, M_Tail(m)
    PROVE  Extended("priority") /\ OthersSame("priority")
<1>1. /\ m \in Procs /\ Step(m, "m_tail", "m_incr") /\ pc[m] = "m_tail"
      /\ "m_tail" \in Critical /\ UNCHANGED <<cls, src>>
  BY DEF M_Tail, Step, locals, Procs, Critical
<1>2. ASSUME NEW q \in Class
      PROVE  /\ ~Removing(q) /\ ~Removing(q)'
             /\ ~Extending(q) /\ (Extending(q)' <=> q = "priority")
  BY <1>1, AloneStep, ProcAssumption DEF IInv, Procs
<1>3. ASSUME NEW q \in Class
      PROVE  /\ Held(q) = count[q] /\ Pending(q) = 0
             /\ Held(q)' = count'[q] /\ Pending(q)' = (IF q = "priority" THEN 1 ELSE 0)
  BY <1>2 DEF Held, Pending
<1>4. "priority" \in Class /\ count["priority"] < K
  BY <1>1, RoomLeft DEF IInv, Shape, Reserving, Moving, Class
<1>5. /\ tail' = [tail EXCEPT !["priority"] = (@ + 1) % K]
      /\ slot' = slot
      /\ head' = head
      /\ count' = count
  BY DEF M_Tail, AdvanceTail, IInv, Shape
<1>6. QED
  BY <1>1, <1>3, <1>4, <1>5 DEF Extended, OthersSame, Same, IInv, Shape, Class

\* The increment of the counter, which puts the task in.
LEMMA M_IncrRing ==
    ASSUME IInv, NEW m \in Managers, M_Incr(m)
    PROVE  Added("priority") /\ OthersSame("priority")
<1>1. /\ m \in Procs /\ Step(m, "m_incr", "m_monitor") /\ pc[m] = "m_incr"
      /\ "m_incr" \in Critical /\ UNCHANGED <<cls, src>>
  BY DEF M_Incr, Step, locals, Procs, Critical
<1>2. ASSUME NEW q \in Class
      PROVE  /\ ~Removing(q) /\ ~Removing(q)'
             /\ (Extending(q) <=> q = "priority") /\ ~Extending(q)'
  BY <1>1, AloneStep, ProcAssumption DEF IInv, Procs
<1>3. ASSUME NEW q \in Class
      PROVE  /\ Held(q) = count[q] /\ Pending(q) = (IF q = "priority" THEN 1 ELSE 0)
             /\ Held(q)' = count'[q] /\ Pending(q)' = 0
  BY <1>2 DEF Held, Pending
<1>4. "priority" \in Class /\ count["priority"] < K
  BY <1>1, RoomLeft DEF IInv, Shape, Reserving, Moving, Class
<1>5. /\ count' = [count EXCEPT !["priority"] = @ + 1]
      /\ slot' = slot
      /\ head' = head
      /\ tail' = tail
  BY DEF M_Incr, Incr, IInv, Shape
<1>6. QED
  BY <1>1, <1>3, <1>4, <1>5 DEF Added, OthersSame, Same, IInv, Shape, Class

-----------------------------------------------------------------------------
\* What each kind of step does to the tasks that wait in one class.
LEMMA RingType ==
    ASSUME Shape, NEW q \in Class
    PROVE  IsRing(slot[q], K, Tasks \cup {NoTask})
BY KAssumption DEF IsRing, Shape

\* The contents of a class as a segment of its ring, before and after a step.
LEMMA ContentsSegment ==
    ASSUME NEW q \in Class
    PROVE  /\ Contents(q) = Segment(slot[q], K, head[q], Held(q))
           /\ Contents(q)' = Segment(slot'[q], K, head'[q], Held(q)')
BY DEF Contents, Held

\* A class that is left alone: the same tasks wait.
LEMMA AfterSame ==
    ASSUME NEW q \in Class, Same(q)
    PROVE  Contents(q)' = Contents(q)
BY ContentsSegment DEF Same

\* A task copied into the slot behind the others does not wait yet.
LEMMA AfterCopied ==
    ASSUME IInv, Indices, NEW q \in Class, NEW t, Copied(q, t)
    PROVE  Contents(q)' = Contents(q)
<1>1. tail[q] = (head[q] + Held(q)) % K
  <2>1. Held(q) + 0 = Held(q)
    BY HeldType, KAssumption
  <2>2. QED
    BY <2>1 DEF Indices, Copied
<1>2. IsSegment(K, head[q], Held(q)) /\ IsRing(slot[q], K, Tasks \cup {NoTask})
  BY HeldType, RingType DEF IInv
<1>3. Held(q) < K
  BY DEF Copied
<1>4. SameExcept(slot[q], slot'[q], 0 .. K - 1, (head[q] + Held(q)) % K)
  BY <1>1, <1>2 DEF SameExcept, Copied, IsRing
<1>5. Segment(slot'[q], K, head[q], Held(q)) = Segment(slot[q], K, head[q], Held(q))
  BY <1>2, <1>3, <1>4, SegmentKept
<1>6. QED
  BY <1>5, ContentsSegment DEF Copied

\* Nor when tail has moved past it.
LEMMA AfterExtended ==
    ASSUME NEW q \in Class, Extended(q)
    PROVE  Contents(q)' = Contents(q)
BY ContentsSegment DEF Extended

\* It does when count says so, behind all others.
LEMMA AfterAdded ==
    ASSUME IInv, NEW q \in Class, Added(q)
    PROVE  Contents(q)' = Append(Contents(q), Behind(q))
<1>1. IsSegment(K, head[q], Held(q)) /\ IsRing(slot[q], K, Tasks \cup {NoTask})
  BY HeldType, RingType DEF IInv
<1>2. Held(q) < K
  BY DEF Added
<1>3. Segment(slot[q], K, head[q], Held(q) + 1)
        = Append(Segment(slot[q], K, head[q], Held(q)), slot[q][(head[q] + Held(q)) % K])
  BY <1>1, <1>2, SegmentGrows
<1>4. QED
  BY <1>3, ContentsSegment DEF Added, Behind

\* Moving head on takes the first of the waiting tasks.
LEMMA AfterRemoved ==
    ASSUME IInv, NEW q \in Class, Removed(q)
    PROVE  /\ Contents(q) # << >> /\ Head(Contents(q)) = Front(q)
           /\ Contents(q)' = Tail(Contents(q))
<1>1. IsSegment(K, head[q], Held(q)) /\ IsRing(slot[q], K, Tasks \cup {NoTask})
  BY HeldType, RingType DEF IInv
<1>2. Held(q) > 0
  BY DEF Removed
<1>3. /\ Segment(slot[q], K, head[q], Held(q)) # << >>
      /\ Head(Segment(slot[q], K, head[q], Held(q))) = slot[q][head[q]]
      /\ Segment(slot[q], K, (head[q] + 1) % K, Held(q) - 1)
           = Tail(Segment(slot[q], K, head[q], Held(q)))
  BY <1>1, <1>2, SegmentShrinks
<1>4. QED
  BY <1>3, ContentsSegment DEF Removed, Front

\* Each kind of step keeps the ends of the ring together.
LEMMA IndicesAfter ==
    ASSUME IInv, Indices, NEW q \in Class,
           \/ Same(q) \/ (\E t : Copied(q, t)) \/ Extended(q) \/ Added(q) \/ Removed(q)
    PROVE  tail'[q] = (head'[q] + (Held(q)' + Pending(q)')) % K
<1> DEFINE h == head[q]
           n == Held(q)
<1>1. h \in 0 .. K - 1 /\ n \in 0 .. K
  BY HeldType DEF IInv, Shape
<1>2. tail[q] = (h + (n + Pending(q))) % K
  BY DEF Indices
<1>3. CASE Same(q) \/ \E t : Copied(q, t)
  BY <1>2, <1>3 DEF Same, Copied
<1>4. CASE Extended(q)
  <2>1. n \in 0 .. K - 1
    BY <1>1, <1>4, KAssumption DEF Extended
  <2>2. n + 0 = n
    BY <1>1, KAssumption
  <2>3. (((h + n) % K) + 1) % K = (h + (n + 1)) % K
    BY <1>1, <2>1, KAssumption, IndexShift
  <2>4. tail[q] = (h + n) % K
    BY <1>2, <1>4, <2>2 DEF Extended
  <2>5. QED
    BY <1>4, <2>3, <2>4 DEF Extended
<1>5. CASE Added(q)
  <2>1. (n + 1) + 0 = n + 1
    BY <1>1, KAssumption
  <2>2. QED
    BY <1>2, <1>5, <2>1 DEF Added
<1>6. CASE Removed(q)
  <2>1. PICK k \in 0 .. K - 1 : n = k + 1
    <3>1. n - 1 \in 0 .. K - 1 /\ n = (n - 1) + 1
      BY <1>1, <1>6, KAssumption DEF Removed
    <3>2. QED
      BY <3>1
  <2>2. (((h + 1) % K) + k) % K = (h + (k + 1)) % K
    BY <1>1, KAssumption, IndexShift
  <2>3. (n - 1) + 0 = k /\ n + 0 = k + 1
    BY <2>1, KAssumption
  <2>4. tail[q] = (h + (k + 1)) % K
    BY <1>2, <1>6, <2>3 DEF Removed
  <2>5. QED
    BY <1>6, <2>2, <2>3, <2>4 DEF Removed
<1>7. QED
  BY <1>3, <1>4, <1>5, <1>6

-----------------------------------------------------------------------------
\* The labels at which a process has copied something and not yet acted on it.
Transit == {"p_tail", "p_count", "c_head", "m_head", "m_tail", "m_incr"}

\* A manager at these labels has a task that is in no ring; a consumer at
\* those has one that it has not put out.
AgingLabels == {"m_count"} \cup Moving
TakenLabels == {"c_count", "c_unlock", "c_empty", "c_process"}

\* Step p of Kept leaves everything but the local variables of p.
OthersKept(p) ==
    /\ \A r \in Producers : r # p => cls'[r] = cls[r] /\ i'[r] = i[r]
    /\ \A r \in Consumers : r # p => src'[r] = src[r]
    /\ \A r \in Consumers \cup Managers : r # p => task_str'[r] = task_str[r]

\* A step that leaves the rings as they are leaves what the other processes
\* have copied.
LEMMA OthersInTransit ==
    ASSUME Shape, InTransit, NEW p \in Procs, NEW from, NEW to, Step(p, from, to),
           \A q \in Class : Same(q), UNCHANGED shm, OthersKept(p)
    PROVE  /\ \A r \in Producers : r # p => P_InTransit(r)'
           /\ \A r \in Consumers : r # p => C_InTransit(r)'
           /\ \A r \in Managers : r # p => M_InTransit(r)'
<1>1. \A r \in Procs : r # p => pc'[r] = pc[r]
  BY DEF Step, Shape, PcShape
<1>2. \A q \in Class : Front(q)' = Front(q) /\ Behind(q)' = Behind(q)
  BY DEF Same, Front, Behind
<1>3. count' = count
  BY DEF shm
<1>4. ASSUME NEW r \in Producers, r # p PROVE P_InTransit(r)'
  <2>1. cls[r] \in Class /\ cls'[r] = cls[r] /\ i'[r] = i[r] /\ P_InTransit(r)
    BY <1>4 DEF Shape, OthersKept, InTransit
  <2>2. pc'[r] = pc[r]
    BY <1>1, <1>4 DEF Procs
  <2>3. Behind(cls[r])' = Behind(cls[r])
    BY <1>2, <2>1 DEF Behind, Same, Held
  <2>4. QED
    BY <2>1, <2>2, <2>3 DEF P_InTransit, Behind
<1>5. ASSUME NEW r \in Consumers, r # p PROVE C_InTransit(r)'
  <2>1. /\ src[r] \in Class /\ src'[r] = src[r] /\ task_str'[r] = task_str[r]
        /\ C_InTransit(r)
    BY <1>5 DEF Shape, OthersKept, InTransit
  <2>2. pc'[r] = pc[r]
    BY <1>1, <1>5 DEF Procs
  <2>3. slot'[src[r]][head'[src[r]]] = slot[src[r]][head[src[r]]]
    BY <2>1 DEF Same
  <2>4. QED
    BY <1>3, <2>1, <2>2, <2>3 DEF C_InTransit, Front
<1>6. ASSUME NEW r \in Managers, r # p PROVE M_InTransit(r)'
  <2>1. task_str'[r] = task_str[r] /\ M_InTransit(r)
    BY <1>6 DEF OthersKept, InTransit
  <2>2. pc'[r] = pc[r]
    BY <1>1, <1>6 DEF Procs
  <2>3. QED
    BY <1>2, <2>1, <2>2 DEF M_InTransit, Class
<1>7. QED
  BY <1>4, <1>5, <1>6

\* Whether a task is being aged is up to the steps of the aging manager.
LEMMA AgingSame ==
    ASSUME Shape, NEW p \in Procs, NEW from, NEW to, Step(p, from, to),
           from \notin AgingLabels, to \notin AgingLabels, OthersKept(p)
    PROVE  AgingTask' = AgingTask
<1>1. pc[p] = from /\ pc'[p] = to /\ \A r \in Procs : r # p => pc'[r] = pc[r]
  BY DEF Step, Shape, PcShape
<1>2. Aging' = Aging /\ p \notin Aging
  BY <1>1 DEF Aging, AgingLabels, Procs
<1>3. \A r \in Aging : task_str'[r] = task_str[r]
  BY <1>2 DEF Aging, OthersKept
<1>4. Aging # {} => (CHOOSE m \in Aging : TRUE) \in Aging
  OBVIOUS
<1>5. QED
  BY <1>2, <1>3, <1>4 DEF AgingTask

\* Only a consumer that passes "c_head" takes a task.
LEMMA DeliveredSame ==
    ASSUME Shape, NEW p \in Procs, NEW from, NEW to, Step(p, from, to),
           from \in TakenLabels <=> to \in TakenLabels,
           UNCHANGED printed, OthersKept(p),
           from \in TakenLabels => UNCHANGED task_str
    PROVE  Delivered' = Delivered
<1>1. pc[p] = from /\ pc'[p] = to /\ \A r \in Procs : r # p => pc'[r] = pc[r]
  BY DEF Step, Shape, PcShape
<1>2. \A d \in Consumers : pc'[d] \in TakenLabels <=> pc[d] \in TakenLabels
  BY <1>1 DEF Procs
<1>3. \A d \in Consumers : pc[d] \in TakenLabels => task_str'[d] = task_str[d]
  BY <1>1 DEF OthersKept
<1>4. QED
  BY <1>2, <1>3 DEF Delivered, TakenLabels

\* Nothing that waits, is being aged or has been taken changes.
Quiet ==
    /\ \A q \in Class : Same(q)
    /\ AgingTask' = AgingTask /\ Delivered' = Delivered
    /\ InTransit'

\* A step between two statements that touch no ring is quiet.
LEMMA QuietStep ==
    ASSUME Shape, InTransit, NEW p \in Procs, NEW from, NEW to, Step(p, from, to),
           from \notin {"p_count", "c_count", "m_count", "m_incr"} \cup AgingLabels,
           to \notin {"p_count", "c_count", "m_count", "m_incr"} \cup AgingLabels \cup Transit,
           from \in TakenLabels <=> to \in TakenLabels,
           UNCHANGED <<slot, head, tail, count, printed, task_str, src>>, OthersKept(p)
    PROVE  Quiet
<1>1. UNCHANGED shm
  BY DEF shm
<1>2. \A q \in Class : Same(q)
  BY <1>1, SameStep DEF OthersKept
<1>3. /\ \A r \in Producers : r # p => P_InTransit(r)'
      /\ \A r \in Consumers : r # p => C_InTransit(r)'
      /\ \A r \in Managers : r # p => M_InTransit(r)'
  BY <1>1, <1>2, OthersInTransit
<1>4. pc'[p] = to
  BY DEF Step, Shape, PcShape
<1>5. P_InTransit(p)' /\ C_InTransit(p)' /\ M_InTransit(p)'
  BY <1>4 DEF P_InTransit, C_InTransit, M_InTransit, Transit
<1>6. InTransit'
  BY <1>3, <1>5 DEF InTransit
<1>7. AgingTask' = AgingTask /\ Delivered' = Delivered
  BY AgingSame, DeliveredSame
<1>8. QED
  BY <1>2, <1>6, <1>7 DEF Quiet

\* Neither the death of a process nor a stuttering step changes anything here.
LEMMA StutterIsQuiet ==
    ASSUME InTransit, UNCHANGED <<shm, pc, locals, printed>>
    PROVE  Quiet
<1>1. \A q \in Class : Same(q)
  BY DEF shm, locals, Same, Held, Pending, Removing, Extending
<1>2. AgingTask' = AgingTask /\ Delivered' = Delivered
  BY DEF locals, AgingTask, Aging, Delivered
<1>3. InTransit'
  <2>1. ASSUME NEW q PROVE Front(q)' = Front(q) /\ Behind(q)' = Behind(q)
    BY DEF shm, locals, Front, Behind, Held, Removing
  <2>2. ASSUME NEW p \in Producers PROVE P_InTransit(p)'
    <3>1. Behind(cls[p])' = Behind(cls[p])
      BY DEF shm, locals, Behind, Held, Removing
    <3>2. QED
      BY <3>1 DEF InTransit, P_InTransit, locals
  <2>3. ASSUME NEW c \in Consumers PROVE C_InTransit(c)'
    BY DEF InTransit, C_InTransit, Front, locals, shm
  <2>4. ASSUME NEW m \in Managers PROVE M_InTransit(m)'
    BY <2>1 DEF InTransit, M_InTransit, locals
  <2>5. QED
    BY <2>2, <2>3, <2>4 DEF InTransit
<1>4. QED
  BY <1>1, <1>2, <1>3 DEF Quiet

\* The steps that are not quiet: those of processes in a critical section.
Loud ==
    \/ \E p \in Producers : P_Copy(p) \/ P_Tail(p) \/ P_Count(p)
    \/ \E c \in Consumers : C_Copy(c) \/ C_Head(c) \/ C_Count(c)
    \/ \E m \in Managers : \/ M_Age(m) \/ M_Head(m) \/ M_Count(m)
                           \/ M_Copy(m) \/ M_Tail(m) \/ M_Incr(m)

\* Every step is quiet or one of the statements that touch a ring.
LEMMA QuietOrLoud ==
    ASSUME Shape, InTransit, [Next]_vars
    PROVE  Quiet \/ Loud
<1>1. ASSUME NEW p \in Producers, P_Create(p) PROVE Quiet
  <2>1. p \in Procs /\ Step(p, "p_create", "p_empty")
    BY <1>1 DEF P_Create, Procs
  <2>2. /\ OthersKept(p)
        /\ UNCHANGED <<slot, head, tail, count, printed, task_str, src>>
    BY <1>1 DEF P_Create, locals, shm, OthersKept, Shape
  <2>3. QED
    BY <2>1, <2>2, QuietStep DEF AgingLabels, Moving, Transit, TakenLabels
<1>2. ASSUME NEW p \in Producers, P_Empty(p) PROVE Quiet
  <2>1. p \in Procs /\ Step(p, "p_empty", "p_lock")
    BY <1>2 DEF P_Empty, Procs
  <2>2. /\ OthersKept(p)
        /\ UNCHANGED <<slot, head, tail, count, printed, task_str, src>>
    BY <1>2 DEF P_Empty, locals, shm, OthersKept, Shape
  <2>3. QED
    BY <2>1, <2>2, QuietStep DEF AgingLabels, Moving, Transit, TakenLabels
<1>3. ASSUME NEW p \in Producers, P_Lock(p) PROVE Quiet
  <2>1. p \in Procs /\ Step(p, "p_lock", "p_copy")
    BY <1>3 DEF P_Lock, Procs
  <2>2. /\ OthersKept(p)
        /\ UNCHANGED <<slot, head, tail, count, printed, task_str, src>>
    BY <1>3 DEF P_Lock, locals, shm, OthersKept, Shape
  <2>3. QED
    BY <2>1, <2>2, QuietStep DEF AgingLabels, Moving, Transit, TakenLabels
<1>4. ASSUME NEW p \in Producers, P_Unlock(p) PROVE Quiet
  <2>1. p \in Procs /\ Step(p, "p_unlock", "p_full")
    BY <1>4 DEF P_Unlock, Procs
  <2>2. /\ OthersKept(p)
        /\ UNCHANGED <<slot, head, tail, count, printed, task_str, src>>
    BY <1>4 DEF P_Unlock, locals, shm, OthersKept, Shape
  <2>3. QED
    BY <2>1, <2>2, QuietStep DEF AgingLabels, Moving, Transit, TakenLabels
<1>5. ASSUME NEW p \in Producers, P_Full(p) PROVE Quiet
  <2>1. p \in Procs /\ Step(p, "p_full", "p_create")
    BY <1>5 DEF P_Full, Procs
  <2>2. /\ OthersKept(p)
        /\ UNCHANGED <<slot, head, tail, count, printed, task_str, src>>
    BY <1>5 DEF P_Full, locals, shm, OthersKept, Shape
  <2>3. QED
    BY <2>1, <2>2, QuietStep DEF AgingLabels, Moving, Transit, TakenLabels
<1>6. ASSUME NEW p \in Producers, P_Exit(p) PROVE Quiet
  <2>1. p \in Procs /\ Step(p, "p_create", "p_done")
    BY <1>6 DEF P_Exit, Procs
  <2>2. /\ OthersKept(p)
        /\ UNCHANGED <<slot, head, tail, count, printed, task_str, src>>
    BY <1>6 DEF P_Exit, locals, shm, OthersKept, Shape
  <2>3. QED
    BY <2>1, <2>2, QuietStep DEF AgingLabels, Moving, Transit, TakenLabels
<1>7. ASSUME NEW p \in Producers, P_Relaunch(p) PROVE Quiet
  <2>1. p \in Procs /\ Step(p, "p_done", "p_create")
    BY <1>7 DEF P_Relaunch, Procs
  <2>2. /\ OthersKept(p)
        /\ UNCHANGED <<slot, head, tail, count, printed, task_str, src>>
    BY <1>7 DEF P_Relaunch, locals, shm, OthersKept, Shape
  <2>3. QED
    BY <2>1, <2>2, QuietStep DEF AgingLabels, Moving, Transit, TakenLabels
<1>8. ASSUME NEW c \in Consumers, C_Full(c) PROVE Quiet
  <2>1. c \in Procs /\ Step(c, "c_full", "c_lock")
    BY <1>8 DEF C_Full, Procs
  <2>2. /\ OthersKept(c)
        /\ UNCHANGED <<slot, head, tail, count, printed, task_str, src>>
    BY <1>8 DEF C_Full, locals, shm, OthersKept, Shape
  <2>3. QED
    BY <2>1, <2>2, QuietStep DEF AgingLabels, Moving, Transit, TakenLabels
<1>9. ASSUME NEW c \in Consumers, C_Lock(c) PROVE Quiet
  <2>1. c \in Procs /\ Step(c, "c_lock", "c_copy")
    BY <1>9 DEF C_Lock, Procs
  <2>2. /\ OthersKept(c)
        /\ UNCHANGED <<slot, head, tail, count, printed, task_str, src>>
    BY <1>9 DEF C_Lock, locals, shm, OthersKept, Shape
  <2>3. QED
    BY <2>1, <2>2, QuietStep DEF AgingLabels, Moving, Transit, TakenLabels
<1>10. ASSUME NEW c \in Consumers, C_Unlock(c) PROVE Quiet
  <2>1. c \in Procs /\ Step(c, "c_unlock", "c_empty")
    BY <1>10 DEF C_Unlock, Procs
  <2>2. /\ OthersKept(c)
        /\ UNCHANGED <<slot, head, tail, count, printed, task_str, src>>
    BY <1>10 DEF C_Unlock, locals, shm, OthersKept, Shape
  <2>3. QED
    BY <2>1, <2>2, QuietStep DEF AgingLabels, Moving, Transit, TakenLabels
<1>11. ASSUME NEW c \in Consumers, C_Empty(c) PROVE Quiet
  <2>1. c \in Procs /\ Step(c, "c_empty", "c_process")
    BY <1>11 DEF C_Empty, Procs
  <2>2. /\ OthersKept(c)
        /\ UNCHANGED <<slot, head, tail, count, printed, task_str, src>>
    BY <1>11 DEF C_Empty, locals, shm, OthersKept, Shape
  <2>3. QED
    BY <2>1, <2>2, QuietStep DEF AgingLabels, Moving, Transit, TakenLabels
<1>12. ASSUME NEW c \in Consumers, C_Process(c) PROVE Quiet
  <2>1. c \in Procs /\ Step(c, "c_process", "c_full") /\ OthersKept(c) /\ UNCHANGED shm
    BY <1>12 DEF C_Process, locals, shm, Procs, OthersKept
  <2>2. \A q \in Class : Same(q)
    BY <2>1, SameStep DEF OthersKept
  <2>3. /\ \A r \in Producers : r # c => P_InTransit(r)'
        /\ \A r \in Consumers : r # c => C_InTransit(r)'
        /\ \A r \in Managers : r # c => M_InTransit(r)'
    BY <2>1, <2>2, OthersInTransit
  <2>4. pc[c] = "c_process" /\ pc'[c] = "c_full" /\ \A r \in Procs : r # c => pc'[r] = pc[r]
    BY <2>1 DEF Step, Shape, PcShape
  <2>5. InTransit'
    BY <2>3, <2>4 DEF InTransit, P_InTransit, C_InTransit, M_InTransit
  <2>6. AgingTask' = AgingTask
    BY <2>1, AgingSame DEF AgingLabels, Moving
  <2>7. Delivered' = Delivered
    BY <1>12, <2>4 DEF C_Process, locals, Delivered, Procs
  <2>8. QED
    BY <2>2, <2>5, <2>6, <2>7 DEF Quiet
<1>13. ASSUME NEW m \in Managers, M_Lock(m) PROVE Quiet
  <2>1. m \in Procs /\ Step(m, "m_lock", "m_test")
    BY <1>13 DEF M_Lock, Procs
  <2>2. /\ OthersKept(m)
        /\ UNCHANGED <<slot, head, tail, count, printed, task_str, src>>
    BY <1>13 DEF M_Lock, locals, shm, OthersKept, Shape
  <2>3. QED
    BY <2>1, <2>2, QuietStep DEF AgingLabels, Moving, Transit, TakenLabels
<1>14. ASSUME NEW m \in Managers, M_NoAge(m) PROVE Quiet
  <2>1. m \in Procs /\ Step(m, "m_test", "m_monitor")
    BY <1>14 DEF M_NoAge, Procs
  <2>2. /\ OthersKept(m)
        /\ UNCHANGED <<slot, head, tail, count, printed, task_str, src>>
    BY <1>14 DEF M_NoAge, locals, shm, OthersKept, Shape
  <2>3. QED
    BY <2>1, <2>2, QuietStep DEF AgingLabels, Moving, Transit, TakenLabels
<1>15. ASSUME NEW m \in Managers, M_Monitor(m) PROVE Quiet
  <2>1. m \in Procs /\ Step(m, "m_monitor", "m_unlock")
    BY <1>15 DEF M_Monitor, Procs
  <2>2. /\ OthersKept(m)
        /\ UNCHANGED <<slot, head, tail, count, printed, task_str, src>>
    BY <1>15 DEF M_Monitor, locals, shm, OthersKept, Shape
  <2>3. QED
    BY <2>1, <2>2, QuietStep DEF AgingLabels, Moving, Transit, TakenLabels
<1>16. ASSUME NEW m \in Managers, M_Unlock(m) PROVE Quiet
  <2>1. m \in Procs /\ Step(m, "m_unlock", "m_lock")
    BY <1>16 DEF M_Unlock, Procs
  <2>2. /\ OthersKept(m)
        /\ UNCHANGED <<slot, head, tail, count, printed, task_str, src>>
    BY <1>16 DEF M_Unlock, locals, shm, OthersKept, Shape
  <2>3. QED
    BY <2>1, <2>2, QuietStep DEF AgingLabels, Moving, Transit, TakenLabels
<1>17. ASSUME NEW p \in Procs, Kill(p) PROVE Quiet
  BY <1>17, StutterIsQuiet DEF Kill, sems
<1>18. CASE UNCHANGED vars
  BY <1>18, StutterIsQuiet DEF vars, shm, locals
<1>19. QED
  BY <1>1, <1>2, <1>3, <1>4, <1>5, <1>6, <1>7, <1>8, <1>9, <1>10, <1>11,
    <1>12, <1>13, <1>14, <1>15, <1>16, <1>17, <1>18 DEF Next, Producer,
    Consumer, Manager, Loud

-----------------------------------------------------------------------------
\* While a process is in its critical section no other has copied anything.
LEMMA OnlyOneInTransit ==
    ASSUME Shape, MutexCounts, NEW p \in Procs, NEW from, NEW to, Step(p, from, to),
           from \in Critical,
           p \in Producers => P_InTransit(p)', p \in Consumers => C_InTransit(p)',
           p \in Managers => M_InTransit(p)'
    PROVE  InTransit'
<1>1. pc[p] = from /\ \A r \in Procs : r # p => pc'[r] = pc[r]
  BY DEF Step, Shape, PcShape
<1>2. \A r \in Procs : r # p => pc'[r] \notin Transit
  BY <1>1, Alone DEF Critical, Transit
<1>3. QED
  BY <1>2 DEF InTransit, P_InTransit, C_InTransit, M_InTransit, Transit, Procs

\* While a process is in its critical section it alone can have an aging task.
LEMMA AgingAlone ==
    ASSUME Shape, MutexCounts, NEW p \in Procs, NEW from, NEW to, Step(p, from, to),
           from \in Critical
    PROVE  /\ AgingTask = IF p \in Managers /\ from \in AgingLabels
                          THEN <<task_str[p]>> ELSE << >>
           /\ AgingTask' = IF p \in Managers /\ to \in AgingLabels
                           THEN <<task_str'[p]>> ELSE << >>
<1>1. pc[p] = from /\ pc'[p] = to /\ \A r \in Procs : r # p => pc'[r] = pc[r]
  BY DEF Step, Shape, PcShape
<1>2. \A r \in Procs : r # p => pc[r] \notin AgingLabels /\ pc'[r] \notin AgingLabels
  BY <1>1, Alone DEF Critical, AgingLabels, Moving
<1>3. /\ Aging = IF p \in Managers /\ from \in AgingLabels THEN {p} ELSE {}
      /\ Aging' = IF p \in Managers /\ to \in AgingLabels THEN {p} ELSE {}
  BY <1>1, <1>2 DEF Aging, AgingLabels, Procs
<1>4. (CHOOSE m \in {p} : TRUE) = p
  OBVIOUS
<1>5. QED
  BY <1>3, <1>4 DEF AgingTask

\* What a step does to the tasks that wait, are being aged and have been
\* taken: nothing, or what its operation is there for.
Unmoved ==
    /\ \A q \in Class : Contents(q)' = Contents(q)
    /\ AgingTask' = AgingTask /\ Delivered' = Delivered
Placed(p) ==
    /\ Contents(cls[p])' = Append(Contents(cls[p]), <<p, i[p]>>)
    /\ \A q \in Class : q # cls[p] => Contents(q)' = Contents(q)
    /\ AgingTask = << >> /\ AgingTask' = << >> /\ Delivered' = Delivered
Taken(c) ==
    /\ src' = src /\ Contents(src[c]) # << >>
    /\ Contents(src[c])' = Tail(Contents(src[c]))
    /\ \A q \in Class : q # src[c] => Contents(q)' = Contents(q)
    /\ src[c] = "normal" => Contents("priority") = << >>
    /\ AgingTask = << >> /\ AgingTask' = << >>
    /\ Delivered' = Delivered \cup {Head(Contents(src[c]))}
TakenOut ==
    /\ Contents("normal") # << >>
    /\ Contents("normal")' = Tail(Contents("normal"))
    /\ Contents("priority")' = Contents("priority")
    /\ AgingTask = << >> /\ AgingTask' = <<Head(Contents("normal"))>>
    /\ Delivered' = Delivered
Appended(t) ==
    /\ Contents("priority")' = Append(Contents("priority"), t)
    /\ Contents("normal")' = Contents("normal")
    /\ AgingTask = <<t>> /\ AgingTask' = << >>
    /\ Delivered' = Delivered

RingInv == IInv /\ Indices /\ InTransit

\* A producer.
LEMMA P_CopyEffect ==
    ASSUME RingInv, NEW p \in Producers, P_Copy(p)
    PROVE  InTransit' /\ Unmoved
<1> USE DEF RingInv
<1>1. /\ p \in Procs /\ Step(p, "p_copy", "p_tail") /\ "p_copy" \in Critical
      /\ pc[p] = "p_copy" /\ pc'[p] = "p_tail"
  BY DEF P_Copy, Step, Procs, Critical, IInv, Shape, PcShape
<1>2. Copied(cls[p], <<p, i[p]>>) /\ OthersSame(cls[p]) /\ cls[p] \in Class
  BY P_CopyRing DEF IInv, Shape, Class
<1>3. \A q \in Class : Contents(q)' = Contents(q)
  BY <1>2, AfterCopied, AfterSame DEF OthersSame
<1>4. Delivered' = Delivered
  <2>1. OthersKept(p) /\ UNCHANGED <<printed, task_str>>
    BY DEF P_Copy, locals, OthersKept
  <2>2. QED
    BY <1>1, <2>1, DeliveredSame DEF TakenLabels, IInv
<1>5. AgingTask' = AgingTask
  BY <1>1, AgingAlone DEF P_Copy, locals, IInv, AgingLabels, Moving
<1>6. P_InTransit(p)'
  <2>1. Behind(cls[p])' = slot'[cls[p]][tail[cls[p]]]
    <3>1. tail[cls[p]] = (head[cls[p]] + Held(cls[p])) % K
      <4>1. Held(cls[p]) + 0 = Held(cls[p])
        BY <1>2, HeldType, KAssumption
      <4>2. QED
        BY <1>2, <4>1 DEF Indices, Copied
    <3>2. QED
      BY <1>2, <3>1 DEF Behind, Copied, locals, P_Copy
  <2>2. slot'[cls[p]][tail[cls[p]]] = <<p, i[p]>>
    BY <1>2, KAssumption DEF Copied, IInv, Shape
  <2>3. QED
    BY <1>1, <2>1, <2>2 DEF P_Copy, locals, P_InTransit
<1>7. InTransit'
  BY <1>1, <1>6, OnlyOneInTransit, ProcAssumption DEF IInv
<1>8. QED
  BY <1>3, <1>4, <1>5, <1>7 DEF Unmoved


\* A producer that moves tail on has not placed its task yet.
LEMMA P_TailEffect ==
    ASSUME RingInv, NEW p \in Producers, P_Tail(p)
    PROVE  InTransit' /\ Unmoved
<1> USE DEF RingInv
<1>1. /\ p \in Procs /\ Step(p, "p_tail", "p_count") /\ "p_tail" \in Critical
      /\ pc[p] = "p_tail" /\ pc'[p] = "p_count"
  BY DEF P_Tail, Step, Procs, Critical, IInv, Shape, PcShape
<1>2. Extended(cls[p]) /\ OthersSame(cls[p]) /\ cls[p] \in Class
  BY P_TailRing DEF IInv, Shape, Class
<1>3. \A q \in Class : Contents(q)' = Contents(q)
  BY <1>2, AfterExtended, AfterSame DEF OthersSame
<1>4. Delivered' = Delivered
  <2>1. OthersKept(p) /\ UNCHANGED <<printed, task_str>>
    BY DEF P_Tail, locals, OthersKept
  <2>2. QED
    BY <1>1, <2>1, DeliveredSame DEF TakenLabels, IInv
<1>5. AgingTask' = AgingTask
  BY <1>1, AgingAlone DEF P_Tail, locals, IInv, AgingLabels, Moving
<1>6. P_InTransit(p)'
  <2>1. P_InTransit(p) /\ Behind(cls[p])' = Behind(cls[p])
    BY <1>2 DEF InTransit, Behind, Extended, P_Tail, locals
  <2>2. QED
    BY <1>1, <2>1 DEF P_Tail, locals, P_InTransit
<1>7. InTransit'
  BY <1>1, <1>6, OnlyOneInTransit, ProcAssumption DEF IInv
<1>8. QED
  BY <1>3, <1>4, <1>5, <1>7 DEF Unmoved

\* Its increment of the counter places the task.
LEMMA P_CountEffect ==
    ASSUME RingInv, NEW p \in Producers, P_Count(p)
    PROVE  InTransit' /\ Placed(p)
<1> USE DEF RingInv
<1>1. /\ p \in Procs /\ Step(p, "p_count", "p_unlock") /\ "p_count" \in Critical
      /\ pc[p] = "p_count" /\ pc'[p] = "p_unlock"
  BY DEF P_Count, Step, Procs, Critical, IInv, Shape, PcShape
<1>2. Added(cls[p]) /\ OthersSame(cls[p]) /\ cls[p] \in Class
  BY P_CountRing DEF IInv, Shape, Class
<1>3. Behind(cls[p]) = <<p, i[p]>>
  BY <1>1 DEF InTransit, P_InTransit
<1>4. /\ Contents(cls[p])' = Append(Contents(cls[p]), <<p, i[p]>>)
      /\ \A q \in Class : q # cls[p] => Contents(q)' = Contents(q)
  BY <1>2, <1>3, AfterAdded, AfterSame DEF OthersSame, P_Count, locals
<1>5. Delivered' = Delivered
  <2>1. OthersKept(p) /\ UNCHANGED <<printed, task_str>>
    BY DEF P_Count, locals, OthersKept
  <2>2. QED
    BY <1>1, <2>1, DeliveredSame DEF TakenLabels, IInv
<1>6. /\ AgingTask = << >>
      /\ AgingTask' = << >>
  BY <1>1, AgingAlone, ProcAssumption DEF IInv, AgingLabels, Moving
<1>7. InTransit'
  BY <1>1, OnlyOneInTransit, ProcAssumption DEF IInv, P_InTransit, C_InTransit, M_InTransit
<1>8. QED
  BY <1>4, <1>5, <1>6, <1>7 DEF Placed, Class

\* A consumer.
LEMMA C_CopyEffect ==
    ASSUME RingInv, NEW c \in Consumers, C_Copy(c)
    PROVE  InTransit' /\ Unmoved
<1> USE DEF RingInv
<1>1. /\ c \in Procs /\ Step(c, "c_copy", "c_head") /\ "c_copy" \in Critical
      /\ pc[c] = "c_copy" /\ pc'[c] = "c_head"
  BY DEF C_Copy, Step, Procs, Critical, IInv, Shape, PcShape
<1>2. \A q \in Class : Same(q)
  <2>1. /\ UNCHANGED shm
        /\ \A r \in Producers : r # c => cls'[r] = cls[r]
        /\ \A r \in Consumers : r # c => src'[r] = src[r]
    BY DEF C_Copy, IInv, Shape
  <2>2. QED
    BY <1>1, <2>1, SameStep DEF IInv
<1>3. \A q \in Class : Contents(q)' = Contents(q)
  BY <1>2, AfterSame
<1>4. Delivered' = Delivered
  <2>1. OthersKept(c) /\ UNCHANGED printed
    BY DEF C_Copy, OthersKept, IInv, Shape
  <2>2. QED
    BY <1>1, <2>1, DeliveredSame DEF TakenLabels, IInv
<1>5. AgingTask' = AgingTask
  BY <1>1, AgingAlone, ProcAssumption DEF IInv
<1>6. C_InTransit(c)'
  <2>1. /\ src'[c] = QueueSource /\ task_str'[c] = slot[QueueSource][head[QueueSource]]
        /\ slot' = slot /\ head' = head /\ count' = count
    BY DEF C_Copy, shm, IInv, Shape
  <2>2. QueueSource = "normal" => count["priority"] = 0
    <3>1. count["priority"] \in 0 .. K
      BY HeldType DEF Class
    <3>2. QED
      BY <3>1, KAssumption DEF QueueSource
  <2>3. QED
    BY <2>1, <2>2 DEF C_InTransit, Front
<1>7. InTransit'
  BY <1>1, <1>6, OnlyOneInTransit, ProcAssumption DEF IInv
<1>8. QED
  BY <1>3, <1>4, <1>5, <1>7 DEF Unmoved

\* A consumer that moves head on has taken the first task of its class.
LEMMA C_HeadEffect ==
    ASSUME RingInv, NEW c \in Consumers, C_Head(c)
    PROVE  InTransit' /\ Taken(c)
<1> USE DEF RingInv
<1>1. /\ c \in Procs /\ Step(c, "c_head", "c_count") /\ "c_head" \in Critical
      /\ pc[c] = "c_head" /\ pc'[c] = "c_count"
  BY DEF C_Head, Step, Procs, Critical, IInv, Shape, PcShape
<1>2. Removed(src[c]) /\ OthersSame(src[c]) /\ src[c] \in Class
  BY C_HeadRing DEF IInv, Shape
<1>3. /\ Contents(src[c]) # << >> /\ Head(Contents(src[c])) = Front(src[c])
      /\ Contents(src[c])' = Tail(Contents(src[c]))
      /\ \A q \in Class : q # src[c] => Contents(q)' = Contents(q)
  BY <1>2, AfterRemoved, AfterSame DEF OthersSame, C_Head, locals
<1>4. /\ task_str[c] = Front(src[c])
      /\ src[c] = "normal" => count["priority"] = 0
  BY <1>1 DEF InTransit, C_InTransit
<1>5. src[c] = "normal" => Contents("priority") = << >>
  <2>1. SUFFICES ASSUME src[c] = "normal" PROVE Contents("priority") = << >>
    OBVIOUS
  <2>2. ~Removing("priority")
    BY <1>1, AloneStep DEF C_Head, locals, IInv
  <2>3. Held("priority") = 0 /\ "priority" \in Class
    BY <1>4, <2>1, <2>2 DEF Held, Class
  <2>4. head["priority"] \in 0 .. K - 1
    BY <2>3 DEF IInv, Shape
  <2>5. QED
    BY <2>3, <2>4, ContentsSegment, RingType, SegmentEmpty DEF IInv
<1>6. AgingTask = << >> /\ AgingTask' = << >>
  BY <1>1, AgingAlone, ProcAssumption DEF IInv
<1>7. Delivered' = Delivered \cup {task_str[c]}
  <2>1. \A r \in Procs : r # c => pc'[r] = pc[r]
    BY <1>1 DEF Step, IInv, Shape, PcShape
  <2>2. printed' = printed /\ task_str' = task_str
    BY DEF C_Head, locals
  <2>3. QED
    BY <1>1, <2>1, <2>2 DEF Delivered, Procs
<1>8. InTransit'
  BY <1>1, OnlyOneInTransit, ProcAssumption DEF IInv, P_InTransit, C_InTransit, M_InTransit
<1>9. QED
  BY <1>3, <1>4, <1>5, <1>6, <1>7, <1>8 DEF Taken, C_Head, locals

\* Its decrement of the counter takes nothing more.
LEMMA C_CountEffect ==
    ASSUME RingInv, NEW c \in Consumers, C_Count(c)
    PROVE  InTransit' /\ Unmoved
<1> USE DEF RingInv
<1>1. /\ c \in Procs /\ Step(c, "c_count", "c_unlock") /\ "c_count" \in Critical
      /\ pc[c] = "c_count" /\ pc'[c] = "c_unlock"
  BY DEF C_Count, Step, Procs, Critical, IInv, Shape, PcShape
<1>2. \A q \in Class : Contents(q)' = Contents(q)
  BY C_CountRing, AfterSame
<1>3. Delivered' = Delivered
  <2>1. OthersKept(c) /\ UNCHANGED <<printed, task_str>>
    BY DEF C_Count, locals, OthersKept
  <2>2. QED
    BY <1>1, <2>1, DeliveredSame DEF TakenLabels, IInv
<1>4. AgingTask' = AgingTask
  BY <1>1, AgingAlone, ProcAssumption DEF C_Count, locals, IInv, AgingLabels, Moving
<1>5. InTransit'
  BY <1>1, OnlyOneInTransit, ProcAssumption DEF IInv, P_InTransit, C_InTransit, M_InTransit
<1>6. QED
  BY <1>2, <1>3, <1>4, <1>5 DEF Unmoved

\* A manager.
LEMMA M_AgeEffect ==
    ASSUME RingInv, NEW m \in Managers, M_Age(m)
    PROVE  InTransit' /\ Unmoved
<1> USE DEF RingInv
<1>1. /\ m \in Procs /\ Step(m, "m_test", "m_head") /\ "m_test" \in Critical
      /\ pc[m] = "m_test" /\ pc'[m] = "m_head"
  BY DEF M_Age, Step, Procs, Critical, IInv, Shape, PcShape
<1>2. \A q \in Class : Same(q)
  <2>1. /\ UNCHANGED shm
        /\ \A r \in Producers : r # m => cls'[r] = cls[r]
        /\ \A r \in Consumers : r # m => src'[r] = src[r]
    BY DEF M_Age
  <2>2. QED
    BY <1>1, <2>1, SameStep DEF IInv
<1>3. \A q \in Class : Contents(q)' = Contents(q)
  BY <1>2, AfterSame
<1>4. Delivered' = Delivered
  <2>1. OthersKept(m) /\ UNCHANGED printed
    BY DEF M_Age, OthersKept, IInv, Shape
  <2>2. QED
    BY <1>1, <2>1, DeliveredSame DEF TakenLabels, IInv
<1>5. AgingTask' = AgingTask
  BY <1>1, AgingAlone DEF IInv, AgingLabels, Moving
<1>6. M_InTransit(m)'
  <2>1. task_str'[m] = slot["normal"][head["normal"]] /\ slot' = slot /\ head' = head
    BY DEF M_Age, shm, IInv, Shape
  <2>2. QED
    BY <1>1, <2>1 DEF M_InTransit, Front
<1>7. InTransit'
  BY <1>1, <1>6, OnlyOneInTransit, ProcAssumption DEF IInv
<1>8. QED
  BY <1>3, <1>4, <1>5, <1>7 DEF Unmoved

\* A manager that moves head on has taken out the oldest normal task.
LEMMA M_HeadEffect ==
    ASSUME RingInv, NEW m \in Managers, M_Head(m)
    PROVE  InTransit' /\ TakenOut
<1> USE DEF RingInv
<1>1. /\ m \in Procs /\ Step(m, "m_head", "m_count") /\ "m_head" \in Critical
      /\ pc[m] = "m_head" /\ pc'[m] = "m_count"
  BY DEF M_Head, Step, Procs, Critical, IInv, Shape, PcShape
<1>2. Removed("normal") /\ OthersSame("normal") /\ "normal" \in Class /\ "priority" \in Class
  BY M_HeadRing DEF IInv, Class
<1>3. /\ Contents("normal") # << >> /\ Head(Contents("normal")) = Front("normal")
      /\ Contents("normal")' = Tail(Contents("normal"))
      /\ Contents("priority")' = Contents("priority")
  BY <1>2, AfterRemoved, AfterSame DEF OthersSame
<1>4. task_str[m] = Front("normal") /\ task_str' = task_str
  BY <1>1 DEF InTransit, M_InTransit, M_Head, locals
<1>5. Delivered' = Delivered
  <2>1. OthersKept(m) /\ UNCHANGED <<printed, task_str>>
    BY DEF M_Head, locals, OthersKept
  <2>2. QED
    BY <1>1, <2>1, DeliveredSame DEF TakenLabels, IInv
<1>6. AgingTask = << >> /\ AgingTask' = <<task_str'[m]>>
  BY <1>1, AgingAlone DEF IInv, AgingLabels, Moving
<1>7. InTransit'
  BY <1>1, OnlyOneInTransit, ProcAssumption DEF IInv, P_InTransit, C_InTransit, M_InTransit
<1>8. QED
  BY <1>3, <1>4, <1>5, <1>6, <1>7 DEF TakenOut

\* Its decrement of the counter takes nothing more.
LEMMA M_CountEffect ==
    ASSUME RingInv, NEW m \in Managers, M_Count(m)
    PROVE  InTransit' /\ Unmoved
<1> USE DEF RingInv
<1>1. /\ m \in Procs /\ Step(m, "m_count", "m_copy") /\ "m_count" \in Critical
      /\ pc[m] = "m_count" /\ pc'[m] = "m_copy"
  BY DEF M_Count, Step, Procs, Critical, IInv, Shape, PcShape
<1>2. \A q \in Class : Contents(q)' = Contents(q)
  BY M_CountRing, AfterSame
<1>3. Delivered' = Delivered
  <2>1. OthersKept(m) /\ UNCHANGED <<printed, task_str>>
    BY DEF M_Count, locals, OthersKept
  <2>2. QED
    BY <1>1, <2>1, DeliveredSame DEF TakenLabels, IInv
<1>4. AgingTask' = AgingTask
  BY <1>1, AgingAlone, ProcAssumption DEF M_Count, locals, IInv, AgingLabels, Moving
<1>5. InTransit'
  BY <1>1, OnlyOneInTransit, ProcAssumption DEF IInv, P_InTransit, C_InTransit, M_InTransit
<1>6. QED
  BY <1>2, <1>3, <1>4, <1>5 DEF Unmoved

\* The task it copies into the priority ring does not wait there yet.
LEMMA M_CopyEffect ==
    ASSUME RingInv, NEW m \in Managers, M_Copy(m)
    PROVE  InTransit' /\ Unmoved
<1> USE DEF RingInv
<1>1. /\ m \in Procs /\ Step(m, "m_copy", "m_tail") /\ "m_copy" \in Critical
      /\ pc[m] = "m_copy" /\ pc'[m] = "m_tail"
  BY DEF M_Copy, Step, Procs, Critical, IInv, Shape, PcShape
<1>2. Copied("priority", task_str[m]) /\ OthersSame("priority") /\ "priority" \in Class
  BY M_CopyRing DEF IInv, Shape, Class
<1>3. \A q \in Class : Contents(q)' = Contents(q)
  BY <1>2, AfterCopied, AfterSame DEF OthersSame
<1>4. Delivered' = Delivered
  <2>1. OthersKept(m) /\ UNCHANGED <<printed, task_str>>
    BY DEF M_Copy, locals, OthersKept
  <2>2. QED
    BY <1>1, <2>1, DeliveredSame DEF TakenLabels, IInv
<1>5. AgingTask' = AgingTask
  BY <1>1, AgingAlone DEF M_Copy, locals, IInv, AgingLabels, Moving
<1>6. M_InTransit(m)'
  <2>1. Behind("priority")' = slot'["priority"][tail["priority"]]
    <3>1. tail["priority"] = (head["priority"] + Held("priority")) % K
      <4>1. Held("priority") + 0 = Held("priority")
        BY <1>2, HeldType, KAssumption
      <4>2. QED
        BY <1>2, <4>1 DEF Indices, Copied
    <3>2. QED
      BY <1>2, <3>1 DEF Behind, Copied
  <2>2. slot'["priority"][tail["priority"]] = task_str[m]
    BY <1>2, KAssumption DEF Copied, IInv, Shape
  <2>3. QED
    BY <1>1, <2>1, <2>2 DEF M_Copy, locals, M_InTransit
<1>7. InTransit'
  BY <1>1, <1>6, OnlyOneInTransit, ProcAssumption DEF IInv
<1>8. QED
  BY <1>3, <1>4, <1>5, <1>7 DEF Unmoved


\* Nor when tail has moved past it.
LEMMA M_TailEffect ==
    ASSUME RingInv, NEW m \in Managers, M_Tail(m)
    PROVE  InTransit' /\ Unmoved
<1> USE DEF RingInv
<1>1. /\ m \in Procs /\ Step(m, "m_tail", "m_incr") /\ "m_tail" \in Critical
      /\ pc[m] = "m_tail" /\ pc'[m] = "m_incr"
  BY DEF M_Tail, Step, Procs, Critical, IInv, Shape, PcShape
<1>2. Extended("priority") /\ OthersSame("priority") /\ "priority" \in Class
  BY M_TailRing DEF IInv, Shape, Class
<1>3. \A q \in Class : Contents(q)' = Contents(q)
  BY <1>2, AfterExtended, AfterSame DEF OthersSame
<1>4. Delivered' = Delivered
  <2>1. OthersKept(m) /\ UNCHANGED <<printed, task_str>>
    BY DEF M_Tail, locals, OthersKept
  <2>2. QED
    BY <1>1, <2>1, DeliveredSame DEF TakenLabels, IInv
<1>5. AgingTask' = AgingTask
  BY <1>1, AgingAlone DEF M_Tail, locals, IInv, AgingLabels, Moving
<1>6. M_InTransit(m)'
  <2>1. M_InTransit(m) /\ Behind("priority")' = Behind("priority")
    BY <1>2 DEF InTransit, Behind, Extended, M_Tail, locals
  <2>2. QED
    BY <1>1, <2>1 DEF M_Tail, locals, M_InTransit
<1>7. InTransit'
  BY <1>1, <1>6, OnlyOneInTransit, ProcAssumption DEF IInv
<1>8. QED
  BY <1>3, <1>4, <1>5, <1>7 DEF Unmoved

\* It does when the counter is incremented, behind the other urgent tasks.
LEMMA M_IncrEffect ==
    ASSUME RingInv, NEW m \in Managers, M_Incr(m)
    PROVE  InTransit' /\ Appended(task_str[m])
<1> USE DEF RingInv
<1>1. /\ m \in Procs /\ Step(m, "m_incr", "m_monitor") /\ "m_incr" \in Critical
      /\ pc[m] = "m_incr" /\ pc'[m] = "m_monitor"
  BY DEF M_Incr, Step, Procs, Critical, IInv, Shape, PcShape
<1>2. Added("priority") /\ OthersSame("priority") /\ "priority" \in Class
  BY M_IncrRing DEF IInv, Shape, Class
<1>3. Behind("priority") = task_str[m]
  BY <1>1 DEF InTransit, M_InTransit
<1>4. /\ Contents("priority")' = Append(Contents("priority"), task_str[m])
      /\ \A q \in Class : q # "priority" => Contents(q)' = Contents(q)
  BY <1>2, <1>3, AfterAdded, AfterSame DEF OthersSame
<1>5. Delivered' = Delivered
  <2>1. OthersKept(m) /\ UNCHANGED <<printed, task_str>>
    BY DEF M_Incr, locals, OthersKept
  <2>2. QED
    BY <1>1, <2>1, DeliveredSame DEF TakenLabels, IInv
<1>6. /\ AgingTask = <<task_str[m]>>
      /\ AgingTask' = << >>
  BY <1>1, AgingAlone, ProcAssumption DEF IInv, AgingLabels, Moving
<1>7. InTransit'
  BY <1>1, OnlyOneInTransit, ProcAssumption DEF IInv, P_InTransit, C_InTransit, M_InTransit
<1>8. QED
  BY <1>4, <1>5, <1>6, <1>7 DEF Appended, Class

\* Every step keeps the rings together and what is in transit right.
LEMMA RingStep ==
    ASSUME RingInv, [Next]_vars
    PROVE  /\ Indices' /\ InTransit'
           /\ \/ Unmoved
              \/ \E p \in Producers : P_Count(p) /\ Placed(p)
              \/ \E c \in Consumers : Taken(c)
              \/ TakenOut
              \/ \E m \in Managers : Appended(task_str[m])
<1> DEFINE Kind(q) == \/ Same(q) \/ (\E t : Copied(q, t)) \/ Extended(q)
                      \/ Added(q) \/ Removed(q)
           Goal == /\ \A q \in Class : Kind(q)
                   /\ InTransit'
                   /\ \/ Unmoved
                      \/ \E p \in Producers : P_Count(p) /\ Placed(p)
                      \/ \E c \in Consumers : Taken(c)
                      \/ TakenOut
                      \/ \E m \in Managers : Appended(task_str[m])
<1>1. IInv /\ Indices /\ InTransit
  BY DEF RingInv
<1>2. ASSUME Quiet PROVE Goal
  BY <1>2, AfterSame DEF Quiet, Unmoved
<1>3. ASSUME NEW p \in Producers, P_Copy(p) PROVE Goal
  BY <1>1, <1>3, P_CopyRing, P_CopyEffect DEF OthersSame
<1>4. ASSUME NEW p \in Producers, P_Tail(p) PROVE Goal
  BY <1>1, <1>4, P_TailRing, P_TailEffect DEF OthersSame
<1>5. ASSUME NEW p \in Producers, P_Count(p) PROVE Goal
  BY <1>1, <1>5, P_CountRing, P_CountEffect DEF OthersSame
<1>6. ASSUME NEW c \in Consumers, C_Head(c) PROVE Goal
  BY <1>1, <1>6, C_HeadRing, C_HeadEffect DEF OthersSame
<1>7. ASSUME NEW m \in Managers, M_Head(m) PROVE Goal
  BY <1>1, <1>7, M_HeadRing, M_HeadEffect DEF OthersSame
<1>8. ASSUME NEW m \in Managers, M_Copy(m) PROVE Goal
  BY <1>1, <1>8, M_CopyRing, M_CopyEffect DEF OthersSame
<1>9. ASSUME NEW m \in Managers, M_Tail(m) PROVE Goal
  BY <1>1, <1>9, M_TailRing, M_TailEffect DEF OthersSame
<1>10. ASSUME NEW m \in Managers, M_Incr(m) PROVE Goal
  BY <1>1, <1>10, M_IncrRing, M_IncrEffect DEF OthersSame
<1>11. ASSUME NEW c \in Consumers, C_Count(c) PROVE Goal
  BY <1>1, <1>11, C_CountRing, C_CountEffect
<1>12. ASSUME NEW m \in Managers, M_Count(m) PROVE Goal
  BY <1>1, <1>12, M_CountRing, M_CountEffect
<1>13. ASSUME NEW c \in Consumers, C_Copy(c) PROVE Goal
  <2>1. /\ c \in Procs /\ Step(c, "c_copy", "c_head") /\ UNCHANGED shm
        /\ \A r \in Producers : r # c => cls'[r] = cls[r]
        /\ \A r \in Consumers : r # c => src'[r] = src[r]
    BY <1>1, <1>13 DEF C_Copy, Procs, IInv, Shape
  <2>2. \A q \in Class : Same(q)
    BY <1>1, <2>1, SameStep DEF IInv
  <2>3. QED
    BY <1>13, <2>2, C_CopyEffect
<1>14. ASSUME NEW m \in Managers, M_Age(m) PROVE Goal
  <2>1. /\ m \in Procs /\ Step(m, "m_test", "m_head") /\ UNCHANGED shm
        /\ \A r \in Producers : r # m => cls'[r] = cls[r]
        /\ \A r \in Consumers : r # m => src'[r] = src[r]
    BY <1>1, <1>14 DEF M_Age, Procs, IInv, Shape
  <2>2. \A q \in Class : Same(q)
    BY <1>1, <2>1, SameStep DEF IInv
  <2>3. QED
    BY <1>14, <2>2, M_AgeEffect
<1>15. Goal
  <2>1. CASE Loud
    BY <2>1, <1>3, <1>4, <1>5, <1>6, <1>7, <1>8, <1>9, <1>10, <1>11, <1>12, <1>13, <1>14
      DEF Loud
  <2>2. QED
    BY <1>1, <1>2, <2>1, QuietOrLoud DEF IInv
<1>16. Indices'
  BY <1>1, <1>15, IndicesAfter DEF Indices
<1>17. QED
  BY <1>15, <1>16

\* Nothing waits and nothing is under way at the start.
LEMMA RingInit == Init => RingInv
<1> SUFFICES ASSUME Init PROVE RingInv
  OBVIOUS
<1>1. IInv
  BY InitHolds
<1>2. ASSUME NEW q PROVE ~Removing(q) /\ ~Extending(q)
  BY ProcAssumption DEF Init, Removing, Extending, Procs
<1>3. Indices
  <2>1. ASSUME NEW q \in Class PROVE tail[q] = (head[q] + (Held(q) + Pending(q))) % K
    <3>1. Held(q) = 0 /\ Pending(q) = 0 /\ head[q] = 0 /\ tail[q] = 0
      BY <1>2 DEF Init, Held, Pending
    <3>2. 0 = (0 + 0) % K /\ 0 + 0 = 0
      BY KAssumption, IndexAfter
    <3>3. QED
      BY <3>1, <3>2
  <2>2. QED
    BY <2>1 DEF Indices
<1>4. InTransit
  BY ProcAssumption DEF Init, InTransit, P_InTransit, C_InTransit, M_InTransit, Procs
<1>5. QED
  BY <1>1, <1>3, <1>4 DEF RingInv

\* RingInv holds in every reachable state.
THEOREM RingInvHolds == Spec => []RingInv
<1>1. RingInv /\ [Next]_vars => Indices' /\ InTransit'
  BY RingStep
<1>2. IInv' /\ Indices' /\ InTransit' => RingInv'
  BY DEF RingInv
<1>3. QED
  BY RingInit, IInvHolds, <1>1, <1>2, PTL DEF Spec

\* NoOverwrite of TaskSystem.tla: producer.c and manager.c, which look at no
\* counter before they copy, never copy over a task that waits.
THEOREM NoOverwriteHolds == Spec => []NoOverwrite
<1>1. RingInv => NoOverwrite
  <2> SUFFICES ASSUME RingInv PROVE NoOverwrite
    OBVIOUS
  <2>1. IInv /\ Indices
    BY DEF RingInv
  <2>2. ASSUME NEW p \in Procs, pc[p] \in {"p_copy", "m_copy"}, NEW q \in Class
        PROVE  tail[q] \notin Waiting(q)
    <3>1. /\ \A r \in Procs : r # p => pc[r] \notin Critical
          /\ pc[p] \in Reserving \cup Moving
      BY <2>1, <2>2, Alone DEF IInv, Critical, Reserving, Moving
    <3>2. ~Removing(q) /\ ~Extending(q)
      BY <2>2, <3>1 DEF Removing, Extending, Critical, Procs
    <3>3. count[q] \in 0 .. K - 1 /\ head[q] \in 0 .. K - 1
      <4>1. count[q] < K /\ count[q] \in 0 .. K
        BY <2>1, <3>1, RoomLeft, HeldType
      <4>2. QED
        BY <2>1, <4>1, KAssumption DEF IInv, Shape
    <3>4. tail[q] = (head[q] + count[q]) % K
      <4>1. count[q] + 0 = count[q]
        BY <3>3, KAssumption
      <4>2. QED
        BY <2>1, <3>2, <4>1 DEF Indices, Held, Pending
    <3>5. ASSUME NEW j \in 0 .. count[q] - 1 PROVE (head[q] + j) % K # tail[q]
      <4>1. j \in 0 .. K - 1 /\ j # count[q]
        BY <3>3, KAssumption
      <4>2. QED
        BY <3>3, <3>4, <4>1, KAssumption, IndicesDiffer
    <3>6. QED
      BY <3>5 DEF Waiting
  <2>3. QED
    BY <2>1, <2>2 DEF NoOverwrite, Procs, Class, IInv, Shape
<1>2. QED
  BY RingInvHolds, <1>1, PTL

-----------------------------------------------------------------------------
(***************************************************************************)
(* TaskSystem implements TaskQueue, as long as no producer program is      *)
(* started a second time: a relaunched producer numbers its tasks from 0   *)
(* again, and TaskQueue tells tasks apart by producer and number.          *)
(***************************************************************************)

\* The tasks producers have put into a ring so far.
Past == {t \in Tasks : \/ t[2] < i[t[1]]
                       \/ t[2] = i[t[1]] /\ pc[t[1]] \in Announcing}

\* Only tasks that have been put in wait, are being aged or have been taken.
OnlyPast ==
    /\ \A q \in Class : Contents(q) \in Seq(Past)
    /\ AgingTask \in Seq(Past)
    /\ Delivered \subseteq Past

\* What has been put in once has been put in for good.
LEMMA PastGrows ==
    ASSUME Shape, [Next]_vars, Relaunch = FALSE
    PROVE  Past \subseteq Past'
<1>1. ASSUME NEW p \in Procs, NEW from, NEW to, Step(p, from, to), UNCHANGED i,
             p \in Producers /\ from \in Announcing => to \in Announcing
      PROVE  Past \subseteq Past'
  BY <1>1 DEF Step, Past, Shape, PcShape, Tasks, Procs
<1>2. ASSUME NEW p \in Producers, P_Create(p) PROVE Past \subseteq Past'
  <2>1. p \in Procs /\ Step(p, "p_create", "p_empty") /\ UNCHANGED i
    BY <1>2 DEF P_Create, locals, Procs
  <2>2. QED
    BY <1>1, <2>1, ProcAssumption DEF Announcing
<1>3. ASSUME NEW p \in Producers, P_Empty(p) PROVE Past \subseteq Past'
  <2>1. p \in Procs /\ Step(p, "p_empty", "p_lock") /\ UNCHANGED i
    BY <1>3 DEF P_Empty, locals, Procs
  <2>2. QED
    BY <1>1, <2>1, ProcAssumption DEF Announcing
<1>4. ASSUME NEW p \in Producers, P_Lock(p) PROVE Past \subseteq Past'
  <2>1. p \in Procs /\ Step(p, "p_lock", "p_copy") /\ UNCHANGED i
    BY <1>4 DEF P_Lock, locals, Procs
  <2>2. QED
    BY <1>1, <2>1, ProcAssumption DEF Announcing
<1>5. ASSUME NEW p \in Producers, P_Copy(p) PROVE Past \subseteq Past'
  <2>1. p \in Procs /\ Step(p, "p_copy", "p_tail") /\ UNCHANGED i
    BY <1>5 DEF P_Copy, locals, Procs
  <2>2. QED
    BY <1>1, <2>1, ProcAssumption DEF Announcing
<1>6. ASSUME NEW p \in Producers, P_Tail(p) PROVE Past \subseteq Past'
  <2>1. p \in Procs /\ Step(p, "p_tail", "p_count") /\ UNCHANGED i
    BY <1>6 DEF P_Tail, locals, Procs
  <2>2. QED
    BY <1>1, <2>1, ProcAssumption DEF Announcing
<1>7. ASSUME NEW p \in Producers, P_Count(p) PROVE Past \subseteq Past'
  <2>1. p \in Procs /\ Step(p, "p_count", "p_unlock") /\ UNCHANGED i
    BY <1>7 DEF P_Count, locals, Procs
  <2>2. QED
    BY <1>1, <2>1, ProcAssumption DEF Announcing
<1>8. ASSUME NEW p \in Producers, P_Unlock(p) PROVE Past \subseteq Past'
  <2>1. p \in Procs /\ Step(p, "p_unlock", "p_full") /\ UNCHANGED i
    BY <1>8 DEF P_Unlock, locals, Procs
  <2>2. QED
    BY <1>1, <2>1, ProcAssumption DEF Announcing
<1>9. ASSUME NEW p \in Producers, P_Full(p) PROVE Past \subseteq Past'
  <2>1. p \in Procs /\ pc[p] = "p_full" /\ \A r \in Procs : r # p => pc'[r] = pc[r]
    BY <1>9 DEF P_Full, Step, Shape, PcShape, Procs
  <2>2. i'[p] = i[p] + 1 /\ i[p] \in Nat /\ \A r \in Producers : r # p => i'[r] = i[r]
    BY <1>9, NAssumption DEF P_Full, Shape
  <2>3. ASSUME NEW t \in Past PROVE t \in Past'
    <3>1. t \in Tasks /\ t[1] \in Producers /\ t[2] \in Nat
      BY NAssumption DEF Past, Tasks
    <3>2. t[2] < i[t[1]] \/ (t[2] = i[t[1]] /\ pc[t[1]] \in Announcing)
      BY DEF Past
    <3>3. CASE t[1] = p
      BY <2>2, <3>1, <3>2, <3>3 DEF Past
    <3>4. CASE t[1] # p
      BY <2>1, <2>2, <3>1, <3>2, <3>4 DEF Past, Procs
    <3>5. QED
      BY <3>3, <3>4
  <2>4. QED
    BY <2>3
<1>10. ASSUME NEW p \in Producers, P_Exit(p) PROVE Past \subseteq Past'
  <2>1. p \in Procs /\ Step(p, "p_create", "p_done") /\ UNCHANGED i
    BY <1>10 DEF P_Exit, locals, Procs
  <2>2. QED
    BY <1>1, <2>1, ProcAssumption DEF Announcing
<1>11. ASSUME NEW c \in Consumers, C_Full(c) PROVE Past \subseteq Past'
  <2>1. c \in Procs /\ Step(c, "c_full", "c_lock") /\ UNCHANGED i
    BY <1>11 DEF C_Full, locals, Procs
  <2>2. QED
    BY <1>1, <2>1, ProcAssumption DEF Announcing
<1>12. ASSUME NEW c \in Consumers, C_Lock(c) PROVE Past \subseteq Past'
  <2>1. c \in Procs /\ Step(c, "c_lock", "c_copy") /\ UNCHANGED i
    BY <1>12 DEF C_Lock, locals, Procs
  <2>2. QED
    BY <1>1, <2>1, ProcAssumption DEF Announcing
<1>13. ASSUME NEW c \in Consumers, C_Copy(c) PROVE Past \subseteq Past'
  <2>1. c \in Procs /\ Step(c, "c_copy", "c_head") /\ UNCHANGED i
    BY <1>13 DEF C_Copy, locals, Procs
  <2>2. QED
    BY <1>1, <2>1, ProcAssumption DEF Announcing
<1>14. ASSUME NEW c \in Consumers, C_Head(c) PROVE Past \subseteq Past'
  <2>1. c \in Procs /\ Step(c, "c_head", "c_count") /\ UNCHANGED i
    BY <1>14 DEF C_Head, locals, Procs
  <2>2. QED
    BY <1>1, <2>1, ProcAssumption DEF Announcing
<1>15. ASSUME NEW c \in Consumers, C_Count(c) PROVE Past \subseteq Past'
  <2>1. c \in Procs /\ Step(c, "c_count", "c_unlock") /\ UNCHANGED i
    BY <1>15 DEF C_Count, locals, Procs
  <2>2. QED
    BY <1>1, <2>1, ProcAssumption DEF Announcing
<1>16. ASSUME NEW c \in Consumers, C_Unlock(c) PROVE Past \subseteq Past'
  <2>1. c \in Procs /\ Step(c, "c_unlock", "c_empty") /\ UNCHANGED i
    BY <1>16 DEF C_Unlock, locals, Procs
  <2>2. QED
    BY <1>1, <2>1, ProcAssumption DEF Announcing
<1>17. ASSUME NEW c \in Consumers, C_Empty(c) PROVE Past \subseteq Past'
  <2>1. c \in Procs /\ Step(c, "c_empty", "c_process") /\ UNCHANGED i
    BY <1>17 DEF C_Empty, locals, Procs
  <2>2. QED
    BY <1>1, <2>1, ProcAssumption DEF Announcing
<1>18. ASSUME NEW c \in Consumers, C_Process(c) PROVE Past \subseteq Past'
  <2>1. c \in Procs /\ Step(c, "c_process", "c_full") /\ UNCHANGED i
    BY <1>18 DEF C_Process, locals, Procs
  <2>2. QED
    BY <1>1, <2>1, ProcAssumption DEF Announcing
<1>19. ASSUME NEW m \in Managers, M_Lock(m) PROVE Past \subseteq Past'
  <2>1. m \in Procs /\ Step(m, "m_lock", "m_test") /\ UNCHANGED i
    BY <1>19 DEF M_Lock, locals, Procs
  <2>2. QED
    BY <1>1, <2>1, ProcAssumption DEF Announcing
<1>20. ASSUME NEW m \in Managers, M_Age(m) PROVE Past \subseteq Past'
  <2>1. m \in Procs /\ Step(m, "m_test", "m_head") /\ UNCHANGED i
    BY <1>20 DEF M_Age, locals, Procs
  <2>2. QED
    BY <1>1, <2>1, ProcAssumption DEF Announcing
<1>21. ASSUME NEW m \in Managers, M_NoAge(m) PROVE Past \subseteq Past'
  <2>1. m \in Procs /\ Step(m, "m_test", "m_monitor") /\ UNCHANGED i
    BY <1>21 DEF M_NoAge, locals, Procs
  <2>2. QED
    BY <1>1, <2>1, ProcAssumption DEF Announcing
<1>22. ASSUME NEW m \in Managers, M_Head(m) PROVE Past \subseteq Past'
  <2>1. m \in Procs /\ Step(m, "m_head", "m_count") /\ UNCHANGED i
    BY <1>22 DEF M_Head, locals, Procs
  <2>2. QED
    BY <1>1, <2>1, ProcAssumption DEF Announcing
<1>23. ASSUME NEW m \in Managers, M_Count(m) PROVE Past \subseteq Past'
  <2>1. m \in Procs /\ Step(m, "m_count", "m_copy") /\ UNCHANGED i
    BY <1>23 DEF M_Count, locals, Procs
  <2>2. QED
    BY <1>1, <2>1, ProcAssumption DEF Announcing
<1>24. ASSUME NEW m \in Managers, M_Copy(m) PROVE Past \subseteq Past'
  <2>1. m \in Procs /\ Step(m, "m_copy", "m_tail") /\ UNCHANGED i
    BY <1>24 DEF M_Copy, locals, Procs
  <2>2. QED
    BY <1>1, <2>1, ProcAssumption DEF Announcing
<1>25. ASSUME NEW m \in Managers, M_Tail(m) PROVE Past \subseteq Past'
  <2>1. m \in Procs /\ Step(m, "m_tail", "m_incr") /\ UNCHANGED i
    BY <1>25 DEF M_Tail, locals, Procs
  <2>2. QED
    BY <1>1, <2>1, ProcAssumption DEF Announcing
<1>26. ASSUME NEW m \in Managers, M_Incr(m) PROVE Past \subseteq Past'
  <2>1. m \in Procs /\ Step(m, "m_incr", "m_monitor") /\ UNCHANGED i
    BY <1>26 DEF M_Incr, locals, Procs
  <2>2. QED
    BY <1>1, <2>1, ProcAssumption DEF Announcing
<1>27. ASSUME NEW m \in Managers, M_Monitor(m) PROVE Past \subseteq Past'
  <2>1. m \in Procs /\ Step(m, "m_monitor", "m_unlock") /\ UNCHANGED i
    BY <1>27 DEF M_Monitor, locals, Procs
  <2>2. QED
    BY <1>1, <2>1, ProcAssumption DEF Announcing
<1>28. ASSUME NEW m \in Managers, M_Unlock(m) PROVE Past \subseteq Past'
  <2>1. m \in Procs /\ Step(m, "m_unlock", "m_lock") /\ UNCHANGED i
    BY <1>28 DEF M_Unlock, locals, Procs
  <2>2. QED
    BY <1>1, <2>1, ProcAssumption DEF Announcing
<1>29. ASSUME NEW p \in Procs, Kill(p) PROVE Past \subseteq Past'
  BY <1>29 DEF Kill, locals, Past
<1>30. CASE UNCHANGED vars
  BY <1>30 DEF vars, Past
<1>31. QED
  BY <1>2, <1>3, <1>4, <1>5, <1>6, <1>7, <1>8, <1>9, <1>10, <1>11, <1>12,
     <1>13, <1>14, <1>15, <1>16, <1>17, <1>18, <1>19, <1>20, <1>21, <1>22,
     <1>23, <1>24, <1>25, <1>26, <1>27, <1>28, <1>29, <1>30 DEF Next,
     Producer, Consumer, Manager, P_Relaunch

\* A producer puts in a task that it has not put in before.
LEMMA PutIsNew ==
    ASSUME Shape, NEW p \in Producers, P_Count(p)
    PROVE  <<p, i[p]>> \in Tasks /\ <<p, i[p]>> \in Past' /\ <<p, i[p]>> \notin Past
<1>1. pc[p] = "p_count" /\ pc'[p] = "p_unlock" /\ i' = i
  BY DEF P_Count, Step, locals, Shape, PcShape, Procs
<1>2. i[p] \in 0 .. N - 1
  <2>1. i[p] < N /\ i[p] \in 0 .. N
    BY <1>1 DEF Shape
  <2>2. QED
    BY <2>1, NAssumption
<1>3. <<p, i[p]>> \in Tasks
  BY <1>2 DEF Tasks
<1>4. QED
  BY <1>1, <1>2, <1>3, NAssumption DEF Past, Announcing

\* Every step keeps to tasks that have been put in.
LEMMA OnlyPastStep ==
    ASSUME RingInv, OnlyPast, [Next]_vars, Relaunch = FALSE
    PROVE  OnlyPast'
<1>1. Shape /\ Past \subseteq Past'
  BY PastGrows DEF RingInv, IInv
<1>2. /\ \A q \in Class : Contents(q) \in Seq(Past')
      /\ AgingTask \in Seq(Past') /\ Delivered \subseteq Past'
  BY <1>1, SeqInLarger DEF OnlyPast
<1>3. << >> \in Seq(Past')
  BY EmptySeq
<1>4. CASE Unmoved
  BY <1>2, <1>4 DEF Unmoved, OnlyPast
<1>5. ASSUME NEW p \in Producers, P_Count(p), Placed(p) PROVE OnlyPast'
  <2>1. <<p, i[p]>> \in Past' /\ cls[p] \in Class /\ cls' = cls
    BY <1>1, <1>5, PutIsNew DEF Shape, P_Count, locals
  <2>2. Append(Contents(cls[p]), <<p, i[p]>>) \in Seq(Past')
    BY <1>2, <2>1, AppendProperties
  <2>3. ASSUME NEW q \in Class PROVE Contents(q)' \in Seq(Past')
    <3>1. CASE q = cls[p]
      BY <1>5, <2>1, <2>2, <3>1 DEF Placed
    <3>2. CASE q # cls[p]
      BY <1>2, <1>5, <3>2 DEF Placed
    <3>3. QED
      BY <3>1, <3>2
  <2>4. QED
    BY <1>2, <1>3, <1>5, <2>3 DEF Placed, OnlyPast
<1>6. ASSUME NEW c \in Consumers, Taken(c) PROVE OnlyPast'
  <2>1. src[c] \in Class
    BY <1>1 DEF Shape
  <2>2. Tail(Contents(src[c])) \in Seq(Past') /\ Head(Contents(src[c])) \in Past'
    BY <1>2, <1>6, <2>1, HeadTailProperties DEF Taken
  <2>3. ASSUME NEW q \in Class PROVE Contents(q)' \in Seq(Past')
    BY <1>2, <1>6, <2>2 DEF Taken
  <2>4. QED
    BY <1>2, <1>3, <1>6, <2>2, <2>3 DEF Taken, OnlyPast
<1>7. CASE TakenOut
  <2>1. "normal" \in Class /\ "priority" \in Class /\ Class = {"normal", "priority"}
    BY DEF Class
  <2>2. Tail(Contents("normal")) \in Seq(Past') /\ Head(Contents("normal")) \in Past'
    BY <1>2, <1>7, <2>1, HeadTailProperties DEF TakenOut
  <2>3. <<Head(Contents("normal"))>> \in Seq(Past')
    BY <2>2
  <2>4. QED
    BY <1>2, <1>7, <2>1, <2>2, <2>3 DEF TakenOut, OnlyPast
<1>8. ASSUME NEW m \in Managers, Appended(task_str[m]) PROVE OnlyPast'
  <2>1. "normal" \in Class /\ "priority" \in Class /\ Class = {"normal", "priority"}
    BY DEF Class
  <2>2. task_str[m] \in Past'
    <3>1. <<task_str[m]>> \in Seq(Past')
      BY <1>2, <1>8 DEF Appended
    <3>2. QED
      BY <3>1
  <2>3. Append(Contents("priority"), task_str[m]) \in Seq(Past')
    BY <1>2, <2>1, <2>2, AppendProperties
  <2>4. QED
    BY <1>2, <1>3, <1>8, <2>1, <2>3 DEF Appended, OnlyPast
<1>9. QED
  BY <1>4, <1>5, <1>6, <1>7, <1>8, RingStep

\* Nothing waits, is being aged or has been taken at the start.
LEMMA EmptyAtFirst ==
    ASSUME Init
    PROVE  /\ \A q \in Class : Contents(q) = << >>
           /\ AgingTask = << >> /\ Delivered = {}
<1>1. Shape
  BY InitHolds DEF IInv
<1>2. ASSUME NEW q \in Class PROVE Contents(q) = << >>
  <2>1. ~Removing(q)
    BY ProcAssumption DEF Init, Removing, Procs
  <2>2. Held(q) = 0 /\ head[q] \in 0 .. K - 1
    BY <1>1, <2>1 DEF Init, Held, Shape
  <2>3. QED
    BY <1>1, <2>2, ContentsSegment, RingType, SegmentEmpty
<1>3. AgingTask = << >>
  BY ProcAssumption DEF Init, AgingTask, Aging, Moving, Procs
<1>4. Delivered = {}
  BY ProcAssumption DEF Init, Delivered, Procs
<1>5. QED
  BY <1>2, <1>3, <1>4

\* ImplementsTaskQueue of TaskSystem.tla: the two rings, the three semaphores
\* and every step of producer.c, consumer.c and manager.c in between are, seen
\* from outside, an atomic queue of two FIFO classes.
THEOREM TaskQueueImplemented ==
    ASSUME Relaunch = FALSE
    PROVE  Spec => ImplementsTaskQueue
<1> DEFINE pr == Contents("priority")
           no == Contents("normal")
<1>1. Init => TQ!Init
  <2> SUFFICES ASSUME Init PROVE TQ!Init
    OBVIOUS
  <2>1. pr = << >> /\ no = << >> /\ AgingTask = << >> /\ Delivered = {}
    BY EmptyAtFirst DEF Class
  <2>2. << >> \o << >> = << >>
    OBVIOUS
  <2>3. QED
    BY <2>1, <2>2 DEF TQ!Init
<1>2. Init => OnlyPast
  BY EmptyAtFirst, EmptySeq DEF OnlyPast
<1>3. RingInv /\ OnlyPast /\ [Next]_vars => OnlyPast'
  BY OnlyPastStep
<1>4. RingInv /\ OnlyPast /\ [Next]_vars => [TQ!Next]_(TQ!vars)
  <2> SUFFICES ASSUME RingInv, OnlyPast, [Next]_vars PROVE [TQ!Next]_(TQ!vars)
    OBVIOUS
  <2>1. /\ Shape /\ Class = {"priority", "normal"}
        /\ pr \in Seq(Past) /\ no \in Seq(Past) /\ Delivered \subseteq Past
    BY DEF RingInv, IInv, Class, OnlyPast
  <2>2. ASSUME NEW S, NEW s \in Seq(S) PROVE s \o << >> = s
    BY <2>2, ConcatEmptySeq
  <2>3. CASE Unmoved
    BY <2>1, <2>3 DEF Unmoved, TQ!vars
  <2>4. ASSUME NEW p \in Producers, P_Count(p), Placed(p) PROVE TQ!Next
    <3> DEFINE t == <<p, i[p]>>
    <3>1. cls[p] \in Class /\ cls' = cls /\ t \in Tasks /\ t \notin Past
      BY <2>1, <2>4, PutIsNew DEF Shape, P_Count, locals
    <3>2. pr \o AgingTask = pr /\ AgingTask = << >> /\ AgingTask' = << >>
      BY <2>1, <2>2, <2>4 DEF Placed
    <3>3. (\A j \in DOMAIN pr : pr[j] \in Past) /\ (\A j \in DOMAIN no : no[j] \in Past)
      BY <2>1, ElementOfSeq, LenProperties
    <3>4. t \notin TQ!Elements(pr) \cup TQ!Elements(no) \cup Delivered
      BY <2>1, <3>1, <3>3 DEF TQ!Elements
    <3>5. Len(pr) + Len(no) < K
      <4>1. Len(pr) = Held("priority") /\ Len(no) = Held("normal")
        BY <2>1, ContentsSegment, RingType, HeldType, SegmentType DEF RingInv
      <4>2. p \in Procs /\ pc[p] \in Reserving /\ Step(p, "p_count", "p_unlock")
        BY <2>4 DEF P_Count, Step, Reserving, Procs
      <4>3. Num(Reserving) >= 1
        BY <4>2, ProcsFinite, AtLeastOne DEF Num
      <4>4. count["priority"] \in 0 .. K /\ count["normal"] \in 0 .. K
        BY <2>1, HeldType DEF RingInv
      <4>5. count["priority"] + count["normal"] < K
        <5>1. empty \in Nat /\ empty + Num(Reserving) + Num(Freeing) + total + Num(Moving) = K
          BY DEF RingInv, IInv, Shape, Accounting
        <5>2. total = count["priority"] + count["normal"]
          BY DEF total
        <5>3. QED
          BY <4>3, <4>4, <5>1, <5>2, NumsType, KAssumption
      <4>6. Held("priority") <= count["priority"] /\ Held("normal") <= count["normal"]
        BY <4>4, KAssumption DEF Held
      <4>7. Held("priority") \in 0 .. K /\ Held("normal") \in 0 .. K
        BY <2>1, HeldType DEF RingInv
      <4>8. QED
        BY <4>1, <4>4, <4>5, <4>6, <4>7, KAssumption
    <3>6. CASE cls[p] = "priority"
      <4>1. pr' = Append(pr, t) /\ no' = no /\ Delivered' = Delivered
        BY <2>1, <2>4, <3>1, <3>6 DEF Placed
      <4>2. pr' \o AgingTask' = Append(pr, t)
        <5>1. Append(pr, t) \in Seq(Past \cup {t})
          BY <2>1, SeqInLarger, AppendProperties
        <5>2. QED
          BY <2>2, <3>2, <4>1, <5>1
      <4>3. TQ!Put(t)
        BY <3>2, <3>4, <3>5, <4>1, <4>2 DEF TQ!Put
      <4>4. QED
        BY <3>1, <4>3 DEF TQ!Next
    <3>7. CASE cls[p] = "normal"
      <4>1. no' = Append(no, t) /\ pr' = pr /\ Delivered' = Delivered
        BY <2>1, <2>4, <3>1, <3>7 DEF Placed
      <4>2. TQ!Put(t)
        BY <3>2, <3>4, <3>5, <4>1 DEF TQ!Put
      <4>3. QED
        BY <3>1, <4>2 DEF TQ!Next
    <3>8. QED
      BY <2>1, <3>1, <3>6, <3>7
  <2>5. ASSUME NEW c \in Consumers, Taken(c) PROVE TQ!Next
    <3>1. pr \o AgingTask = pr /\ AgingTask = << >> /\ AgingTask' = << >>
      BY <2>1, <2>2, <2>5 DEF Taken
    <3>2. CASE src[c] = "priority"
      <4>1. /\ pr # << >> /\ pr' = Tail(pr) /\ no' = no
            /\ Delivered' = Delivered \cup {Head(pr)}
        BY <2>1, <2>5, <3>2 DEF Taken
      <4>2. pr' \o AgingTask' = Tail(pr)
        <5>1. Tail(pr) \in Seq(Past)
          BY <2>1, <4>1, HeadTailProperties
        <5>2. QED
          BY <2>2, <3>1, <4>1, <5>1
      <4>3. QED
        BY <3>1, <4>1, <4>2 DEF TQ!Next, TQ!Get
    <3>3. CASE src[c] = "normal"
      <4>1. /\ pr = << >> /\ no # << >> /\ no' = Tail(no) /\ pr' = pr
            /\ Delivered' = Delivered \cup {Head(no)}
        BY <2>1, <2>5, <3>3 DEF Taken
      <4>2. QED
        BY <3>1, <4>1 DEF TQ!Next, TQ!Get
    <3>4. QED
      BY <2>1, <3>2, <3>3 DEF Shape
  <2>6. CASE TakenOut
    <3>1. /\ no # << >> /\ no' = Tail(no) /\ pr' = pr /\ Delivered' = Delivered
          /\ AgingTask = << >> /\ AgingTask' = <<Head(no)>>
      BY <2>6 DEF TakenOut
    <3>2. pr \o AgingTask = pr
      BY <2>1, <2>2, <3>1
    <3>3. Head(no) \in Past
      BY <2>1, <3>1, HeadTailProperties
    <3>4. pr' \o AgingTask' = Append(pr, Head(no))
      BY <2>1, <3>1, <3>3, AppendIsConcat
    <3>5. TQ!Age
      BY <3>1, <3>2, <3>4 DEF TQ!Age
    <3>6. QED
      BY <3>5 DEF TQ!Next
  <2>7. ASSUME NEW m \in Managers, Appended(task_str[m]) PROVE UNCHANGED TQ!vars
    <3> DEFINE t == task_str[m]
    <3>1. /\ pr' = Append(pr, t) /\ no' = no /\ Delivered' = Delivered
          /\ AgingTask = <<t>> /\ AgingTask' = << >>
      BY <2>7 DEF Appended
    <3>2. t \in Past
      <4>1. <<t>> \in Seq(Past)
        BY <3>1 DEF OnlyPast
      <4>2. QED
        BY <4>1
    <3>3. pr \o AgingTask = Append(pr, t)
      BY <2>1, <3>1, <3>2, AppendIsConcat
    <3>4. pr' \o AgingTask' = Append(pr, t)
      <4>1. Append(pr, t) \in Seq(Past)
        BY <2>1, <3>2, AppendProperties
      <4>2. QED
        BY <2>2, <3>1, <4>1
    <3>5. QED
      BY <3>1, <3>3, <3>4 DEF TQ!vars
  <2>8. QED
    BY <2>3, <2>4, <2>5, <2>6, <2>7, RingStep
<1>5. QED
  BY <1>1, <1>2, <1>3, <1>4, RingInvHolds, PTL DEF Spec, ImplementsTaskQueue, TQ!Spec
=============================================================================
