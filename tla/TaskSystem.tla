----------------------------- MODULE TaskSystem -----------------------------
(***************************************************************************)
(* Lab 5, exercises 2 and 3: producers, consumers and aging managers       *)
(* sharing two ring buffers in POSIX shared memory under three named       *)
(* semaphores.  Exercise 2 is the instance with Managers = {}.             *)
(*                                                                         *)
(* Each assignment to shared memory and each semaphore call is a step of   *)
(* its own.  A label names the statement the process executes next.        *)
(***************************************************************************)
EXTENDS Integers, Sequences, FiniteSets, Counting, Ring

CONSTANTS K,           \* common.h: total capacity of the system (10)
          N,           \* tasks one producer creates (15)
          Producers, Consumers, Managers,   \* process identities
          Killable,    \* processes a user may end with SIGINT or SIGTERM
          Relaunch,    \* a finished producer may be started again
          NoTask       \* content of a slot of zeroed shared memory

ASSUME KAssumption == K \in Nat \ {0}
ASSUME NAssumption == N \in Nat \ {0}
ASSUME ProcAssumption ==
    /\ IsFiniteSet(Producers) /\ IsFiniteSet(Consumers) /\ IsFiniteSet(Managers)
    /\ Producers \cap Consumers = {} /\ Producers \cap Managers = {}
    /\ Consumers \cap Managers = {}
    /\ Killable \subseteq Producers \cup Consumers \cup Managers
ASSUME RelaunchAssumption == Relaunch \in BOOLEAN

Procs == Producers \cup Consumers \cup Managers
Class == {"priority", "normal"}
Tasks == Producers \X (0 .. N - 1)
ASSUME NoTaskAssumption == NoTask \notin Tasks

VARIABLES
    mutex, empty, full,           \* the named semaphores
    slot, head, tail, count,      \* SharedMemory, one ring per class
    pc,                           \* the statement each process is at
    i, cls,                       \* a producer's loop counter, is_priority
    task_str, src,                \* a consumer's task_str and queue_source;
                                  \* task_str is aging_task for a manager
    printed,                      \* tasks whose text a consumer has put out
    dead                          \* processes ended by a signal

shm == <<slot, head, tail, count>>
sems == <<mutex, empty, full>>
locals == <<i, cls, task_str, src>>
vars == <<mutex, empty, full, slot, head, tail, count, pc, i, cls, task_str,
          src, printed, dead>>

Init ==
    /\ mutex = 1 /\ empty = K /\ full = 0
    /\ slot = [q \in Class |-> [s \in 0 .. K - 1 |-> NoTask]]
    /\ head = [q \in Class |-> 0]
    /\ tail = [q \in Class |-> 0]
    /\ count = [q \in Class |-> 0]
    /\ pc = [p \in Procs |-> IF p \in Producers THEN "p_create"
                             ELSE IF p \in Consumers THEN "c_full" ELSE "m_lock"]
    /\ i = [p \in Producers |-> 0]
    /\ cls = [p \in Producers |-> "normal"]
    /\ task_str = [c \in Consumers \cup Managers |-> NoTask]
    /\ src = [c \in Consumers |-> "normal"]
    /\ printed = {}
    /\ dead = {}

(***************************************************************************)
(* A step of a live process from one label to the next.                    *)
(***************************************************************************)
Step(p, from, to) ==
    /\ p \notin dead /\ pc[p] = from
    /\ pc' = [pc EXCEPT ![p] = to]
    /\ dead' = dead

MutexWait == mutex > 0 /\ mutex' = mutex - 1 /\ UNCHANGED <<empty, full>>
MutexPost == mutex' = mutex + 1 /\ UNCHANGED <<empty, full>>
\* Mutant: a sem_trywait(empty) whose failure is ignored.
EmptyTryWait == empty' = (IF empty > 0 THEN empty - 1 ELSE 0) /\ UNCHANGED <<mutex, full>>
EmptyWait == empty > 0 /\ empty' = empty - 1 /\ UNCHANGED <<mutex, full>>
EmptyPost == empty' = empty + 1 /\ UNCHANGED <<mutex, full>>
FullWait == full > 0 /\ full' = full - 1 /\ UNCHANGED <<mutex, empty>>
FullPost == full' = full + 1 /\ UNCHANGED <<mutex, empty>>

CopyIn(q, t) == slot' = [slot EXCEPT ![q][tail[q]] = t] /\ UNCHANGED <<head, tail, count>>
AdvanceHead(q) == head' = [head EXCEPT ![q] = (@ + 1) % K] /\ UNCHANGED <<slot, tail, count>>
AdvanceTail(q) == tail' = [tail EXCEPT ![q] = (@ + 1) % K] /\ UNCHANGED <<slot, head, count>>
Incr(q) == count' = [count EXCEPT ![q] = @ + 1] /\ UNCHANGED <<slot, head, tail>>
Decr(q) == count' = [count EXCEPT ![q] = @ - 1] /\ UNCHANGED <<slot, head, tail>>

(***************************************************************************)
(* Producer.  Its task is the pair of its identity and loop counter.       *)
(***************************************************************************)
P_Create(p) ==
    /\ Step(p, "p_create", "p_empty") /\ i[p] < N
    /\ \E q \in Class : cls' = [cls EXCEPT ![p] = q]
    /\ UNCHANGED <<sems, shm, i, task_str, src, printed>>

P_Empty(p) ==
    /\ Step(p, "p_empty", "p_lock") /\ EmptyWait
    /\ UNCHANGED <<shm, locals, printed>>

P_Lock(p) ==
    /\ Step(p, "p_lock", "p_copy") /\ MutexWait
    /\ UNCHANGED <<shm, locals, printed>>

P_Copy(p) ==
    /\ Step(p, "p_copy", "p_tail") /\ CopyIn(cls[p], <<p, i[p]>>)
    /\ UNCHANGED <<sems, locals, printed>>

P_Tail(p) ==
    /\ Step(p, "p_tail", "p_count") /\ AdvanceTail(cls[p])
    /\ UNCHANGED <<sems, locals, printed>>

P_Count(p) ==
    /\ Step(p, "p_count", "p_unlock") /\ Incr(cls[p])
    /\ UNCHANGED <<sems, locals, printed>>

P_Unlock(p) ==
    /\ Step(p, "p_unlock", "p_full") /\ MutexPost
    /\ UNCHANGED <<shm, locals, printed>>

\* sem_post(full), the sleep and the loop's i++.
P_Full(p) ==
    /\ Step(p, "p_full", "p_create") /\ FullPost
    /\ i' = [i EXCEPT ![p] = @ + 1]
    /\ UNCHANGED <<shm, cls, task_str, src, printed>>

P_Exit(p) ==
    /\ Step(p, "p_create", "p_done") /\ i[p] = N
    /\ UNCHANGED <<sems, shm, locals, printed>>

\* A new run of the producer program (test_tmux.sh leaves this to the user).
P_Relaunch(p) ==
    /\ Relaunch /\ Step(p, "p_done", "p_create")
    /\ i' = [i EXCEPT ![p] = 0]
    /\ UNCHANGED <<sems, shm, cls, task_str, src, printed>>

(***************************************************************************)
(* Consumer.                                                               *)
(***************************************************************************)
C_Full(c) ==
    /\ Step(c, "c_full", "c_lock") /\ FullWait
    /\ UNCHANGED <<shm, locals, printed>>

C_Lock(c) ==
    /\ Step(c, "c_lock", "c_copy") /\ MutexWait
    /\ UNCHANGED <<shm, locals, printed>>

\* Mutant: the branches are swapped.
QueueSourceSwapped == IF count["normal"] > 0 THEN "normal" ELSE "priority"

\* The branch: PRIORITY first, otherwise "it must be in normal".
QueueSource == IF count["priority"] > 0 THEN "priority" ELSE "normal"

C_Copy(c) ==
    /\ Step(c, "c_copy", "c_head")
    /\ src' = [src EXCEPT ![c] = QueueSource]
    /\ task_str' = [task_str EXCEPT ![c] = slot[QueueSource][head[QueueSource]]]
    /\ UNCHANGED <<sems, shm, i, cls, printed>>

C_Head(c) ==
    /\ Step(c, "c_head", "c_count") /\ AdvanceHead(src[c])
    /\ UNCHANGED <<sems, locals, printed>>

C_Count(c) ==
    /\ Step(c, "c_count", "c_unlock") /\ Decr(src[c])
    /\ UNCHANGED <<sems, locals, printed>>

C_Unlock(c) ==
    /\ Step(c, "c_unlock", "c_empty") /\ MutexPost
    /\ UNCHANGED <<shm, locals, printed>>

\* Mutant: the consumer posts full instead of empty.
C_EmptyPostsFull(c) ==
    /\ Step(c, "c_empty", "c_process") /\ FullPost
    /\ UNCHANGED <<shm, locals, printed>>

\* Mutant: the consumer's sem_post(empty) is missing.
C_EmptyMissing(c) ==
    /\ Step(c, "c_empty", "c_process")
    /\ UNCHANGED <<sems, shm, locals, printed>>

C_Empty(c) ==
    /\ Step(c, "c_empty", "c_process") /\ EmptyPost
    /\ UNCHANGED <<shm, locals, printed>>

\* The task is put out outside the critical section.
C_Process(c) ==
    /\ Step(c, "c_process", "c_full")
    /\ printed' = printed \cup {task_str[c]}
    /\ UNCHANGED <<sems, shm, locals>>

(***************************************************************************)
(* Manager: aging, then monitoring, under the mutex alone.                 *)
(***************************************************************************)
\* Mutant: the manager does not wait for the mutex.
M_LockMissing(m) ==
    /\ Step(m, "m_lock", "m_test")
    /\ UNCHANGED <<sems, shm, locals, printed>>

M_Lock(m) ==
    /\ Step(m, "m_lock", "m_test") /\ MutexWait
    /\ UNCHANGED <<shm, locals, printed>>

\* Mutant: off by one in the aging test.
CanAgeOffByOne == count["normal"] > 1

CanAge == count["normal"] > 0

M_Age(m) ==
    /\ Step(m, "m_test", "m_head") /\ CanAge
    /\ task_str' = [task_str EXCEPT ![m] = slot["normal"][head["normal"]]]
    /\ UNCHANGED <<sems, shm, i, cls, src, printed>>

M_NoAge(m) ==
    /\ Step(m, "m_test", "m_monitor") /\ ~CanAge
    /\ UNCHANGED <<sems, shm, locals, printed>>

M_Head(m) ==
    /\ Step(m, "m_head", "m_count") /\ AdvanceHead("normal")
    /\ UNCHANGED <<sems, locals, printed>>

M_Count(m) ==
    /\ Step(m, "m_count", "m_copy") /\ Decr("normal")
    /\ UNCHANGED <<sems, locals, printed>>

M_Copy(m) ==
    /\ Step(m, "m_copy", "m_tail") /\ CopyIn("priority", task_str[m])
    /\ UNCHANGED <<sems, locals, printed>>

M_Tail(m) ==
    /\ Step(m, "m_tail", "m_incr") /\ AdvanceTail("priority")
    /\ UNCHANGED <<sems, locals, printed>>

\* Mutant: priority_count++ is missing.
M_IncrMissing(m) ==
    /\ Step(m, "m_incr", "m_monitor")
    /\ UNCHANGED <<sems, shm, locals, printed>>

M_Incr(m) ==
    /\ Step(m, "m_incr", "m_monitor") /\ Incr("priority")
    /\ UNCHANGED <<sems, locals, printed>>

\* sem_getvalue of both semaphores and the report, which change nothing.
M_Monitor(m) ==
    /\ Step(m, "m_monitor", "m_unlock")
    /\ UNCHANGED <<sems, shm, locals, printed>>

\* Mutant: the manager announces the task it moved a second time.
M_UnlockPostsFull(m) ==
    /\ Step(m, "m_unlock", "m_lock")
    /\ mutex' = mutex + 1 /\ full' = full + 1 /\ empty' = empty
    /\ UNCHANGED <<shm, locals, printed>>

\* sem_post(mutex) and the next round's sleep(5).
M_Unlock(m) ==
    /\ Step(m, "m_unlock", "m_lock") /\ MutexPost
    /\ UNCHANGED <<shm, locals, printed>>

\* Mutant: the handler gives back a mutex its process holds.
KillReleasesMutex(p) ==
    /\ p \in Killable \ dead /\ pc[p] # "p_done"
    /\ dead' = dead \cup {p}
    /\ mutex' = IF mutex = 0 THEN 1 ELSE mutex
    /\ UNCHANGED <<empty, full, shm, pc, locals, printed>>

(***************************************************************************)
(* SIGINT or SIGTERM at any statement: cleanup_handler closes descriptors  *)
(* and exits (a producer has no handler and just ends).  Nothing is posted *)
(* and shared memory is left as it is.                                     *)
(***************************************************************************)
Kill(p) ==
    /\ p \in Killable \ dead /\ pc[p] # "p_done"
    /\ dead' = dead \cup {p}
    /\ UNCHANGED <<sems, shm, pc, locals, printed>>

Producer(p) ==
    \/ P_Create(p) \/ P_Empty(p) \/ P_Lock(p) \/ P_Copy(p) \/ P_Tail(p)
    \/ P_Count(p) \/ P_Unlock(p) \/ P_Full(p) \/ P_Exit(p)
Consumer(c) ==
    \/ C_Full(c) \/ C_Lock(c) \/ C_Copy(c) \/ C_Head(c)
    \/ C_Count(c) \/ C_Unlock(c) \/ C_Empty(c) \/ C_Process(c)
Manager(m) ==
    \/ M_Lock(m) \/ M_Age(m) \/ M_NoAge(m) \/ M_Head(m) \/ M_Count(m)
    \/ M_Copy(m) \/ M_Tail(m) \/ M_Incr(m) \/ M_Monitor(m) \/ M_Unlock(m)

Next ==
    \/ \E p \in Producers : Producer(p)
    \/ \E c \in Consumers : Consumer(c)
    \/ \E m \in Managers : Manager(m)
    \/ \E p \in Producers : P_Relaunch(p)
    \/ \E p \in Procs : Kill(p)

Spec == Init /\ [][Next]_vars

(***************************************************************************)
(* The kernel runs every runnable process; a process waiting on a          *)
(* semaphore that is posted again and again is eventually let through.     *)
(***************************************************************************)
Fairness ==
    /\ \A p \in Producers : /\ WF_vars(Producer(p))
                            /\ SF_vars(P_Empty(p)) /\ SF_vars(P_Lock(p))
    /\ \A c \in Consumers : /\ WF_vars(Consumer(c))
                            /\ SF_vars(C_Full(c)) /\ SF_vars(C_Lock(c))
    /\ \A m \in Managers : WF_vars(Manager(m)) /\ SF_vars(M_Lock(m))

FairSpec == Spec /\ Fairness

-----------------------------------------------------------------------------
(***************************************************************************)
(* Properties.                                                             *)
(***************************************************************************)
P_Labels == {"p_create", "p_empty", "p_lock", "p_copy", "p_tail", "p_count",
             "p_unlock", "p_full", "p_done"}
C_Labels == {"c_full", "c_lock", "c_copy", "c_head", "c_count", "c_unlock",
             "c_empty", "c_process"}
M_Labels == {"m_lock", "m_test", "m_head", "m_count", "m_copy", "m_tail",
             "m_incr", "m_monitor", "m_unlock"}

Num(S) == NumAt(pc, Procs, S)

\* Every variable has the type its declaration gives it; in particular no
\* semaphore and no counter leaves 0..K, whatever the interleaving.
TypeOK ==
    /\ mutex \in {0, 1} /\ empty \in 0 .. K /\ full \in 0 .. K
    /\ slot \in [Class -> [0 .. K - 1 -> Tasks \cup {NoTask}]]
    /\ head \in [Class -> 0 .. K - 1] /\ tail \in [Class -> 0 .. K - 1]
    /\ count \in [Class -> 0 .. K]
    /\ pc \in [Procs -> P_Labels \cup C_Labels \cup M_Labels]
    /\ \A p \in Producers : pc[p] \in P_Labels
    /\ \A c \in Consumers : pc[c] \in C_Labels
    /\ \A m \in Managers : pc[m] \in M_Labels
    /\ i \in [Producers -> 0 .. N] /\ cls \in [Producers -> Class]
    /\ task_str \in [Consumers \cup Managers -> Tasks \cup {NoTask}]
    /\ src \in [Consumers -> Class]
    /\ printed \subseteq Tasks \cup {NoTask}
    /\ dead \subseteq Killable

\* Between sem_wait(mutex) and sem_post(mutex).
Critical == {"p_copy", "p_tail", "p_count", "p_unlock",
             "c_copy", "c_head", "c_count", "c_unlock",
             "m_test", "m_head", "m_count", "m_copy", "m_tail", "m_incr",
             "m_monitor", "m_unlock"}

\* At most one process, dead ones included, is between sem_wait(mutex) and
\* sem_post(mutex).
MutualExclusion ==
    \A p, q \in Procs : pc[p] \in Critical /\ pc[q] \in Critical => p = q

total == count["priority"] + count["normal"]

\* A producer owns a slot it has not announced, a consumer a task it has not
\* removed, and so on: who holds the difference between the semaphores and
\* the counters.
Reserving == {"p_lock", "p_copy", "p_tail", "p_count"}
Announcing == {"p_unlock", "p_full"}
Claiming == {"c_lock", "c_copy", "c_head", "c_count"}
Freeing == {"c_unlock", "c_empty"}
Moving == {"m_copy", "m_tail", "m_incr"}

\* The semaphores agree with the two counters once the operations in flight
\* are accounted for: full counts the tasks, empty the free slots, and aging
\* changes neither ("we are not changing the total number of tasks").
Accounting ==
    /\ total + Num(Moving) = full + Num(Claiming) + Num(Announcing)
    /\ empty + Num(Reserving) + Num(Freeing) + total + Num(Moving) = K

\* A consumer past sem_wait(full) always finds a task: the else branch of
\* consumer.c relies on it ("it must be in normal").
ConsumerFindsTask ==
    \A c \in Consumers : pc[c] = "c_copy" => count[QueueSource] > 0

Waiting(q) == {(head[q] + j) % K : j \in 0 .. count[q] - 1}

\* Neither a producer nor the manager ever copies a task over one that waits.
NoOverwrite ==
    /\ \A p \in Producers : pc[p] = "p_copy" => tail[cls[p]] \notin Waiting(cls[p])
    /\ \A m \in Managers : pc[m] = "m_copy" => tail["priority"] \notin Waiting("priority")

(***************************************************************************)
(* Implementation of TaskQueue.  Put takes effect when the counter is      *)
(* incremented, Get and Age when the head moves on; a task being aged      *)
(* counts as the last PRIORITY task until the manager has appended it.     *)
(***************************************************************************)
Removing(q) == \/ \E c \in Consumers : pc[c] = "c_count" /\ src[c] = q
               \/ q = "normal" /\ \E m \in Managers : pc[m] = "m_count"
Contents(q) ==
    Segment(slot[q], K, head[q], IF Removing(q) THEN count[q] - 1 ELSE count[q])
Aging == {m \in Managers : pc[m] \in {"m_count"} \cup Moving}
AgingTask == IF Aging = {} THEN <<>> ELSE <<task_str[CHOOSE m \in Aging : TRUE]>>
Delivered == printed \cup {task_str[c] : c \in
    {d \in Consumers : pc[d] \in {"c_count", "c_unlock", "c_empty", "c_process"}}}

TQ == INSTANCE TaskQueue WITH priority <- Contents("priority") \o AgingTask,
                              normal <- Contents("normal"),
                              delivered <- Delivered

\* The two rings, three semaphores and all the steps in between behave as the
\* atomic two-class FIFO queue of TaskQueue: no task is lost, duplicated,
\* overwritten or taken out of order.
ImplementsTaskQueue == TQ!Spec

\* A producer that waits for a free slot gets one and puts its task in, as long
\* as producers, consumers and managers live ("strict semaphore acquisition
\* ordering is enforced to prevent circular wait conditions").
ProducerGetsThrough == \A p \in Producers : pc[p] = "p_empty" ~> pc[p] = "p_full"

\* The oldest task of either class does not wait forever, however many
\* PRIORITY tasks the producers keep creating (manager.c's anti-starvation).
NoStarvation ==
    \A q \in Class, h \in 0 .. K - 1 :
        (Contents(q) # <<>> /\ head[q] = h) ~> (head[q] # h)
=============================================================================
