--------------------------- MODULE BoundedBuffer ---------------------------
(***************************************************************************)
(* Lab 5, exercise 1: one ring buffer of K tasks without a counter; what   *)
(* waits in it is known only from the semaphores.                          *)
(***************************************************************************)
EXTENDS Integers, Sequences, FiniteSets, Counting, Ring

CONSTANTS K,           \* buffer size (5)
          N,           \* tasks one producer creates (10)
          Producers, Consumers,
          Killable,    \* processes a user may end with SIGINT or SIGTERM
          NoTask       \* content of a slot of zeroed shared memory

ASSUME KAssumption == K \in Nat \ {0}
ASSUME NAssumption == N \in Nat \ {0}
ASSUME ProcAssumption ==
    /\ IsFiniteSet(Producers) /\ IsFiniteSet(Consumers)
    /\ Producers \cap Consumers = {}
    /\ Killable \subseteq Producers \cup Consumers

Procs == Producers \cup Consumers
Tasks == Producers \X (0 .. N - 1)

VARIABLES mutex, empty, full,   \* the named semaphores
          buffer, head, tail,   \* SharedMemory
          pc, i,                \* statement of a process, loop counter
          task_str,             \* a consumer's copy
          printed,              \* tasks whose text a consumer has put out
          dead                  \* processes ended by a signal

sems == <<mutex, empty, full>>
shm == <<buffer, head, tail>>
vars == <<mutex, empty, full, buffer, head, tail, pc, i, task_str, printed, dead>>

Init ==
    /\ mutex = 1 /\ empty = K /\ full = 0
    /\ buffer = [s \in 0 .. K - 1 |-> NoTask] /\ head = 0 /\ tail = 0
    /\ pc = [p \in Procs |-> IF p \in Producers THEN "p_empty" ELSE "c_full"]
    /\ i = [p \in Producers |-> 0]
    /\ task_str = [c \in Consumers |-> NoTask]
    /\ printed = {} /\ dead = {}

Step(p, from, to) ==
    /\ p \notin dead /\ pc[p] = from
    /\ pc' = [pc EXCEPT ![p] = to]
    /\ dead' = dead

MutexWait == mutex > 0 /\ mutex' = mutex - 1 /\ UNCHANGED <<empty, full>>
MutexPost == mutex' = mutex + 1 /\ UNCHANGED <<empty, full>>

(***************************************************************************)
(* Producer: for (i = 0; i < N; i++).                                      *)
(***************************************************************************)
P_Empty(p) ==
    /\ Step(p, "p_empty", "p_lock") /\ i[p] < N
    /\ empty > 0 /\ empty' = empty - 1
    /\ UNCHANGED <<mutex, full, shm, i, task_str, printed>>

\* Mutant: sem_post(full) before the task is in the buffer.
P_LockPostsFull(p) ==
    /\ Step(p, "p_lock", "p_copy")
    /\ mutex > 0 /\ mutex' = mutex - 1 /\ full' = full + 1 /\ empty' = empty
    /\ UNCHANGED <<shm, i, task_str, printed>>

P_Lock(p) ==
    /\ Step(p, "p_lock", "p_copy") /\ MutexWait
    /\ UNCHANGED <<shm, i, task_str, printed>>

P_Copy(p) ==
    /\ Step(p, "p_copy", "p_tail")
    /\ buffer' = [buffer EXCEPT ![tail] = <<p, i[p]>>]
    /\ UNCHANGED <<sems, head, tail, i, task_str, printed>>

P_Tail(p) ==
    /\ Step(p, "p_tail", "p_unlock") /\ tail' = (tail + 1) % K
    /\ UNCHANGED <<sems, buffer, head, i, task_str, printed>>

P_Unlock(p) ==
    /\ Step(p, "p_unlock", "p_full") /\ MutexPost
    /\ UNCHANGED <<shm, i, task_str, printed>>

P_Full(p) ==
    /\ Step(p, "p_full", "p_empty") /\ full' = full + 1
    /\ i' = [i EXCEPT ![p] = @ + 1]
    /\ UNCHANGED <<mutex, empty, shm, task_str, printed>>

P_Exit(p) ==
    /\ Step(p, "p_empty", "p_done") /\ i[p] = N
    /\ UNCHANGED <<sems, shm, i, task_str, printed>>

(***************************************************************************)
(* Consumer.                                                               *)
(***************************************************************************)
C_Full(c) ==
    /\ Step(c, "c_full", "c_lock") /\ full > 0 /\ full' = full - 1
    /\ UNCHANGED <<mutex, empty, shm, i, task_str, printed>>

\* Mutant: no mutex around the removal.
C_LockMissing(c) ==
    /\ Step(c, "c_lock", "c_copy")
    /\ UNCHANGED <<sems, shm, i, task_str, printed>>

C_Lock(c) ==
    /\ Step(c, "c_lock", "c_copy") /\ MutexWait
    /\ UNCHANGED <<shm, i, task_str, printed>>

C_Copy(c) ==
    /\ Step(c, "c_copy", "c_head")
    /\ task_str' = [task_str EXCEPT ![c] = buffer[head]]
    /\ UNCHANGED <<sems, shm, i, printed>>

C_Head(c) ==
    /\ Step(c, "c_head", "c_unlock") /\ head' = (head + 1) % K
    /\ UNCHANGED <<sems, buffer, tail, i, task_str, printed>>

C_Unlock(c) ==
    /\ Step(c, "c_unlock", "c_empty") /\ MutexPost
    /\ UNCHANGED <<shm, i, task_str, printed>>

\* Mutant: the freed slot is announced only while some producer waits.
C_EmptyIfWaiting(c) ==
    /\ Step(c, "c_empty", "c_process")
    /\ empty' = IF \E p \in Producers : pc[p] = "p_empty" THEN empty + 1 ELSE empty
    /\ UNCHANGED <<mutex, full, shm, i, task_str, printed>>

\* Mutant: the consumer's sem_post(empty) is missing.
C_EmptyMissing(c) ==
    /\ Step(c, "c_empty", "c_process")
    /\ UNCHANGED <<sems, shm, i, task_str, printed>>

C_Empty(c) ==
    /\ Step(c, "c_empty", "c_process") /\ empty' = empty + 1
    /\ UNCHANGED <<mutex, full, shm, i, task_str, printed>>

C_Process(c) ==
    /\ Step(c, "c_process", "c_full")
    /\ printed' = printed \cup {task_str[c]}
    /\ UNCHANGED <<sems, shm, i, task_str>>

\* SIGINT or SIGTERM at any statement: nothing is posted.
Kill(p) ==
    /\ p \in Killable \ dead /\ pc[p] # "p_done"
    /\ dead' = dead \cup {p}
    /\ UNCHANGED <<sems, shm, pc, i, task_str, printed>>

Producer(p) == \/ P_Empty(p) \/ P_Lock(p) \/ P_Copy(p) \/ P_Tail(p)
               \/ P_Unlock(p) \/ P_Full(p) \/ P_Exit(p)
Consumer(c) == \/ C_Full(c) \/ C_Lock(c) \/ C_Copy(c) \/ C_Head(c)
               \/ C_Unlock(c) \/ C_Empty(c) \/ C_Process(c)

Next == \/ \E p \in Producers : Producer(p)
        \/ \E c \in Consumers : Consumer(c)
        \/ \E p \in Procs : Kill(p)

Spec == Init /\ [][Next]_vars

Fairness ==
    /\ \A p \in Producers : /\ WF_vars(Producer(p))
                            /\ SF_vars(P_Empty(p)) /\ SF_vars(P_Lock(p))
    /\ \A c \in Consumers : /\ WF_vars(Consumer(c))
                            /\ SF_vars(C_Full(c)) /\ SF_vars(C_Lock(c))

FairSpec == Spec /\ Fairness

-----------------------------------------------------------------------------
Num(S) == NumAt(pc, Procs, S)

\* Every variable has its declared type; the indices stay inside the buffer.
TypeOK ==
    /\ mutex \in {0, 1} /\ empty \in 0 .. K /\ full \in 0 .. K
    /\ buffer \in [0 .. K - 1 -> Tasks \cup {NoTask}]
    /\ head \in 0 .. K - 1 /\ tail \in 0 .. K - 1
    /\ i \in [Producers -> 0 .. N]
    /\ task_str \in [Consumers -> Tasks \cup {NoTask}]
    /\ printed \subseteq Tasks

\* Tasks in the buffer: announced, about to be announced, or claimed by a
\* consumer that has not moved the head yet.
Length == full + Num({"p_unlock", "p_full"}) + Num({"c_lock", "c_copy", "c_head"})

\* The semaphores alone keep head, tail and length of the ring together, and
\* every slot is free, reserved, used or about to be freed.
RingConsistent ==
    /\ TypeOK
    /\ tail = (head + Length) % K
    /\ empty + Num({"p_lock", "p_copy", "p_tail"}) + Length
         + Num({"c_unlock", "c_empty"}) = K

Delivered == printed \cup {task_str[c] : c \in
    {d \in Consumers : pc[d] \in {"c_unlock", "c_empty", "c_process"}}}

TQ == INSTANCE TaskQueue WITH
          priority <- <<>>,
          normal <- Segment(buffer, K, head, Length),
          delivered <- Delivered

\* The buffer behaves as an atomic FIFO queue of K tasks: none is lost,
\* duplicated, overwritten or taken out of order, killed processes or not.
ImplementsTaskQueue == TQ!Spec

\* No process waits in a cycle: while none is killed, every task is eventually
\* put out ("strict semaphore acquisition ordering is enforced to prevent
\* circular wait conditions").
AllPrinted == [](dead = {}) => <>[](printed = Tasks)
=============================================================================
