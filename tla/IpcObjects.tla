----------------------------- MODULE IpcObjects -----------------------------
(***************************************************************************)
(* Lab 5, across starts: shared memory and three semaphores behind four    *)
(* names, each opened, or created if it is not there, one after the other  *)
(* by whoever starts; processes that end, are killed anywhere and start    *)
(* again; and the cleaner, which removes the names while others may hold   *)
(* the objects.  The buffer is reduced to the number of tasks in it.       *)
(***************************************************************************)
EXTENDS Integers, FiniteSets

CONSTANTS Producers, Consumers,
          K,            \* capacity
          MaxClean,     \* bound: runs of the cleaner
          MaxKill       \* bound: processes killed

Procs == Producers \cup Consumers
Names == {"shm", "mutex", "empty", "full"}
Numbers == 1..(Cardinality(Procs) + 1)   \* of objects that exist under one name

VARIABLES path,     \* name -> the object behind it, 0 for none
          value,    \* name, object -> the tasks in the memory, the semaphore's value
          hold,     \* process -> name -> the object it has open
          pc, cleaner, cleans, kills,
          mixed,    \* history: processes that were opening while the cleaner ran
          spoiled   \* history: objects a process was killed or mixed with

objects == <<path, value>>
bounds == <<cleans, kills>>
vars == <<objects, hold, pc, cleaner, bounds, mixed, spoiled>>

Nothing == [n \in Names |-> 0]
Opening == {"shm", "mutex", "empty", "full"}   \* pc: the name to open next
Users(o) == {p \in Procs : hold[p] = o /\ pc[p] \notin Opening}
Objects(p) == {o \in Names \X Numbers : hold[p][o[1]] = o[2]}

HalfOpen == {p \in Procs : pc[p] \in Opening /\ hold[p] # Nothing}

\* An object is gone once nobody holds it and no name leads to it; its number
\* is used again.
Referenced(n, g) == path[n] = g \/ \E p \in Procs : hold[p][n] = g

Free(v, s) ==
    /\ value' = [n \in Names |-> [g \in Numbers |-> IF Referenced(n, g)' THEN v[n][g] ELSE 0]]
    /\ spoiled' = {o \in s : Referenced(o[1], o[2])'}

Init ==
    /\ path = Nothing /\ value = [n \in Names |-> [g \in Numbers |-> 0]]
    /\ hold = [p \in Procs |-> Nothing] /\ pc = [p \in Procs |-> "off"]
    /\ cleaner = "idle" /\ cleans = 0 /\ kills = 0 /\ mixed = {} /\ spoiled = {}

Goto(p, from, to) == pc[p] = from /\ pc' = [pc EXCEPT ![p] = to]
After == [shm |-> "mutex", mutex |-> "empty", empty |-> "full", full |-> "token"]
Initially == [shm |-> 0, mutex |-> 1, empty |-> K, full |-> 0]

(***************************************************************************)
(* Start: O_CREAT gives the object its initial value only if it makes it;  *)
(* ftruncate leaves the contents of an older one as they are.              *)
(***************************************************************************)
Start(p) ==
    /\ Goto(p, "off", "shm")
    /\ UNCHANGED <<objects, hold, cleaner, bounds, mixed, spoiled>>

Open(p, name) ==
    /\ Goto(p, name, After[name])
    /\ IF path[name] # 0 THEN UNCHANGED objects
       ELSE \E g \in Numbers :
            /\ ~Referenced(name, g) /\ \A h \in 1..(g - 1) : Referenced(name, h)
            /\ path' = [path EXCEPT ![name] = g]
            /\ value' = [value EXCEPT ![name][g] = Initially[name]]
    /\ hold' = [hold EXCEPT ![p][name] = path'[name]]
    /\ mixed' = IF cleaner \in {"idle", "shm"} THEN mixed ELSE mixed \cup {p}
    /\ spoiled' = IF p \in mixed' THEN spoiled \cup Objects(p)' ELSE spoiled
    /\ UNCHANGED <<cleaner, bounds>>

(***************************************************************************)
(* One round: a token, the mutex, the buffer, the mutex, the other token.  *)
(***************************************************************************)
Add(p, name, d) == value' = [value EXCEPT ![name][hold[p][name]] = @ + d]
SemWait(p, name) == value[name][hold[p][name]] > 0 /\ Add(p, name, -1)
Round == UNCHANGED <<path, hold, cleaner, bounds, mixed, spoiled>>

\* The bound: processes that share some objects and not all would move the
\* counters apart for ever; they stop once one is out of its range.
InRange(p) == \A n \in Names : value[n][hold[p][n]] \in 0..K

Take(p) ==
    /\ Goto(p, "token", "lock") /\ InRange(p)
    /\ SemWait(p, IF p \in Producers THEN "empty" ELSE "full") /\ Round

Lock(p) == Goto(p, "lock", "buffer") /\ SemWait(p, "mutex") /\ Round
Buffer(p) == Goto(p, "buffer", "unlock") /\ Add(p, "shm", IF p \in Producers THEN 1 ELSE -1) /\ Round
Unlock(p) == Goto(p, "unlock", "give") /\ Add(p, "mutex", 1) /\ Round
Give(p) == Goto(p, "give", "token") /\ Add(p, IF p \in Producers THEN "full" ELSE "empty", 1) /\ Round

Leave(p) ==
    /\ hold' = [hold EXCEPT ![p] = Nothing] /\ pc' = [pc EXCEPT ![p] = "off"]
    /\ mixed' = mixed \ {p}

\* Mutant: who ends removes the names.
ExitUnlinks(p) ==
    /\ pc[p] = "token" /\ Leave(p) /\ path' = Nothing
    /\ Free(value, spoiled)
    /\ UNCHANGED <<cleaner, bounds>>

\* A producer is done, or a signal finds a process between two rounds.
Exit(p) ==
    /\ pc[p] = "token" /\ Leave(p)
    /\ UNCHANGED <<path, cleaner, bounds>>
    /\ Free(value, spoiled)

\* A signal anywhere else: cleanup_handler, which posts nothing; in a round
\* the objects are left as they are.
Kill(p) ==
    /\ kills < MaxKill /\ kills' = kills + 1
    /\ pc[p] \notin {"off", "token"} /\ Leave(p)
    /\ UNCHANGED <<path, cleaner, cleans>>
    /\ Free(value, IF pc[p] \in Opening THEN spoiled ELSE spoiled \cup Objects(p))

(***************************************************************************)
(* The cleaner: four unlinks.                                              *)
(***************************************************************************)
CleanerStart ==
    /\ cleaner = "idle" /\ cleaner' = "shm" /\ cleans < MaxClean /\ cleans' = cleans + 1
    /\ UNCHANGED <<objects, hold, pc, kills, mixed, spoiled>>

\* Mutant: one name is forgotten.
AllButFull(name) == IF name = "full" THEN path ELSE [path EXCEPT ![name] = 0]

Removed(name) == [path EXCEPT ![name] = 0]

Unlink(name) ==
    /\ cleaner = name /\ cleaner' = IF name = "full" THEN "idle" ELSE After[name]
    /\ path' = Removed(name) /\ UNCHANGED <<hold, pc, bounds>>
    /\ mixed' = mixed \cup HalfOpen
    /\ Free(value, spoiled \cup UNION {Objects(p) : p \in HalfOpen})

Process(p) ==
    \/ \E name \in Names : Open(p, name)
    \/ Take(p) \/ Lock(p) \/ Buffer(p) \/ Unlock(p) \/ Give(p)

Next ==
    \/ \E p \in Procs : Start(p) \/ Process(p) \/ Exit(p) \/ Kill(p)
    \/ CleanerStart \/ \E name \in Names : Unlink(name)

Spec == Init /\ [][Next]_vars

----------------------------------------------------------------------------
\* Every variable has its declared type.
TypeOK ==
    /\ path \in [Names -> Numbers \cup {0}]
    /\ value \in [Names -> [Numbers -> Int]]
    /\ hold \in [Procs -> [Names -> Numbers \cup {0}]]
    /\ pc \in [Procs -> Opening \cup {"off", "token", "lock", "buffer", "unlock", "give"}]
    /\ cleaner \in Names \cup {"idle"} /\ cleans \in 0..MaxClean /\ kills \in 0..MaxKill
    /\ mixed \subseteq Procs /\ spoiled \subseteq Names \X Numbers

Running == {p \in Procs : pc[p] \notin Opening \cup {"off"}}

\* Two processes that did not open while the cleaner ran share all four
\* objects or none of them, whoever created which and whoever has ended since:
\* nobody works on one buffer under two mutexes (producer.c:99-101).
AllOrNone ==
    /\ TypeOK
    /\ \A p, q \in Running \ mixed :
        (\E n \in Names : hold[p][n] = hold[q][n]) => hold[p] = hold[q]

\* What four objects say together, counting the rounds under way.
Balanced(o) ==
    LET At(S, places) == Cardinality({p \in Users(o) \cap S : pc[p] \in places})
        V(n) == value[n][o[n]] IN
    /\ V("mutex") + At(Procs, {"buffer", "unlock"}) = 1
    /\ V("shm") = V("full") + At(Producers, {"unlock", "give"}) + At(Consumers, {"lock", "buffer"})
    /\ V("empty") + V("full") + At(Procs, {"lock", "buffer", "unlock", "give"}) = K

\* The objects a process runs on, and the ones the next start will find, are
\* in balance, over any history of ends, starts and cleanings, unless a
\* process was killed inside a round on one of them or opened it while the
\* cleaner ran: in particular a signal during the opens does no harm, and a
\* cleaning repairs what a kill has spoiled (consumer.c:12-23, cleaner.c).
StartsFindBalance ==
    \A o \in {hold[p] : p \in Running} \cup {path} :
        (\A n \in Names : o[n] # 0 /\ <<n, o[n]>> \notin spoiled) => Balanced(o)
============================================================================
