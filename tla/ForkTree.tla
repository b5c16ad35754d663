------------------------------ MODULE ForkTree ------------------------------
(***************************************************************************)
(* Lab 1: a parent makes N children and waits N times.  The children run   *)
(* in a copy of its memory (fork) or in its memory (vfork), are replaced   *)
(* by another program (exec), or append to a file under flock after an rm  *)
(* has removed the old one (flock).  fork and exec may fail: the code goes *)
(* on past either.  The process table is the only bound on the tree.       *)
(***************************************************************************)
EXTENDS Integers, Sequences, FiniteSets

CONSTANTS MaxProcs,   \* bound: processes in all
          MaxN,       \* bound: children asked for
          Lines       \* lines each child writes (M)

Pids == 1..MaxProcs
Root == 1

VARIABLES exercise, n,  \* the program and its argument
          procs,        \* where each process is, and its local variables
          global,       \* zmiennaGlobalna of the root
          file,         \* does output.txt exist
          holder,       \* who holds the lock on it, 0 for nobody
          output        \* who wrote each line, in the order of the lines

args == <<exercise, n>>
store == <<global, file, holder, output>>
vars == <<args, procs, store>>

Process(pc, parent, i) == [pc |-> pc, parent |-> parent, i |-> i, waits |-> 0, lines |-> 0, status |-> 0]

Init ==
    /\ exercise = "none" /\ n = 0 /\ procs = [p \in Pids |-> Process("free", 0, 0)]
    /\ global = 1 /\ file = FALSE /\ holder = 0 /\ output = << >>

At(p, pc) == procs[p].pc = pc
Goto(p, pc) == procs' = [procs EXCEPT ![p].pc = pc]
Free == {p \in Pids : At(p, "free")}
ChildrenOf(p) == {c \in Pids : procs[c].parent = p /\ ~At(c, "reaped")}

\* The end of p: a zombie until its parent waits; a vfork parent goes on.
Exit(p, code) ==
    procs' = [q \in Pids |->
        IF q = p THEN [procs[p] EXCEPT !.pc = "zombie", !.status = code]
        ELSE IF q = procs[p].parent /\ At(q, "suspended") THEN [procs[q] EXCEPT !.pc = "loop"]
        ELSE procs[q]]

\* A number that is not one is reported and taken as 0.
Launch ==
    /\ exercise = "none"
    /\ exercise' \in {"fork", "vfork", "exec", "flock"} /\ n' \in 0..MaxN
    /\ procs' = [procs EXCEPT ![Root].pc = IF exercise' = "flock" THEN "remove" ELSE "loop"]
    /\ file' \in (IF exercise' = "flock" THEN BOOLEAN ELSE {FALSE})
    /\ UNCHANGED <<global, holder, output>>

(***************************************************************************)
(* Exercise 3: the remover.  A status that nothing has written holds       *)
(* anything, so the test of it may go either way.                          *)
(***************************************************************************)
StatusUnset(p) == Goto(p, "loop") \/ Exit(p, 1)

ForkRemover(p) ==
    /\ At(p, "remove")
    /\ \/ procs' = [procs EXCEPT ![p].pc = "await", ![Root + 1] = Process("rm", p, 0)]
       \/ StatusUnset(p)
    /\ UNCHANGED <<args, store>>

\* execlp: rm ends with 1 when there is nothing to remove; when it cannot be
\* executed the remover goes on as a second parent.
Remove(p) ==
    /\ At(p, "rm")
    /\ \/ Exit(p, IF file THEN 0 ELSE 1) /\ file' = FALSE
       \/ StatusUnset(p) /\ UNCHANGED file
    /\ UNCHANGED <<args, global, holder, output>>

AwaitRemover(p) ==
    /\ At(p, "await")
    /\ \E c \in ChildrenOf(p) :
        /\ At(c, "zombie")
        /\ procs' = [procs EXCEPT ![c].pc = "reaped",
                                  ![p].pc = IF procs[c].status = 0 THEN "loop" ELSE "error"]
    /\ UNCHANGED <<args, store>>

Refuse(p) == At(p, "error") /\ Exit(p, 1) /\ UNCHANGED <<args, store>>

(***************************************************************************)
(* The loops of main, run by the root and by whoever has failed to exec.   *)
(***************************************************************************)
\* Mutant: vfork does not suspend the parent.
NeverSuspended == "loop"

ParentAfterFork == IF exercise = "vfork" THEN "suspended" ELSE "loop"

Fork(p) ==
    /\ At(p, "loop") /\ procs[p].i < n
    /\ LET first == IF exercise \in {"fork", "vfork"} THEN "start" ELSE "exec" IN
       \/ \E c \in Free :
            /\ \A f \in Free : c <= f
            /\ procs' = [procs EXCEPT ![p].i = @ + 1, ![p].pc = ParentAfterFork,
                                      ![c] = Process(first, p, procs[p].i)]
       \/ procs' = [procs EXCEPT ![p].i = @ + 1]
    /\ UNCHANGED <<args, store>>

Waiting(p) == At(p, "loop") /\ procs[p].i >= n /\ procs[p].waits < n

\* Mutant: only a wait that has reaped a child counts.
WaitForChild(p) ==
    /\ Waiting(p)
    /\ \E c \in ChildrenOf(p) :
        At(c, "zombie") /\ procs' = [procs EXCEPT ![p].waits = @ + 1, ![c].pc = "reaped"]
    /\ UNCHANGED <<args, store>>

\* wait(NULL): any child that has ended; at once when there are no children.
Wait(p) ==
    /\ Waiting(p)
    /\ \/ \E c \in ChildrenOf(p) :
            At(c, "zombie") /\ procs' = [procs EXCEPT ![p].waits = @ + 1, ![c].pc = "reaped"]
       \/ ChildrenOf(p) = {} /\ procs' = [procs EXCEPT ![p].waits = @ + 1]
    /\ UNCHANGED <<args, store>>

\* Mutant: one wait short.
ReturnEarly(p) ==
    /\ At(p, "loop") /\ procs[p].i >= n /\ procs[p].waits >= n - 1
    /\ Exit(p, 0)
    /\ UNCHANGED <<args, store>>

Return(p) ==
    /\ At(p, "loop") /\ procs[p].i >= n /\ procs[p].waits >= n
    /\ Exit(p, 0)
    /\ UNCHANGED <<args, store>>

(***************************************************************************)
(* The children.                                                           *)
(***************************************************************************)
\* zmiennaGlobalna++, in the memory of the root only under vfork.
Increment(p) ==
    /\ At(p, "start") /\ Goto(p, "line")
    /\ global' = IF exercise = "vfork" THEN global + 1 ELSE global
    /\ UNCHANGED <<args, file, holder, output>>

\* execl; on failure the child goes on as a parent with the rest of the loop.
Exec(p) ==
    /\ At(p, "exec")
    /\ \/ Goto(p, IF exercise = "flock" THEN "open" ELSE "line")
       \/ procs' = [procs EXCEPT ![p].pc = "loop", ![p].i = @ + 1]
    /\ UNCHANGED <<args, store>>

Open(p) ==
    /\ At(p, "open") /\ Goto(p, "lock")
    /\ file' = TRUE
    /\ UNCHANGED <<args, global, holder, output>>

\* Mutant: the lock is not taken.
LockMissing(p) == At(p, "lock") /\ Goto(p, "line") /\ UNCHANGED <<args, store>>

Lock(p) ==
    /\ At(p, "lock") /\ Goto(p, "line")
    /\ holder = 0 /\ holder' = p
    /\ UNCHANGED <<args, global, file, output>>

\* fopen or flock reports an error.
GiveUp(p) == procs[p].pc \in {"open", "lock"} /\ Exit(p, 1) /\ UNCHANGED <<args, store>>

WriteLine(p) ==
    /\ At(p, "line") /\ procs[p].lines < Lines
    /\ procs' = [procs EXCEPT ![p].lines = @ + 1]
    /\ output' = Append(output, p)
    /\ UNCHANGED <<args, global, file, holder>>

\* The lock, if any, is released before the process ends or as it closes the file.
EndChild(p) ==
    /\ At(p, "line") /\ procs[p].lines = Lines
    /\ Exit(p, 0)
    /\ holder' = IF holder = p THEN 0 ELSE holder
    /\ UNCHANGED <<args, global, file, output>>

Main(p) == ForkRemover(p) \/ Remove(p) \/ AwaitRemover(p) \/ Refuse(p) \/ Fork(p) \/ Wait(p) \/ Return(p)
Child(p) == Increment(p) \/ Exec(p) \/ Open(p) \/ Lock(p) \/ WriteLine(p) \/ EndChild(p)
Next == Launch \/ \E p \in Pids : Main(p) \/ Child(p) \/ GiveUp(p)

\* As long as some process can go on, one does: nothing is repeated for ever,
\* so that it need not be said which.  Nothing need ever fail in flock.
Progress == exercise # "none" /\ \E p \in Pids : Main(p) \/ Child(p)
Fairness == WF_vars(Progress)
Spec == Init /\ [][Next]_vars /\ Fairness

----------------------------------------------------------------------------
\* Every variable has its declared type.
TypeOK ==
    /\ exercise \in {"none", "fork", "vfork", "exec", "flock"} /\ n \in 0..MaxN
    /\ procs \in [Pids -> [pc : {"free", "remove", "rm", "await", "error", "loop", "suspended", "start",
                                "exec", "open", "lock", "line", "zombie", "reaped"},
                          parent : Pids \cup {0}, i : 0..MaxN, waits : 0..MaxN,
                          lines : 0..Lines, status : {0, 1}]]
    /\ global \in 1..MaxProcs /\ file \in BOOLEAN /\ holder \in Pids \cup {0}
    /\ output \in Seq(Pids)

\* Whoever has ended, an intruder that failed to exec included, has reaped
\* all its children first: N waits are enough however many it made, and no
\* zombie and no orphan is left (zad1/main.c:42-46).
NoneLeftBehind ==
    /\ TypeOK
    /\ \A p, c \in Pids :
        procs[p].pc \in {"zombie", "reaped"} /\ procs[c].parent = p => At(c, "reaped")

\* The lines of a child stand together when the parent is suspended (vfork)
\* and when the file is locked (flock), two trees included; and the vfork
\* children have incremented the global of the parent, one each.
LinesTogether ==
    /\ exercise \in {"vfork", "flock"} =>
        \A a, b \in DOMAIN output : a < b /\ output[a] = output[b] => output[a + 1] = output[a]
    /\ At(Root, "zombie") => global = IF exercise = "vfork" THEN Cardinality(Pids \ Free) ELSE 1

\* A program that is launched ends, and its whole tree with it, although
\* forks fail, execs fail and wait may find no child.
TreeEnds ==
    (exercise # "none") ~> (At(Root, "zombie") /\ \A p \in Pids \ {Root} : procs[p].pc \in {"free", "reaped"})
============================================================================
