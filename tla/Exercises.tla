----------------------------- MODULE Exercises -----------------------------
(***************************************************************************)
(* The short programs of labs 1 to 3 as a user meets them at the shell:    *)
(* whichever is launched has the machine to itself.  They share nothing,   *)
(* so the states are those of each program beside the others at rest.      *)
(***************************************************************************)
EXTENDS Naturals

CONSTANTS MaxProcs, MaxN, Lines,   \* lab 1: bounds of ForkTree
          MaxK,                    \* lab 3, exercise 1: bound of PipeIntegrator
          Clients, MaxStarts       \* lab 3, exercise 2: of FifoService

ASSUME ExercisesAssumption ==
    /\ MaxProcs \in Nat /\ MaxN \in Nat /\ Lines \in Nat
    /\ MaxProcs > MaxN   \* fork finds room in the process table at least once
    /\ MaxK \in Nat \ {0} /\ MaxStarts \in Nat /\ {"server", "none"} \cap Clients = {}

VARIABLES exercise, n, procs, global, file, holder, output                         \* ForkTree
VARIABLES mode, variant, parent, child, i, disposition, masked, pending,
          received_mode, usr2, ended, handled, missed                              \* SignalChild
VARIABLES tiny, k, idx, where, kid, read_ends, write_ends, full, total_sum, wrote  \* PipeIntegrator
VARIABLES path, readers, writers, data, fd, blocked, pc, starts, request, answer,
          endless, alone, disturbed, sigpiped                                      \* FifoService

Tree == INSTANCE ForkTree
Signals == INSTANCE SignalChild
Pipes == INSTANCE PipeIntegrator
Fifos == INSTANCE FifoService

Init == Tree!Init /\ Signals!Init /\ Pipes!Init /\ Fifos!Init

tree == <<exercise, n, procs, global, file, holder, output>>
signals == <<mode, variant, parent, child, i, disposition, masked, pending, received_mode, usr2,
             ended, handled, missed>>
pipes == <<tiny, k, idx, where, kid, read_ends, write_ends, full, total_sum, wrote>>
fifos == <<path, readers, writers, data, fd, blocked, pc, starts, request, answer, endless, alone,
           disturbed, sigpiped>>

RunTree    == Tree!Next    /\ UNCHANGED <<signals, pipes, fifos>>
RunSignals == Signals!Next /\ UNCHANGED <<tree, pipes, fifos>>
RunPipes   == Pipes!Next   /\ UNCHANGED <<tree, signals, fifos>>
RunFifos   == Fifos!Next   /\ UNCHANGED <<tree, signals, pipes>>

\* A program is at rest in its initial state only.
Next ==
    \/ Signals!Init /\ Pipes!Init /\ Fifos!Init /\ RunTree
    \/ Tree!Init /\ Pipes!Init /\ Fifos!Init /\ RunSignals
    \/ Tree!Init /\ Signals!Init /\ Fifos!Init /\ RunPipes
    \/ Tree!Init /\ Signals!Init /\ Pipes!Init /\ RunFifos

vars == <<tree, signals, pipes, fifos>>
Fairness == Tree!Fairness /\ Signals!Fairness /\ Pipes!Fairness /\ Fifos!Fairness
Spec == Init /\ [][Next]_vars /\ Fairness

----------------------------------------------------------------------------
\* Lab 1: no zombie and no orphan when a process ends, however many children
\* a failed execl has made it father (zad1/main.c:42-46, zad2/main.c:31).
NoneLeftBehind == Tree!NoneLeftBehind

\* Lab 1: vfork and flock keep the lines of each child together, and only
\* vfork shares the global (zad1/main_vfork.c, zad3/child.c).
LinesTogether == Tree!LinesTogether

\* Lab 1: the whole tree ends, whatever forks and execs fail (zad2/main.c:31-41).
TreeEnds == Tree!TreeEnds

\* Lab 2: a process ends where and as its mode says (zad2/child.c:36-62).
OutcomeFollowsMode == Signals!OutcomeFollowsMode

\* Lab 2: parent and child end unless SIGUSR2 falls between the test of
\* received_mode and pause (zad2/child.c:30-31, zad2/main.c:33-42).
ProgramEnds == Signals!ProgramEnds

\* Lab 3, exercise 1: each round adds up the parts that were written and
\* leaves nothing behind (zad1/main.c:111-125).
RoundAddsUp == Pipes!RoundAddsUp

\* Lab 3, exercise 1: the parent never blocks for ever and its children end
\* with or without it (zad1/main.c:101-124).
EverybodyEnds == Pipes!EverybodyEnds

\* Lab 3, exercise 2: a client alone reads its own answer, and the server is
\* killed or leaves a FIFO behind only if disturbed (zad2/program2.c:94-97).
OwnAnswer == Fifos!OwnAnswer

\* Lab 3, exercise 2: such a client is answered, and the server listens again
\* after every request (zad2/program2.c:68-107).
AnswersAndReturns == Fifos!AnswersAndReturns
============================================================================
