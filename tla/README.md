# Verification of the SysOp programs

This directory holds TLA+ models of the programs of the repository (the
exercises of an operating-systems course: Lab 1 to Lab 7), the TLC instances
that check them, and TLAPS proofs about every program modelled. The programs are
small and almost all of them are about several processes or threads that share
something: a ring in shared memory, a condition variable, a queue, a socket.
That is what the models keep, at the grain of one access to shared state or one
blocking call. Message texts, timestamps, file contents and formatting are
abstracted to identities.

Run a check with `tlc -workers 2 -config X.cfg M`, a proof with `tlapm M.tla`.
`PROJECT.json` lists the runs, the source lines each definition stands for, a
mutant of the code that breaks each property, and the hazards the properties
are aimed at.

## 1. Inventory

| Part | State | Operations | Interacts by | Hard behaviour | Correct when | Module |
|---|---|---|---|---|---|---|
| Lab 5 exercises 2 and 3 (task system) | two rings, their counters, semaphores `mutex`, `empty`, `full` | produce, consume, age, monitor | POSIX shared memory and named semaphores | interleaving, processes ended by a signal anywhere, starvation, two classes under one capacity | a two-class FIFO queue, no token lost, NORMAL tasks get out | `TaskSystem` |
| Lab 5 exercise 1 (bounded buffer) | one ring without counter, three semaphores | produce, consume | the same | the same | a FIFO queue | `BoundedBuffer` |
| Lab 5 set-up and cleaner | four names and the objects behind them, what each process has open | open or create, unlink, end, kill, restart | file system | left-over semaphores, two generations of objects, a cleaner that runs while processes open | processes share all objects or none; a start finds them in balance | `IpcObjects` |
| Lab 6 frame buffer | ring, mutex, condition variable | push (drops the oldest), pop (waits) | threads; `is_running` read without the lock | lost, stolen and spurious wake-ups, shutdown | an overwriting FIFO queue; nobody sleeps beside a frame | `FrameBuffer` |
| Lab 6 levels 2 and 3 (stereo pipeline) | four frame buffers | capture, synchronise, write, SIGINT, join | the buffers, broadcasts of the handler | pairs that lie in two buffers, shutdown while waiting | pairs stay pairs, order, everyone joins | `StereoPipeline` |
| Lab 6 level 1 | last frame of each camera, two semaphores, one pair and its flag | capture, synchronise, write, stop | semaphores, `sync_mutex` | stale tokens, shutdown posts, a flag that guards two variables | published pairs are written once | `RobotLevel1` |
| Lab 6 state, logger, watchdog, report | state under a mutex, atomic counters | update, log, read and reset, report | mutex, C11 atomics, join | torn copies, lost increments | nothing torn, nothing lost | `RobotMonitor` |
| Lab 6 level 2 statistics | two counters under `stats_mutex` | count | mutex | none that level 3 does not have | - | not modelled |
| Lab 4 chat | registry of queues, a queue per process | INIT, ID_ASSIGN, TEXT, broadcast, stop | POSIX message queues, fork, signals | full queues, order of reply and broadcast, clients that leave | ids agree, order, once, no echo | `Chat` |
| Lab 7 counter server and client | counter, flag, connections | accept, recv, count, send, close, SIGINT | TCP | interrupted calls, partial requests, leaving clients, overflow | counted once, no leak, everyone ends | `CounterServer` |
| Lab 3 exercise 2 (service over FIFOs) | two FIFOs, who has them open, the request | start, ask, serve, interrupt, stop | named pipes, SIGPIPE | opens that wait for each other, two clients at once, a client that leaves anywhere, a server stopped and restarted | a client gets its own answer, the server listens again, no FIFO is left | `FifoService` |
| Lab 3 exercise 1 (integrator) | a pipe per child, who holds its ends | pipe, fork, close, read, wait | pipes, wait | inherited descriptors, end of file, failing calls, killed children | the sum of the parts written, nothing left of a round | `PipeIntegrator` |
| Lab 2 (signals) | disposition, mask, pending SIGUSR1; the mode on its way | fork, exec, sigqueue, handle, raise, unblock | sigqueue, sigaction, pause | test and pause in two steps, readiness by `sleep(1)` | the mode takes effect before the signals and everything ends | `SignalChild` |
| Lab 1 (fork, vfork, exec, flock) | process tree, one global, one file and its lock | fork, exec, remove, append, wait | wait, shared memory of vfork, file lock | failed `execl` falls into the parent's loop, an unset `status` | nobody is left behind, lines stand together | `ForkTree` |
| Scripts, Makefiles, CI | none | - | - | - | - | not modelled |

## 2. Modules

| Module | Role |
|---|---|
| `TaskQueue` | what the Lab 5 buffers promise: an atomic, bounded, two-class FIFO queue with aging |
| `TaskSystem` | Lab 5 exercise 3 (and 2: no managers); `TQ == INSTANCE TaskQueue WITH ...` is its refinement mapping |
| `Counting`, `Ring` | the number of processes at given statements; the segment of a ring that is in use |
| `BufferLemmas` | lemmas about both: what a step does to a number, what a write or a moved end does to a segment |
| `TaskSystemProofs`, `BoundedBufferProofs`, `FrameBufferProofs`, `StereoPipelineProofs`, `ChatProofs`, `ExercisesProofs`, `LaterLabsProofs` | inductive invariants, refinements and theorems of the module they are named after (section 5) |
| `BoundedBuffer` | Lab 5 exercise 1, also an implementation of `TaskQueue` |
| `FrameQueue`, `FrameBuffer` | Lab 6 `common.c` and the overwriting FIFO queue it promises |
| `StereoPipeline` | Lab 6 `program2.c` (the same threads are in `program3.c`), composing four frame queues |
| `RobotLevel1` | Lab 6 `program1.c` |
| `RobotMonitor` | what `program3.c` adds beside the pipeline |
| `Chat` | Lab 4 server, clients and receiver children |
| `CounterServer` | Lab 7 server and clients |
| `IpcObjects` | Lab 5 `shm_open`, `sem_open` and `cleaner.c` over several lives of the processes |
| `ForkTree` | Lab 1: `zad1/main.c`, `zad1/main_vfork.c`, `zad2`, `zad3` |
| `SignalChild` | Lab 2: `zad1`, `zad2`, `zad3` and its four libraries |
| `PipeIntegrator` | Lab 3 `zad1` |
| `FifoService` | Lab 3 `zad2`, server and clients |
| `Exercises` | `ForkTree`, `SignalChild`, `PipeIntegrator` and `FifoService` under one specification: one program is launched at a time |
| `LaterLabs` | the same for `RobotLevel1`, `RobotMonitor`, `CounterServer` and `IpcObjects` |
| `MCTaskSystem`, `MCChat`, `MCLaterLabs` | symmetry sets and constants for TLC |

Lines marked `Mutant:` define a plausible bug of the definition that follows
them; no specification uses them.

**TaskSystem.** `pc[p]` names the statement a process executes next; a
producer's labels are `p_...`, a consumer's `c_...`, a manager's `m_...`.
Every store to shared memory and every semaphore call is an action, so
`P_Copy`, `P_Tail`, `P_Count` can be separated by any step of another process.
`Kill` ends a process at any statement: the handlers only unmap and exit (the
producer has none and is ended by the default action), and a semaphore keeps
its value. The dead stay where they were, which lets the invariants count what
they were holding. `P_Relaunch` is a user who starts the producer again.

**BoundedBuffer** is the same without counters and classes: what waits is known
from the semaphores and the operations in flight only.

**FrameBuffer.** The statements inside one critical section are one step where
no other thread can tell them apart; `is_running` is read without the mutex, so
each read of it is a step, and `pthread_cond_wait` is two (release and sleep,
wake and relock). `Spurious` wakes a sleeper for no reason. A signal wakes one
arbitrary sleeper. `not_full` is initialised by the code and never waited on.

**StereoPipeline** uses the atomic queue in place of each buffer, which
`FrameBuffer` implements, but keeps the steps of a pop that finds it empty,
because shutdown depends on them. Whether two frames are within the tolerance
is an arbitrary choice. The history variable `overrun` records the buffers that
dropped a frame, `gap` whether the handler ran while a thread was between its
test of `is_running` and its wait.

**RobotLevel1** and **RobotMonitor** have one label per access to shared
variables. The semaphores of level 1 may run ahead of the frames, as in the
code, where a camera overwrites a frame nobody has read.

**Chat.** A queue is a bounded sequence; `mq_send` is disabled while it is full
and `mq_receive` while it is empty. The broadcast loop sends to one target a
step. Parent and receiver of a client are two processes; `C_Fork` and
`C_Assign` are separate because the handler reads `child_pid`, which is
assigned after `fork` has returned; the variable `child_pid` is the set of
clients that have assigned it. A queue whose name has been unlinked goes
on existing as long as the server has it open.

**CounterServer.** A call that may block has a state before it (a signal sets
the flag, nothing else) and one inside it (`..._wait`: the call fails with
`EINTR`, as the handler is installed without `SA_RESTART`). The kernel's part
(backlog, reset of pending connections, end of file) is in `Connect`, `Gone`
and `Cleanup`. `Parsed` is the number `sscanf` finds in what one `recv`
returned: any leading digits of it, or none. The counter is an `int` and wraps:
overflow is undefined in C, and the build (`lab7/Makefile`: no `-O`, no
`-ftrapv`) wraps. The history variable `late` records a SIGINT that came
between the loop's test and `accept4`.

**IpcObjects.** `path` is the directory of names; `hold` what each process has
open. A name that is unlinked and made again leads to another object; an object
lives as long as a name or a process leads to it, and its number is used again
after that. Each of the four opens and each of the four unlinks is a step. The
ring is the number of tasks in it, a round five steps (token, mutex, buffer,
mutex, other token). `mixed` holds the processes that were opening while the
cleaner ran, `spoiled` the objects that such a process, or one killed inside a
round, has touched; the properties are about the others.

**ForkTree.** One record per process: where it is, its parent, the local
variables of the loops. All four programs share the loop of forks and the loop
of waits; they differ in what a new child does. A failed `fork` is a round
without a child, a failed `execl` lets the child go on in the loop at the next
`i`, and `status` is read although nothing may have written it (`StatusUnset`:
the test goes either way). Exercise 3 is one tree over one file and one lock;
a lock is released with the descriptor. `MaxProcs` is the process table.

**SignalChild.** SIGUSR1 has a disposition, a mask bit and a pending bit in the
child; SIGUSR2 is sent once and delivered between any two statements (`HandleUsr2`,
or `DieOfUsr2` before the handler is there). `variant` tells the three programs
apart: exercise 1 sets its mode up by itself, 2 and 3 are handed it, and in
exercise 3 with `USE_DYNAMIC` the library may not load. `missed` records a
SIGUSR2 handled between the test of `received_mode` and `pause`.

**PipeIntegrator.** `read_ends[c]` and `write_ends[c]` are the processes with
that end of pipe c open; `Fork` copies what the parent holds. A partial sum is
the number of the child that computed it, and a total the set of them. `Abort`
is `pipe` or `fork` failing, `Kill` a signal from outside; `tiny` is a dx that
does not change x when added to it.

**FifoService.** A FIFO has readers, writers and contents; a name that is
removed and made again leads to another FIFO. An `open` is two steps: the call,
which counts as a descriptor and releases who waits on the other side, and the
return. `Close` drops the contents with the last descriptor, and `Write` kills
the writer when nobody has the other end. `alone`, `disturbed` and `sigpiped`
are history: which client found the server ready and stayed the only one,
whether clients overlapped or one left between request and answer, and who was
killed by its own write.

**Exercises.** The four programs share no state, so their product says nothing
that each alone does not; the module lets one of them run while the others are
in their initial state, and gives the properties of each their name.
**LaterLabs** does the same for four programs of Labs 5 to 7, one run for each.
The components keep no assumption of their own: the assumptions on all constants
stand in these two modules, which the runs extend, so that TLC evaluates them.

## 3. Runs

| Run | Instance | Checks |
|---|---|---|
| `task_safety` | K = 2, three producers of one task, two consumers, one manager; consumers and manager may be killed | `TypeOK`, `Accounting`, `MutualExclusion`, `ConsumerFindsTask`, `NoOverwrite`, `ImplementsTaskQueue` |
| `task_liveness` | K = 2, a producer relaunched for ever, one consumer, one manager | `ProducerGetsThrough`, `NoStarvation`, no deadlock |
| `buffer` | K = 2, two producers of two tasks, two consumers; one of each may be killed | `RingConsistent`, `ImplementsTaskQueue`, `AllPrinted` |
| `ipc` (`LaterLabs`) | K = 2, a producer and a consumer that end and start again, one cleaning, one kill | `AllOrNone`, `StartsFindBalance` |
| `frame` | Size 2, two pushers of two frames, two poppers, SIGINT | `RingConsistent`, `NoSleepingWithData`, `ImplementsFrameQueue`, `FramesDrained` |
| `stereo` | Size 2, three frames a camera, SIGINT | `PairsInOrder`, `GracefulShutdown` |
| `level1` (`LaterLabs`) | two frames a camera | `WrittenInOrderOnce`, `StoppedGracefully` |
| `robot_monitor` (`LaterLabs`) | two updates a source | `NoTornState`, `NothingLost` |
| `chat` | three clients, one of which may be stopped, queues of one message, two, one and no texts, a server that may be stopped | `IdIsRegistryIndex`, `InOrderOnceNoEcho`, `NoOrphanReceiver`, `BroadcastArrives` |
| `chat_wedge` | two clients, one of which may be stopped | refutes `ServerListens` |
| `counter` (`LaterLabs`) | three clients, one may leave, one sends in parts, backlog 1, 8-bit `int`, numbers -3 and 123, SIGINT | `AllOrNothing`, `NoDescriptorLeak`, `ClientsFinish`, `ShutsDown` |
| `exercises` | trees of eight processes, two children asked for, two lines each; every mode of signals; three rounds of pipes; two FIFO clients, two starts of the server | `NoneLeftBehind`, `LinesTogether`, `TreeEnds`; `OutcomeFollowsMode`, `ProgramEnds`; `RoundAddsUp`, `EverybodyEnds`; `OwnAnswer`, `AnswersAndReturns` |

The first conjunct of the first invariant of each module but `TaskSystem` is its
type invariant `TypeOK`. The four runs of `LaterLabs` launch one program each
and give the constants of the other three the least values allowed; programs
that are not launched never leave their initial state, so they add no states.

**Bounds.** K = 2 with three producers makes the rings full, wraps both indices
in `TaskSystem` and lets producers wait on `empty` while consumers and manager
hold tokens; a third slot adds no new relation between two indices. Three
frames in buffers of size 2 overrun them. Queues of one message are full most
of the time, so every blocking send of the chat blocks somewhere. Three clients
are enough for two senders and one that only reads, and for a registry that is
filled while texts travel. The registry is never full
for a client that still asks: `IdIsRegistryIndexHolds` covers that for every
`MaxClients`, and three clients with `MaxClients` = 2, where one is refused,
satisfy the three invariants too (33,408 states). Half = 128 makes the sum of
two requests overflow, and 123 has three digits to lose in `recv`.
`MaxFrames`, `MaxUpdates`, `MaxTexts` and `N` bound what in the code is an
endless or long loop; they appear in the guards of the producing actions only.
`IpcObjects` bounds cleanings (`MaxClean`) and kills (`MaxKill`), not lives: a
process starts and ends as often as it likes, since numbers of objects are used
again. `InRange` stops a process on objects whose counters have left 0..K: only
processes that share some objects and not all get there, and they would count
for ever. The same module with two producers, one consumer, K = 1 and no
kill (16.2 million states) also satisfies both invariants.
Two children are enough for `ForkTree` to have a child of a failed `execl` that
makes children itself; with every `execl` failing a tree has four processes, and
there are two trees when the remover becomes a parent, so that eight processes
hold all of them. Round 3 of
`PipeIntegrator` is the first in which a child inherits two older pipes. Two
clients of `FifoService` make every overlap of two, and the second start of the
server meets FIFOs, open or not, of the first.
In `RobotLevel1` and `RobotMonitor` a producer that has reached the bound goes
on testing `is_running` (`CaptureNoMore`, `ProduceNoMore`), so that the bound
does not stop the threads the shutdown has to stop.

**Symmetry** is used in `task_safety` only, a run without liveness: producers
are interchangeable, and so are the two consumers, which are both in
`Killable`.

**Deadlock** is checked where the system may not stop (`task_liveness`). In the
other runs processes finish, are killed, or wait for input that has ended; the
liveness properties take the place of the check.

**Fairness.** Every process or thread that can take a step eventually takes it
(WF), which is what the scheduler of a general-purpose system gives to runnable
processes. Acquiring something others may take first (a semaphore, a mutex,
room in a queue, a connection slot) has SF: sleepers on a futex, a message
queue or the accept queue are woken in turn when it is released again and
again; the code relies on this and sets no timeout anywhere. Users, signals,
kills, spurious wake-ups and texts typed are never forced. A handler that
has started finishes.

In the programs of `Exercises` no step is repeated for ever once the environment
has stopped starting things: loops count, every client runs once, the server
goes round once per request. There it is enough to assume that as long as some
process can go on, one of them does (`Progress`, one WF per program); no process
needs a fairness of its own. What may happen and need not (failing calls in the
integrator and under flock, kills, starts and interrupts) is not in `Progress`.

The two programs of `LaterLabs` with a liveness property have a specification
each, `FairLevel1` and `FairServer`: the behaviours of `Spec` in which that
program is the one launched, with the fairness of its own module.

## 4. What the runs show

*Lab 5.* The two rings and three semaphores implement the atomic queue, even
though the manager inserts into the PRIORITY ring without an `empty` token: the
capacity is that of both classes together, and aging keeps the total.
The `else` branch of the consumer, which pops the NORMAL ring without testing
its counter, is right because of `Accounting`. With processes killed at any
statement the survivors still see a FIFO queue (possibly one they cannot enter
any more). With relaunched producers, a NORMAL task gets out only because of
aging; `CanAge` off by one breaks it.

*Lab 6.* One `pthread_cond_signal` per frame is enough for any number of
poppers, because poppers test `count` in a loop and under the mutex. Pairs stay
pairs exactly until a synchronised buffer overruns. SIGINT ends everything
unless its broadcast falls in one window (below).

*Lab 4.* The reply overtakes no broadcast because the server is one process and
a client is in the registry only when its reply is about to be sent.
While everyone stays, the cycle of full queues (clients to server, server to
clients) is always broken by the receiver children.

*Lab 7.* A request is counted once or not at all, whatever is interrupted; a
client told of a failure was not counted. A SIGINT ends the server from
everywhere but one point.

*Lab 5, across starts.* Semaphores outlive the processes, and so do the tasks:
whoever starts finds the two in step, whichever process made them and however
many have ended since between two rounds. A kill inside a round spoils the
objects until they are cleaned away; a kill between two opens spoils nothing.
A cleaner is harmless beside processes that have finished opening: the old ones
go on with the old objects and the next start makes new ones. It is not
harmless beside an open (below).

*Lab 1.* The number of waits is right even for a child that has become a parent
through a failed `execl`: `wait` returns at once when there are no children, and
nobody has more children than rounds of the loop.

*Lab 2.* The mode is in place before the first `raise` because it is set up
outside the handler; a mask set inside it would be undone on return, which the
mutant `HandleUsr2Applies` shows. A parent that cannot send kills its child and
leaves nobody waiting.

*Lab 3.* The integrator reads end of file instead of waiting for ever when a
child is killed, since the parent closes each write end before the next fork and
every process ends by closing the rest; and the children of a parent that gives
up end by themselves. A FIFO client that finds the server ready and stays alone
gets its own answer, whatever happened before it, also across a restart.

### Disagreement with the documentation, with a run

- `chat_wedge`: the server "continuously listens" (`lab4/README.md:28`), but
  blocks for ever in `mq_send` on the full queue of a client that has left.

### Observed while modelling, without a run

- `lab5/README.md:63` says the handlers prevent deadlocks "caused by processes
  terminating while holding the `mutex` lock"; they do not post it. `Kill` in
  `TaskSystem` keeps it, and a mutant that releases it breaks the refinement.
- `program2.c:33`: the broadcast that should "wake up any blocked threads" is
  made without the mutex, so a thread between its test of `is_running`
  (`common.c:75`) and `pthread_cond_wait` misses it: `gap` in `StereoPipeline`.
- `manager.c:111` warns of an inconsistency when the counters differ from
  `full`; by `Accounting` they differ whenever an operation is in flight.
- A process that opens while the cleaner runs may take some of the old objects
  and some new ones: one buffer under two mutexes. `AllOrNone` excludes it.
- `lab1/zad3/main.c:28`: `status` is read unset when `fork` or `execlp` fails; a
  remover that cannot execute `rm` may go on as a second parent.
- `lab2/zad2/child.c:30`: a SIGUSR2 handled between the test and `pause` leaves
  child and parent waiting; one that comes before the handler kills the child.
- `lab3/zad2/program2.c:96`: a FIFO client interrupted between request and
  answer leaves the server in an `open` that no later client can end (it waits
  in its own `open` of the request FIFO), or kills it with SIGPIPE.
- `lab3/zad2/program2.c:81`: of two clients that write before the server has
  read, the second loses its request, or reads the answer to the first.
- `lab3/zad1/integrator.c:13`: with a dx of 0, which `lab3/zad2/program1.c:19`
  accepts, or one too small beside x, the loop has no end.
- A chat client that comes when the registry is full (ids are never given back,
  `server.c:59`) gets no reply and waits at `client.c:66` for ever.
- `lab7/src/server/main.c:119` and `:134` test the flag and call `accept4`: a
  SIGINT in between (`late`) is noticed after the next connection only.
- `lab7/src/server/main.c:144` parses what one `recv` returned; a request in
  parts adds another number, or none.
- After an overrun of one synchronised buffer (`program2.c:86`) the writer pairs
  frames of different pairs; `lab6/README.md:23` speaks of "paired frames".
- `client.c:83`: a client ended between `fork` and the assignment of `child_pid`
  leaves its receiver running. `NoOrphanReceiver` begins after the assignment.

Where the code goes wrong, a property that is meant to hold excludes exactly
the behaviours concerned, by a variable that records them. So these hazards are
modelled, but not caught by the property that is listed for them:

| Variable | Excludes | From | Which still shows |
|---|---|---|---|
| `gap` | broadcast between test and wait | `GracefulShutdown` | no thread is left in another wait, or with half a pair |
| `late` | SIGINT between test and `accept4` | `ShutsDown` | `EINTR` ends the server from `accept4` and `recv` |
| `missed` | SIGUSR2 between test and `pause` | `ProgramEnds` | an early signal, or none, ends both processes |
| `tiny`, `endless` | integration without end | `EverybodyEnds`, `AnswersAndReturns` | nobody else's behaviour keeps a process waiting |
| `alone`, `disturbed` | two FIFO clients at once, clients that go | `OwnAnswer`, `AnswersAndReturns` | a lone client is served, also by a restarted server |
| `mixed`, `spoiled` | opening during a cleaning, a kill inside a round | `AllOrNone`, `StartsFindBalance` | nobody else is affected |

## 5. Proofs

Each theorem holds for every value of the constants that the `ASSUME`s of its
module allow: any size of a buffer, number of tasks, frames, updates or texts,
and (where there are such sets) any finite set of processes, threads or clients.

| Module | Theorem | States |
|---|---|---|
| `TaskSystemProofs` | `TypeCorrect`, `MutualExclusionHolds`, `AccountingHolds`, `ConsumerFindsTaskHolds`, `NoOverwriteHolds` | `Spec => []...` of the five invariants of `task_safety` |
| | `TaskQueueImplemented` | `Spec => ImplementsTaskQueue`, for `Relaunch = FALSE` |
| `BoundedBufferProofs` | `RingConsistentHolds` | `Spec => []RingConsistent` |
| | `TaskQueueImplemented` | `Spec => ImplementsTaskQueue` |
| `FrameBufferProofs` | `RingConsistentHolds`, `NoSleepingWithDataHolds` | `Spec => []...` of the two invariants of `frame` |
| | `FrameQueueImplemented` | `Spec => ImplementsFrameQueue` |
| `StereoPipelineProofs` | `PairsInOrderHolds` | `Spec => []PairsInOrder` |
| `ChatProofs` | `IdIsRegistryIndexHolds`, `InOrderOnceNoEchoHolds`, `NoOrphanReceiverHolds` | `Spec => []...` of the three invariants of `chat` |
| `ExercisesProofs` | `NoneLeftBehindHolds`, `LinesTogetherHolds`, `OutcomeFollowsModeHolds`, `RoundAddsUpHolds`, `OwnAnswerHolds` | `Spec => []...` of the five invariants of `exercises` |
| `LaterLabsProofs` | `WrittenInOrderOnceHolds` | `Spec => []...` of the invariant of `level1` |
| | `NoTornStateHolds`, `NothingLostHolds` | of the two invariants of `robot_monitor` |
| | `AllOrNothingHolds`, `NoDescriptorLeakHolds` | of the two invariants of `counter` |
| | `AllOrNoneHolds`, `StartsFindBalanceHolds` | of the two invariants of `ipc` |

Every invariant and every refinement that a run checks has its theorem.

The invariants are about `Spec` without fairness, so that nothing depends on
scheduling. Every module has an inductive invariant `IInv` (theorem `IInvHolds`;
`ExercisesProofs` and `LaterLabsProofs` have one for each program: `TreeInv`,
`SignalsInv`, `PipesInv`, `FifoInv`; `Level1Inv`, `MonitorInv`, `CounterInv`,
`IpcInv`);
none of the properties is inductive by itself. An induction step is one lemma
for each part of `IInv`, with one case per action; TLC has checked each
invariant on the instance of its run first.

**TaskSystem.** `IInv == Shape /\ MutexCounts /\ Accounting /\ Removable`. The
range of a counter depends on the tokens, the tokens on who holds one, and that
on mutual exclusion.

- `Shape`: types without the ranges of counters and semaphores.
- `MutexCounts`: `mutex` plus the number of processes in a critical section is
  1; a dead process still counts, which is why a kill preserves it.
- `Accounting`: two equations between counters, semaphores and the number of
  processes in the middle of each operation.
- `Removable`: who has decided to remove a task has one to remove.

The bounds of `TypeOK` follow by arithmetic from `Accounting`, since all counts
are natural numbers. `RingInv` adds `Indices` (tail is head plus what waits, up
to the statement that the one writer has reached) and `InTransit` (what a
process between two statements of an operation has copied is what is in the
slot). The refinement then needs one lemma per statement that touches a ring
(`..._Effect`) and one for all others (`QuietStep`): only `p_count`, `c_head`,
`m_head` and `m_incr` change the abstract queue. Its hypothesis
`Relaunch = FALSE` is that no producer is started twice: the model names a task
by its producer and number, so two runs of one producer would give two tasks one
name, and the set of delivered tasks of `TaskQueue` could not tell them apart.
The instance of `task_safety` has the same hypothesis; the invariants do not.

**BoundedBuffer** has no counter. `SlotCounts` states what the semaphores leave
for the ring: `K` is `empty` plus the tasks that wait plus the processes in the
middle of an operation, so `Length`, which is defined from `full` and the
operations in flight, is the length of the segment between the two ends.

**FrameBuffer.** `NoSleepingWithData` becomes inductive with `Tested`: the only
step that puts a thread to sleep follows, under the mutex, a test that found
`count` to be 0. For the refinement `Numbered` and `OnlyPast` say that frame
numbers grow, so a push adds a frame that was never in the queue.

**StereoPipeline.** `Chain` follows the frame ids of one side from the disk back
to the camera: files, the frame in the writer's hands, its buffer, the frame in
the synchronizer's hands, the camera's buffer. They form one ascending line, in
which the frame in a thread's hands separates what is before from what is
behind; a drop takes one out and keeps the line. `Pairs` counts: until one of
the synchronizer's buffers drops a frame, each of them holds the accepted pairs
from the number written and in the writer's hands (`Out`) to the number pushed
(`In`), so that the two frames the writer takes one after the other have the same
place in `accepted`. It needs the clause that a writer that has ended keeps no
account: `buffer_pop` may fail after the left frame was taken.

**Chat.** `IInv` follows a connection: a client has not asked, waits in the
server's queue, is in the server's hand, is registered, or has its answer, one
at a time (`OneStage`), and the answer carries its index and is first in its
queue (`Answers`). `LInv`, inductive relative to `IInv`, follows the texts: in
the server's queue, in its hand and in what a client has got they are in the
order typed, and each of these places holds only texts newer than the next
(`Behind`, `Forward`). `Forward` speaks of the clients the broadcast loop has not
reached, which is why a text is forwarded once.

**Exercises.** The programs share nothing, so each has an invariant of its own
and a step of another program leaves it alone.

- `TreeInv` (Lab 1). `NoneLeftBehind` is a matter of counting: `KinCount` says
  that a process in its loops has at most `i - waits` children that are not
  reaped, so when `waits` has reached `n` (and `i` is never above it) none is
  left, whether a fork failed or a failed `execl` made a child a second parent.
  `VforkFamily` (one child runs at a time, while the root is suspended) and
  `LockHeld` (who writes under `flock` holds the lock) leave one process at its
  lines; `LinesInv` then says that who has written some lines wrote the last
  one. `GlobalCount` ties the global to the children that are past the increment.
- `SignalsInv` (Lab 2). `ChildState` lists what disposition, mask, pending signal,
  round and count of handled signals may be together at each statement of the
  child; `ModeReceived` that the mode is there when the child acts on it.
- `PipesInv` (Lab 3, exercise 1). `InRound` and `Family` follow the parent through
  its three loops, `Descriptors` says who holds which end of which pipe, inherited
  ones included, and `Sums` what of the parts written is in a pipe and what is in
  the total already.
- `FifoInv` (Lab 3, exercise 2). `Ends` derives readers, writers and emptiness of
  a FIFO from who has it open, so a step of a process is one of five effects
  (`StepOf`). While no client has disturbed another, or a client is alone with
  the server (`Calm`), one client is active at most (`Lone`), and there is one
  request at most: `RequestOf(c)` follows it from the FIFO through the server's
  hand, with the answer FIFO empty and `c` on its way there, waiting in `open`
  until the server comes. `Together(c)` says how far the two have come. That is
  why `c` finds its own answer and the server's write a reader. `Fresh` gives the
  first state in which the server serves: what it has made is opened by nobody,
  and what an earlier start left behind is empty.

**LaterLabs.** Here too every program has an invariant of its own.

- `Level1Inv` (Lab 6, level 1). `Tokens` counts the posts of each semaphore: what
  is on it, taken by the synchronizer or published has been captured, but for
  the one post of `main` that ends the wait, and once that is made the
  synchronizer no longer passes its test of `is_running`. So `Fresh`: past the
  test there is a frame of either camera for the pair in hand. `Latest` and `InOrder`
  follow a pair to the disk: `has_new_sync_pair` says whether the last published
  pair has been taken, which is why none is taken twice; a pair half replaced or
  half taken is protected by `sync_mutex` (`Level1Mutex`). `InOrder` is about an
  increasing function from the pairs taken to those published, which every step
  that publishes or takes extends.
- `MonitorInv` (Lab 6, level 3). `MutexHeld` says who is in the critical section
  of `state_mutex`, `WholeStates` that what a thread has loaded so far is what the
  state was when it locked, `Counts` that a total is what was read, what is pending and
  the statement between the two increments.
- `CounterInv` (Lab 7). `Connections` says that the one descriptor open is that of
  the client being served, and that every other connection is pending once or
  gone; `Answers` that a client is answered once, after its request. `Counted` gives each client that was answered, or is about to be,
  one number, and states that the counter is their sum as an `int`: adding to a
  wrapped counter and wrapping is the same as adding to the sum and wrapping
  (`DivMod`, `OneRemainder` and the lemmas after them). The sum is the library's
  fold over a set, which takes its elements in some order: that it is well
  defined, and that one more client adds that client's number, is proved first.
- `IpcInv` (Lab 5). `OneGeneration`: an undisturbed process holds the objects the
  names lead to now, but for those the cleaner has removed meanwhile, or none of
  them. `HoldsOpened` and `OpensCurrent` say the same of a process in the middle
  of its four opens. `AsMade`: while some name
  leads nowhere the objects behind the others have their first values (nobody
  has worked on them yet); `Remade`: what is made behind the cleaner's back is
  spoiled. Together with `StartsFindBalance` itself they are
  inductive: a round changes a token count, the number of tasks and the place of
  the process at once, and a number of an object is used again only when nothing
  refers to it.

Induction over data is out of the provers' reach in the form the library states
it (its theorems take an operator as a parameter). The facts about sums are
proved without it: were one false for some subset of a finite set, it would be
false for a smallest one (the library's theorems that `<` on the
natural numbers and the strict subset ordering are well founded), and one
element can be taken out of that.

*Only model-checked:*

- Liveness (`ENABLED` and fairness are out of reach of the installed provers):
  every temporal property of section 3 that is not a refinement.
- The constants are unbounded in the theorems; that the bounds `N`,
  `MaxFrames`, `MaxUpdates` and `MaxTexts` exist is still part of the models.

No module declares a RECURSIVE operator. The components of `Exercises` and
`LaterLabs` have their assumptions there, since they are instantiated and not
extended.

## 6. Left out

- Failing system calls that end the program at start-up (`shm_open`, `mq_open`,
  `socket`, `bind`, `pthread_create`): nothing is shared yet. Failures with
  something shared already (`fork`, `exec`, `pipe`, `sigqueue`, `flock`) are in
  the models.
- The time of day, `usleep`, frame rates, SCHED_FIFO priorities and
  `clock_nanosleep`: a rate or a deadline is not a matter of reachable states.
  Frame timestamps are left to an arbitrary match decision, so no property says
  which of two mismatched frames should be dropped (`program2.c:85`).
- The buffer of standard output, which a forked child inherits and may print
  again when it ends with `exit` (Lab 1, Lab 3).
- The statistics of Lab 6 level 2, two counters under one mutex; the robot state
  thread and the logger of level 1, which are those of `RobotMonitor`.
- Calls of functions that are not async-signal-safe in handlers.
- HTTP formatting and the text of messages.
- Scripts, Makefiles and CI, which keep no state of the system.

## 7. Plan

The components of the repository that keep state have their modules, and every
safety property and refinement the runs check is a theorem. What could still be
added:

1. `TaskQueue` and `FrameQueue` themselves: no task is in two places, from which
   the same follows for the implementations.
2. The frame timestamps of Lab 6, to say which frame of a rejected pair was late
   (section 6).
3. The liveness properties, with a prover that knows `ENABLED`.
