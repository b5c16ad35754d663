----------------------------- MODULE LaterLabs -----------------------------
(***************************************************************************)
(* Four programs of labs 5 to 7 that stand alone: level 1 of the robot,    *)
(* the robot state, logger and watchdog of level 3, the counter server,    *)
(* and the processes of lab 5 across starts and cleanings.  They share     *)
(* nothing: the one that is launched runs, the others stay as they were.   *)
(***************************************************************************)
EXTENDS Integers, FiniteSets

CONSTANTS Launch,       \* the programs that may be launched
          MaxFrames,    \* level 1: bound of RobotLevel1
          MaxUpdates,   \* level 3: bound of RobotMonitor
          Clients, Leavers, Values, Backlog, Half, Split, Interrupts, None,  \* CounterServer
          Producers, Consumers, K, MaxClean, MaxKill                         \* IpcObjects

Programs == {"level1", "monitor", "server", "ipc"}

ASSUME LaunchAssumption == Launch \subseteq Programs
ASSUME RobotAssumption == MaxFrames \in Nat /\ MaxUpdates \in Nat
ASSUME ClientsAssumption ==
    IsFiniteSet(Clients) /\ Leavers \subseteq Clients /\ Split \subseteq Clients
ASSUME BoundsAssumption == Backlog \in Nat \ {0} /\ Half \in Nat \ {0} /\ Interrupts \in BOOLEAN
ASSUME ValuesAssumption == Values \subseteq -Half .. Half - 1 /\ None \notin Clients \cup Int
ASSUME IpcAssumption ==
    /\ IsFiniteSet(Producers) /\ IsFiniteSet(Consumers) /\ Producers \cap Consumers = {}
    /\ K \in Nat \ {0} /\ MaxClean \in Nat /\ MaxKill \in Nat

VARIABLES program   \* the one that is launched
VARIABLES frame, id, sem, read, pair, has_new_sync_pair, sync_mutex, got, pc1, mpc1,
          is_running1, accepted, written                            \* RobotLevel1
VARIABLES current_robot_state, state_mutex, made, total, recent, next, seen, state, logged,
          pc3, mpc3, report, is_running3                            \* RobotMonitor
VARIABLES keep_running, request_counter, spc, client_fd, task, open, pending, number,
          cpc, sent, answer, late                                   \* CounterServer
VARIABLES path, value, hold, pc, cleaner, cleans, kills, mixed, spoiled   \* IpcObjects

Level1 == INSTANCE RobotLevel1 WITH pc <- pc1, mpc <- mpc1, is_running <- is_running1
Monitor == INSTANCE RobotMonitor WITH pc <- pc3, mpc <- mpc3, is_running <- is_running3
Server == INSTANCE CounterServer WITH value <- number
Ipc == INSTANCE IpcObjects

Init == program \in Launch /\ Level1!Init /\ Monitor!Init /\ Server!Init /\ Ipc!Init

level1 == <<frame, id, sem, read, pair, has_new_sync_pair, got, sync_mutex, pc1, mpc1,
            is_running1, accepted, written>>
monitor == <<current_robot_state, state_mutex, state, logged, total, recent, made, next, seen,
             pc3, mpc3, report, is_running3>>
server == <<keep_running, request_counter, spc, client_fd, task, open, pending, number, cpc,
            sent, answer, late>>
ipc == <<path, value, hold, pc, cleaner, cleans, kills, mixed, spoiled>>

RunLevel1  == program = "level1"  /\ Level1!Next  /\ UNCHANGED <<program, monitor, server, ipc>>
RunMonitor == program = "monitor" /\ Monitor!Next /\ UNCHANGED <<program, level1, server, ipc>>
RunServer  == program = "server"  /\ Server!Next  /\ UNCHANGED <<program, level1, monitor, ipc>>
RunIpc     == program = "ipc"     /\ Ipc!Next     /\ UNCHANGED <<program, level1, monitor, server>>

Next == RunLevel1 \/ RunMonitor \/ RunServer \/ RunIpc

vars == <<program, level1, monitor, server, ipc>>

Spec == Init /\ [][Next]_vars

\* Level 1 and the server with the fairness their liveness needs, each for
\* the behaviours in which it is the one launched.
LaunchLevel1 == Init /\ program = "level1"
LaunchServer == Init /\ program = "server"

FairLevel1 == LaunchLevel1 /\ [][Next]_vars /\ Level1!Fairness
FairServer == LaunchServer /\ [][Next]_vars /\ Server!Fairness

----------------------------------------------------------------------------
\* Lab 6, level 1: the writer writes published pairs, in order and each at
\* most once, and the k-th published has k frames of either camera behind it
\* (program1.c:103-166).
WrittenInOrderOnce == Level1!WrittenInOrderOnce

\* Lab 6, level 1: clearing is_running and posting both semaphores ends every
\* thread and main (program1.c:201-214).
StoppedGracefully == Level1!StoppedGracefully

\* Lab 6, level 3: the logger never writes x of one update and y of another
\* (program3.c).
NoTornState == Monitor!NoTornState

\* Lab 6, level 3: the watchdog loses no event of the atomic counters, and
\* the report equals what the threads did (program3.c).
NothingLost == Monitor!NothingLost

\* Lab 7: every request counts once or not at all (server/main.c).
AllOrNothing == Server!AllOrNothing

\* Lab 7: no connection is open where the server waits for one or has left
\* the loop (server/main.c).
NoDescriptorLeak == Server!NoDescriptorLeak

\* Lab 7: every client that connects finishes (client/main.c).
ClientsFinish == Server!ClientsFinish

\* Lab 7: the server ends after a SIGINT that finds it anywhere but between
\* the loop's test and accept4 (server/main.c).
ShutsDown == Server!ShutsDown

\* Lab 5: undisturbed processes share all four objects or none
\* (producer.c:99-101).
AllOrNone == Ipc!AllOrNone

\* Lab 5: whoever starts finds the objects in balance, unless a kill in a
\* round or an open during a cleaning has spoiled them (consumer.c:12-23).
StartsFindBalance == Ipc!StartsFindBalance
============================================================================
