---------------------------- MODULE RobotMonitor ----------------------------
(***************************************************************************)
(* Lab 6, program3.c, beside the frame pipeline: the robot-state thread    *)
(* and the logger share a state under state_mutex; the cameras and the     *)
(* robot-state thread count what they produce in two atomics each, which   *)
(* the watchdog reads and resets and main reports at the end.              *)
(***************************************************************************)
EXTENDS Integers, Sequences

CONSTANT MaxUpdates   \* bound: rounds of one producing thread

Sources == {"left", "right", "state"}
Threads == Sources \cup {"logger", "watchdog"}

VARIABLES current_robot_state,   \* x and y, in steps of 0.01
          state_mutex,
          made,                  \* rounds of each source; x = y = made["state"]
          total, recent,         \* the atomic counters
          next,                  \* watchdog: index of the next counter to exchange
          seen,                  \* history: what the watchdog has taken out of recent
          state, logged,         \* logger: local copy; what it has written last
          pc, mpc, report,
          is_running

counters == <<total, recent, made>>
snapshot == <<current_robot_state, state_mutex, state, logged>>
vars == <<current_robot_state, state_mutex, state, logged, total, recent, made,
          next, seen, pc, mpc, report, is_running>>

Zero == [s \in Sources |-> 0]
Order == <<"left", "right", "state">>

Init ==
    /\ current_robot_state = [x |-> 0, y |-> 0] /\ state_mutex = "free"
    /\ state = [x |-> 0, y |-> 0] /\ logged = [x |-> 0, y |-> 0]
    /\ total = Zero /\ recent = Zero /\ made = Zero /\ seen = Zero /\ report = Zero
    /\ next = 1 /\ pc = [t \in Threads |-> "loop"] /\ mpc = "idle" /\ is_running = TRUE

Goto(t, from, to) == pc[t] = from /\ pc' = [pc EXCEPT ![t] = to]

Loop(t, body) ==
    /\ Goto(t, "loop", IF is_running THEN body ELSE "done")
    /\ UNCHANGED <<snapshot, counters, next, seen, mpc, report, is_running>>

(***************************************************************************)
(* Sources: a camera pushes its frame, the robot-state thread stores x and *)
(* y under the mutex; then both counters, one after the other.             *)
(***************************************************************************)
Produce(c) ==
    /\ c # "state" /\ made[c] < MaxUpdates /\ Goto(c, "produce", "total")
    /\ made' = [made EXCEPT ![c] = @ + 1]
    /\ UNCHANGED <<snapshot, total, recent, next, seen, mpc, report, is_running>>

\* Mutant: the state is stored without the mutex.
StoreXNoLock ==
    /\ made["state"] < MaxUpdates /\ Goto("state", "produce", "store_y")
    /\ made' = [made EXCEPT !["state"] = @ + 1]
    /\ current_robot_state' = [current_robot_state EXCEPT !.x = made["state"] + 1]
    /\ UNCHANGED <<state_mutex, state, logged, total, recent, next, seen, mpc, report, is_running>>

StoreX ==
    /\ made["state"] < MaxUpdates /\ Goto("state", "produce", "store_y")
    /\ state_mutex = "free" /\ state_mutex' = "state"
    /\ made' = [made EXCEPT !["state"] = @ + 1]
    /\ current_robot_state' = [current_robot_state EXCEPT !.x = made["state"] + 1]
    /\ UNCHANGED <<state, logged, total, recent, next, seen, mpc, report, is_running>>

StoreY ==
    /\ Goto("state", "store_y", "total")
    /\ state_mutex' = IF state_mutex = "state" THEN "free" ELSE state_mutex
    /\ current_robot_state' = [current_robot_state EXCEPT !.y = made["state"]]
    /\ UNCHANGED <<state, logged, counters, next, seen, mpc, report, is_running>>

\* The bound: a source only looks at is_running from then on.
ProduceNoMore(c) ==
    /\ made[c] = MaxUpdates /\ ~is_running /\ Goto(c, "produce", "loop")
    /\ UNCHANGED <<snapshot, counters, next, seen, mpc, report, is_running>>

AddTotal(c) ==
    /\ Goto(c, "total", "recent") /\ total' = [total EXCEPT ![c] = @ + 1]
    /\ UNCHANGED <<snapshot, recent, made, next, seen, mpc, report, is_running>>

AddRecent(c) ==
    /\ Goto(c, "recent", "loop") /\ recent' = [recent EXCEPT ![c] = @ + 1]
    /\ UNCHANGED <<snapshot, total, made, next, seen, mpc, report, is_running>>

(***************************************************************************)
(* Logger.                                                                 *)
(***************************************************************************)
LoadX ==
    /\ Goto("logger", "load_x", "load_y") /\ state_mutex = "free" /\ state_mutex' = "logger"
    /\ state' = [state EXCEPT !.x = current_robot_state.x]
    /\ UNCHANGED <<current_robot_state, logged, counters, next, seen, mpc, report, is_running>>

LoadY ==
    /\ Goto("logger", "load_y", "log")
    /\ state_mutex' = IF state_mutex = "logger" THEN "free" ELSE state_mutex
    /\ state' = [state EXCEPT !.y = current_robot_state.y]
    /\ UNCHANGED <<current_robot_state, logged, counters, next, seen, mpc, report, is_running>>

Log ==
    /\ Goto("logger", "log", "loop") /\ logged' = state
    /\ UNCHANGED <<current_robot_state, state_mutex, state, counters, next, seen, mpc,
                   report, is_running>>

(***************************************************************************)
(* Watchdog: after its sleep, three atomic exchanges.                      *)
(***************************************************************************)
Wake ==
    /\ Goto("watchdog", "sleep", IF is_running THEN "exchange" ELSE "done") /\ next' = 1
    /\ UNCHANGED <<snapshot, counters, seen, mpc, report, is_running>>

\* Mutant: a load and, at the next counter, a store of 0.
ExchangeInTwo ==
    /\ next \in DOMAIN Order /\ Goto("watchdog", "exchange", "exchange")
    /\ next' = next + 1
    /\ seen' = [seen EXCEPT ![Order[next]] = @ + recent[Order[next]]]
    /\ recent' = [s \in Sources |-> IF next > 1 /\ s = Order[next - 1] THEN 0 ELSE recent[s]]
    /\ UNCHANGED <<snapshot, total, made, mpc, report, is_running>>

Exchange ==
    /\ next \in DOMAIN Order /\ Goto("watchdog", "exchange", "exchange")
    /\ next' = next + 1
    /\ seen' = [seen EXCEPT ![Order[next]] = @ + recent[Order[next]]]
    /\ recent' = [recent EXCEPT ![Order[next]] = 0]
    /\ UNCHANGED <<snapshot, total, made, mpc, report, is_running>>

Checked ==
    /\ next \notin DOMAIN Order /\ Goto("watchdog", "exchange", "loop")
    /\ UNCHANGED <<snapshot, counters, next, seen, mpc, report, is_running>>

(***************************************************************************)
(* SIGINT and main.                                                        *)
(***************************************************************************)
Sigint ==
    /\ is_running /\ is_running' = FALSE
    /\ UNCHANGED <<snapshot, counters, next, seen, pc, mpc, report>>

\* Mutant: the report is written without joining the threads.
ReportNoJoin ==
    /\ mpc = "idle" /\ ~is_running /\ mpc' = "done"
    /\ report' = total
    /\ UNCHANGED <<snapshot, counters, next, seen, pc, is_running>>

\* main joins all threads, then loads the totals into the report.
Report ==
    /\ mpc = "idle" /\ ~is_running /\ \A t \in Threads : pc[t] = "done"
    /\ mpc' = "done" /\ report' = total
    /\ UNCHANGED <<snapshot, counters, next, seen, pc, is_running>>

Counting(c) == ProduceNoMore(c) \/ AddTotal(c) \/ AddRecent(c)

Next == \/ \E c \in Sources : Loop(c, "produce") \/ Produce(c) \/ Counting(c)
        \/ StoreX \/ StoreY
        \/ Loop("logger", "load_x") \/ LoadX \/ LoadY \/ Log
        \/ Loop("watchdog", "sleep") \/ Wake \/ Exchange \/ Checked
        \/ Sigint \/ Report

Spec == Init /\ [][Next]_vars

-----------------------------------------------------------------------------
\* Every variable has its declared type; the mutex is held exactly by whoever
\* is between its two accesses to the state.
TypeOK ==
    /\ {current_robot_state, state, logged} \subseteq [x : 0 .. MaxUpdates, y : 0 .. MaxUpdates]
    /\ {total, recent, made, seen, report} \subseteq [Sources -> 0 .. MaxUpdates]
    /\ next \in 1 .. Len(Order) + 1 /\ is_running \in BOOLEAN /\ mpc \in {"idle", "done"}
    /\ state_mutex = IF pc["state"] = "store_y" THEN "state"
                     ELSE IF pc["logger"] = "load_y" THEN "logger" ELSE "free"

\* "Without race conditions": a logged state is one the robot was in, never
\* x of one update and y of another.
NoTornState == TypeOK /\ logged.x = logged.y /\ logged.x <= made["state"]

\* The two counters agree: every update counted in the total is in exactly
\* one of the watchdog's readings or still to be read; and the report at the
\* end counts every frame and every state that was produced.
NothingLost ==
    /\ \A s \in Sources :
        total[s] = seen[s] + recent[s] + (IF pc[s] = "recent" THEN 1 ELSE 0)
    /\ mpc = "done" => report = made /\ total = made
=============================================================================
