---------------------------- MODULE FifoService ----------------------------
(***************************************************************************)
(* Lab 3, exercise 2: a server (program2) and clients (program1) that meet *)
(* on two named pipes.  open blocks until the other side opens, what is    *)
(* left in a FIFO is lost with the last descriptor, and a write nobody can *)
(* read kills the writer.  Users start clients when they like and may      *)
(* interrupt them; a signal makes the server remove the FIFOs and exit.    *)
(***************************************************************************)
EXTENDS Integers, Sequences

CONSTANTS Clients,    \* names other than "server" and "none"; each runs once
          MaxStarts   \* bound: how often the server is started

Procs == Clients \cup {"server"}
Fifos == {"req", "res"} \X (1..MaxStarts)   \* a name and the start that made it

VARIABLES path,       \* name -> the start that made the FIFO there, 0 if absent
          readers, writers, data,   \* of each FIFO
          fd,         \* the FIFO a process is opening or has open
          blocked,    \* processes whose open waits for the other side
          pc, starts,
          request,    \* whose request the server has, or "none"
          answer,     \* what a client has read: an author, or "eof"
          endless,    \* clients whose dx never reaches the end of the interval
          alone,      \* history: clients that found the server ready and no
                      \* other client active, and neither was joined by one
                      \* nor saw the server stopped before they ended
          disturbed,  \* history: two clients were active at once, or one was
                      \* interrupted between its request and its answer
          sigpiped    \* history: processes killed by their own write

fifos == <<readers, writers, data, fd, blocked>>
history == <<alone, disturbed>>
vars == <<path, fifos, pc, starts, request, answer, endless, history, sigpiped>>

Init ==
    /\ path = [name \in {"req", "res"} |-> 0]
    /\ readers = [f \in Fifos |-> {}] /\ writers = [f \in Fifos |-> {}] /\ data = [f \in Fifos |-> << >>]
    /\ fd = [p \in Procs |-> <<"none", 0>>] /\ blocked = {}
    /\ pc = [p \in Procs |-> "off"] /\ starts = 0 /\ request = "none"
    /\ answer = [c \in Clients |-> "none"] /\ endless = {}
    /\ alone = {} /\ disturbed = FALSE /\ sigpiped = {}

Goto(p, from, to) == pc[p] = from /\ pc' = [pc EXCEPT ![p] = to]
Active == {c \in Clients : pc[c] \notin {"off", "ended", "failed", "interrupted"}}
Ready ==
    \/ pc["server"] = "open_req"
    \/ pc["server"] = "opening_req" /\ "server" \in blocked

(***************************************************************************)
(* FIFOs.  An open counts as a descriptor from the moment it is called; it *)
(* returns as soon as the other side has been opened, even if only briefly.*)
(***************************************************************************)
Opening(p, f, own, others) ==
    /\ fd' = [fd EXCEPT ![p] = f]
    /\ own' = [own EXCEPT ![f] = @ \cup {p}]
    /\ blocked' = IF others[f] = {} THEN blocked \cup {p} ELSE blocked \ others[f]
    /\ UNCHANGED <<others, data>>

OpenRead(p, name) == path[name] # 0 /\ Opening(p, <<name, path[name]>>, readers, writers)
OpenWrite(p, name) == path[name] # 0 /\ Opening(p, <<name, path[name]>>, writers, readers)

\* Close what p has open; the contents go with the last descriptor.
Close(p) ==
    /\ readers' = [f \in Fifos |-> IF f = fd[p] THEN readers[f] \ {p} ELSE readers[f]]
    /\ writers' = [f \in Fifos |-> IF f = fd[p] THEN writers[f] \ {p} ELSE writers[f]]
    /\ data' = [f \in Fifos |-> IF readers'[f] \cup writers'[f] = {} THEN << >> ELSE data[f]]
    /\ fd' = [fd EXCEPT ![p] = <<"none", 0>>]
    /\ blocked' = blocked \ {p}

Opened(p, from, to) ==
    /\ p \notin blocked /\ Goto(p, from, to)
    /\ UNCHANGED <<path, fifos, starts, request, answer, endless, history, sigpiped>>

\* One message, or a write that nobody can read: SIGPIPE.
Write(p, message, next) ==
    LET f == fd[p] IN
    IF readers[f] # {}
    THEN /\ data' = [data EXCEPT ![f] = Append(@, message)] /\ pc' = [pc EXCEPT ![p] = next]
         /\ UNCHANGED <<readers, writers, fd, blocked, sigpiped>>
    ELSE /\ Close(p) /\ sigpiped' = sigpiped \cup {p}
         /\ pc' = [pc EXCEPT ![p] = IF p = "server" THEN "off" ELSE "ended"]

EndOfFile(f) == data[f] = << >> /\ writers[f] = {}

(***************************************************************************)
(* Server.                                                                 *)
(***************************************************************************)
S_Start ==
    /\ starts < MaxStarts /\ Goto("server", "off", "mkfifo_req")
    /\ starts' = starts + 1
    /\ UNCHANGED <<path, fifos, request, answer, endless, history, sigpiped>>

\* EEXIST is as good as a new FIFO.
Mkfifo(name, here, next) ==
    /\ Goto("server", here, next)
    /\ path' = [path EXCEPT ![name] = IF @ = 0 THEN starts ELSE @]
    /\ UNCHANGED <<fifos, starts, request, answer, endless, history, sigpiped>>

S_OpenReq ==
    /\ Goto("server", "open_req", "opening_req") /\ OpenRead("server", "req")
    /\ UNCHANGED <<path, starts, request, answer, endless, history, sigpiped>>

\* Mutant: what read returns is not looked at.
S_ReadUntested ==
    LET f == fd["server"] IN
    /\ Goto("server", "read", "close_req")
    /\ \/ data[f] # << >> /\ request' = Head(data[f]) /\ data' = [data EXCEPT ![f] = Tail(@)]
       \/ EndOfFile(f) /\ request' = "garbage" /\ UNCHANGED data
    /\ UNCHANGED <<path, readers, writers, fd, blocked, starts, answer, endless, history, sigpiped>>

S_Read ==
    LET f == fd["server"] IN
    /\ Goto("server", "read", "close_req")
    /\ \/ data[f] # << >> /\ request' = Head(data[f]) /\ data' = [data EXCEPT ![f] = Tail(@)]
       \/ EndOfFile(f) /\ request' = "none" /\ UNCHANGED data
    /\ UNCHANGED <<path, readers, writers, fd, blocked, starts, answer, endless, history, sigpiped>>

S_CloseReq ==
    /\ Goto("server", "close_req", IF request = "none" THEN "open_req" ELSE "compute")
    /\ Close("server")
    /\ UNCHANGED <<path, starts, request, answer, endless, history, sigpiped>>

\* rectangular_integration does not end when dx does not advance x.
S_Compute ==
    /\ Goto("server", "compute", "open_res") /\ request \notin endless
    /\ UNCHANGED <<path, fifos, starts, request, answer, endless, history, sigpiped>>

S_OpenRes ==
    /\ Goto("server", "open_res", "opening_res") /\ OpenWrite("server", "res")
    /\ UNCHANGED <<path, starts, request, answer, endless, history, sigpiped>>

S_Write ==
    /\ pc["server"] = "write" /\ Write("server", request, "close_res")
    /\ UNCHANGED <<path, starts, request, answer, endless, history>>

\* Mutant: the descriptor stays open, and with it whatever nobody has read.
S_CloseResMissing ==
    /\ Goto("server", "close_res", "open_req")
    /\ UNCHANGED <<path, fifos, starts, request, answer, endless, history, sigpiped>>

S_CloseRes ==
    /\ Goto("server", "close_res", "open_req") /\ Close("server")
    /\ UNCHANGED <<path, starts, request, answer, endless, history, sigpiped>>

\* handle_shutdown: an open that waits is given up, then both names, then exit.
S_Signal ==
    /\ pc["server"] \notin {"off", "unlink_req", "unlink_res", "exit"}
    /\ pc' = [pc EXCEPT !["server"] = "unlink_req"]
    /\ IF "server" \in blocked THEN Close("server") ELSE UNCHANGED fifos
    /\ alone' = alone \ Active
    /\ UNCHANGED <<path, starts, request, answer, endless, disturbed, sigpiped>>

\* Mutant: the same name twice.
UnlinkReqTwice(name, here, next) ==
    /\ Goto("server", here, next)
    /\ path' = [path EXCEPT !["req"] = 0]
    /\ UNCHANGED <<fifos, starts, request, answer, endless, history, sigpiped>>

Unlink(name, here, next) ==
    /\ Goto("server", here, next)
    /\ path' = [path EXCEPT ![name] = 0]
    /\ UNCHANGED <<fifos, starts, request, answer, endless, history, sigpiped>>

S_Exit ==
    /\ Goto("server", "exit", "off") /\ Close("server")
    /\ UNCHANGED <<path, starts, request, answer, endless, history, sigpiped>>

(***************************************************************************)
(* Clients.                                                                *)
(***************************************************************************)
\* The three numbers are read; with dx = 0 the request has no end.
C_Start(c) ==
    /\ Goto(c, "off", "open_req")
    /\ endless' \in {endless, endless \cup {c}}
    /\ alone' = IF Active = {} /\ Ready THEN alone \cup {c} ELSE alone \ Active
    /\ disturbed' = (disturbed \/ Active # {})
    /\ UNCHANGED <<path, fifos, starts, request, answer, sigpiped>>

C_OpenReq(c) ==
    /\ Goto(c, "open_req", "opening_req") /\ OpenWrite(c, "req")
    /\ UNCHANGED <<path, starts, request, answer, endless, history, sigpiped>>

C_OpenRes(c) ==
    /\ Goto(c, "open_res", "opening_res") /\ OpenRead(c, "res")
    /\ UNCHANGED <<path, starts, request, answer, endless, history, sigpiped>>

\* ENOENT.
C_OpenFails(c) ==
    /\ \/ Goto(c, "open_req", "failed") /\ path["req"] = 0
       \/ Goto(c, "open_res", "failed") /\ path["res"] = 0
    /\ UNCHANGED <<path, fifos, starts, request, answer, endless, history, sigpiped>>

C_Write(c) ==
    /\ pc[c] = "write" /\ Write(c, c, "close_req")
    /\ UNCHANGED <<path, starts, request, answer, endless, history>>

C_CloseReq(c) ==
    /\ Goto(c, "close_req", "open_res") /\ Close(c)
    /\ UNCHANGED <<path, starts, request, answer, endless, history, sigpiped>>

C_Read(c) ==
    LET f == fd[c] IN
    /\ Goto(c, "read", "close_res")
    /\ \/ /\ data[f] # << >> /\ data' = [data EXCEPT ![f] = Tail(@)]
          /\ answer' = [answer EXCEPT ![c] = Head(data[f])]
       \/ EndOfFile(f) /\ answer' = [answer EXCEPT ![c] = "eof"] /\ UNCHANGED data
    /\ UNCHANGED <<path, readers, writers, fd, blocked, starts, request, endless, history, sigpiped>>

C_End(c) ==
    /\ Goto(c, "close_res", "ended") /\ Close(c)
    /\ UNCHANGED <<path, starts, request, answer, endless, history, sigpiped>>

\* disturbed: it had sent a request and not yet read an answer.
C_Interrupt(c) ==
    /\ c \in Active /\ pc' = [pc EXCEPT ![c] = "interrupted"] /\ Close(c)
    /\ disturbed' = (disturbed \/ pc[c] \in {"close_req", "open_res", "opening_res", "read"})
    /\ UNCHANGED <<path, starts, request, answer, endless, alone, sigpiped>>

Server ==
    \/ Mkfifo("req", "mkfifo_req", "mkfifo_res") \/ Mkfifo("res", "mkfifo_res", "open_req")
    \/ S_OpenReq \/ Opened("server", "opening_req", "read") \/ S_Read \/ S_CloseReq \/ S_Compute
    \/ S_OpenRes \/ Opened("server", "opening_res", "write") \/ S_Write \/ S_CloseRes
    \/ Unlink("req", "unlink_req", "unlink_res") \/ Unlink("res", "unlink_res", "exit") \/ S_Exit

Client(c) ==
    \/ C_OpenReq(c) \/ Opened(c, "opening_req", "write") \/ C_Write(c) \/ C_CloseReq(c) \/ C_OpenFails(c)
    \/ C_OpenRes(c) \/ Opened(c, "opening_res", "read") \/ C_Read(c) \/ C_End(c)

Next ==
    \/ Server \/ S_Start \/ S_Signal
    \/ \E c \in Clients : Client(c) \/ C_Start(c) \/ C_Interrupt(c)

\* As long as some started program can go on, one does; nobody need start,
\* interrupt or stop anything.
Progress == Server \/ \E c \in Clients : Client(c)
Fairness == WF_vars(Progress)
Spec == Init /\ [][Next]_vars /\ Fairness

----------------------------------------------------------------------------
Stopped == pc["server"] \in {"off", "unlink_req", "unlink_res", "exit"}

\* Every variable has its declared type.
TypeOK ==
    /\ path \in [{"req", "res"} -> 0..MaxStarts]
    /\ readers \in [Fifos -> SUBSET Procs] /\ writers \in [Fifos -> SUBSET Procs]
    /\ data \in [Fifos -> Seq(Clients)]
    /\ fd \in [Procs -> Fifos \cup {<<"none", 0>>}] /\ DOMAIN pc = Procs
    /\ starts \in 0..MaxStarts /\ request \in Clients \cup {"none"}
    /\ answer \in [Clients -> Clients \cup {"none", "eof"}] /\ disturbed \in BOOLEAN
    /\ blocked \cup sigpiped \subseteq Procs /\ endless \cup alone \subseteq Clients

\* A client alone with a server that was ready reads the answer to its own
\* request, never one meant for an earlier client, interrupted ones included,
\* and never end of file; the server is killed by its own write only when a
\* client has gone between its request and its answer; and a server that
\* exits through its handler, wherever the signal came, leaves no FIFO behind
\* (program2.c:15-31, 94-97).
OwnAnswer ==
    /\ TypeOK
    /\ \A c \in alone : answer[c] \in {"none", c}
    /\ "server" \in sigpiped => disturbed
    /\ pc["server"] = "exit" => path["req"] = 0 /\ path["res"] = 0

\* Such a client is answered in the end, whatever has become of the clients
\* before it, unless it is interrupted or its request has no end; and after
\* every request the server listens again, a client that opened the FIFO and
\* sent nothing included, unless a client has gone between request and answer
\* or a request has no end (program2.c:68-107).
AnswersAndReturns ==
    /\ \A c \in Clients : (pc[c] = "open_req" /\ c \in alone) ~>
        (answer[c] = c \/ pc[c] = "interrupted" \/ c \in endless \/ c \notin alone)
    /\ (pc["server"] = "read") ~> (pc["server"] = "open_req" \/ Stopped \/ disturbed \/ endless # {})
============================================================================
