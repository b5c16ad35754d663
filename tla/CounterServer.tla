--------------------------- MODULE CounterServer ---------------------------
(***************************************************************************)
(* Lab 7: an iterative TCP server that keeps a counter, and its clients.   *)
(* A connection is served from accept4 to close before the next one; one   *)
(* recv reads the request, a GET or POST adds 1 and "ZADANIE n" adds n,    *)
(* the reply is the new count.  SIGINT clears keep_running and interrupts  *)
(* a call that is blocked at that moment, and nothing else.                *)
(***************************************************************************)
EXTENDS Integers, FiniteSets, Sequences, FiniteSetsExt, SequencesExt

CONSTANTS Clients,
          Leavers,     \* clients that may go away before they have the reply
          Values,      \* numbers a client may ask to add; a GET is 1
          Backlog,     \* BACKLOG_SIZE (10)
          Half,        \* int is the range -Half .. Half - 1 (Half = 2^31)
          Split,       \* clients whose request may arrive in parts
          Interrupts,  \* the server may get a SIGINT
          None

VARIABLES keep_running, request_counter,
          spc,       \* server: its statement
          client_fd, \* server: the client whose connection it serves
          task,      \* server: the number received
          open,      \* server: clients whose descriptor is open
          pending,   \* connections nobody has accepted yet
          value,     \* the number each client was started with
          cpc,       \* client: its statement or outcome
          sent,      \* clients whose request has been sent
          answer,    \* what the server sent back
          late       \* history: the SIGINT came between the loop's test and
                     \* accept4
network == <<pending, value, cpc, sent, answer>>
running == <<keep_running, late>>
server == <<keep_running, request_counter, spc, client_fd, task, open, late>>
vars == <<keep_running, request_counter, spc, client_fd, task, open,
          pending, value, cpc, sent, answer, late>>

\* int addition wraps.
Wrap(i) == ((i + Half) % (2 * Half)) - Half

Init ==
    /\ keep_running = TRUE /\ request_counter = 0
    /\ spc = "test" /\ client_fd = None /\ task = 0 /\ open = {} /\ pending = <<>>
    /\ value \in [Clients -> Values]
    /\ cpc = [c \in Clients |-> "connect"] /\ sent = {}
    /\ answer = [c \in Clients |-> None] /\ late = FALSE

(***************************************************************************)
(* Server.  A call that blocks has two states: before it, where a signal   *)
(* only sets the flag, and inside it ("..._wait").                         *)
(***************************************************************************)
Serve(from, to) == spc \in from /\ spc' = to

Test ==
    /\ Serve({"test"}, IF keep_running THEN "accept" ELSE "cleanup")
    /\ UNCHANGED <<running, request_counter, client_fd, task, open, network>>

Accept ==
    /\ Serve({"accept", "accept_wait"}, "recv") /\ pending # <<>>
    /\ client_fd' = Head(pending) /\ pending' = Tail(pending)
    /\ open' = open \cup {Head(pending)}
    /\ UNCHANGED <<running, request_counter, task, value, cpc, sent, answer>>

AcceptBlocks ==
    /\ Serve({"accept"}, "accept_wait") /\ pending = <<>>
    /\ UNCHANGED <<running, request_counter, client_fd, task, open, network>>

\* The numbers sscanf may find in c's request: the one sent or, if the end of
\* the request has not arrived, its leading digits, or none (0).  An int has at
\* most ten digits.
Tens == {1, 10, 100, 1000, 10000, 100000, 1000000, 10000000, 100000000, 1000000000}
Leading(v, p) == IF v < 0 THEN -((-v) \div p) ELSE v \div p

Parsed(c) ==
    IF c \in Split THEN {Leading(value[c], p) : p \in Tens} \cup {0} ELSE {value[c]}

Recv ==
    /\ Serve({"recv", "recv_wait"}, "count") /\ client_fd \in sent
    /\ task' \in Parsed(client_fd)
    /\ UNCHANGED <<running, request_counter, client_fd, open, network>>

\* Not even the keyword has arrived: no branch is taken.
RecvPartOfKeyword ==
    /\ Serve({"recv", "recv_wait"}, "close") /\ client_fd \in sent \cap Split
    /\ UNCHANGED <<running, request_counter, client_fd, task, open, network>>

RecvBlocks ==
    /\ Serve({"recv"}, "recv_wait") /\ client_fd \notin sent /\ cpc[client_fd] # "left"
    /\ UNCHANGED <<running, request_counter, client_fd, task, open, network>>

\* Mutant: continue without close when recv returns 0.
RecvEndLeaks ==
    /\ Serve({"recv", "recv_wait"}, "test")
    /\ client_fd \notin sent /\ cpc[client_fd] = "left"
    /\ UNCHANGED <<running, request_counter, client_fd, task, open, network>>

\* recv returns 0: the client went away without a request.
RecvEnd ==
    /\ Serve({"recv", "recv_wait"}, "close")
    /\ client_fd \notin sent /\ cpc[client_fd] = "left"
    /\ UNCHANGED <<running, request_counter, client_fd, task, open, network>>

\* Mutant: the counter outgrows an int.
CountUnbounded ==
    /\ Serve({"count"}, "send") /\ request_counter' = request_counter + task
    /\ UNCHANGED <<running, client_fd, task, open, network>>

\* Mutant: a request that arrived before the SIGINT is answered, not counted.
CountUnlessStopping ==
    /\ Serve({"count"}, "send")
    /\ request_counter' = IF keep_running THEN Wrap(request_counter + task)
                                          ELSE request_counter
    /\ UNCHANGED <<running, client_fd, task, open, network>>

Count ==
    /\ Serve({"count"}, "send") /\ request_counter' = Wrap(request_counter + task)
    /\ UNCHANGED <<running, client_fd, task, open, network>>

Send ==
    /\ Serve({"send"}, "close")
    /\ answer' = [answer EXCEPT ![client_fd] = request_counter]
    /\ UNCHANGED <<running, request_counter, client_fd, task, open,
                   pending, value, cpc, sent>>

\* Mutant: only the write side is shut down after a reply, nothing is closed.
CloseMissing ==
    /\ Serve({"close"}, "test") /\ client_fd' = None
    /\ UNCHANGED <<running, request_counter, task, open, network>>

Close ==
    /\ Serve({"close"}, "test") /\ client_fd' = None /\ open' = open \ {client_fd}
    /\ UNCHANGED <<running, request_counter, task, network>>

\* The listening socket is closed, which resets the pending connections, and
\* the process ends, which closes the rest.
Cleanup ==
    /\ Serve({"cleanup"}, "exited") /\ pending' = <<>> /\ open' = {}
    /\ UNCHANGED <<running, request_counter, client_fd, task, value, cpc, sent, answer>>

\* Mutant: SA_RESTART, a blocked call goes on after the handler.
HandleSigintRestarts ==
    /\ Interrupts /\ keep_running /\ spc # "exited" /\ keep_running' = FALSE
    /\ late' = (spc = "accept")
    /\ UNCHANGED <<request_counter, spc, client_fd, task, open, network>>

\* handle_sigint and its effect on a blocked call: accept4 fails and the loop
\* goes on, recv fails and the connection is closed.
HandleSigint ==
    /\ Interrupts /\ keep_running /\ spc # "exited" /\ keep_running' = FALSE
    /\ late' = (spc = "accept")
    /\ spc' = CASE spc = "accept_wait" -> "test"
                [] spc = "recv_wait" -> "close"
                [] OTHER -> spc
    /\ UNCHANGED <<request_counter, client_fd, task, open, network>>

(***************************************************************************)
(* Client.                                                                 *)
(***************************************************************************)
Goto(c, from, to) == cpc[c] \in from /\ cpc' = [cpc EXCEPT ![c] = to]

\* connect: completed by the kernel while the server listens and the backlog
\* has room, refused once it does not listen.
Connect(c) ==
    /\ IF spc = "exited"
       THEN Goto(c, {"connect"}, "failed") /\ pending' = pending
       ELSE /\ Goto(c, {"connect"}, "request")
            /\ Len(pending) <= Backlog /\ pending' = Append(pending, c)
    /\ UNCHANGED <<server, value, sent, answer>>

\* The server's end of the connection is closed or reset.
Gone(c) == c \notin open /\ c \notin ToSet(pending)

Request(c) ==
    /\ IF Gone(c) THEN Goto(c, {"request"}, "failed") /\ sent' = sent
                  ELSE Goto(c, {"request"}, "reply") /\ sent' = sent \cup {c}
    /\ UNCHANGED <<server, pending, value, answer>>

\* recv: the answer if there is one, else the end of the connection.
Reply(c) ==
    /\ IF answer[c] # None THEN Goto(c, {"reply"}, "done")
                           ELSE Gone(c) /\ Goto(c, {"reply"}, "failed")
    /\ UNCHANGED <<server, pending, value, sent, answer>>

\* The client is ended by its user.
Leave(c) ==
    /\ c \in Leavers /\ Goto(c, {"request", "reply"}, "left")
    /\ UNCHANGED <<server, pending, value, sent, answer>>

ServerStep == \/ Test \/ Accept \/ AcceptBlocks \/ Recv \/ RecvPartOfKeyword
              \/ RecvBlocks \/ RecvEnd \/ Count \/ Send \/ Close \/ Cleanup
ClientStep(c) == Connect(c) \/ Request(c) \/ Reply(c)

Next == ServerStep \/ HandleSigint \/ \E c \in Clients : ClientStep(c) \/ Leave(c)

Spec == Init /\ [][Next]_vars

\* Both programs run when they can; the kernel retries connect until there is
\* room in the backlog.  Nobody has to leave or to stop the server.
Fairness == WF_vars(ServerStep) /\ \A c \in Clients : SF_vars(ClientStep(c))

-----------------------------------------------------------------------------
Int_ == -Half .. Half - 1

\* Every variable has its declared type; the counter is an int.
TypeOK ==
    /\ keep_running \in BOOLEAN /\ late \in BOOLEAN
    /\ request_counter \in Int_ /\ task \in Int_
    /\ client_fd \in Clients \cup {None} /\ open \cup sent \cup ToSet(pending) \subseteq Clients
    /\ value \in [Clients -> Values] /\ answer \in [Clients -> Int_ \cup {None}]
    /\ cpc \in [Clients -> {"connect", "request", "reply", "done", "failed", "left"}]

\* A request counts once or not at all: the counter is the sum of one number
\* per client that was answered or is about to be, and none for the others
\* (SIGINT, a client that leaves, a request cut off and the reset of pending
\* connections included), and a client told of a failure was not answered.
AllOrNothing ==
    LET Answered == {c \in Clients : answer[c] # None \/ (spc = "send" /\ client_fd = c)}
        Taken == {f \in [Answered -> UNION {Parsed(c) : c \in Answered}] :
                      \A c \in Answered : f[c] \in Parsed(c)}
    IN  /\ TypeOK
        /\ \E f \in Taken : request_counter = Wrap(MapThenSumSet(LAMBDA c : f[c], Answered))
        /\ \A c \in Clients : cpc[c] = "failed" => answer[c] = None

\* "Leak prevention": when the server waits for a connection or has left the
\* loop, no connection is open.
NoDescriptorLeak == spc \in {"test", "accept", "accept_wait", "cleanup"} => open = {}

\* Every client that connects finishes, whatever the others do and whether
\* the server is stopped or reads requests in parts.
ClientsFinish == \A c \in Clients :
    cpc[c] = "request" ~> cpc[c] \in {"done", "failed", "left"}

\* "Graceful shutdown handling (SIGINT)": the server ends after a SIGINT,
\* unless it came after the loop's test and before accept4 blocked.
ShutsDown == (~keep_running /\ ~late) ~> spc = "exited"
=============================================================================
