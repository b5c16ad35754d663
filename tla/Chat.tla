-------------------------------- MODULE Chat --------------------------------
(***************************************************************************)
(* Lab 4: a chat server and its clients over POSIX message queues.  Every  *)
(* queue holds at most MaxMsg messages; mq_send blocks on a full queue and *)
(* mq_receive on an empty one.  A queue whose name is unlinked lives on    *)
(* while somebody has it open, as the server has every registered one.     *)
(***************************************************************************)
EXTENDS Naturals, Sequences, FiniteSets, SequencesExt

CONSTANTS Clients,      \* client programs
          MaxClients,   \* MAX_CLIENTS (10)
          MaxMsg,       \* MAX_MSG (10)
          MaxTexts,     \* bound: lines each user types
          Stoppable,    \* clients a user may end with SIGINT or SIGTERM
          ServerStops,  \* the server may be ended
          None

ASSUME ClientsAssumption == IsFiniteSet(Clients) /\ Stoppable \subseteq Clients
ASSUME BoundAssumption == MaxClients \in Nat \ {0} /\ MaxMsg \in Nat \ {0}
ASSUME TextsAssumption == MaxTexts \in [Clients -> Nat] /\ ServerStops \in BOOLEAN
ASSUME NoneAssumption == None \notin Clients

VARIABLES server_q,        \* messages to the server
          client_q,        \* messages in each client's private queue
          linked,          \* clients whose queue name exists
          client_queues,   \* the server's registry: entry id + 1 has that id
          spc, msg, target,   \* server: statement, message, loop counter
          cpc, my_id, texts,  \* client: statement, id, lines typed
          child,           \* receiver process: none, running, signalled, exited
          child_pid,       \* clients whose parent has assigned child_pid
          printed          \* texts each receiver has printed, in order

server == <<client_queues, spc, msg, target>>
client == <<cpc, my_id, texts, child, child_pid, printed>>
vars == <<server_q, client_q, linked, client_queues, spc, msg, target,
          cpc, my_id, texts, child, child_pid, printed>>

Init_(c) == [type |-> "INIT", from |-> c]
Assign(id) == [type |-> "ID_ASSIGN", id |-> id]
Text(c, id, n) == [type |-> "TEXT", from |-> c, id |-> id, n |-> n]

Init ==
    /\ server_q = <<>> /\ client_q = [c \in Clients |-> <<>>] /\ linked = {}
    /\ client_queues = <<>> /\ spc = "s_receive" /\ msg = None /\ target = 0
    /\ cpc = [c \in Clients |-> "c_open"]
    /\ my_id = [c \in Clients |-> None]
    /\ texts = [c \in Clients |-> 0]
    /\ child = [c \in Clients |-> "none"] /\ child_pid = {}
    /\ printed = [c \in Clients |-> <<>>]

SendTo(c, m) == /\ Len(client_q[c]) < MaxMsg
                /\ client_q' = [client_q EXCEPT ![c] = Append(@, m)]
SendServer(m) == Len(server_q) < MaxMsg /\ server_q' = Append(server_q, m)

(***************************************************************************)
(* Server.                                                                 *)
(***************************************************************************)
S_Receive ==
    /\ spc = "s_receive" /\ server_q # <<>>
    /\ msg' = Head(server_q) /\ server_q' = Tail(server_q)
    /\ spc' = IF Head(server_q).type = "INIT" THEN "s_init" ELSE "s_send"
    /\ target' = 0
    /\ UNCHANGED <<client_q, linked, client_queues, client>>

\* Mutant: the new queue is put at index 0.
S_RegisterAtZero ==
    /\ spc = "s_init" /\ Len(client_queues) < MaxClients
    /\ msg.from \in linked
    /\ client_queues' = <<msg.from>> \o client_queues
    /\ spc' = "s_reply"
    /\ UNCHANGED <<server_q, client_q, linked, msg, target, client>>

\* Registration: the client's queue opens only while its name is linked.
S_Register ==
    /\ spc = "s_init" /\ Len(client_queues) < MaxClients
    /\ msg.from \in linked
    /\ client_queues' = Append(client_queues, msg.from)
    /\ spc' = "s_reply"
    /\ UNCHANGED <<server_q, client_q, linked, msg, target, client>>

S_Refuse ==
    /\ spc = "s_init"
    /\ Len(client_queues) = MaxClients \/ msg.from \notin linked
    /\ spc' = "s_receive"
    /\ UNCHANGED <<server_q, client_q, linked, client_queues, msg, target, client>>

\* Mutant: reply.type is left at 0, which is MSG_INIT.
S_ReplyUntyped ==
    /\ spc = "s_reply"
    /\ SendTo(msg.from, Init_(msg.from))
    /\ spc' = "s_receive"
    /\ UNCHANGED <<server_q, linked, client_queues, msg, target, client>>

\* Mutant: the id is taken after active_clients++.
S_ReplyLate ==
    /\ spc = "s_reply"
    /\ SendTo(msg.from, Assign(Len(client_queues)))
    /\ spc' = "s_receive"
    /\ UNCHANGED <<server_q, linked, client_queues, msg, target, client>>

S_Reply ==
    /\ spc = "s_reply"
    /\ SendTo(msg.from, Assign(Len(client_queues) - 1))
    /\ spc' = "s_receive"
    /\ UNCHANGED <<server_q, linked, client_queues, msg, target, client>>

\* Mutant: the sender is not left out.
ForwardsToAll(t) == TRUE

\* Mutant: < in place of #.
ForwardsToOlder(t) == t < msg.id

\* i != msg.client_id
Forwards(t) == t # msg.id

\* One round of the broadcast loop.
S_Send ==
    /\ spc = "s_send" /\ target < Len(client_queues)
    /\ IF Forwards(target) THEN SendTo(client_queues[target + 1], msg)
                           ELSE client_q' = client_q
    /\ target' = target + 1
    /\ UNCHANGED <<server_q, linked, client_queues, spc, msg, client>>

S_SendEnd ==
    /\ spc = "s_send" /\ target = Len(client_queues)
    /\ spc' = "s_receive"
    /\ UNCHANGED <<server_q, client_q, linked, client_queues, msg, target, client>>

\* cleanup_handler: the server's queue loses its name, the server exits.
S_Stop ==
    /\ ServerStops /\ spc # "exited" /\ spc' = "exited"
    /\ UNCHANGED <<server_q, client_q, linked, client_queues, msg, target, client>>

(***************************************************************************)
(* Client: parent process.                                                 *)
(***************************************************************************)
Goto(c, from, to) == cpc[c] = from /\ cpc' = [cpc EXCEPT ![c] = to]

C_Open(c) ==
    /\ Goto(c, "c_open", "c_server") /\ linked' = linked \cup {c}
    /\ UNCHANGED <<server_q, client_q, server, my_id, texts, child, child_pid, printed>>

\* mq_open of the server's queue; without a server the client cleans up.
C_Server(c) ==
    /\ IF spc = "exited"
       THEN Goto(c, "c_server", "exited") /\ linked' = linked \ {c}
       ELSE Goto(c, "c_server", "c_init") /\ linked' = linked
    /\ UNCHANGED <<server_q, client_q, server, my_id, texts, child, child_pid, printed>>

C_Init(c) ==
    /\ Goto(c, "c_init", "c_reply") /\ SendServer(Init_(c))
    /\ UNCHANGED <<client_q, linked, server, my_id, texts, child, child_pid, printed>>

\* The first message must be the id; with any other the client cleans up.
C_Reply(c) ==
    /\ client_q[c] # <<>>
    /\ client_q' = [client_q EXCEPT ![c] = Tail(@)]
    /\ IF Head(client_q[c]).type = "ID_ASSIGN"
       THEN /\ Goto(c, "c_reply", "c_fork")
            /\ my_id' = [my_id EXCEPT ![c] = Head(client_q[c]).id]
            /\ linked' = linked
       ELSE /\ Goto(c, "c_reply", "exited") /\ my_id' = my_id
            /\ linked' = linked \ {c}
    /\ UNCHANGED <<server_q, server, texts, child, child_pid, printed>>

\* fork returns in the child before child_pid is assigned in the parent.
C_Fork(c) ==
    /\ Goto(c, "c_fork", "c_assign") /\ child' = [child EXCEPT ![c] = "running"]
    /\ UNCHANGED <<server_q, client_q, linked, server, my_id, texts, child_pid, printed>>

C_Assign(c) ==
    /\ Goto(c, "c_assign", "c_input") /\ child_pid' = child_pid \cup {c}
    /\ UNCHANGED <<server_q, client_q, linked, server, my_id, texts, child, printed>>

\* fgets, then mq_send.
C_Input(c) ==
    /\ texts[c] < MaxTexts[c]
    /\ Goto(c, "c_input", "c_send") /\ texts' = [texts EXCEPT ![c] = @ + 1]
    /\ UNCHANGED <<server_q, client_q, linked, server, my_id, child, child_pid, printed>>

C_Send(c) ==
    /\ Goto(c, "c_send", "c_input")
    /\ SendServer(Text(c, my_id[c], texts[c]))
    /\ UNCHANGED <<client_q, linked, server, my_id, texts, child, child_pid, printed>>

\* Mutant: the handler forgets the receiver.
C_StopParentOnly(c) ==
    /\ c \in Stoppable /\ cpc[c] # "exited"
    /\ cpc' = [cpc EXCEPT ![c] = "exited"] /\ linked' = linked \ {c}
    /\ UNCHANGED <<server_q, client_q, server, my_id, texts, child, child_pid, printed>>

\* cleanup_handler at any statement: unlink, and SIGTERM for the receiver if
\* the parent already knows its pid.
C_Stop(c) ==
    /\ c \in Stoppable /\ cpc[c] # "exited"
    /\ cpc' = [cpc EXCEPT ![c] = "exited"] /\ linked' = linked \ {c}
    /\ child' = [child EXCEPT ![c] =
           IF c \in child_pid THEN "signalled" ELSE @]
    /\ UNCHANGED <<server_q, client_q, server, my_id, texts, child_pid, printed>>

(***************************************************************************)
(* Client: receiver process.                                               *)
(***************************************************************************)
R_Receive(c) ==
    /\ child[c] \in {"running", "signalled"} /\ client_q[c] # <<>>
    /\ client_q' = [client_q EXCEPT ![c] = Tail(@)]
    /\ printed' = [printed EXCEPT ![c] =
           IF Head(client_q[c]).type = "TEXT" THEN Append(@, Head(client_q[c])) ELSE @]
    /\ UNCHANGED <<server_q, linked, server, cpc, my_id, texts, child, child_pid>>

\* SIGTERM reaches the receiver, which inherited the handler.
R_Exit(c) ==
    /\ child[c] = "signalled" /\ child' = [child EXCEPT ![c] = "exited"]
    /\ linked' = linked \ {c}
    /\ UNCHANGED <<server_q, client_q, server, cpc, my_id, texts, child_pid, printed>>

ServerStep == S_Receive \/ S_Register \/ S_Refuse \/ S_Reply \/ S_Send \/ S_SendEnd
Connect(c) == \/ C_Open(c) \/ C_Server(c) \/ C_Init(c) \/ C_Reply(c) \/ C_Fork(c)
              \/ C_Assign(c)
ClientStep(c) == Connect(c) \/ C_Input(c) \/ C_Send(c)

Next == \/ ServerStep \/ S_Stop
        \/ \E c \in Clients : ClientStep(c) \/ C_Stop(c) \/ R_Receive(c) \/ R_Exit(c)

Spec == Init /\ [][Next]_vars

\* Processes run when they can; senders blocked on a queue with room in it
\* again and again get through.  Users need not type or stop anything.
Fairness ==
    /\ WF_vars(ServerStep)
    /\ \A c \in Clients :
          /\ WF_vars(Connect(c)) /\ SF_vars(C_Init(c)) /\ SF_vars(C_Send(c))
          /\ WF_vars(R_Receive(c)) /\ WF_vars(R_Exit(c))

FairSpec == Spec /\ Fairness

-----------------------------------------------------------------------------
Messages ==
    {Init_(c) : c \in Clients} \cup {Assign(id) : id \in 0 .. MaxClients - 1}
      \cup UNION {{Text(c, id, n) : id \in 0 .. MaxClients - 1, n \in 1 .. MaxTexts[c]} :
                     c \in Clients}

\* Every variable has its declared type; no queue exceeds its attributes.
TypeOK ==
    /\ Len(server_q) <= MaxMsg /\ ToSet(server_q) \subseteq Messages
    /\ \A c \in Clients :
          /\ Len(client_q[c]) <= MaxMsg
          /\ ToSet(client_q[c]) \cup ToSet(printed[c]) \subseteq Messages
          /\ my_id[c] \in 0 .. MaxClients - 1 \/ my_id[c] = None
          /\ texts[c] \in 0 .. MaxTexts[c]
    /\ linked \subseteq Clients /\ child_pid \subseteq Clients
    /\ ToSet(client_queues) \subseteq Clients /\ Len(client_queues) <= MaxClients
    /\ msg \in Messages \cup {None} /\ target \in 0 .. MaxClients

\* A connected client's id is the index of its own queue in the registry, so
\* ids are unique and a broadcast leaves out exactly the sender; and the
\* server answers INIT before it forwards anything to the new client, so that
\* no client gives up on "something else than MSG_ID_ASSIGN".
IdIsRegistryIndex ==
    /\ TypeOK
    /\ \A c \in Clients : my_id[c] # None =>
        my_id[c] < Len(client_queues) /\ client_queues[my_id[c] + 1] = c
    /\ \A c \in Clients :
        cpc[c] = "c_reply" /\ client_q[c] # <<>> => Head(client_q[c]).type = "ID_ASSIGN"

\* A user never sees the same text twice, a user's texts out of order, or an
\* echo of their own.
InOrderOnceNoEcho ==
    \A c \in Clients : \A j, k \in DOMAIN printed[c] :
        /\ printed[c][j].from # c
        /\ (j < k /\ printed[c][j].from = printed[c][k].from)
              => printed[c][j].n < printed[c][k].n

\* The server's broadcast reaches "all connected clients except the sender":
\* whoever is registered when a text is sent prints it, if nobody leaves.
BroadcastArrives ==
    [](spc # "exited" /\ \A c \in Clients : cpc[c] # "exited")
      => \A s, c \in Clients : \A n \in 1 .. MaxTexts[s] :
            ( /\ s # c /\ c \in ToSet(client_queues)
              /\ \E m \in ToSet(server_q) : m.type = "TEXT" /\ m.from = s /\ m.n = n )
            ~> (\E m \in ToSet(printed[c]) : m.from = s /\ m.n = n)

\* A stopped client leaves no receiver process behind, wherever it was stopped
\* once it knew the receiver's pid.
NoOrphanReceiver ==
    \A c \in child_pid : cpc[c] = "exited" => child[c] # "running"

\* The server "continuously listens for incoming structures".
ServerListens == []<>(spc = "s_receive")
=============================================================================
