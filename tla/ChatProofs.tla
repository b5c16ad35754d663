----------------------------- MODULE ChatProofs -----------------------------
(***************************************************************************)
(* Safety of Chat for any set of clients and any capacities.               *)
(*                                                                         *)
(* A connection passes through five places (the client, the server's       *)
(* queue, the server, its registry, the client's own queue) and a text     *)
(* through four.  OneStage and Answers, the heart of IInv, say what all of *)
(* them hold at each stage of a connection; in the parts of LInv the texts *)
(* are followed from the keyboard of one user to the screen of another.    *)
(***************************************************************************)
EXTENDS Chat, SequenceTheorems, TLAPS

Inits == {Init_(c) : c \in Clients}
Assigns == {Assign(id) : id \in 0 .. MaxClients - 1}
TextMsgs == {Text(c, id, n) : c \in Clients, id \in Nat, n \in Nat}

ServerPcs == {"s_receive", "s_init", "s_reply", "s_send", "exited"}
ClientPcs == {"c_open", "c_server", "c_init", "c_reply", "c_fork", "c_assign", "c_input",
              "c_send", "exited"}

\* The domains of the variables.
Shape ==
    /\ server_q \in Seq(Inits \cup TextMsgs)
    /\ client_q \in [Clients -> Seq(Assigns \cup TextMsgs)]
    /\ printed \in [Clients -> Seq(TextMsgs)]
    /\ linked \subseteq Clients /\ child_pid \subseteq Clients
    /\ client_queues \in Seq(Clients)
    /\ spc \in ServerPcs /\ target \in Nat
    /\ spc \in {"s_init", "s_reply"} => msg \in Inits
    /\ spc = "s_send" => msg \in TextMsgs
    /\ msg \in Inits \cup TextMsgs \cup {None}
    /\ cpc \in [Clients -> ClientPcs]
    /\ my_id \in [Clients -> Nat \cup {None}]
    /\ texts \in [Clients -> Nat]
    /\ child \in [Clients -> {"none", "running", "signalled", "exited"}]

\* What the queues and the registry can hold at most.
Bounded ==
    /\ Len(server_q) <= MaxMsg /\ \A c \in Clients : Len(client_q[c]) <= MaxMsg
    /\ Len(client_queues) <= MaxClients /\ target <= Len(client_queues)
    /\ \A c \in Clients : /\ texts[c] <= MaxTexts[c]
                          /\ cpc[c] = "c_send" => texts[c] > 0

\* A client whose parent process is past the fork has a receiver, until the
\* parent is ended; only such a client has typed; and the parent knows the pid
\* from the statement after the fork.
Receivers ==
    \A c \in Clients :
        /\ cpc[c] \in {"c_assign", "c_input", "c_send"} => child[c] = "running"
        /\ child[c] # "none" => cpc[c] \in {"c_assign", "c_input", "c_send", "exited"}
        /\ texts[c] > 0 => cpc[c] \in {"c_input", "c_send", "exited"}
        /\ cpc[c] \in {"c_input", "c_send"} => c \in child_pid
        /\ c \in child_pid => cpc[c] \in {"c_input", "c_send", "exited"}
        /\ c \in child_pid /\ cpc[c] = "exited" => child[c] # "running"

\* The stages of a connection: INIT waits at the server, the server has it in
\* hand, the client is registered, the client has its answer.
Waiting(c) == Init_(c) \in ToSet(server_q)
InHand(c) == spc = "s_init" /\ msg = Init_(c)
Registered(c) == c \in ToSet(client_queues)
Answering(c) == spc = "s_reply" /\ msg = Init_(c)

Early == {"c_open", "c_server", "c_init"}
HasId == {"c_fork", "c_assign", "c_input", "c_send"}

\* A client is at one stage at a time, and asks once.
OneStage ==
    /\ \A j, k \in DOMAIN server_q : \A c \in Clients :
            server_q[j] = Init_(c) /\ server_q[k] = Init_(c) => j = k
    /\ \A j, k \in DOMAIN client_queues : client_queues[j] = client_queues[k] => j = k
    /\ \A c \in Clients :
            /\ Waiting(c) => ~InHand(c) /\ ~Registered(c)
            /\ InHand(c) => ~Registered(c)
            /\ Answering(c) => Registered(c) /\ client_queues[Len(client_queues)] = c
            /\ cpc[c] \in Early => ~Waiting(c) /\ ~InHand(c) /\ ~Registered(c)

\* A client that is not registered, or not answered yet.
Unanswered(c) == client_q[c] = <<>> /\ my_id[c] = None /\ cpc[c] \notin HasId

\* A registered client, with the id it has or is to get: while it waits for
\* it, the answer is first in its queue.
Answered(c, id) ==
    /\ my_id[c] \in {None, id}
    /\ cpc[c] \in HasId => my_id[c] = id
    /\ cpc[c] = "c_reply" =>
            IF client_q[c] = <<>> THEN Answering(c) \/ spc = "exited"
                                  ELSE Head(client_q[c]) = Assign(id)

Answers ==
    /\ \A c \in Clients : ~Registered(c) \/ Answering(c) => Unanswered(c)
    /\ \A k \in DOMAIN client_queues : Answered(client_queues[k], k - 1)

IInv == Shape /\ Bounded /\ OneStage /\ Answers /\ Receivers

-----------------------------------------------------------------------------
\* Every text of the first set was typed before every text of the second.
Before(S, T) ==
    \A m \in S \cap TextMsgs, n \in T \cap TextMsgs : m.from = n.from => m.n < n.n

\* The texts of each user are in the order they were typed.
Ascending(q) == \A j, k \in DOMAIN q : j < k => Before({q[j]}, {q[k]})

Got(c) == ToSet(client_q[c]) \cup ToSet(printed[c])

\* A text was typed, and carries the index of its sender in the registry; one
\* that its sender has still to send is nowhere yet.
Fine(m) ==
    m \in TextMsgs =>
        /\ m.n > 0
        /\ IF cpc[m.from] = "c_send" THEN m.n < texts[m.from] ELSE m.n <= texts[m.from]
        /\ m.id + 1 \in DOMAIN client_queues /\ client_queues[m.id + 1] = m.from

\* The line of texts, from its end: what waits at the server,
ServerLine == Ascending(server_q) /\ \A m \in ToSet(server_q) : Fine(m)

\* the text the server is forwarding,
HandLine == /\ msg = None \/ Fine(msg)
            /\ spc = "s_send" => Fine(msg) /\ Before({msg}, ToSet(server_q))

\* and what a client has got: printed texts, then those in its queue, none of
\* its own.
ClientLine(c) ==
    /\ Ascending(client_q[c]) /\ Ascending(printed[c])
    /\ Before(ToSet(printed[c]), ToSet(client_q[c]))
    /\ \A m \in Got(c) : Fine(m) /\ (m \in TextMsgs => m.from # c)

\* A text at the server is newer than any that a client has got,
Behind == \A c \in Clients : Before(Got(c), ToSet(server_q))

\* and so is the one in hand until it is the client's turn.
Forward ==
    spc = "s_send" => \A k \in DOMAIN client_queues :
        k > target => Before(Got(client_queues[k]), {msg})

LInv == /\ ServerLine /\ HandLine /\ Behind /\ Forward
        /\ \A c \in Clients : ClientLine(c)

-----------------------------------------------------------------------------
\* What the fields of the three kinds of messages are.
LEMMA Kinds ==
    /\ \A m \in Inits : m.type = "INIT" /\ m.from \in Clients /\ m = Init_(m.from)
    /\ \A m \in Assigns : /\ m.type = "ID_ASSIGN" /\ m.id \in 0 .. MaxClients - 1
                          /\ m = Assign(m.id)
    /\ \A m \in TextMsgs : /\ m.type = "TEXT" /\ m.from \in Clients /\ m.id \in Nat
                           /\ m.n \in Nat /\ m = Text(m.from, m.id, m.n)
    /\ \A c \in Clients : Init_(c) \in Inits /\ Init_(c).from = c
    /\ \A id \in 0 .. MaxClients - 1 : Assign(id) \in Assigns /\ Assign(id).id = id
    /\ \A c \in Clients, id \in Nat, n \in Nat :
            /\ Text(c, id, n) \in TextMsgs /\ Text(c, id, n).from = c
            /\ Text(c, id, n).id = id /\ Text(c, id, n).n = n
    /\ Inits \cap TextMsgs = {} /\ Assigns \cap TextMsgs = {}
<1>1. \A m \in Inits : m.type = "INIT" /\ m.from \in Clients /\ m = Init_(m.from)
  BY DEF Inits, Init_
<1>2. \A m \in Assigns : /\ m.type = "ID_ASSIGN" /\ m.id \in 0 .. MaxClients - 1
                         /\ m = Assign(m.id)
  BY DEF Assigns, Assign
<1>3. \A m \in TextMsgs : /\ m.type = "TEXT" /\ m.from \in Clients /\ m.id \in Nat
                          /\ m.n \in Nat /\ m = Text(m.from, m.id, m.n)
  BY DEF TextMsgs, Text
<1>4. \A c \in Clients : Init_(c) \in Inits /\ Init_(c).from = c
  BY DEF Inits, Init_
<1>5. \A id \in 0 .. MaxClients - 1 : Assign(id) \in Assigns /\ Assign(id).id = id
  BY DEF Assigns, Assign
<1>6. \A c \in Clients, id \in Nat, n \in Nat :
            /\ Text(c, id, n) \in TextMsgs /\ Text(c, id, n).from = c
            /\ Text(c, id, n).id = id /\ Text(c, id, n).n = n
  BY DEF TextMsgs, Text
<1>7. Inits \cap TextMsgs = {} /\ Assigns \cap TextMsgs = {}
  BY <1>1, <1>2, <1>3
<1>8. QED
  BY <1>1, <1>2, <1>3, <1>4, <1>5, <1>6, <1>7

\* The positions of a sequence, and what ToSet says of them.
LEMMA Positions ==
    ASSUME NEW S, NEW q \in Seq(S)
    PROVE  /\ Len(q) \in Nat /\ DOMAIN q = 1 .. Len(q)
           /\ ToSet(q) \subseteq S /\ \A j \in DOMAIN q : q[j] \in ToSet(q)
           /\ \A m \in ToSet(q) : \E j \in DOMAIN q : q[j] = m
           /\ q = <<>> <=> Len(q) = 0
           /\ q = <<>> <=> ToSet(q) = {}
<1>1. Len(q) \in Nat /\ DOMAIN q = 1 .. Len(q) /\ \A j \in DOMAIN q : q[j] \in S
  OBVIOUS
<1>2. q = <<>> <=> Len(q) = 0
  BY EmptySeq
<1>3. q # <<>> => 1 \in DOMAIN q
  BY <1>1, <1>2
<1>4. /\ ToSet(q) \subseteq S /\ \A j \in DOMAIN q : q[j] \in ToSet(q)
      /\ \A m \in ToSet(q) : \E j \in DOMAIN q : q[j] = m
  BY <1>1 DEF ToSet
<1>5. q = <<>> => DOMAIN q = {}
  BY <1>1, <1>2
<1>6. q = <<>> <=> ToSet(q) = {}
  BY <1>3, <1>4, <1>5
<1>7. QED
  BY <1>1, <1>2, <1>4, <1>6

\* What adding a message at the end does to a queue.
LEMMA AfterSend ==
    ASSUME NEW S, NEW q \in Seq(S), NEW m \in S
    PROVE  /\ Append(q, m) \in Seq(S) /\ Append(q, m) # <<>>
           /\ Len(Append(q, m)) = Len(q) + 1 /\ Len(q) \in Nat
           /\ DOMAIN Append(q, m) = 1 .. Len(q) + 1
           /\ ToSet(Append(q, m)) = ToSet(q) \cup {m}
           /\ \A j \in 1 .. Len(q) : Append(q, m)[j] = q[j]
           /\ Append(q, m)[Len(q) + 1] = m
           /\ Head(Append(q, m)) = IF q = <<>> THEN m ELSE Head(q)
<1>1. /\ Append(q, m) \in Seq(S) /\ Append(q, m) # <<>>
      /\ Len(Append(q, m)) = Len(q) + 1 /\ Len(q) \in Nat
      /\ DOMAIN Append(q, m) = 1 .. Len(q) + 1
      /\ \A j \in 1 .. Len(q) : Append(q, m)[j] = q[j]
      /\ Append(q, m)[Len(q) + 1] = m
  BY AppendProperties
<1>2. DOMAIN q = 1 .. Len(q)
  OBVIOUS
<1>3. ToSet(Append(q, m)) = ToSet(q) \cup {m}
  <2>1. ASSUME NEW x \in ToSet(Append(q, m)) PROVE x \in ToSet(q) \cup {m}
    <3>1. PICK j \in 1 .. Len(q) + 1 : Append(q, m)[j] = x
      BY <1>1 DEF ToSet
    <3>2. j \in 1 .. Len(q) \/ j = Len(q) + 1
      BY <1>1
    <3>3. QED
      BY <1>1, <1>2, <3>1, <3>2 DEF ToSet
  <2>2. ASSUME NEW x \in ToSet(q) PROVE x \in ToSet(Append(q, m))
    <3>1. PICK j \in 1 .. Len(q) : q[j] = x
      BY <1>2 DEF ToSet
    <3>2. j \in DOMAIN Append(q, m) /\ Append(q, m)[j] = x
      BY <1>1, <3>1
    <3>3. QED
      BY <3>2 DEF ToSet
  <2>3. m \in ToSet(Append(q, m))
    <3>1. Len(q) + 1 \in DOMAIN Append(q, m)
      BY <1>1
    <3>2. QED
      BY <1>1, <3>1 DEF ToSet
  <2>4. QED
    BY <2>1, <2>2, <2>3
<1>4. Head(Append(q, m)) = IF q = <<>> THEN m ELSE Head(q)
  <2>1. Head(Append(q, m)) = Append(q, m)[1] /\ (q # <<>> => Head(q) = q[1])
    OBVIOUS
  <2>2. q = <<>> <=> Len(q) = 0
    BY EmptySeq
  <2>3. QED
    BY <1>1, <2>1, <2>2
<1>5. QED
  BY <1>1, <1>3, <1>4

\* What taking the first message does to a queue.
LEMMA AfterReceive ==
    ASSUME NEW S, NEW q \in Seq(S), q # <<>>
    PROVE  /\ Tail(q) \in Seq(S) /\ Head(q) \in S /\ Head(q) = q[1]
           /\ Len(Tail(q)) = Len(q) - 1 /\ Len(q) \in Nat \ {0}
           /\ DOMAIN Tail(q) = 1 .. Len(q) - 1 /\ DOMAIN q = 1 .. Len(q)
           /\ \A j \in 1 .. Len(q) - 1 : Tail(q)[j] = q[j + 1]
           /\ ToSet(q) = ToSet(Tail(q)) \cup {Head(q)}
<1>1. /\ Tail(q) \in Seq(S) /\ Head(q) \in S /\ Head(q) = q[1]
      /\ Len(Tail(q)) = Len(q) - 1 /\ Len(q) \in Nat \ {0}
      /\ DOMAIN Tail(q) = 1 .. Len(q) - 1 /\ DOMAIN q = 1 .. Len(q)
      /\ \A j \in 1 .. Len(q) - 1 : Tail(q)[j] = q[j + 1]
  BY HeadTailProperties, EmptySeq
<1>2. ASSUME NEW m \in ToSet(q) PROVE m \in ToSet(Tail(q)) \cup {Head(q)}
  <2>1. PICK j \in 1 .. Len(q) : q[j] = m
    BY <1>1 DEF ToSet
  <2>2. CASE j = 1
    BY <1>1, <2>1, <2>2
  <2>3. CASE j # 1
    <3>1. j - 1 \in 1 .. Len(q) - 1 /\ (j - 1) + 1 = j
      BY <1>1, <2>3
    <3>2. Tail(q)[j - 1] = m
      BY <1>1, <2>1, <3>1
    <3>3. QED
      BY <1>1, <3>1, <3>2 DEF ToSet
  <2>4. QED
    BY <2>2, <2>3
<1>3. ASSUME NEW m \in ToSet(Tail(q)) PROVE m \in ToSet(q)
  <2>1. PICK j \in 1 .. Len(q) - 1 : Tail(q)[j] = m
    BY <1>1 DEF ToSet
  <2>2. j + 1 \in DOMAIN q /\ q[j + 1] = m
    BY <1>1, <2>1
  <2>3. QED
    BY <2>2 DEF ToSet
<1>4. Head(q) \in ToSet(q)
  BY <1>1 DEF ToSet
<1>5. QED
  BY <1>1, <1>2, <1>3, <1>4

-----------------------------------------------------------------------------
\* Before is about the members of the two sets only.
LEMMA BeforeParts ==
    ASSUME NEW S, NEW T, Before(S, T)
    PROVE  \A U \in SUBSET S, V \in SUBSET T : Before(U, V)
  BY DEF Before

\* Two sets of texts that are before a third, or after it, are so together.
LEMMA BeforeJoin ==
    ASSUME NEW S, NEW T, NEW U
    PROVE  /\ Before(S, U) /\ Before(T, U) => Before(S \cup T, U)
           /\ Before(U, S) /\ Before(U, T) => Before(U, S \cup T)
  BY DEF Before

\* A message that is not a text is before and after anything.
LEMMA BeforeOther ==
    ASSUME NEW m, m \notin TextMsgs, NEW T
    PROVE  Before({m}, T) /\ Before(T, {m})
  BY DEF Before

\* A message that is newer than those of a queue keeps it in order.
LEMMA AscendingSend ==
    ASSUME NEW S, NEW q \in Seq(S), NEW m \in S, Ascending(q), Before(ToSet(q), {m})
    PROVE  Ascending(Append(q, m))
<1> SUFFICES ASSUME NEW j \in DOMAIN Append(q, m), NEW k \in DOMAIN Append(q, m), j < k
             PROVE  Before({Append(q, m)[j]}, {Append(q, m)[k]})
  BY DEF Ascending
<1>1. j \in 1 .. Len(q) /\ Append(q, m)[j] = q[j] /\ DOMAIN q = 1 .. Len(q)
  BY AfterSend, Positions
<1>2. CASE k \in 1 .. Len(q)
  <2>1. Append(q, m)[k] = q[k] /\ Before({q[j]}, {q[k]})
    BY <1>1, <1>2, AfterSend DEF Ascending
  <2>2. QED
    BY <1>1, <2>1
<1>3. CASE k = Len(q) + 1
  <2>1. Append(q, m)[k] = m /\ {q[j]} \subseteq ToSet(q)
    BY <1>1, <1>3, AfterSend, Positions
  <2>2. QED
    BY <1>1, <2>1, BeforeParts
<1>4. k \in 1 .. Len(q) + 1
  <2>1. DOMAIN Append(q, m) = 1 .. Len(q) + 1
    BY AfterSend
  <2>2. QED
    BY <2>1
<1>5. k \in 1 .. Len(q) \/ k = Len(q) + 1
  BY <1>4, Positions
<1>6. QED
  BY <1>2, <1>3, <1>5

\* Taking the first message keeps a queue in order, and what was taken is
\* older than what is left.
LEMMA AscendingReceive ==
    ASSUME NEW S, NEW q \in Seq(S), q # <<>>, Ascending(q)
    PROVE  Ascending(Tail(q)) /\ Before({Head(q)}, ToSet(Tail(q)))
<1>1. ASSUME NEW j \in DOMAIN Tail(q), NEW k \in DOMAIN Tail(q), j < k
      PROVE  Before({Tail(q)[j]}, {Tail(q)[k]})
  <2>1. /\ j + 1 \in DOMAIN q /\ k + 1 \in DOMAIN q /\ j + 1 < k + 1
        /\ Tail(q)[j] = q[j + 1] /\ Tail(q)[k] = q[k + 1]
    BY <1>1, AfterReceive
  <2>2. QED
    BY <2>1 DEF Ascending
<1>2. ASSUME NEW k \in DOMAIN Tail(q) PROVE Before({Head(q)}, {Tail(q)[k]})
  <2>1. /\ 1 \in DOMAIN q /\ k + 1 \in DOMAIN q /\ 1 < k + 1
        /\ Head(q) = q[1] /\ Tail(q)[k] = q[k + 1]
    BY <1>2, AfterReceive
  <2>2. QED
    BY <2>1 DEF Ascending
<1>3. Before({Head(q)}, ToSet(Tail(q)))
  <2> SUFFICES ASSUME NEW n \in ToSet(Tail(q)) PROVE Before({Head(q)}, {n})
    BY DEF Before
  <2>1. PICK k \in DOMAIN Tail(q) : Tail(q)[k] = n
    BY DEF ToSet
  <2>2. QED
    BY <1>2, <2>1
<1>4. QED
  BY <1>1, <1>3 DEF Ascending

-----------------------------------------------------------------------------
\* A client past the handshake has the index of its queue in the registry.
LEMMA IdOfConnected ==
    ASSUME Shape, Answers, NEW c \in Clients, cpc[c] \in HasId
    PROVE  /\ my_id[c] \in Nat /\ my_id[c] + 1 \in DOMAIN client_queues
           /\ client_queues[my_id[c] + 1] = c
<1>1. Registered(c)
  BY DEF Answers, Unanswered
<1>2. PICK k \in DOMAIN client_queues : client_queues[k] = c
  BY <1>1, Positions DEF Registered, Shape
<1>3. my_id[c] = k - 1
  BY <1>2 DEF Answers, Answered
<1>4. k \in Nat \ {0}
  BY Positions, SMTT(30) DEF Shape
<1>5. QED
  BY <1>2, <1>3, <1>4

\* The server answers the client it has registered last.
LEMMA AnsweredIsLast ==
    ASSUME Shape, Bounded, OneStage, spc = "s_reply"
    PROVE  /\ msg \in Inits /\ msg.from \in Clients /\ msg = Init_(msg.from)
           /\ Answering(msg.from) /\ Registered(msg.from)
           /\ Len(client_queues) - 1 \in 0 .. MaxClients - 1
           /\ Len(client_queues) \in DOMAIN client_queues
           /\ client_queues # <<>> /\ client_queues[Len(client_queues)] = msg.from
<1>1. msg \in Inits /\ msg.from \in Clients /\ msg = Init_(msg.from)
  BY Kinds DEF Shape
<1>2. Answering(msg.from)
  BY <1>1 DEF Answering
<1>3. Registered(msg.from) /\ client_queues[Len(client_queues)] = msg.from
  BY <1>1, <1>2 DEF OneStage
<1>4. client_queues # <<>>
  BY <1>3, Positions DEF Registered, Shape
<1>5. Len(client_queues) \in Nat \ {0} /\ DOMAIN client_queues = 1 .. Len(client_queues)
  BY <1>4, Positions DEF Shape
<1>6. Len(client_queues) - 1 \in 0 .. MaxClients - 1
  BY <1>5, BoundAssumption DEF Bounded
<1>7. QED
  BY <1>1, <1>2, <1>3, <1>4, <1>5, <1>6

\* The next target of the broadcast is registered.
LEMMA NextTarget ==
    ASSUME Shape, spc = "s_send", target < Len(client_queues)
    PROVE  /\ target + 1 \in DOMAIN client_queues /\ client_queues[target + 1] \in Clients
           /\ msg \in TextMsgs /\ client_queues[target + 1] \in ToSet(client_queues)
           /\ target \in Nat /\ Len(client_queues) \in Nat
<1>1. target \in Nat /\ Len(client_queues) \in Nat
  BY DEF Shape
<1>2. target + 1 \in DOMAIN client_queues
  BY <1>1, Positions DEF Shape
<1>3. QED
  BY <1>1, <1>2, Positions DEF Shape

\* A message is sent to a client that has room for it.
LEMMA SendLength ==
    ASSUME Shape, Bounded, NEW c \in Clients, NEW m \in Assigns \cup TextMsgs, SendTo(c, m)
    PROVE  \A e \in Clients : Len(client_q'[e]) <= MaxMsg
<1>1. client_q[c] \in Seq(Assigns \cup TextMsgs) /\ Len(client_q[c]) < MaxMsg
  BY DEF Shape, SendTo
<1>2. Len(Append(client_q[c], m)) <= MaxMsg
  BY <1>1, AfterSend, BoundAssumption
<1>3. QED
  BY <1>2 DEF Shape, SendTo, Bounded
\* Every step keeps the domains of the variables.
LEMMA ShapeStep ==
    ASSUME Shape, Bounded, OneStage, Answers, [Next]_vars
    PROVE  Shape'
<1>1. CASE S_Receive
  <2> DEFINE m == Head(server_q)
  <2>1. server_q' \in Seq(Inits \cup TextMsgs) /\ m \in Inits \cup TextMsgs
    BY <1>1, AfterReceive DEF S_Receive, Shape
  <2>2. IF m.type = "INIT" THEN m \in Inits ELSE m \in TextMsgs
    BY <2>1, Kinds
  <2>3. QED
    BY <1>1, <2>1, <2>2 DEF S_Receive, client, Shape, ServerPcs
<1>2. CASE S_Register
  <2>1. msg \in Inits
    BY <1>2 DEF S_Register, Shape
  <2>2. msg.from \in Clients
    BY <2>1, Kinds
  <2>3. client_queues' \in Seq(Clients)
    BY <1>2, <2>2, AfterSend DEF S_Register, Shape
  <2>4. QED
    BY <1>2, <2>1, <2>3 DEF S_Register, client, Shape, ServerPcs
<1>3. CASE S_Refuse
  BY <1>3 DEF S_Refuse, client, Shape, ServerPcs, ClientPcs
<1>4. CASE S_Reply
  <2>1. msg \in Inits /\ Len(client_queues) - 1 \in 0 .. MaxClients - 1
    BY <1>4, AnsweredIsLast DEF S_Reply
  <2>2. msg.from \in Clients /\ Assign(Len(client_queues) - 1) \in Assigns
    BY <2>1, Kinds
  <2>3. client_q[msg.from] \in Seq(Assigns \cup TextMsgs)
    BY <2>2 DEF Shape
  <2>4. client_q' \in [Clients -> Seq(Assigns \cup TextMsgs)]
    BY <1>4, <2>2, <2>3, AfterSend DEF S_Reply, SendTo, Shape
  <2>5. QED
    BY <1>4, <2>1, <2>4 DEF S_Reply, client, Shape, ServerPcs
<1>5. CASE S_Send
  <2>1. msg \in TextMsgs /\ client_q' \in [Clients -> Seq(Assigns \cup TextMsgs)]
    <3>2. client_queues[target + 1] \in Clients /\ msg \in TextMsgs
      BY <1>5, NextTarget DEF S_Send
    <3>3. client_q[client_queues[target + 1]] \in Seq(Assigns \cup TextMsgs)
      BY <3>2 DEF Shape
    <3>4. Append(client_q[client_queues[target + 1]], msg) \in Seq(Assigns \cup TextMsgs)
      BY <3>2, <3>3, AfterSend
    <3>5. QED
      BY <1>5, <3>2, <3>4 DEF S_Send, SendTo, Shape
  <2>2. target' \in Nat
    BY <1>5 DEF S_Send, Shape
  <2>3. QED
    BY <1>5, <2>1, <2>2 DEF S_Send, client, Shape, ServerPcs
<1>6. CASE S_SendEnd
  BY <1>6 DEF S_SendEnd, client, Shape, ServerPcs, ClientPcs
<1>7. CASE S_Stop
  BY <1>7 DEF S_Stop, client, Shape, ServerPcs, ClientPcs
<1>8. ASSUME NEW d \in Clients, C_Open(d) PROVE Shape'
  BY <1>8 DEF C_Open, Goto, server, Shape, ServerPcs, ClientPcs
<1>9. ASSUME NEW d \in Clients, C_Server(d) PROVE Shape'
  BY <1>9 DEF C_Server, Goto, server, Shape, ServerPcs, ClientPcs
<1>10. ASSUME NEW d \in Clients, C_Init(d) PROVE Shape'
  <2>1. server_q' \in Seq(Inits \cup TextMsgs)
    BY <1>10, Kinds, AfterSend DEF C_Init, SendServer, Shape
  <2>2. QED
    BY <1>10, <2>1 DEF C_Init, Goto, server, Shape, ClientPcs
<1>11. ASSUME NEW d \in Clients, C_Reply(d) PROVE Shape'
  <2>1. /\ client_q[d] \in Seq(Assigns \cup TextMsgs)
        /\ Head(client_q[d]) \in Assigns \cup TextMsgs
        /\ Tail(client_q[d]) \in Seq(Assigns \cup TextMsgs)
    BY <1>11, AfterReceive DEF C_Reply, Shape
  <2>2. Head(client_q[d]).type = "ID_ASSIGN" => Head(client_q[d]).id \in Nat
    BY <2>1, Kinds, BoundAssumption
  <2>3. client_q' \in [Clients -> Seq(Assigns \cup TextMsgs)]
    BY <1>11, <2>1 DEF C_Reply, Shape
  <2>4. my_id' \in [Clients -> Nat \cup {None}]
    BY <1>11, <2>2 DEF C_Reply, Shape
  <2>5. QED
    BY <1>11, <2>3, <2>4 DEF C_Reply, Goto, server, Shape, ClientPcs
<1>12. ASSUME NEW d \in Clients, C_Fork(d) PROVE Shape'
  BY <1>12 DEF C_Fork, Goto, server, Shape, ServerPcs, ClientPcs
<1>13. ASSUME NEW d \in Clients, C_Assign(d) PROVE Shape'
  BY <1>13 DEF C_Assign, Goto, server, Shape, ServerPcs, ClientPcs
<1>14. ASSUME NEW d \in Clients, C_Input(d) PROVE Shape'
  BY <1>14 DEF C_Input, Goto, server, Shape, ServerPcs, ClientPcs
<1>15. ASSUME NEW d \in Clients, C_Send(d) PROVE Shape'
  <2>1. my_id[d] \in Nat /\ texts[d] \in Nat
    BY <1>15, IdOfConnected DEF C_Send, Goto, HasId, Shape
  <2>2. Text(d, my_id[d], texts[d]) \in TextMsgs
    BY <2>1, Kinds
  <2>3. server_q' \in Seq(Inits \cup TextMsgs)
    BY <1>15, <2>2, AfterSend DEF C_Send, SendServer, Shape
  <2>4. QED
    BY <1>15, <2>3 DEF C_Send, Goto, server, Shape, ClientPcs
<1>16. ASSUME NEW d \in Clients, C_Stop(d) PROVE Shape'
  BY <1>16 DEF C_Stop, server, Shape, ServerPcs, ClientPcs
<1>17. ASSUME NEW d \in Clients, R_Receive(d) PROVE Shape'
  <2>1. /\ client_q[d] \in Seq(Assigns \cup TextMsgs) /\ printed[d] \in Seq(TextMsgs)
        /\ Head(client_q[d]) \in Assigns \cup TextMsgs
        /\ Tail(client_q[d]) \in Seq(Assigns \cup TextMsgs)
    BY <1>17, AfterReceive DEF R_Receive, Shape
  <2>2. Head(client_q[d]).type = "TEXT" => Head(client_q[d]) \in TextMsgs
    BY <2>1, Kinds
  <2>3. client_q' \in [Clients -> Seq(Assigns \cup TextMsgs)]
    BY <1>17, <2>1 DEF R_Receive, Shape
  <2>4. printed' \in [Clients -> Seq(TextMsgs)]
    BY <1>17, <2>1, <2>2, AfterSend DEF R_Receive, Shape
  <2>5. QED
    BY <1>17, <2>3, <2>4 DEF R_Receive, server, Shape
<1>18. ASSUME NEW d \in Clients, R_Exit(d) PROVE Shape'
  BY <1>18 DEF R_Exit, server, Shape, ServerPcs, ClientPcs
<1>19. CASE UNCHANGED vars
  BY <1>19 DEF vars, server, client, Shape, ServerPcs, ClientPcs
<1>20. QED
  BY <1>1, <1>2, <1>3, <1>4, <1>5, <1>6, <1>7, <1>8, <1>9, <1>10, <1>11, <1>12, <1>13,
    <1>14, <1>15, <1>16, <1>17, <1>18, <1>19 DEF Next, ServerStep, ClientStep, Connect

\* No step exceeds a bound.
LEMMA BoundedStep ==
    ASSUME Shape, OneStage, Answers, Bounded, [Next]_vars
    PROVE  Bounded'
<1>1. CASE S_Receive
  <2>1. Len(server_q') <= MaxMsg
    BY <1>1, AfterReceive, BoundAssumption DEF S_Receive, Shape, Bounded
  <2>2. Len(client_queues) \in Nat
    BY DEF Shape
  <2>3. QED
    BY <1>1, <2>1, <2>2 DEF S_Receive, client, Bounded
<1>2. CASE S_Register
  <2>1. msg.from \in Clients
    BY <1>2, Kinds DEF S_Register, Shape
  <2>2. Len(client_queues') = Len(client_queues) + 1 /\ Len(client_queues) \in Nat
    BY <1>2, <2>1, AfterSend DEF S_Register, Shape
  <2>3. Len(client_queues') <= MaxClients /\ target <= Len(client_queues')
    BY <1>2, <2>2, BoundAssumption DEF S_Register, Bounded, Shape
  <2>4. QED
    BY <1>2, <2>3 DEF S_Register, client, Bounded
<1>3. CASE S_Refuse
  BY <1>3 DEF S_Refuse, client, Bounded, Shape
<1>4. CASE S_Reply
  <2>1. msg \in Inits /\ Len(client_queues) - 1 \in 0 .. MaxClients - 1
    BY <1>4, AnsweredIsLast DEF S_Reply, Shape
  <2>2. msg.from \in Clients /\ Assign(Len(client_queues) - 1) \in Assigns \cup TextMsgs
    BY <2>1, Kinds
  <2>3. \A c \in Clients : Len(client_q'[c]) <= MaxMsg
    BY <1>4, <2>2, SendLength DEF S_Reply
  <2>4. QED
    BY <1>4, <2>3 DEF S_Reply, client, Bounded
<1>5. CASE S_Send
  <2>1. /\ target + 1 \in DOMAIN client_queues /\ client_queues[target + 1] \in Clients
        /\ msg \in Assigns \cup TextMsgs
    BY <1>5, NextTarget DEF S_Send
  <2>2. \A c \in Clients : Len(client_q'[c]) <= MaxMsg
    BY <1>5, <2>1, SendLength DEF S_Send, Bounded
  <2>3. target' <= Len(client_queues)
    BY <1>5 DEF S_Send, Shape
  <2>4. QED
    BY <1>5, <2>2, <2>3 DEF S_Send, client, Bounded
<1>6. CASE S_SendEnd
  BY <1>6 DEF S_SendEnd, client, Bounded, Shape
<1>7. CASE S_Stop
  BY <1>7 DEF S_Stop, client, Bounded, Shape
<1>8. ASSUME NEW d \in Clients, C_Open(d) PROVE Bounded'
  BY <1>8 DEF C_Open, Goto, server, Bounded, Shape
<1>9. ASSUME NEW d \in Clients, C_Server(d) PROVE Bounded'
  BY <1>9 DEF C_Server, Goto, server, Bounded, Shape
<1>10. ASSUME NEW d \in Clients, C_Init(d) PROVE Bounded'
  <2>1. Len(server_q') <= MaxMsg
    BY <1>10, Kinds, AfterSend, BoundAssumption DEF C_Init, SendServer, Shape
  <2>2. QED
    BY <1>10, <2>1 DEF C_Init, Goto, server, Bounded, Shape
<1>11. ASSUME NEW d \in Clients, C_Reply(d) PROVE Bounded'
  <2>1. client_q[d] \in Seq(Assigns \cup TextMsgs)
    BY DEF Shape
  <2>2. Len(Tail(client_q[d])) <= MaxMsg
    BY <1>11, <2>1, AfterReceive, BoundAssumption DEF C_Reply, Bounded
  <2>3. QED
    BY <1>11, <2>2 DEF C_Reply, Goto, server, Bounded, Shape
<1>12. ASSUME NEW d \in Clients, C_Fork(d) PROVE Bounded'
  BY <1>12 DEF C_Fork, Goto, server, Bounded, Shape
<1>13. ASSUME NEW d \in Clients, C_Assign(d) PROVE Bounded'
  BY <1>13 DEF C_Assign, Goto, server, Bounded, Shape
<1>14. ASSUME NEW d \in Clients, C_Input(d) PROVE Bounded'
  <2>1. texts[d] \in Nat /\ MaxTexts[d] \in Nat /\ texts[d] < MaxTexts[d]
    BY <1>14, TextsAssumption DEF C_Input, Shape
  <2>2. QED
    BY <1>14, <2>1 DEF C_Input, Goto, server, Bounded, Shape
<1>15. ASSUME NEW d \in Clients, C_Send(d) PROVE Bounded'
  <2>1. Text(d, my_id[d], texts[d]) \in TextMsgs
    BY <1>15, IdOfConnected, Kinds DEF C_Send, Goto, HasId, Shape
  <2>2. Len(server_q') <= MaxMsg
    BY <1>15, <2>1, AfterSend, BoundAssumption DEF C_Send, SendServer, Shape
  <2>3. QED
    BY <1>15, <2>2 DEF C_Send, Goto, server, Bounded, Shape
<1>16. ASSUME NEW d \in Clients, C_Stop(d) PROVE Bounded'
  BY <1>16 DEF C_Stop, server, Bounded, Shape
<1>17. ASSUME NEW d \in Clients, R_Receive(d) PROVE Bounded'
  <2>1. client_q[d] \in Seq(Assigns \cup TextMsgs)
    BY DEF Shape
  <2>2. Len(Tail(client_q[d])) <= MaxMsg
    BY <1>17, <2>1, AfterReceive, BoundAssumption DEF R_Receive, Bounded
  <2>3. QED
    BY <1>17, <2>2 DEF R_Receive, server, Bounded, Shape
<1>18. ASSUME NEW d \in Clients, R_Exit(d) PROVE Bounded'
  BY <1>18 DEF R_Exit, server, Bounded, Shape
<1>19. CASE UNCHANGED vars
  BY <1>19 DEF vars, server, client, Bounded, Shape
<1>20. QED
  BY <1>1, <1>2, <1>3, <1>4, <1>5, <1>6, <1>7, <1>8, <1>9, <1>10, <1>11, <1>12, <1>13,
    <1>14, <1>15, <1>16, <1>17, <1>18, <1>19 DEF Next, ServerStep, ClientStep, Connect

\* No step leaves a receiver behind that has typed.
LEMMA ReceiversStep ==
    ASSUME Shape, Receivers, [Next]_vars
    PROVE  Receivers'
<1>1. CASE S_Receive
  BY <1>1 DEF S_Receive, client, Receivers, Shape, ClientPcs
<1>2. CASE S_Register
  BY <1>2 DEF S_Register, client, Receivers, Shape, ClientPcs
<1>3. CASE S_Refuse
  BY <1>3 DEF S_Refuse, client, Receivers, Shape, ClientPcs
<1>4. CASE S_Reply
  BY <1>4 DEF S_Reply, client, Receivers, Shape, ClientPcs
<1>5. CASE S_Send
  BY <1>5 DEF S_Send, client, Receivers, Shape, ClientPcs
<1>6. CASE S_SendEnd
  BY <1>6 DEF S_SendEnd, client, Receivers, Shape, ClientPcs
<1>7. CASE S_Stop
  BY <1>7 DEF S_Stop, client, Receivers, Shape, ClientPcs
<1>8. ASSUME NEW d \in Clients, C_Open(d) PROVE Receivers'
  BY <1>8 DEF C_Open, Goto, server, Receivers, Shape, ClientPcs
<1>9. ASSUME NEW d \in Clients, C_Server(d) PROVE Receivers'
  BY <1>9 DEF C_Server, Goto, server, Receivers, Shape, ClientPcs
<1>10. ASSUME NEW d \in Clients, C_Init(d) PROVE Receivers'
  BY <1>10 DEF C_Init, Goto, server, Receivers, Shape, ClientPcs
<1>11. ASSUME NEW d \in Clients, C_Reply(d) PROVE Receivers'
  BY <1>11 DEF C_Reply, Goto, server, Receivers, Shape, ClientPcs
<1>12. ASSUME NEW d \in Clients, C_Fork(d) PROVE Receivers'
  BY <1>12 DEF C_Fork, Goto, server, Receivers, Shape, ClientPcs
<1>13. ASSUME NEW d \in Clients, C_Assign(d) PROVE Receivers'
  BY <1>13 DEF C_Assign, Goto, server, Receivers, Shape, ClientPcs
<1>14. ASSUME NEW d \in Clients, C_Input(d) PROVE Receivers'
  BY <1>14 DEF C_Input, Goto, server, Receivers, Shape, ClientPcs
<1>15. ASSUME NEW d \in Clients, C_Send(d) PROVE Receivers'
  BY <1>15 DEF C_Send, Goto, server, Receivers, Shape, ClientPcs
<1>16. ASSUME NEW d \in Clients, C_Stop(d) PROVE Receivers'
  BY <1>16 DEF C_Stop, server, Receivers, Shape, ClientPcs
<1>17. ASSUME NEW d \in Clients, R_Receive(d) PROVE Receivers'
  BY <1>17 DEF R_Receive, server, Receivers, Shape, ClientPcs
<1>18. ASSUME NEW d \in Clients, R_Exit(d) PROVE Receivers'
  BY <1>18 DEF R_Exit, server, Receivers, Shape, ClientPcs
<1>19. CASE UNCHANGED vars
  BY <1>19 DEF vars, server, client, Receivers, Shape, ClientPcs
<1>20. QED
  BY <1>1, <1>2, <1>3, <1>4, <1>5, <1>6, <1>7, <1>8, <1>9, <1>10, <1>11, <1>12, <1>13,
    <1>14, <1>15, <1>16, <1>17, <1>18, <1>19 DEF Next, ServerStep, ClientStep, Connect

\* A step that moves no INIT, registers nobody and brings nobody back to an
\* earlier stage.
LEMMA StagesKept ==
    ASSUME OneStage, UNCHANGED <<server_q, client_queues>>,
           \A c \in Clients : /\ InHand(c)' => InHand(c)
                              /\ Answering(c)' => Answering(c)
                              /\ cpc'[c] \in Early => cpc[c] \in Early
    PROVE  OneStage'
<1>1. \A c \in Clients : (Waiting(c)' <=> Waiting(c)) /\ (Registered(c)' <=> Registered(c))
  BY DEF Waiting, Registered
<1>2. QED
  BY <1>1 DEF OneStage

\* No step puts a client at two stages.
LEMMA OneStageStep ==
    ASSUME Shape, OneStage, Answers, [Next]_vars
    PROVE  OneStage'
<1>1. CASE S_Receive
  <2> DEFINE m == Head(server_q)
  <2>1. /\ server_q' = Tail(server_q) /\ server_q # <<>> /\ msg' = m
        /\ UNCHANGED <<client_queues, cpc>>
        /\ spc' = (IF m.type = "INIT" THEN "s_init" ELSE "s_send")
    BY <1>1 DEF S_Receive, client
  <2>2. /\ ToSet(server_q) = ToSet(server_q') \cup {m}
        /\ Len(server_q) \in Nat \ {0} /\ m = server_q[1]
        /\ DOMAIN server_q = 1 .. Len(server_q) /\ DOMAIN server_q' = 1 .. Len(server_q) - 1
        /\ \A j \in 1 .. Len(server_q) - 1 : server_q'[j] = server_q[j + 1]
    BY <2>1, AfterReceive DEF Shape
  <2>3. \A j, k \in DOMAIN server_q' : \A c \in Clients :
            server_q'[j] = Init_(c) /\ server_q'[k] = Init_(c) => j = k
    <3> SUFFICES ASSUME NEW j \in DOMAIN server_q', NEW k \in DOMAIN server_q',
                        NEW c \in Clients,
                        server_q'[j] = Init_(c), server_q'[k] = Init_(c)
                 PROVE  j = k
      OBVIOUS
    <3>1. /\ j \in 1 .. Len(server_q) - 1 /\ k \in 1 .. Len(server_q) - 1
          /\ j + 1 \in DOMAIN server_q /\ k + 1 \in DOMAIN server_q
      BY <2>2
    <3>2. server_q[j + 1] = Init_(c) /\ server_q[k + 1] = Init_(c)
      BY <2>2, <3>1
    <3>3. j + 1 = k + 1
      BY <3>1, <3>2 DEF OneStage
    <3>4. QED
      BY <3>1, <3>3
  <2>4. ASSUME NEW c \in Clients, m = Init_(c) PROVE ~Waiting(c)'
    <3> SUFFICES ASSUME Init_(c) \in ToSet(server_q') PROVE FALSE
      BY DEF Waiting
    <3>1. PICK j \in 1 .. Len(server_q) - 1 : server_q'[j] = Init_(c)
      BY <2>2 DEF ToSet
    <3>2. j + 1 \in DOMAIN server_q /\ server_q[j + 1] = Init_(c)
      BY <2>2, <3>1
    <3>3. 1 \in DOMAIN server_q /\ server_q[1] = Init_(c)
      BY <2>2, <2>4
    <3>4. j + 1 = 1
      BY <3>2, <3>3 DEF OneStage
    <3>5. QED
      BY <3>1, <3>4
  <2>5. ASSUME NEW c \in Clients
        PROVE  /\ Waiting(c)' => Waiting(c) /\ m # Init_(c)
               /\ InHand(c)' => Waiting(c) /\ m = Init_(c)
               /\ ~Answering(c)' /\ (Registered(c)' <=> Registered(c))
    <3>1. Waiting(c)' => Waiting(c) /\ m # Init_(c)
      BY <2>2, <2>4 DEF Waiting
    <3>2. InHand(c)' => Waiting(c) /\ m = Init_(c)
      BY <2>1, <2>2 DEF InHand, Waiting
    <3>3. QED
      BY <2>1, <3>1, <3>2 DEF Answering, Registered
  <2>6. QED
    BY <2>1, <2>3, <2>5 DEF OneStage
<1>2. CASE S_Register
  <2> DEFINE e == msg.from
             N == Len(client_queues)
  <2>1. /\ e \in Clients /\ msg = Init_(e) /\ InHand(e)
        /\ \A c \in Clients : msg = Init_(c) => c = e
    BY <1>2, Kinds DEF S_Register, Shape, InHand
  <2>2. /\ client_queues' = Append(client_queues, e) /\ spc' = "s_reply"
        /\ UNCHANGED <<server_q, msg, cpc>>
    BY <1>2 DEF S_Register, client
  <2>3. ~Waiting(e) /\ ~Registered(e) /\ cpc[e] \notin Early
    BY <2>1 DEF OneStage
  <2>4. /\ N \in Nat /\ DOMAIN client_queues = 1 .. N /\ DOMAIN client_queues' = 1 .. N + 1
        /\ \A j \in 1 .. N : client_queues'[j] = client_queues[j] /\ client_queues[j] # e
        /\ client_queues'[N + 1] = e /\ Len(client_queues') = N + 1
        /\ ToSet(client_queues') = ToSet(client_queues) \cup {e}
    <3>1. client_queues \in Seq(Clients)
      BY DEF Shape
    <3>2. DOMAIN client_queues = 1 .. N /\ \A j \in 1 .. N : client_queues[j] # e
      BY <2>3, <3>1, Positions DEF Registered
    <3>3. QED
      BY <2>1, <2>2, <3>1, <3>2, AfterSend
  <2>5. \A j, k \in DOMAIN client_queues' : client_queues'[j] = client_queues'[k] => j = k
    <3> SUFFICES ASSUME NEW j \in 1 .. N + 1, NEW k \in 1 .. N + 1,
                        client_queues'[j] = client_queues'[k]
                 PROVE  j = k
      BY <2>4
    <3>1. (j \in 1 .. N \/ j = N + 1) /\ (k \in 1 .. N \/ k = N + 1)
      BY <2>4
    <3>2. QED
      BY <2>4, <3>1 DEF OneStage
  <2>6. ASSUME NEW c \in Clients
        PROVE  /\ Waiting(c)' <=> Waiting(c)
               /\ ~InHand(c)' /\ (Answering(c)' => c = e)
               /\ Registered(c)' <=> Registered(c) \/ c = e
    BY <2>1, <2>2, <2>4 DEF Waiting, InHand, Answering, Registered
  <2>7. QED
    BY <2>2, <2>3, <2>4, <2>5, <2>6 DEF OneStage
<1>3. CASE S_Refuse
  <2>1. \A c \in Clients : ~InHand(c)' /\ ~Answering(c)'
    BY <1>3 DEF S_Refuse, InHand, Answering
  <2>2. QED
    BY <1>3, <2>1, StagesKept DEF S_Refuse, client
<1>4. CASE S_Reply
  <2>1. \A c \in Clients : ~InHand(c)' /\ ~Answering(c)'
    BY <1>4 DEF S_Reply, InHand, Answering
  <2>2. QED
    BY <1>4, <2>1, StagesKept DEF S_Reply, client
<1>5. CASE S_Send
  <2>1. \A c \in Clients : ~InHand(c)' /\ ~Answering(c)'
    BY <1>5 DEF S_Send, InHand, Answering
  <2>2. QED
    BY <1>5, <2>1, StagesKept DEF S_Send, client
<1>6. CASE S_SendEnd
  <2>1. \A c \in Clients : ~InHand(c)' /\ ~Answering(c)'
    BY <1>6 DEF S_SendEnd, InHand, Answering
  <2>2. QED
    BY <1>6, <2>1, StagesKept DEF S_SendEnd, client
<1>7. CASE S_Stop
  <2>1. \A c \in Clients : ~InHand(c)' /\ ~Answering(c)'
    BY <1>7 DEF S_Stop, InHand, Answering
  <2>2. QED
    BY <1>7, <2>1, StagesKept DEF S_Stop, client
<1>8. ASSUME NEW d \in Clients, C_Open(d) PROVE OneStage'
  <2>1. \A c \in Clients : /\ InHand(c)' => InHand(c)
                           /\ Answering(c)' => Answering(c)
    BY <1>8 DEF C_Open, Goto, server, InHand, Answering
  <2>2. \A c \in Clients : cpc'[c] \in Early => cpc[c] \in Early
    BY <1>8 DEF C_Open, Goto, server, Early, Shape
  <2>3. QED
    BY <1>8, <2>1, <2>2, StagesKept DEF C_Open, Goto, server
<1>9. ASSUME NEW d \in Clients, C_Server(d) PROVE OneStage'
  <2>1. \A c \in Clients : /\ InHand(c)' => InHand(c)
                           /\ Answering(c)' => Answering(c)
    BY <1>9 DEF C_Server, Goto, server, InHand, Answering
  <2>2. \A c \in Clients : cpc'[c] \in Early => cpc[c] \in Early
    BY <1>9 DEF C_Server, Goto, server, Early, Shape
  <2>3. QED
    BY <1>9, <2>1, <2>2, StagesKept DEF C_Server, Goto, server
<1>10. ASSUME NEW d \in Clients, C_Init(d) PROVE OneStage'
  <2> DEFINE N == Len(server_q)
  <2>1. /\ server_q' = Append(server_q, Init_(d)) /\ Init_(d) \in Inits
        /\ cpc[d] = "c_init" /\ cpc' = [cpc EXCEPT ![d] = "c_reply"]
        /\ UNCHANGED <<client_queues, spc, msg>>
    BY <1>10, Kinds DEF C_Init, Goto, SendServer, server
  <2>2. ~Waiting(d) /\ ~InHand(d) /\ ~Registered(d)
    BY <2>1 DEF OneStage, Early
  <2>3. /\ N \in Nat /\ DOMAIN server_q = 1 .. N /\ DOMAIN server_q' = 1 .. N + 1
        /\ \A j \in 1 .. N : server_q'[j] = server_q[j] /\ server_q[j] # Init_(d)
        /\ server_q'[N + 1] = Init_(d) /\ ToSet(server_q') = ToSet(server_q) \cup {Init_(d)}
    <3>1. server_q \in Seq(Inits \cup TextMsgs)
      BY DEF Shape
    <3>2. DOMAIN server_q = 1 .. N /\ \A j \in 1 .. N : server_q[j] # Init_(d)
      BY <2>2, <3>1, Positions DEF Waiting
    <3>3. QED
      BY <2>1, <3>1, <3>2, AfterSend
  <2>4. \A c \in Clients : Init_(c) = Init_(d) => c = d
    BY DEF Init_
  <2>5. \A j, k \in DOMAIN server_q' : \A c \in Clients :
            server_q'[j] = Init_(c) /\ server_q'[k] = Init_(c) => j = k
    <3> SUFFICES ASSUME NEW j \in 1 .. N + 1, NEW k \in 1 .. N + 1, NEW c \in Clients,
                        server_q'[j] = Init_(c), server_q'[k] = Init_(c)
                 PROVE  j = k
      BY <2>3
    <3>1. (j \in 1 .. N \/ j = N + 1) /\ (k \in 1 .. N \/ k = N + 1)
      BY <2>3
    <3>2. QED
      BY <2>3, <3>1 DEF OneStage
  <2>6. ASSUME NEW c \in Clients
        PROVE  /\ Waiting(c)' <=> Waiting(c) \/ c = d
               /\ (InHand(c)' <=> InHand(c)) /\ (Answering(c)' <=> Answering(c))
               /\ Registered(c)' <=> Registered(c)
    BY <2>1, <2>3, <2>4 DEF Waiting, InHand, Answering, Registered
  <2>7. \A c \in Clients : cpc'[c] \in Early => cpc[c] \in Early /\ c # d
    BY <2>1 DEF Shape, Early
  <2>8. QED
    BY <2>1, <2>2, <2>5, <2>6, <2>7 DEF OneStage
<1>11. ASSUME NEW d \in Clients, C_Reply(d) PROVE OneStage'
  <2>1. \A c \in Clients : /\ InHand(c)' => InHand(c)
                           /\ Answering(c)' => Answering(c)
    BY <1>11 DEF C_Reply, Goto, server, InHand, Answering
  <2>2. \A c \in Clients : cpc'[c] \in Early => cpc[c] \in Early
    BY <1>11 DEF C_Reply, Goto, server, Early, Shape
  <2>3. QED
    BY <1>11, <2>1, <2>2, StagesKept DEF C_Reply, Goto, server
<1>12. ASSUME NEW d \in Clients, C_Fork(d) PROVE OneStage'
  <2>1. \A c \in Clients : /\ InHand(c)' => InHand(c)
                           /\ Answering(c)' => Answering(c)
    BY <1>12 DEF C_Fork, Goto, server, InHand, Answering
  <2>2. \A c \in Clients : cpc'[c] \in Early => cpc[c] \in Early
    BY <1>12 DEF C_Fork, Goto, server, Early, Shape
  <2>3. QED
    BY <1>12, <2>1, <2>2, StagesKept DEF C_Fork, Goto, server
<1>13. ASSUME NEW d \in Clients, C_Assign(d) PROVE OneStage'
  <2>1. \A c \in Clients : /\ InHand(c)' => InHand(c)
                           /\ Answering(c)' => Answering(c)
    BY <1>13 DEF C_Assign, Goto, server, InHand, Answering
  <2>2. \A c \in Clients : cpc'[c] \in Early => cpc[c] \in Early
    BY <1>13 DEF C_Assign, Goto, server, Early, Shape
  <2>3. QED
    BY <1>13, <2>1, <2>2, StagesKept DEF C_Assign, Goto, server
<1>14. ASSUME NEW d \in Clients, C_Input(d) PROVE OneStage'
  <2>1. \A c \in Clients : /\ InHand(c)' => InHand(c)
                           /\ Answering(c)' => Answering(c)
    BY <1>14 DEF C_Input, Goto, server, InHand, Answering
  <2>2. \A c \in Clients : cpc'[c] \in Early => cpc[c] \in Early
    BY <1>14 DEF C_Input, Goto, server, Early, Shape
  <2>3. QED
    BY <1>14, <2>1, <2>2, StagesKept DEF C_Input, Goto, server
<1>15. ASSUME NEW d \in Clients, C_Send(d) PROVE OneStage'
  <2> DEFINE N == Len(server_q)
             m == Text(d, my_id[d], texts[d])
  <2>1. m \in TextMsgs /\ \A c \in Clients : Init_(c) # m
    BY <1>15, IdOfConnected, Kinds, SMTT(30) DEF C_Send, Goto, HasId, Shape
  <2>2. /\ server_q' = Append(server_q, m) /\ cpc' = [cpc EXCEPT ![d] = "c_input"]
        /\ UNCHANGED <<client_queues, spc, msg>>
    BY <1>15 DEF C_Send, Goto, SendServer, server
  <2>3. /\ N \in Nat /\ DOMAIN server_q = 1 .. N /\ DOMAIN server_q' = 1 .. N + 1
        /\ \A j \in 1 .. N : server_q'[j] = server_q[j]
        /\ server_q'[N + 1] = m /\ ToSet(server_q') = ToSet(server_q) \cup {m}
    <3>1. server_q \in Seq(Inits \cup TextMsgs)
      BY DEF Shape
    <3>2. DOMAIN server_q = 1 .. N
      BY <3>1, Positions
    <3>3. QED
      BY <2>1, <2>2, <3>1, <3>2, AfterSend
  <2>4. \A j, k \in DOMAIN server_q' : \A c \in Clients :
            server_q'[j] = Init_(c) /\ server_q'[k] = Init_(c) => j = k
    <3> SUFFICES ASSUME NEW j \in 1 .. N + 1, NEW k \in 1 .. N + 1, NEW c \in Clients,
                        server_q'[j] = Init_(c), server_q'[k] = Init_(c)
                 PROVE  j = k
      BY <2>3
    <3>1. (j \in 1 .. N \/ j = N + 1) /\ (k \in 1 .. N \/ k = N + 1)
      BY <2>3
    <3>2. QED
      BY <2>1, <2>3, <3>1 DEF OneStage
  <2>5. ASSUME NEW c \in Clients
        PROVE  /\ Waiting(c)' <=> Waiting(c)
               /\ (InHand(c)' <=> InHand(c)) /\ (Answering(c)' <=> Answering(c))
               /\ Registered(c)' <=> Registered(c)
    BY <2>1, <2>2, <2>3 DEF Waiting, InHand, Answering, Registered
  <2>6. \A c \in Clients : cpc'[c] \in Early => cpc[c] \in Early
    BY <2>2 DEF Shape, Early
  <2>7. QED
    BY <2>2, <2>4, <2>5, <2>6 DEF OneStage
<1>16. ASSUME NEW d \in Clients, C_Stop(d) PROVE OneStage'
  <2>1. \A c \in Clients : /\ InHand(c)' => InHand(c)
                           /\ Answering(c)' => Answering(c)
    BY <1>16 DEF C_Stop, server, InHand, Answering
  <2>2. \A c \in Clients : cpc'[c] \in Early => cpc[c] \in Early
    BY <1>16 DEF C_Stop, server, Early, Shape
  <2>3. QED
    BY <1>16, <2>1, <2>2, StagesKept DEF C_Stop, server
<1>17. ASSUME NEW d \in Clients, R_Receive(d) PROVE OneStage'
  <2>1. \A c \in Clients : /\ InHand(c)' => InHand(c)
                           /\ Answering(c)' => Answering(c)
    BY <1>17 DEF R_Receive, server, InHand, Answering
  <2>2. \A c \in Clients : cpc'[c] \in Early => cpc[c] \in Early
    BY <1>17 DEF R_Receive, server, Early, Shape
  <2>3. QED
    BY <1>17, <2>1, <2>2, StagesKept DEF R_Receive, server
<1>18. ASSUME NEW d \in Clients, R_Exit(d) PROVE OneStage'
  <2>1. \A c \in Clients : /\ InHand(c)' => InHand(c)
                           /\ Answering(c)' => Answering(c)
    BY <1>18 DEF R_Exit, server, InHand, Answering
  <2>2. \A c \in Clients : cpc'[c] \in Early => cpc[c] \in Early
    BY <1>18 DEF R_Exit, server, Early, Shape
  <2>3. QED
    BY <1>18, <2>1, <2>2, StagesKept DEF R_Exit, server
<1>19. CASE UNCHANGED vars
  <2>1. \A c \in Clients : /\ InHand(c)' => InHand(c)
                           /\ Answering(c)' => Answering(c)
    BY <1>19 DEF vars, server, client, InHand, Answering
  <2>2. \A c \in Clients : cpc'[c] \in Early => cpc[c] \in Early
    BY <1>19 DEF vars, server, client, Early, Shape
  <2>3. QED
    BY <1>19, <2>1, <2>2, StagesKept DEF vars, server, client
<1>20. QED
  BY <1>1, <1>2, <1>3, <1>4, <1>5, <1>6, <1>7, <1>8, <1>9, <1>10, <1>11, <1>12, <1>13,
    <1>14, <1>15, <1>16, <1>17, <1>18, <1>19 DEF Next, ServerStep, ClientStep, Connect

\* A step of one client that changes what it has been answered.
LEMMA AnswersAfter ==
    ASSUME Answers, NEW d \in Clients, UNCHANGED <<client_queues, spc, msg>>,
           \A c \in Clients \ {d} : /\ client_q'[c] = client_q[c] /\ my_id'[c] = my_id[c]
                                    /\ cpc'[c] = cpc[c],
           ~Registered(d) \/ Answering(d) => Unanswered(d)',
           \A k \in DOMAIN client_queues : client_queues[k] = d => Answered(d, k - 1)',
           ToSet(client_queues) \subseteq Clients
    PROVE  Answers'
<1>1. ASSUME NEW c \in Clients, ~Registered(c)' \/ Answering(c)' PROVE Unanswered(c)'
  <2>1. ~Registered(c) \/ Answering(c)
    BY <1>1 DEF Registered, Answering
  <2>2. CASE c = d
    BY <2>1, <2>2
  <2>3. CASE c # d
    BY <2>1, <2>3 DEF Answers, Unanswered
  <2>4. QED
    BY <2>2, <2>3
<1>2. ASSUME NEW k \in DOMAIN client_queues' PROVE Answered(client_queues[k], k - 1)'
  <2> DEFINE c == client_queues[k]
  <2>1. c \in Clients /\ Answered(c, k - 1) /\ k \in DOMAIN client_queues
    BY DEF Answers, ToSet
  <2>2. CASE c = d
    BY <2>1, <2>2 DEF Answered, Answering
  <2>3. CASE c # d
    BY <2>1, <2>3 DEF Answered, Answering
  <2>4. QED
    BY <2>2, <2>3
<1>3. QED
  BY <1>1, <1>2 DEF Answers

\* A step of the server that neither registers nor sends.
LEMMA AnswersKept ==
    ASSUME Answers, UNCHANGED <<client_queues, client_q, my_id, cpc>>,
           \A c \in Clients : ~Answering(c)',
           spc' = "exited" \/ spc \notin {"s_reply", "exited"}
    PROVE  Answers'
<1>1. \A c \in Clients : (Registered(c)' <=> Registered(c)) /\ (Unanswered(c) => Unanswered(c)')
  BY DEF Registered, Unanswered
<1>2. ASSUME NEW k \in DOMAIN client_queues' PROVE Answered(client_queues[k], k - 1)'
  BY <1>1 DEF Answers, Answered, Answering
<1>3. QED
  BY <1>1, <1>2 DEF Answers

\* Every client gets its answer first, and keeps its id.
LEMMA AnswersStep ==
    ASSUME Shape, Bounded, OneStage, Answers, Receivers, [Next]_vars
    PROVE  Answers'
<1>1. CASE S_Receive
  <2>1. \A c \in Clients : ~Answering(c)'
    BY <1>1 DEF S_Receive, Answering
  <2>2. QED
    BY <1>1, <2>1, AnswersKept DEF S_Receive, client
<1>2. CASE S_Register
  <2> DEFINE e == msg.from
             N == Len(client_queues)
  <2>1. /\ e \in Clients /\ msg = Init_(e) /\ InHand(e)
        /\ \A c \in Clients : msg = Init_(c) => c = e
    BY <1>2, Kinds DEF S_Register, Shape, InHand
  <2>2. /\ client_queues' = Append(client_queues, e) /\ spc' = "s_reply" /\ spc = "s_init"
        /\ UNCHANGED <<client_q, my_id, cpc, msg>>
    BY <1>2 DEF S_Register, client
  <2>3. ~Registered(e) /\ Unanswered(e)
    BY <2>1 DEF OneStage, Answers
  <2>4. /\ N \in Nat /\ DOMAIN client_queues = 1 .. N /\ DOMAIN client_queues' = 1 .. N + 1
        /\ \A j \in 1 .. N : client_queues'[j] = client_queues[j]
        /\ client_queues'[N + 1] = e
        /\ ToSet(client_queues') = ToSet(client_queues) \cup {e}
    BY <2>1, <2>2, AfterSend, Positions DEF Shape
  <2>5. ASSUME NEW c \in Clients, ~Registered(c)' \/ Answering(c)' PROVE Unanswered(c)'
    <3>1. ~Registered(c) \/ c = e
      BY <2>1, <2>2, <2>4, <2>5 DEF Registered, Answering
    <3>2. Unanswered(c)
      BY <2>3, <3>1 DEF Answers
    <3>3. QED
      BY <2>2, <3>2 DEF Unanswered
  <2>6. ASSUME NEW k \in DOMAIN client_queues' PROVE Answered(client_queues[k], k - 1)'
    <3>1. CASE k = N + 1
      <4>1. Answering(e)' /\ client_queues'[k] = e
        BY <2>1, <2>2, <2>4, <3>1 DEF Answering
      <4>2. QED
        BY <2>2, <2>3, <4>1 DEF Unanswered, Answered
    <3>2. CASE k \in 1 .. N
      <4>1. client_queues'[k] = client_queues[k] /\ Answered(client_queues[k], k - 1)
        BY <2>4, <3>2 DEF Answers
      <4>2. \A c : ~Answering(c)
        BY <2>2 DEF Answering
      <4>3. QED
        BY <2>2, <4>1, <4>2 DEF Answered
    <3>3. k \in 1 .. N \/ k = N + 1
      BY <2>4
    <3>4. QED
      BY <3>1, <3>2, <3>3
  <2>7. QED
    BY <2>5, <2>6 DEF Answers
<1>3. CASE S_Refuse
  <2>1. \A c \in Clients : ~Answering(c)'
    BY <1>3 DEF S_Refuse, Answering
  <2>2. QED
    BY <1>3, <2>1, AnswersKept DEF S_Refuse, client
<1>4. CASE S_Reply
  <2> DEFINE e == msg.from
             N == Len(client_queues)
  <2>1. /\ e \in Clients /\ Answering(e) /\ Registered(e) /\ N \in DOMAIN client_queues
        /\ client_queues[N] = e /\ msg = Init_(e) /\ N - 1 \in 0 .. MaxClients - 1
    BY <1>4, AnsweredIsLast DEF S_Reply
  <2>2. /\ client_q' = [client_q EXCEPT ![e] = Append(client_q[e], Assign(N - 1))]
        /\ spc' = "s_receive" /\ spc = "s_reply"
        /\ UNCHANGED <<client_queues, my_id, cpc, msg>>
    BY <1>4 DEF S_Reply, SendTo, client
  <2>3. Unanswered(e)
    BY <2>1 DEF Answers
  <2>4. client_q'[e] # <<>> /\ Head(client_q'[e]) = Assign(N - 1)
    <3>1. client_q[e] \in Seq(Assigns \cup TextMsgs) /\ client_q[e] = <<>>
      BY <2>1, <2>3 DEF Shape, Unanswered
    <3>2. Assign(N - 1) \in Assigns \cup TextMsgs
      BY <2>1, Kinds
    <3>3. client_q'[e] = Append(client_q[e], Assign(N - 1))
      BY <2>1, <2>2 DEF Shape
    <3>4. QED
      BY <3>1, <3>2, <3>3, AfterSend
  <2>5. ASSUME NEW c \in Clients, ~Registered(c)' \/ Answering(c)' PROVE Unanswered(c)'
    <3>1. ~Registered(c) /\ c # e
      BY <2>1, <2>2, <2>5 DEF Registered, Answering
    <3>2. client_q'[c] = client_q[c]
      BY <2>2, <3>1 DEF Shape
    <3>3. QED
      BY <2>2, <3>1, <3>2 DEF Answers, Unanswered
  <2>6. ASSUME NEW k \in DOMAIN client_queues' PROVE Answered(client_queues[k], k - 1)'
    <3>1. /\ k \in DOMAIN client_queues /\ client_queues[k] \in Clients
          /\ client_queues'[k] = client_queues[k] /\ Answered(client_queues[k], k - 1)
      BY <2>2, Positions DEF Answers, Shape
    <3>2. CASE client_queues[k] = e
      <4>1. k = N
        BY <2>1, <3>1, <3>2 DEF OneStage
      <4>2. QED
        BY <2>2, <2>4, <3>1, <3>2, <4>1 DEF Answered
    <3>3. CASE client_queues[k] # e
      <4>1. ~Answering(client_queues[k]) /\ spc # "exited"
        BY <2>1, <2>2, <3>1, <3>3, Kinds DEF Answering
      <4>2. client_q'[client_queues[k]] = client_q[client_queues[k]]
        BY <2>2, <3>1, <3>3 DEF Shape
      <4>3. QED
        BY <2>2, <3>1, <4>1, <4>2 DEF Answered
    <3>4. QED
      BY <3>2, <3>3
  <2>7. QED
    BY <2>5, <2>6 DEF Answers
<1>5. CASE S_Send
  <2> DEFINE e == client_queues[target + 1]
  <2>1. /\ e \in Clients /\ Registered(e) /\ msg \in TextMsgs
    BY <1>5, NextTarget DEF S_Send, Registered
  <2>2. /\ spc' = "s_send" /\ spc = "s_send"
        /\ UNCHANGED <<client_queues, my_id, cpc, msg>>
    BY <1>5 DEF S_Send, client
  <2>3. \A c \in Clients : ~Answering(c) /\ ~Answering(c)'
    BY <2>2 DEF Answering
  <2>4. ASSUME NEW c \in Clients
        PROVE  \/ client_q'[c] = client_q[c]
               \/ c = e /\ client_q'[c] # <<>>
                       /\ (client_q[c] # <<>> => Head(client_q'[c]) = Head(client_q[c]))
    <3>1. CASE c = e /\ Forwards(target)
      <4>1. client_q'[c] = Append(client_q[c], msg)
        BY <1>5, <3>1 DEF S_Send, SendTo, Shape
      <4>2. client_q[c] \in Seq(Assigns \cup TextMsgs) /\ msg \in Assigns \cup TextMsgs
        BY <2>1 DEF Shape
      <4>3. QED
        BY <3>1, <4>1, <4>2, AfterSend
    <3>2. CASE ~(c = e /\ Forwards(target))
      BY <1>5, <3>2 DEF S_Send, SendTo, Shape
    <3>3. QED
      BY <3>1, <3>2
  <2>5. ASSUME NEW c \in Clients, ~Registered(c)' \/ Answering(c)' PROVE Unanswered(c)'
    <3>1. ~Registered(c) /\ c # e
      BY <2>1, <2>2, <2>3, <2>5 DEF Registered
    <3>2. client_q'[c] = client_q[c]
      BY <2>4, <3>1
    <3>3. QED
      BY <2>2, <3>1, <3>2 DEF Answers, Unanswered
  <2>6. ASSUME NEW k \in DOMAIN client_queues' PROVE Answered(client_queues[k], k - 1)'
    <3>1. /\ k \in DOMAIN client_queues /\ client_queues[k] \in Clients
          /\ client_queues'[k] = client_queues[k] /\ Answered(client_queues[k], k - 1)
      BY <2>2, Positions DEF Answers, Shape
    <3>2. QED
      BY <2>2, <2>3, <2>4, <3>1 DEF Answered
  <2>7. QED
    BY <2>5, <2>6 DEF Answers
<1>6. CASE S_SendEnd
  <2>1. \A c \in Clients : ~Answering(c)'
    BY <1>6 DEF S_SendEnd, Answering
  <2>2. QED
    BY <1>6, <2>1, AnswersKept DEF S_SendEnd, client
<1>7. CASE S_Stop
  <2>1. \A c \in Clients : ~Answering(c)'
    BY <1>7 DEF S_Stop, Answering
  <2>2. QED
    BY <1>7, <2>1, AnswersKept DEF S_Stop, client
<1>8. ASSUME NEW d \in Clients, C_Open(d) PROVE Answers'
  <2>1. /\ UNCHANGED <<client_queues, spc, msg>>
        /\ \A c \in Clients \ {d} : /\ client_q'[c] = client_q[c] /\ my_id'[c] = my_id[c]
                                    /\ cpc'[c] = cpc[c]
    BY <1>8 DEF C_Open, Goto, server, Shape
  <2>2. ~Registered(d) \/ Answering(d) => Unanswered(d)'
    BY <1>8 DEF C_Open, Goto, Answers, Unanswered, Shape, HasId
  <2>3. \A k \in DOMAIN client_queues : client_queues[k] = d => Answered(d, k - 1)'
    BY <1>8 DEF C_Open, Goto, server, Answers, Answered, Answering, Shape, HasId
  <2>4. ToSet(client_queues) \subseteq Clients
    BY Positions DEF Shape
  <2>5. QED
    BY <2>1, <2>2, <2>3, <2>4, AnswersAfter
<1>9. ASSUME NEW d \in Clients, C_Server(d) PROVE Answers'
  <2>1. /\ UNCHANGED <<client_queues, spc, msg>>
        /\ \A c \in Clients \ {d} : /\ client_q'[c] = client_q[c] /\ my_id'[c] = my_id[c]
                                    /\ cpc'[c] = cpc[c]
    BY <1>9 DEF C_Server, Goto, server, Shape
  <2>2. ~Registered(d) \/ Answering(d) => Unanswered(d)'
    BY <1>9 DEF C_Server, Goto, Answers, Unanswered, Shape, HasId
  <2>3. \A k \in DOMAIN client_queues : client_queues[k] = d => Answered(d, k - 1)'
    BY <1>9 DEF C_Server, Goto, server, Answers, Answered, Answering, Shape, HasId
  <2>4. ToSet(client_queues) \subseteq Clients
    BY Positions DEF Shape
  <2>5. QED
    BY <2>1, <2>2, <2>3, <2>4, AnswersAfter
<1>10. ASSUME NEW d \in Clients, C_Init(d) PROVE Answers'
  <2>1. /\ UNCHANGED <<client_queues, spc, msg>>
        /\ \A c \in Clients \ {d} : /\ client_q'[c] = client_q[c] /\ my_id'[c] = my_id[c]
                                    /\ cpc'[c] = cpc[c]
    BY <1>10 DEF C_Init, Goto, server, Shape
  <2>2. ~Registered(d) \/ Answering(d) => Unanswered(d)'
    BY <1>10 DEF C_Init, Goto, Answers, Unanswered, Shape, HasId
  <2>3. \A k \in DOMAIN client_queues : client_queues[k] = d => Answered(d, k - 1)'
    <3>1. ~Registered(d)
      BY <1>10 DEF C_Init, Goto, OneStage, Early
    <3>2. QED
      BY <3>1 DEF Registered, ToSet
  <2>4. ToSet(client_queues) \subseteq Clients
    BY Positions DEF Shape
  <2>5. QED
    BY <2>1, <2>2, <2>3, <2>4, AnswersAfter
<1>11. ASSUME NEW d \in Clients, C_Reply(d) PROVE Answers'
  <2>1. /\ UNCHANGED <<client_queues, spc, msg>>
        /\ \A c \in Clients \ {d} : /\ client_q'[c] = client_q[c] /\ my_id'[c] = my_id[c]
                                    /\ cpc'[c] = cpc[c]
    BY <1>11 DEF C_Reply, Goto, server, Shape
  <2>2. ~Registered(d) \/ Answering(d) => Unanswered(d)'
    <3>1. client_q[d] # <<>>
      BY <1>11 DEF C_Reply
    <3>2. QED
      BY <3>1 DEF Answers, Unanswered
  <2>3. \A k \in DOMAIN client_queues : client_queues[k] = d => Answered(d, k - 1)'
    <3> SUFFICES ASSUME NEW k \in DOMAIN client_queues, client_queues[k] = d
                 PROVE  Answered(d, k - 1)'
      OBVIOUS
    <3>1. cpc[d] = "c_reply" /\ client_q[d] # <<>> /\ Answered(d, k - 1)
      BY <1>11 DEF C_Reply, Goto, Answers
    <3>2. Head(client_q[d]) = Assign(k - 1)
      BY <3>1 DEF Answered
    <3>3. Head(client_q[d]).type = "ID_ASSIGN" /\ Head(client_q[d]).id = k - 1
      BY <3>2 DEF Assign
    <3>4. cpc'[d] = "c_fork" /\ my_id'[d] = k - 1
      BY <1>11, <3>3 DEF C_Reply, Goto, Shape
    <3>5. QED
      BY <3>4 DEF Answered
  <2>4. ToSet(client_queues) \subseteq Clients
    BY Positions DEF Shape
  <2>5. QED
    BY <2>1, <2>2, <2>3, <2>4, AnswersAfter
<1>12. ASSUME NEW d \in Clients, C_Fork(d) PROVE Answers'
  <2>1. /\ UNCHANGED <<client_queues, spc, msg>>
        /\ \A c \in Clients \ {d} : /\ client_q'[c] = client_q[c] /\ my_id'[c] = my_id[c]
                                    /\ cpc'[c] = cpc[c]
    BY <1>12 DEF C_Fork, Goto, server, Shape
  <2>2. ~Registered(d) \/ Answering(d) => Unanswered(d)'
    BY <1>12 DEF C_Fork, Goto, Answers, Unanswered, Shape, HasId
  <2>3. \A k \in DOMAIN client_queues : client_queues[k] = d => Answered(d, k - 1)'
    BY <1>12 DEF C_Fork, Goto, server, Answers, Answered, Answering, Shape, HasId
  <2>4. ToSet(client_queues) \subseteq Clients
    BY Positions DEF Shape
  <2>5. QED
    BY <2>1, <2>2, <2>3, <2>4, AnswersAfter
<1>13. ASSUME NEW d \in Clients, C_Assign(d) PROVE Answers'
  <2>1. /\ UNCHANGED <<client_queues, spc, msg>>
        /\ \A c \in Clients \ {d} : /\ client_q'[c] = client_q[c] /\ my_id'[c] = my_id[c]
                                    /\ cpc'[c] = cpc[c]
    BY <1>13 DEF C_Assign, Goto, server, Shape
  <2>2. ~Registered(d) \/ Answering(d) => Unanswered(d)'
    BY <1>13 DEF C_Assign, Goto, Answers, Unanswered, Shape, HasId
  <2>3. \A k \in DOMAIN client_queues : client_queues[k] = d => Answered(d, k - 1)'
    BY <1>13 DEF C_Assign, Goto, server, Answers, Answered, Answering, Shape, HasId
  <2>4. ToSet(client_queues) \subseteq Clients
    BY Positions DEF Shape
  <2>5. QED
    BY <2>1, <2>2, <2>3, <2>4, AnswersAfter
<1>14. ASSUME NEW d \in Clients, C_Input(d) PROVE Answers'
  <2>1. /\ UNCHANGED <<client_queues, spc, msg>>
        /\ \A c \in Clients \ {d} : /\ client_q'[c] = client_q[c] /\ my_id'[c] = my_id[c]
                                    /\ cpc'[c] = cpc[c]
    BY <1>14 DEF C_Input, Goto, server, Shape
  <2>2. ~Registered(d) \/ Answering(d) => Unanswered(d)'
    BY <1>14 DEF C_Input, Goto, Answers, Unanswered, Shape, HasId
  <2>3. \A k \in DOMAIN client_queues : client_queues[k] = d => Answered(d, k - 1)'
    BY <1>14 DEF C_Input, Goto, server, Answers, Answered, Answering, Shape, HasId
  <2>4. ToSet(client_queues) \subseteq Clients
    BY Positions DEF Shape
  <2>5. QED
    BY <2>1, <2>2, <2>3, <2>4, AnswersAfter
<1>15. ASSUME NEW d \in Clients, C_Send(d) PROVE Answers'
  <2>1. /\ UNCHANGED <<client_queues, spc, msg>>
        /\ \A c \in Clients \ {d} : /\ client_q'[c] = client_q[c] /\ my_id'[c] = my_id[c]
                                    /\ cpc'[c] = cpc[c]
    BY <1>15 DEF C_Send, Goto, server, Shape
  <2>2. ~Registered(d) \/ Answering(d) => Unanswered(d)'
    BY <1>15 DEF C_Send, Goto, Answers, Unanswered, Shape, HasId
  <2>3. \A k \in DOMAIN client_queues : client_queues[k] = d => Answered(d, k - 1)'
    BY <1>15 DEF C_Send, Goto, server, Answers, Answered, Answering, Shape, HasId
  <2>4. ToSet(client_queues) \subseteq Clients
    BY Positions DEF Shape
  <2>5. QED
    BY <2>1, <2>2, <2>3, <2>4, AnswersAfter
<1>16. ASSUME NEW d \in Clients, C_Stop(d) PROVE Answers'
  <2>1. /\ UNCHANGED <<client_queues, spc, msg>>
        /\ \A c \in Clients \ {d} : /\ client_q'[c] = client_q[c] /\ my_id'[c] = my_id[c]
                                    /\ cpc'[c] = cpc[c]
    BY <1>16 DEF C_Stop, server, Shape
  <2>2. ~Registered(d) \/ Answering(d) => Unanswered(d)'
    BY <1>16 DEF C_Stop, Answers, Unanswered, Shape, HasId
  <2>3. \A k \in DOMAIN client_queues : client_queues[k] = d => Answered(d, k - 1)'
    BY <1>16 DEF C_Stop, server, Answers, Answered, Answering, Shape, HasId
  <2>4. ToSet(client_queues) \subseteq Clients
    BY Positions DEF Shape
  <2>5. QED
    BY <2>1, <2>2, <2>3, <2>4, AnswersAfter
<1>17. ASSUME NEW d \in Clients, R_Receive(d) PROVE Answers'
  <2>1. /\ UNCHANGED <<client_queues, spc, msg>>
        /\ \A c \in Clients \ {d} : /\ client_q'[c] = client_q[c] /\ my_id'[c] = my_id[c]
                                    /\ cpc'[c] = cpc[c]
    BY <1>17 DEF R_Receive, server, Shape
  <2>2. ~Registered(d) \/ Answering(d) => Unanswered(d)'
    <3>1. client_q[d] # <<>>
      BY <1>17 DEF R_Receive
    <3>2. QED
      BY <3>1 DEF Answers, Unanswered
  <2>3. \A k \in DOMAIN client_queues : client_queues[k] = d => Answered(d, k - 1)'
    <3> SUFFICES ASSUME NEW k \in DOMAIN client_queues, client_queues[k] = d
                 PROVE  Answered(d, k - 1)'
      OBVIOUS
    <3>1. cpc[d] # "c_reply" /\ Answered(d, k - 1)
      BY <1>17 DEF R_Receive, Receivers, Answers
    <3>2. QED
      BY <1>17, <3>1 DEF R_Receive, Answered
  <2>4. ToSet(client_queues) \subseteq Clients
    BY Positions DEF Shape
  <2>5. QED
    BY <2>1, <2>2, <2>3, <2>4, AnswersAfter
<1>18. ASSUME NEW d \in Clients, R_Exit(d) PROVE Answers'
  <2>1. /\ UNCHANGED <<client_queues, spc, msg>>
        /\ \A c \in Clients \ {d} : /\ client_q'[c] = client_q[c] /\ my_id'[c] = my_id[c]
                                    /\ cpc'[c] = cpc[c]
    BY <1>18 DEF R_Exit, server, Shape
  <2>2. ~Registered(d) \/ Answering(d) => Unanswered(d)'
    BY <1>18 DEF R_Exit, Answers, Unanswered, Shape, HasId
  <2>3. \A k \in DOMAIN client_queues : client_queues[k] = d => Answered(d, k - 1)'
    BY <1>18 DEF R_Exit, server, Answers, Answered, Answering, Shape, HasId
  <2>4. ToSet(client_queues) \subseteq Clients
    BY Positions DEF Shape
  <2>5. QED
    BY <2>1, <2>2, <2>3, <2>4, AnswersAfter
<1>19. CASE UNCHANGED vars
  BY <1>19 DEF vars, server, client, Answers, Unanswered, Answered, Registered, Answering
<1>20. QED
  BY <1>1, <1>2, <1>3, <1>4, <1>5, <1>6, <1>7, <1>8, <1>9, <1>10, <1>11, <1>12, <1>13,
    <1>14, <1>15, <1>16, <1>17, <1>18, <1>19 DEF Next, ServerStep, ClientStep, Connect

-----------------------------------------------------------------------------
\* What texts rest on only grows: the registry, and the lines typed; and a
\* client that comes to send has typed a new one.
Grows ==
    /\ \A k \in DOMAIN client_queues :
            k \in DOMAIN client_queues' /\ client_queues'[k] = client_queues[k]
    /\ \A c \in Clients :
            /\ texts[c] \in Nat /\ texts'[c] \in Nat /\ texts'[c] >= texts[c]
            /\ cpc'[c] = "c_send" => cpc[c] = "c_send" \/ texts'[c] > texts[c]

\* This is so of every step.
LEMMA GrowsStep ==
    ASSUME Shape, [Next]_vars
    PROVE  Grows
<1>1. CASE S_Receive
  BY <1>1 DEF S_Receive, client, Grows, Shape
<1>2. CASE S_Register
  <2>1. msg.from \in Clients
    BY <1>2, Kinds DEF S_Register, Shape
  <2>2. client_queues \in Seq(Clients) /\ client_queues' = Append(client_queues, msg.from)
    BY <1>2 DEF S_Register, Shape
  <2>3. \A k \in DOMAIN client_queues :
            k \in DOMAIN client_queues' /\ client_queues'[k] = client_queues[k]
    <3>1. DOMAIN client_queues = 1 .. Len(client_queues)
      BY <2>2, Positions
    <3>2. QED
      BY <2>1, <2>2, <3>1, AfterSend
  <2>4. QED
    BY <1>2, <2>3 DEF S_Register, client, Grows, Shape
<1>3. CASE S_Refuse
  BY <1>3 DEF S_Refuse, client, Grows, Shape
<1>4. CASE S_Reply
  BY <1>4 DEF S_Reply, client, Grows, Shape
<1>5. CASE S_Send
  BY <1>5 DEF S_Send, client, Grows, Shape
<1>6. CASE S_SendEnd
  BY <1>6 DEF S_SendEnd, client, Grows, Shape
<1>7. CASE S_Stop
  BY <1>7 DEF S_Stop, client, Grows, Shape
<1>8. ASSUME NEW d \in Clients, C_Open(d) PROVE Grows
  BY <1>8 DEF C_Open, Goto, server, Grows, Shape
<1>9. ASSUME NEW d \in Clients, C_Server(d) PROVE Grows
  BY <1>9 DEF C_Server, Goto, server, Grows, Shape
<1>10. ASSUME NEW d \in Clients, C_Init(d) PROVE Grows
  BY <1>10 DEF C_Init, Goto, server, Grows, Shape
<1>11. ASSUME NEW d \in Clients, C_Reply(d) PROVE Grows
  BY <1>11 DEF C_Reply, Goto, server, Grows, Shape
<1>12. ASSUME NEW d \in Clients, C_Fork(d) PROVE Grows
  BY <1>12 DEF C_Fork, Goto, server, Grows, Shape
<1>13. ASSUME NEW d \in Clients, C_Assign(d) PROVE Grows
  BY <1>13 DEF C_Assign, Goto, server, Grows, Shape
<1>14. ASSUME NEW d \in Clients, C_Input(d) PROVE Grows
  BY <1>14 DEF C_Input, Goto, server, Grows, Shape
<1>15. ASSUME NEW d \in Clients, C_Send(d) PROVE Grows
  BY <1>15 DEF C_Send, Goto, server, Grows, Shape
<1>16. ASSUME NEW d \in Clients, C_Stop(d) PROVE Grows
  BY <1>16 DEF C_Stop, server, Grows, Shape
<1>17. ASSUME NEW d \in Clients, R_Receive(d) PROVE Grows
  BY <1>17 DEF R_Receive, server, Grows, Shape
<1>18. ASSUME NEW d \in Clients, R_Exit(d) PROVE Grows
  BY <1>18 DEF R_Exit, server, Grows, Shape
<1>19. CASE UNCHANGED vars
  BY <1>19 DEF vars, server, client, Grows, Shape
<1>20. QED
  BY <1>1, <1>2, <1>3, <1>4, <1>5, <1>6, <1>7, <1>8, <1>9, <1>10, <1>11, <1>12, <1>13,
    <1>14, <1>15, <1>16, <1>17, <1>18, <1>19 DEF Next, ServerStep, ClientStep, Connect

\* A fine text stays fine.
LEMMA FineKept ==
    ASSUME Grows
    PROVE  \A m : Fine(m) => Fine(m)'
<1> SUFFICES ASSUME NEW m, Fine(m), m \in TextMsgs
             PROVE  /\ m.n > 0
                    /\ IF cpc'[m.from] = "c_send" THEN m.n < texts'[m.from]
                                                  ELSE m.n <= texts'[m.from]
                    /\ m.id + 1 \in DOMAIN client_queues'
                    /\ client_queues'[m.id + 1] = m.from
  BY DEF Fine
<1>1. m.n \in Nat /\ m.from \in Clients
  BY Kinds
<1>2. m.id + 1 \in DOMAIN client_queues' /\ client_queues'[m.id + 1] = m.from
  BY DEF Fine, Grows
<1>3. IF cpc'[m.from] = "c_send" THEN m.n < texts'[m.from] ELSE m.n <= texts'[m.from]
  BY <1>1 DEF Fine, Grows
<1>4. QED
  BY <1>2, <1>3 DEF Fine

\* A step that changes the queue of one client.
LEMMA LineAfterClient ==
    ASSUME LInv, Grows, NEW e, UNCHANGED <<server_q, msg>>,
           spc' = "s_send" => spc = "s_send",
           \A c \in Clients \ {e} : client_q'[c] = client_q[c] /\ printed'[c] = printed[c],
           e \in Clients => ClientLine(e)' /\ Before(Got(e), ToSet(server_q))',
           Forward'
    PROVE  LInv'
<1>1. ServerLine' /\ HandLine'
  BY FineKept DEF LInv, ServerLine, HandLine, Fine
<1>2. ASSUME NEW c \in Clients PROVE ClientLine(c)' /\ Before(Got(c), ToSet(server_q))'
  <2>1. CASE c = e
    BY <2>1
  <2>2. CASE c # e
    <3>1. client_q'[c] = client_q[c] /\ printed'[c] = printed[c] /\ Got(c)' = Got(c)
      BY <2>2 DEF Got
    <3>2. ClientLine(c) /\ Before(Got(c), ToSet(server_q))
      BY DEF LInv, Behind
    <3>3. QED
      BY <3>1, <3>2, FineKept DEF ClientLine
  <2>3. QED
    BY <2>1, <2>2
<1>3. QED
  BY <1>1, <1>2 DEF LInv, Behind

\* A step that changes the server's queue.
LEMMA LineAfterServer ==
    ASSUME LInv, Grows, UNCHANGED <<client_q, printed>>,
           ServerLine', HandLine', Behind', Forward'
    PROVE  LInv'
<1>1. ASSUME NEW c \in Clients PROVE ClientLine(c)'
  <2>1. client_q'[c] = client_q[c] /\ printed'[c] = printed[c] /\ Got(c)' = Got(c)
    BY DEF Got
  <2>2. ClientLine(c)
    BY DEF LInv
  <2>3. QED
    BY <2>1, <2>2, FineKept DEF ClientLine
<1>2. QED
  BY <1>1 DEF LInv

\* A step that moves no message.
LEMMA LineKept ==
    ASSUME LInv, Grows, UNCHANGED <<server_q, client_q, printed, msg>>,
           spc' = "s_send" => spc = "s_send" /\ UNCHANGED <<target, client_queues>>
    PROVE  LInv'
<1>1. \A c : Got(c)' = Got(c)
  BY DEF Got
<1>2. ServerLine' /\ HandLine'
  BY FineKept DEF LInv, ServerLine, HandLine, Fine
<1>3. Behind' /\ Forward'
  BY <1>1 DEF LInv, Behind, Forward
<1>4. QED
  BY <1>2, <1>3, LineAfterServer

\* No step brings a text out of its place in the line.
LEMMA LineStep ==
    ASSUME Shape, Bounded, OneStage, Answers, LInv, [Next]_vars
    PROVE  LInv'
<1>0. Grows
  BY GrowsStep
<1>1. CASE S_Receive
  <2> DEFINE m == Head(server_q)
  <2>1. /\ server_q' = Tail(server_q) /\ server_q # <<>> /\ msg' = m
        /\ UNCHANGED <<client_queues, client_q, printed>>
    BY <1>1 DEF S_Receive, client
  <2>2. /\ server_q \in Seq(Inits \cup TextMsgs) /\ Ascending(server_q)
        /\ ToSet(server_q) = ToSet(server_q') \cup {m}
    BY <2>1, AfterReceive DEF Shape, LInv, ServerLine
  <2>3. Ascending(server_q') /\ Before({m}, ToSet(server_q'))
    BY <2>1, <2>2, AscendingReceive
  <2>4. \A x \in ToSet(server_q) : Fine(x)'
    BY <1>0, FineKept DEF LInv, ServerLine
  <2>5. ServerLine' /\ HandLine'
    BY <2>1, <2>2, <2>3, <2>4 DEF ServerLine, HandLine, Fine
  <2>6. ASSUME NEW c \in Clients
        PROVE  Got(c)' = Got(c) /\ Before(Got(c), ToSet(server_q')) /\ Before(Got(c), {m})
    <3>1. Got(c)' = Got(c) /\ Before(Got(c), ToSet(server_q))
      BY <2>1 DEF Got, LInv, Behind
    <3>2. QED
      BY <2>2, <3>1, BeforeParts
  <2>7. Behind'
    BY <2>6 DEF Behind
  <2>8. Forward'
    <3>1. \A k \in DOMAIN client_queues : client_queues[k] \in Clients
      BY Positions DEF Shape
    <3>2. QED
      BY <2>1, <2>6, <3>1 DEF Forward
  <2>9. QED
    BY <1>0, <2>1, <2>5, <2>7, <2>8, LineAfterServer
<1>2. CASE S_Register
  <2>1. /\ UNCHANGED <<server_q, client_q, printed, msg>>
        /\ spc' = "s_send" => spc = "s_send" /\ UNCHANGED <<target, client_queues>>
    BY <1>2 DEF S_Register, client
  <2>2. QED
    BY <1>0, <2>1, LineKept
<1>3. CASE S_Refuse
  <2>1. /\ UNCHANGED <<server_q, client_q, printed, msg>>
        /\ spc' = "s_send" => spc = "s_send" /\ UNCHANGED <<target, client_queues>>
    BY <1>3 DEF S_Refuse, client
  <2>2. QED
    BY <1>0, <2>1, LineKept
<1>4. CASE S_Reply
  <2>1. PICK e \in Clients, m \in Assigns : e = msg.from /\ m = Assign(Len(client_queues) - 1)
    BY <1>4, AnsweredIsLast, Kinds DEF S_Reply
  <2>2. m \in Assigns \cup TextMsgs /\ m \notin TextMsgs
    BY Kinds
  <2>3. /\ client_q' = [client_q EXCEPT ![e] = Append(client_q[e], m)]
        /\ UNCHANGED <<server_q, printed, msg>> /\ spc' = "s_receive"
    BY <1>4, <2>1 DEF S_Reply, SendTo, client
  <2>4. /\ client_q[e] \in Seq(Assigns \cup TextMsgs) /\ client_q'[e] = Append(client_q[e], m)
        /\ ClientLine(e) /\ Before(Got(e), ToSet(server_q))
    BY <2>3 DEF Shape, LInv, Behind
  <2>5. /\ Ascending(client_q'[e]) /\ Before(ToSet(printed[e]), ToSet(client_q'[e]))
        /\ ToSet(client_q'[e]) = ToSet(client_q[e]) \cup {m}
    <3>1. Ascending(client_q[e]) /\ Before(ToSet(printed[e]), ToSet(client_q[e]))
      BY <2>4 DEF ClientLine
    <3>2. ToSet(client_q'[e]) = ToSet(client_q[e]) \cup {m}
      BY <2>2, <2>4, AfterSend
    <3>3. Before(ToSet(client_q[e]), {m}) /\ Before(ToSet(printed[e]), {m})
      BY <2>2, BeforeOther
    <3>4. Ascending(client_q'[e])
      BY <2>2, <2>4, <3>1, <3>3, AscendingSend
    <3>5. QED
      BY <3>1, <3>2, <3>3, <3>4, BeforeJoin
  <2>6. Got(e)' = Got(e) \cup {m}
    BY <2>3, <2>5 DEF Got
  <2>7. Before(Got(e), ToSet(server_q))'
    BY <2>2, <2>3, <2>4, <2>6, BeforeOther, BeforeJoin
  <2>8. \A x \in Got(e)' : Fine(x)' /\ (x \in TextMsgs => x.from # e)
    BY <1>0, <2>2, <2>4, <2>6, FineKept DEF ClientLine, Fine
  <2>9. ClientLine(e)'
    BY <2>3, <2>4, <2>5, <2>8 DEF ClientLine
  <2>10. \A c \in Clients \ {e} : client_q'[c] = client_q[c] /\ printed'[c] = printed[c]
    BY <2>3 DEF Shape
  <2>11. Forward'
    BY <2>3 DEF Forward
  <2>12. QED
    BY <1>0, <2>3, <2>7, <2>9, <2>10, <2>11, LineAfterClient
<1>5. CASE S_Send
  <2>1. /\ target + 1 \in DOMAIN client_queues /\ client_queues[target + 1] \in Clients
        /\ msg \in TextMsgs /\ target \in Nat
    BY <1>5, NextTarget DEF S_Send
  <2>2. PICK e \in Clients, m \in TextMsgs : e = client_queues[target + 1] /\ m = msg
    BY <2>1
  <2>3. /\ spc = "s_send" /\ spc' = "s_send" /\ target' = target + 1
        /\ UNCHANGED <<server_q, printed, client_queues, msg>>
        /\ client_q' = IF Forwards(target) THEN [client_q EXCEPT ![e] = Append(client_q[e], m)]
                                          ELSE client_q
    BY <1>5, <2>2 DEF S_Send, SendTo, client
  <2>4. /\ client_q[e] \in Seq(Assigns \cup TextMsgs) /\ m \in Assigns \cup TextMsgs
        /\ ClientLine(e) /\ Before(Got(e), ToSet(server_q)) /\ Before(Got(e), {m})
        /\ Fine(m) /\ Before({m}, ToSet(server_q))
    <3>1. Before(Got(e), {m})
      <4>1. target + 1 > target
        BY <2>1
      <4>2. QED
        BY <2>1, <2>2, <2>3, <4>1 DEF LInv, Forward
    <3>2. Fine(m) /\ Before({m}, ToSet(server_q))
      BY <2>2, <2>3 DEF LInv, HandLine
    <3>3. QED
      BY <3>1, <3>2 DEF Shape, LInv, Behind
  <2>5. \A c \in Clients \ {e} : client_q'[c] = client_q[c] /\ printed'[c] = printed[c]
    BY <2>3 DEF Shape
  <2>6. Forward'
    <3> SUFFICES ASSUME NEW k \in DOMAIN client_queues, k > target + 1
                 PROVE  Before(Got(client_queues[k])', {m})
      BY <2>2, <2>3 DEF Forward
    <3>1. k > target /\ Before(Got(client_queues[k]), {m})
      <4>1. k > target
        BY <2>1, Positions DEF Shape
      <4>2. QED
        BY <2>2, <2>3, <4>1 DEF LInv, Forward
    <3>2. client_queues[k] \in Clients \ {e}
      <4>1. k # target + 1
        BY <2>1
      <4>2. client_queues[k] \in Clients
        BY Positions DEF Shape
      <4>3. QED
        BY <2>1, <2>2, <4>1, <4>2 DEF OneStage
    <3>3. PICK c \in Clients \ {e} : c = client_queues[k]
      BY <3>2
    <3>4. Got(c)' = Got(c)
      BY <2>5 DEF Got
    <3>5. QED
      BY <2>3, <3>1, <3>3, <3>4 DEF Got
  <2>7. ClientLine(e)' /\ Before(Got(e), ToSet(server_q))'
    <3>1. CASE ~Forwards(target)
      <4>1. client_q' = client_q /\ Got(e)' = Got(e)
        BY <2>3, <3>1 DEF Got
      <4>2. QED
        BY <1>0, <2>3, <2>4, <4>1, FineKept DEF ClientLine
    <3>2. CASE Forwards(target)
      <4>1. /\ client_q'[e] = Append(client_q[e], m)
            /\ ToSet(client_q'[e]) = ToSet(client_q[e]) \cup {m}
        <5>1. client_q'[e] = Append(client_q[e], m)
          BY <2>3, <3>2 DEF Shape
        <5>2. QED
          BY <2>4, <5>1, AfterSend
      <4>2. Got(e)' = Got(e) \cup {m}
        BY <2>3, <4>1 DEF Got
      <4>3. Before(ToSet(client_q[e]), {m}) /\ Before(ToSet(printed[e]), {m})
        BY <2>4, BeforeParts DEF Got
      <4>4. Ascending(client_q'[e])
        BY <2>4, <4>1, <4>3, AscendingSend DEF ClientLine
      <4>5. Before(ToSet(printed[e]), ToSet(client_q'[e]))
        BY <2>4, <4>1, <4>3, BeforeJoin DEF ClientLine
      <4>6. m.from # e
        <5>1. /\ m.id + 1 \in DOMAIN client_queues /\ client_queues[m.id + 1] = m.from
              /\ m.id \in Nat
          BY <2>4, Kinds DEF Fine
        <5>2. m.id + 1 # target + 1
          BY <2>1, <2>2, <3>2, <5>1 DEF Forwards
        <5>3. QED
          BY <2>1, <2>2, <5>1, <5>2 DEF OneStage
      <4>7. \A x \in Got(e)' : Fine(x)' /\ (x \in TextMsgs => x.from # e)
        BY <1>0, <2>4, <4>2, <4>6, FineKept DEF ClientLine
      <4>8. ClientLine(e)'
        BY <2>3, <2>4, <4>4, <4>5, <4>7 DEF ClientLine
      <4>9. QED
        BY <2>3, <2>4, <4>2, <4>8, BeforeJoin
    <3>3. QED
      BY <3>1, <3>2
  <2>8. QED
    BY <1>0, <2>3, <2>5, <2>6, <2>7, LineAfterClient
<1>6. CASE S_SendEnd
  <2>1. /\ UNCHANGED <<server_q, client_q, printed, msg>>
        /\ spc' = "s_send" => spc = "s_send" /\ UNCHANGED <<target, client_queues>>
    BY <1>6 DEF S_SendEnd, client
  <2>2. QED
    BY <1>0, <2>1, LineKept
<1>7. CASE S_Stop
  <2>1. /\ UNCHANGED <<server_q, client_q, printed, msg>>
        /\ spc' = "s_send" => spc = "s_send" /\ UNCHANGED <<target, client_queues>>
    BY <1>7 DEF S_Stop, client
  <2>2. QED
    BY <1>0, <2>1, LineKept
<1>8. ASSUME NEW d \in Clients, C_Open(d) PROVE LInv'
  <2>1. /\ UNCHANGED <<server_q, client_q, printed, msg>>
        /\ spc' = "s_send" => spc = "s_send" /\ UNCHANGED <<target, client_queues>>
    BY <1>8 DEF C_Open, Goto, server
  <2>2. QED
    BY <1>0, <2>1, LineKept
<1>9. ASSUME NEW d \in Clients, C_Server(d) PROVE LInv'
  <2>1. /\ UNCHANGED <<server_q, client_q, printed, msg>>
        /\ spc' = "s_send" => spc = "s_send" /\ UNCHANGED <<target, client_queues>>
    BY <1>9 DEF C_Server, Goto, server
  <2>2. QED
    BY <1>0, <2>1, LineKept
<1>10. ASSUME NEW d \in Clients, C_Init(d) PROVE LInv'
  <2> DEFINE m == Init_(d)
  <2>1. m \in Inits \cup TextMsgs /\ m \notin TextMsgs /\ Fine(m)'
    BY Kinds DEF Fine
  <2>2. /\ server_q' = Append(server_q, m) /\ UNCHANGED <<client_q, printed>>
        /\ UNCHANGED <<client_queues, spc, msg, target>>
    BY <1>10 DEF C_Init, Goto, SendServer, server
  <2>3. /\ server_q \in Seq(Inits \cup TextMsgs) /\ Ascending(server_q)
        /\ ToSet(server_q') = ToSet(server_q) \cup {m}
    <3>1. server_q \in Seq(Inits \cup TextMsgs) /\ Ascending(server_q)
      BY DEF Shape, LInv, ServerLine
    <3>2. QED
      BY <2>1, <2>2, <3>1, AfterSend
  <2>4. ASSUME NEW c \in Clients
        PROVE  Got(c)' = Got(c) /\ Before(Got(c), ToSet(server_q'))
    <3>1. Got(c)' = Got(c) /\ Before(Got(c), ToSet(server_q)) /\ ClientLine(c)
      BY <2>2 DEF Got, LInv, Behind
    <3>2. Before(Got(c), {m})
      BY <2>1, <3>1, BeforeOther DEF ClientLine
    <3>3. QED
      BY <2>3, <3>1, <3>2, BeforeJoin
  <2>5. Ascending(server_q')
    <3>1. Before(ToSet(server_q), {m})
      BY <2>1, BeforeOther DEF LInv, ServerLine
    <3>2. QED
      BY <2>1, <2>2, <2>3, <3>1, AscendingSend
  <2>6. \A x \in ToSet(server_q) \cup {m} : Fine(x)'
    BY <1>0, <2>1, FineKept DEF LInv, ServerLine
  <2>7. ServerLine'
    BY <2>3, <2>5, <2>6 DEF ServerLine
  <2>8. HandLine'
    <3>0. (msg = None \/ Fine(msg))'
      BY <1>0, <2>2, FineKept DEF LInv, HandLine, Fine
    <3> SUFFICES ASSUME spc = "s_send" PROVE Fine(msg)' /\ Before({msg}, ToSet(server_q'))
      BY <2>2, <3>0 DEF HandLine
    <3>1. Fine(msg) /\ Before({msg}, ToSet(server_q))
      BY DEF LInv, HandLine
    <3>2. Before({msg}, {m})
      BY <2>1, <3>1, BeforeOther
    <3>3. Fine(msg)'
      BY <1>0, <2>2, <3>1, FineKept DEF Fine
    <3>4. QED
      BY <2>3, <3>1, <3>2, <3>3, BeforeJoin
  <2>9. Behind'
    BY <2>4 DEF Behind
  <2>10. Forward'
    <3>1. \A k \in DOMAIN client_queues : client_queues[k] \in Clients
      BY Positions DEF Shape
    <3>2. QED
      BY <2>2, <2>4, <3>1 DEF LInv, Forward
  <2>11. QED
    BY <1>0, <2>2, <2>7, <2>8, <2>9, <2>10, LineAfterServer
<1>11. ASSUME NEW d \in Clients, C_Reply(d) PROVE LInv'
  <2>1. /\ client_q[d] # <<>> /\ client_q' = [client_q EXCEPT ![d] = Tail(client_q[d])]
        /\ UNCHANGED <<server_q, printed, client_queues, spc, msg, target>>
    BY <1>11 DEF C_Reply, server
  <2>2. client_q[d] \in Seq(Assigns \cup TextMsgs) /\ client_q'[d] = Tail(client_q[d])
    BY <2>1 DEF Shape
  <2>3. ToSet(client_q'[d]) \subseteq ToSet(client_q[d])
    BY <2>1, <2>2, AfterReceive
  <2>4. \A c \in Clients \ {d} : client_q'[c] = client_q[c] /\ printed'[c] = printed[c]
    BY <2>1 DEF Shape
  <2>5. \A c \in Clients : Got(c)' \subseteq Got(c)
    BY <2>1, <2>3, <2>4 DEF Got
  <2>6. ClientLine(d) /\ Before(Got(d), ToSet(server_q))
    BY DEF LInv, Behind
  <2>7. Ascending(client_q'[d]) /\ Before(ToSet(printed[d]), ToSet(client_q'[d]))
    BY <2>1, <2>2, <2>3, <2>6, AscendingReceive, BeforeParts DEF ClientLine
  <2>8. \A x \in Got(d)' : Fine(x)' /\ (x \in TextMsgs => x.from # d)
    BY <1>0, <2>5, <2>6, FineKept DEF ClientLine
  <2>9. ClientLine(d)' /\ Before(Got(d), ToSet(server_q))'
    BY <2>1, <2>5, <2>6, <2>7, <2>8, BeforeParts DEF ClientLine
  <2>10. Forward'
    <3> SUFFICES ASSUME spc = "s_send", NEW k \in DOMAIN client_queues, k > target
                 PROVE  Before(Got(client_queues[k])', {msg})
      BY <2>1 DEF Forward
    <3>1. Before(Got(client_queues[k]), {msg})
      BY DEF LInv, Forward
    <3>2. PICK c \in Clients : c = client_queues[k]
      BY Positions DEF Shape
    <3>3. Before(Got(c)', {msg})
      BY <2>5, <3>1, <3>2, BeforeParts
    <3>4. QED
      BY <2>1, <3>2, <3>3 DEF Got
  <2>11. QED
    BY <1>0, <2>1, <2>4, <2>9, <2>10, LineAfterClient
<1>12. ASSUME NEW d \in Clients, C_Fork(d) PROVE LInv'
  <2>1. /\ UNCHANGED <<server_q, client_q, printed, msg>>
        /\ spc' = "s_send" => spc = "s_send" /\ UNCHANGED <<target, client_queues>>
    BY <1>12 DEF C_Fork, Goto, server
  <2>2. QED
    BY <1>0, <2>1, LineKept
<1>13. ASSUME NEW d \in Clients, C_Assign(d) PROVE LInv'
  <2>1. /\ UNCHANGED <<server_q, client_q, printed, msg>>
        /\ spc' = "s_send" => spc = "s_send" /\ UNCHANGED <<target, client_queues>>
    BY <1>13 DEF C_Assign, Goto, server
  <2>2. QED
    BY <1>0, <2>1, LineKept
<1>14. ASSUME NEW d \in Clients, C_Input(d) PROVE LInv'
  <2>1. /\ UNCHANGED <<server_q, client_q, printed, msg>>
        /\ spc' = "s_send" => spc = "s_send" /\ UNCHANGED <<target, client_queues>>
    BY <1>14 DEF C_Input, Goto, server
  <2>2. QED
    BY <1>0, <2>1, LineKept
<1>15. ASSUME NEW d \in Clients, C_Send(d) PROVE LInv'
  <2>0. PICK m \in TextMsgs : m = Text(d, my_id[d], texts[d])
    BY <1>15, IdOfConnected, Kinds DEF C_Send, Goto, HasId, Shape
  <2>1. /\ m \in Inits \cup TextMsgs /\ Fine(m)'
        /\ \A T : (\A x \in T : Fine(x)) => Before(T, {m})
    <3>1. /\ cpc[d] = "c_send" /\ cpc' = [cpc EXCEPT ![d] = "c_input"]
          /\ UNCHANGED <<texts, client_queues>> /\ texts[d] > 0 /\ texts[d] \in Nat
      BY <1>15 DEF C_Send, Goto, server, Bounded, Shape
    <3>2. /\ my_id[d] \in Nat /\ my_id[d] + 1 \in DOMAIN client_queues
          /\ client_queues[my_id[d] + 1] = d
      BY <3>1, IdOfConnected DEF HasId
    <3>3. m.from = d /\ m.id = my_id[d] /\ m.n = texts[d]
      BY <2>0, <3>1, <3>2, Kinds
    <3>4. Fine(m)'
      <4>1. cpc'[d] # "c_send"
        BY <3>1 DEF Shape
      <4>2. QED
        BY <3>1, <3>2, <3>3, <4>1 DEF Fine
    <3>5. \A T : (\A x \in T : Fine(x)) => Before(T, {m})
      BY <3>1, <3>3 DEF Fine, Before
    <3>6. QED
      BY <3>4, <3>5
  <2>2. /\ server_q' = Append(server_q, m) /\ UNCHANGED <<client_q, printed>>
        /\ UNCHANGED <<client_queues, spc, msg, target>>
    BY <1>15, <2>0 DEF C_Send, Goto, SendServer, server
  <2>3. /\ server_q \in Seq(Inits \cup TextMsgs) /\ Ascending(server_q)
        /\ ToSet(server_q') = ToSet(server_q) \cup {m}
    <3>1. server_q \in Seq(Inits \cup TextMsgs) /\ Ascending(server_q)
      BY DEF Shape, LInv, ServerLine
    <3>2. QED
      BY <2>1, <2>2, <3>1, AfterSend
  <2>4. ASSUME NEW c \in Clients
        PROVE  Got(c)' = Got(c) /\ Before(Got(c), ToSet(server_q'))
    <3>1. Got(c)' = Got(c) /\ Before(Got(c), ToSet(server_q)) /\ ClientLine(c)
      BY <2>2 DEF Got, LInv, Behind
    <3>2. Before(Got(c), {m})
      BY <2>1, <3>1 DEF ClientLine
    <3>3. QED
      BY <2>3, <3>1, <3>2, BeforeJoin
  <2>5. Ascending(server_q')
    <3>1. Before(ToSet(server_q), {m})
      BY <2>1 DEF LInv, ServerLine
    <3>2. QED
      BY <2>1, <2>2, <2>3, <3>1, AscendingSend
  <2>6. \A x \in ToSet(server_q) \cup {m} : Fine(x)'
    BY <1>0, <2>1, FineKept DEF LInv, ServerLine
  <2>7. ServerLine'
    BY <2>3, <2>5, <2>6 DEF ServerLine
  <2>8. HandLine'
    <3>0. (msg = None \/ Fine(msg))'
      BY <1>0, <2>2, FineKept DEF LInv, HandLine, Fine
    <3> SUFFICES ASSUME spc = "s_send" PROVE Fine(msg)' /\ Before({msg}, ToSet(server_q'))
      BY <2>2, <3>0 DEF HandLine
    <3>1. Fine(msg) /\ Before({msg}, ToSet(server_q))
      BY DEF LInv, HandLine
    <3>2. Before({msg}, {m})
      BY <2>1, <3>1
    <3>3. Fine(msg)'
      BY <1>0, <2>2, <3>1, FineKept DEF Fine
    <3>4. QED
      BY <2>3, <3>1, <3>2, <3>3, BeforeJoin
  <2>9. Behind'
    BY <2>4 DEF Behind
  <2>10. Forward'
    <3>1. \A k \in DOMAIN client_queues : client_queues[k] \in Clients
      BY Positions DEF Shape
    <3>2. QED
      BY <2>2, <2>4, <3>1 DEF LInv, Forward
  <2>11. QED
    BY <1>0, <2>2, <2>7, <2>8, <2>9, <2>10, LineAfterServer
<1>16. ASSUME NEW d \in Clients, C_Stop(d) PROVE LInv'
  <2>1. /\ UNCHANGED <<server_q, client_q, printed, msg>>
        /\ spc' = "s_send" => spc = "s_send" /\ UNCHANGED <<target, client_queues>>
    BY <1>16 DEF C_Stop, server
  <2>2. QED
    BY <1>0, <2>1, LineKept
<1>17. ASSUME NEW d \in Clients, R_Receive(d) PROVE LInv'
  <2> DEFINE m == Head(client_q[d])
  <2>1. /\ client_q[d] # <<>> /\ client_q' = [client_q EXCEPT ![d] = Tail(client_q[d])]
        /\ printed' = [printed EXCEPT ![d] = IF m.type = "TEXT" THEN Append(printed[d], m)
                                                             ELSE printed[d]]
        /\ UNCHANGED <<server_q, client_queues, spc, msg, target>>
    BY <1>17 DEF R_Receive, server
  <2>2. /\ client_q[d] \in Seq(Assigns \cup TextMsgs) /\ client_q'[d] = Tail(client_q[d])
        /\ printed[d] \in Seq(TextMsgs)
        /\ printed'[d] = IF m.type = "TEXT" THEN Append(printed[d], m) ELSE printed[d]
    BY <2>1 DEF Shape
  <2>3. /\ ToSet(client_q[d]) = ToSet(client_q'[d]) \cup {m} /\ m \in Assigns \cup TextMsgs
    BY <2>1, <2>2, AfterReceive
  <2>4. m.type = "TEXT" => m \in TextMsgs
    BY <2>3, Kinds
  <2>5. \A c \in Clients \ {d} : client_q'[c] = client_q[c] /\ printed'[c] = printed[c]
    BY <2>1 DEF Shape
  <2>6. ClientLine(d) /\ Before(Got(d), ToSet(server_q))
    BY DEF LInv, Behind
  <2>7. /\ Ascending(client_q'[d]) /\ Before({m}, ToSet(client_q'[d]))
        /\ Before(ToSet(printed[d]), {m}) /\ Before(ToSet(printed[d]), ToSet(client_q'[d]))
    <3>1. Ascending(client_q'[d]) /\ Before({m}, ToSet(client_q'[d]))
      BY <2>1, <2>2, <2>6, AscendingReceive DEF ClientLine
    <3>2. Before(ToSet(printed[d]), ToSet(client_q[d]))
      BY <2>6 DEF ClientLine
    <3>3. QED
      BY <2>3, <3>1, <3>2, BeforeParts
  <2>8. /\ Ascending(printed'[d]) /\ Before(ToSet(printed'[d]), ToSet(client_q'[d]))
        /\ ToSet(printed'[d]) \subseteq ToSet(printed[d]) \cup {m}
    <3>1. CASE m.type = "TEXT"
      <4>1. m \in TextMsgs /\ printed'[d] = Append(printed[d], m)
        BY <2>2, <2>4, <3>1
      <4>2. ToSet(printed'[d]) = ToSet(printed[d]) \cup {m}
        BY <2>2, <4>1, AfterSend
      <4>3. Ascending(printed[d])
        BY <2>6 DEF ClientLine
      <4>4. Ascending(printed'[d])
        BY <2>2, <2>7, <4>1, <4>3, AscendingSend
      <4>5. QED
        BY <2>7, <4>2, <4>4, BeforeJoin
    <3>2. CASE m.type # "TEXT"
      BY <2>2, <2>6, <2>7, <3>2 DEF ClientLine
    <3>3. QED
      BY <3>1, <3>2
  <2>9. \A c \in Clients : Got(c)' \subseteq Got(c)
    BY <2>3, <2>5, <2>8 DEF Got
  <2>10. \A x \in Got(d)' : Fine(x)' /\ (x \in TextMsgs => x.from # d)
    BY <1>0, <2>6, <2>9, FineKept DEF ClientLine
  <2>11. ClientLine(d)' /\ Before(Got(d), ToSet(server_q))'
    BY <2>1, <2>6, <2>7, <2>8, <2>9, <2>10, BeforeParts DEF ClientLine
  <2>12. Forward'
    <3> SUFFICES ASSUME spc = "s_send", NEW k \in DOMAIN client_queues, k > target
                 PROVE  Before(Got(client_queues[k])', {msg})
      BY <2>1 DEF Forward
    <3>1. Before(Got(client_queues[k]), {msg})
      BY DEF LInv, Forward
    <3>2. PICK c \in Clients : c = client_queues[k]
      BY Positions DEF Shape
    <3>3. Before(Got(c)', {msg})
      BY <2>9, <3>1, <3>2, BeforeParts
    <3>4. QED
      BY <2>1, <3>2, <3>3 DEF Got
  <2>13. QED
    BY <1>0, <2>1, <2>5, <2>11, <2>12, LineAfterClient
<1>18. ASSUME NEW d \in Clients, R_Exit(d) PROVE LInv'
  <2>1. /\ UNCHANGED <<server_q, client_q, printed, msg>>
        /\ spc' = "s_send" => spc = "s_send" /\ UNCHANGED <<target, client_queues>>
    BY <1>18 DEF R_Exit, server
  <2>2. QED
    BY <1>0, <2>1, LineKept
<1>19. CASE UNCHANGED vars
  <2>1. /\ UNCHANGED <<server_q, client_q, printed, msg>>
        /\ spc' = "s_send" => spc = "s_send" /\ UNCHANGED <<target, client_queues>>
    BY <1>19 DEF vars, server, client
  <2>2. QED
    BY <1>0, <2>1, LineKept
<1>20. QED
  BY <1>1, <1>2, <1>3, <1>4, <1>5, <1>6, <1>7, <1>8, <1>9, <1>10, <1>11, <1>12, <1>13,
    <1>14, <1>15, <1>16, <1>17, <1>18, <1>19 DEF Next, ServerStep, ClientStep, Connect

\* Whoever has an id has the index of its queue in the registry.
LEMMA IdOfRegistered ==
    ASSUME Shape, Answers, NEW c \in Clients, my_id[c] # None
    PROVE  /\ my_id[c] \in Nat /\ Len(client_queues) \in Nat
           /\ my_id[c] + 1 \in 1 .. Len(client_queues)
           /\ client_queues[my_id[c] + 1] = c
<1>1. Registered(c)
  BY DEF Answers, Unanswered
<1>2. client_queues \in Seq(Clients) /\ DOMAIN client_queues = 1 .. Len(client_queues)
      /\ Len(client_queues) \in Nat
  BY Positions DEF Shape
<1>3. PICK k \in DOMAIN client_queues : client_queues[k] = c
  BY <1>1 DEF Registered, ToSet
<1>4. my_id[c] = k - 1
  BY <1>3 DEF Answers, Answered
<1>5. QED
  BY <1>2, <1>3, <1>4

-----------------------------------------------------------------------------
\* The initial state: nobody has a message, an id or a receiver.
LEMMA InitHolds == Init => IInv /\ LInv
<1> SUFFICES ASSUME Init PROVE IInv /\ LInv
  OBVIOUS
<1>1. /\ server_q = <<>> /\ client_queues = <<>> /\ spc = "s_receive" /\ msg = None
      /\ target = 0 /\ linked = {} /\ child_pid = {}
      /\ \A c \in Clients : /\ client_q[c] = <<>> /\ printed[c] = <<>> /\ cpc[c] = "c_open"
                            /\ my_id[c] = None /\ texts[c] = 0 /\ child[c] = "none"
  BY DEF Init
<1>2. ToSet(<<>>) = {} /\ Len(<<>>) = 0 /\ DOMAIN <<>> = {}
  BY DEF ToSet
<1>3. Shape
  BY DEF Init, Shape, ServerPcs, ClientPcs
<1>4. Bounded
  BY <1>1, <1>2, BoundAssumption, TextsAssumption DEF Bounded
<1>5. OneStage
  BY <1>1, <1>2 DEF OneStage, Waiting, InHand, Registered, Answering
<1>6. Answers
  BY <1>1, <1>2 DEF Answers, Unanswered, HasId
<1>7. Receivers
  BY <1>1 DEF Receivers
<1>8. ServerLine /\ HandLine /\ Forward
  BY <1>1, <1>2 DEF ServerLine, HandLine, Forward, Ascending
<1>9. \A c \in Clients : Got(c) = {}
  BY <1>1, <1>2 DEF Got
<1>10. Behind
  BY <1>9 DEF Behind, Before
<1>11. \A c \in Clients : ClientLine(c)
  BY <1>1, <1>2, <1>9 DEF ClientLine, Ascending, Before
<1>12. QED
  BY <1>3, <1>4, <1>5, <1>6, <1>7, <1>8, <1>10, <1>11 DEF IInv, LInv

\* Every step keeps the invariant.
LEMMA InvStep == IInv /\ LInv /\ [Next]_vars => IInv' /\ LInv'
  BY ShapeStep, BoundedStep, OneStageStep, AnswersStep, ReceiversStep, LineStep DEF IInv

\* Connections are in the stages, and texts in the line, in every reachable
\* state of a chat of any number of clients.
THEOREM IInvHolds == Spec => [](IInv /\ LInv)
<1>1. Init => IInv /\ LInv
  BY InitHolds
<1>2. (IInv /\ LInv) /\ [Next]_vars => (IInv /\ LInv)'
  BY InvStep
<1>3. QED
  BY <1>1, <1>2, PTL DEF Spec

\* The declared types follow, with the bounds on ids and on text numbers.
LEMMA TypeFollows == IInv /\ LInv => TypeOK
<1> SUFFICES ASSUME IInv, LInv PROVE TypeOK
  OBVIOUS
<1>1. /\ Shape /\ Bounded /\ Len(client_queues) \in 0 .. MaxClients
      /\ DOMAIN client_queues = 1 .. Len(client_queues)
      /\ ToSet(client_queues) \subseteq Clients
  <2>1. client_queues \in Seq(Clients) /\ Len(client_queues) <= MaxClients
    BY DEF IInv, Shape, Bounded
  <2>2. QED
    BY <2>1, Positions, BoundAssumption DEF IInv
<1>2. ASSUME NEW m, m \in Inits \/ m \in Assigns \/ (m \in TextMsgs /\ Fine(m))
      PROVE  m \in Messages
  <2>1. CASE m \in Inits \/ m \in Assigns
    BY <2>1 DEF Inits, Assigns, Messages
  <2>2. CASE m \in TextMsgs /\ Fine(m)
    <3>1. /\ m.from \in Clients /\ m.id \in Nat /\ m.n \in Nat
          /\ m = Text(m.from, m.id, m.n)
      BY <2>2, Kinds
    <3>2. m.id \in 0 .. MaxClients - 1
      BY <1>1, <2>2, <3>1, BoundAssumption DEF Fine
    <3>3. texts[m.from] \in Nat /\ MaxTexts[m.from] \in Nat /\ texts[m.from] <= MaxTexts[m.from]
      BY <1>1, <3>1, TextsAssumption DEF Shape, Bounded
    <3>4. m.n \in 1 .. MaxTexts[m.from]
      BY <2>2, <3>1, <3>3 DEF Fine
    <3>5. QED
      BY <3>1, <3>2, <3>4 DEF Messages
  <2>3. QED
    BY <1>2, <2>1, <2>2
<1>3. Len(server_q) <= MaxMsg /\ ToSet(server_q) \subseteq Messages
  <2>1. ToSet(server_q) \subseteq Inits \cup TextMsgs
    BY <1>1, Positions DEF Shape
  <2>2. QED
    BY <1>1, <1>2, <2>1 DEF Bounded, LInv, ServerLine
<1>4. ASSUME NEW c \in Clients
      PROVE  /\ Len(client_q[c]) <= MaxMsg
             /\ ToSet(client_q[c]) \cup ToSet(printed[c]) \subseteq Messages
             /\ my_id[c] \in 0 .. MaxClients - 1 \/ my_id[c] = None
             /\ texts[c] \in 0 .. MaxTexts[c]
  <2>1. client_q[c] \in Seq(Assigns \cup TextMsgs) /\ printed[c] \in Seq(TextMsgs)
    BY <1>1 DEF Shape
  <2>2. ToSet(client_q[c]) \subseteq Assigns \cup TextMsgs /\ ToSet(printed[c]) \subseteq TextMsgs
    BY <2>1, Positions
  <2>3. \A m \in ToSet(client_q[c]) \cup ToSet(printed[c]) : Fine(m)
    BY DEF LInv, ClientLine, Got
  <2>4. ToSet(client_q[c]) \cup ToSet(printed[c]) \subseteq Messages
    BY <1>2, <2>2, <2>3
  <2>5. my_id[c] # None => my_id[c] \in 0 .. MaxClients - 1
    BY <1>1, IdOfRegistered, BoundAssumption DEF IInv
  <2>6. texts[c] \in Nat /\ MaxTexts[c] \in Nat /\ texts[c] <= MaxTexts[c]
    BY <1>1, TextsAssumption DEF Shape, Bounded
  <2>7. QED
    BY <1>1, <2>4, <2>5, <2>6 DEF Bounded
<1>5. msg \in Messages \cup {None}
  BY <1>1, <1>2 DEF Shape, LInv, HandLine
<1>6. target \in 0 .. MaxClients
  BY <1>1, BoundAssumption DEF Shape, Bounded
<1>7. QED
  BY <1>1, <1>3, <1>4, <1>5, <1>6 DEF TypeOK, Shape

\* A client's id is the index of its own queue in the registry, and the first
\* message a client gets is that id.
THEOREM IdIsRegistryIndexHolds == Spec => []IdIsRegistryIndex
<1>1. IInv /\ LInv => IdIsRegistryIndex
  <2> SUFFICES ASSUME IInv, LInv PROVE IdIsRegistryIndex
    OBVIOUS
  <2>1. ASSUME NEW c \in Clients, my_id[c] # None
        PROVE  my_id[c] < Len(client_queues) /\ client_queues[my_id[c] + 1] = c
    <3>1. my_id[c] + 1 \in 1 .. Len(client_queues) /\ client_queues[my_id[c] + 1] = c
          /\ my_id[c] \in Nat /\ Len(client_queues) \in Nat
      BY <2>1, IdOfRegistered DEF IInv
    <3>2. QED
      BY <3>1
  <2>2. ASSUME NEW c \in Clients, cpc[c] = "c_reply", client_q[c] # <<>>
        PROVE  Head(client_q[c]).type = "ID_ASSIGN"
    <3>1. Registered(c)
      BY <2>2 DEF IInv, Answers, Unanswered
    <3>2. PICK k \in DOMAIN client_queues : client_queues[k] = c
      BY <3>1 DEF Registered, ToSet
    <3>3. Head(client_q[c]) = Assign(k - 1)
      BY <2>2, <3>2 DEF IInv, Answers, Answered
    <3>4. QED
      BY <3>3 DEF Assign
  <2>3. QED
    BY <2>1, <2>2, TypeFollows DEF IdIsRegistryIndex
<1>2. QED
  BY <1>1, IInvHolds, PTL

\* A stopped client leaves no receiver behind, unless it was stopped before it
\* knew the receiver's pid.
THEOREM NoOrphanReceiverHolds == Spec => []NoOrphanReceiver
<1>1. IInv => NoOrphanReceiver
  BY DEF IInv, Shape, Receivers, NoOrphanReceiver
<1>2. QED
  BY <1>1, IInvHolds, PTL

\* No user sees a text twice, a user's texts out of order, or an echo.
THEOREM InOrderOnceNoEchoHolds == Spec => []InOrderOnceNoEcho
<1>1. IInv /\ LInv => InOrderOnceNoEcho
  <2> SUFFICES ASSUME IInv, LInv, NEW c \in Clients,
                      NEW j \in DOMAIN printed[c], NEW k \in DOMAIN printed[c]
               PROVE  /\ printed[c][j].from # c
                      /\ (j < k /\ printed[c][j].from = printed[c][k].from)
                            => printed[c][j].n < printed[c][k].n
    BY DEF InOrderOnceNoEcho
  <2>1. printed[c] \in Seq(TextMsgs) /\ ClientLine(c)
    BY DEF IInv, Shape, LInv
  <2>2. /\ printed[c][j] \in TextMsgs /\ printed[c][k] \in TextMsgs
        /\ printed[c][j] \in Got(c)
    BY <2>1, Positions DEF Got
  <2>3. printed[c][j].from # c
    BY <2>1, <2>2 DEF ClientLine
  <2>4. j < k => Before({printed[c][j]}, {printed[c][k]})
    BY <2>1 DEF ClientLine, Ascending
  <2>5. QED
    BY <2>2, <2>3, <2>4 DEF Before
<1>2. QED
  BY <1>1, IInvHolds, PTL
=============================================================================
