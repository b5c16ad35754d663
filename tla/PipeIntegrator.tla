--------------------------- MODULE PipeIntegrator ---------------------------
(***************************************************************************)
(* Lab 3, exercise 1: in round k the parent splits an integral over k      *)
(* children, one pipe each, reads what they have written and waits for     *)
(* them.  pipe and fork may fail, and a child may be killed anywhere.  A   *)
(* partial sum is the number of the child that computed it.                *)
(***************************************************************************)
EXTENDS Integers

CONSTANT MaxK      \* bound: the argument n, the last round

Kids == 0..(MaxK - 1)
Main == MaxK       \* the parent, as a holder of descriptors

VARIABLES tiny,              \* dx, if so small that x + dx stops at x
          k, idx,            \* round, and index of the loops of the parent
          where,             \* the parent
          kid,               \* the children of this round
          read_ends, write_ends,  \* who holds either end of each pipe
          full,              \* pipes with a sum in them
          total_sum,         \* the sums received in this round
          wrote              \* history: the children that have written

ends == <<read_ends, write_ends>>
vars == <<tiny, k, idx, where, kid, ends, full, total_sum, wrote>>

Nobody == [c \in Kids |-> {}]

Init ==
    /\ tiny = FALSE /\ k = 0 /\ idx = 0 /\ where = "off" /\ kid = [c \in Kids |-> "none"]
    /\ read_ends = Nobody /\ write_ends = Nobody /\ full = {} /\ total_sum = {} /\ wrote = {}

Goto(from, to) == where = from /\ where' = to
Closed(e, p) == [c \in Kids |-> e[c] \ {p}]

\* A process that ends closes what it holds.
CloseAll(p) == read_ends' = Closed(read_ends, p) /\ write_ends' = Closed(write_ends, p)

\* The arguments are refused, or the first round begins; dx = 0 is replaced
\* by a value that is not tiny.
Launch ==
    /\ Goto("off", "pipe") /\ k' = 1 /\ tiny' \in BOOLEAN
    /\ UNCHANGED <<idx, kid, ends, full, total_sum, wrote>>

(***************************************************************************)
(* The parent: k times pipe, fork and close, then k times read, close and  *)
(* wait.                                                                   *)
(***************************************************************************)
Pipe ==
    /\ Goto("pipe", "fork")
    /\ read_ends' = [read_ends EXCEPT ![idx] = {Main}] /\ write_ends' = [write_ends EXCEPT ![idx] = {Main}]
    /\ UNCHANGED <<tiny, k, idx, kid, full, total_sum, wrote>>

\* The child inherits every descriptor the parent has open.
Inherit(e) == [c \in Kids |-> IF Main \in e[c] THEN e[c] \cup {idx} ELSE e[c]]

Fork ==
    /\ Goto("fork", "close_write")
    /\ kid' = [kid EXCEPT ![idx] = "started"]
    /\ read_ends' = Inherit(read_ends) /\ write_ends' = Inherit(write_ends)
    /\ UNCHANGED <<tiny, k, idx, full, total_sum, wrote>>

\* return EXIT_FAILURE, whatever children there are.
Abort ==
    /\ where \in {"pipe", "fork"} /\ where' = "failed"
    /\ CloseAll(Main)
    /\ UNCHANGED <<tiny, k, idx, kid, full, total_sum, wrote>>

Advance(loop, next) ==
    IF idx + 1 < k THEN idx' = idx + 1 /\ where' = loop ELSE idx' = 0 /\ where' = next

\* Mutant: the parent keeps the write end.
KeepWrite ==
    /\ where = "close_write" /\ Advance("pipe", "read")
    /\ UNCHANGED <<tiny, k, kid, ends, full, total_sum, wrote>>

CloseWrite ==
    /\ where = "close_write" /\ Advance("pipe", "read")
    /\ write_ends' = [write_ends EXCEPT ![idx] = @ \ {Main}]
    /\ UNCHANGED <<tiny, k, kid, read_ends, full, total_sum, wrote>>

\* Data, or end of file once nobody holds the write end.
Read ==
    /\ Goto("read", "close_read")
    /\ \/ idx \in full /\ full' = full \ {idx} /\ total_sum' = total_sum \cup {idx}
       \/ idx \notin full /\ write_ends[idx] = {} /\ UNCHANGED <<full, total_sum>>
    /\ UNCHANGED <<tiny, k, idx, kid, ends, wrote>>

\* Mutant: the read end stays open.
KeepRead == Goto("close_read", "wait") /\ UNCHANGED <<tiny, k, idx, kid, ends, full, total_sum, wrote>>

CloseRead ==
    /\ Goto("close_read", "wait")
    /\ read_ends' = [read_ends EXCEPT ![idx] = @ \ {Main}]
    /\ UNCHANGED <<tiny, k, idx, kid, write_ends, full, total_sum, wrote>>

\* Any child that has ended, not only the one just read.
Wait ==
    /\ where = "wait" /\ Advance("read", "report")
    /\ \E c \in Kids : kid[c] = "zombie" /\ kid' = [kid EXCEPT ![c] = "none"]
    /\ UNCHANGED <<tiny, k, ends, full, total_sum, wrote>>

\* The result is printed; total_sum belongs to the round.
Report ==
    /\ where = "report"
    /\ IF k < MaxK THEN k' = k + 1 /\ where' = "pipe" ELSE where' = "done" /\ UNCHANGED k
    /\ total_sum' = {} /\ wrote' = {}
    /\ UNCHANGED <<tiny, idx, kid, ends, full>>

(***************************************************************************)
(* The children.                                                           *)
(***************************************************************************)
Step(c, from, to) == kid[c] = from /\ kid' = [kid EXCEPT ![c] = to]

\* Its own read end and those of its older brothers.
CloseReads(c) ==
    /\ Step(c, "started", "write")
    /\ read_ends' = [j \in Kids |-> IF j <= c THEN read_ends[j] \ {c} ELSE read_ends[j]]
    /\ UNCHANGED <<tiny, k, idx, where, write_ends, full, total_sum, wrote>>

\* The sum is computed, which does not end when dx is tiny, and written.
Write(c) ==
    /\ Step(c, "write", "exit") /\ read_ends[c] # {} /\ ~tiny
    /\ full' = full \cup {c} /\ wrote' = wrote \cup {c}
    /\ UNCHANGED <<tiny, k, idx, where, ends, total_sum>>

\* close and exit after a write; SIGPIPE instead of the write when nobody reads.
End(c) ==
    /\ \/ Step(c, "exit", "zombie")
       \/ Step(c, "write", "zombie") /\ read_ends[c] = {} /\ ~tiny
    /\ CloseAll(c)
    /\ UNCHANGED <<tiny, k, idx, where, full, total_sum, wrote>>

Kill(c) ==
    /\ kid[c] \in {"started", "write", "exit"} /\ kid' = [kid EXCEPT ![c] = "zombie"]
    /\ CloseAll(c)
    /\ UNCHANGED <<tiny, k, idx, where, full, total_sum, wrote>>

Parent == Pipe \/ Fork \/ CloseWrite \/ Read \/ CloseRead \/ Wait \/ Report
Child(c) == CloseReads(c) \/ Write(c) \/ End(c)
Next == Launch \/ Parent \/ Abort \/ \E c \in Kids : Child(c) \/ Kill(c)

\* As long as some process can go on, one does; nobody need be killed.
Progress == Parent \/ \E c \in Kids : Child(c)
Fairness == WF_vars(Progress)
Spec == Init /\ [][Next]_vars /\ Fairness

----------------------------------------------------------------------------
\* Every variable has its declared type, and a pipe its two ends among the
\* processes of the round.
TypeOK ==
    /\ tiny \in BOOLEAN /\ k \in 0..MaxK /\ idx \in Kids
    /\ where \in {"off", "pipe", "fork", "close_write", "read", "close_read", "wait", "report",
                  "done", "failed"}
    /\ kid \in [Kids -> {"none", "started", "write", "exit", "zombie"}]
    /\ read_ends \in [Kids -> SUBSET (Kids \cup {Main})]
    /\ write_ends \in [Kids -> SUBSET (Kids \cup {Main})]
    /\ full \subseteq Kids /\ total_sum \subseteq Kids /\ wrote \subseteq Kids

\* The result of a round is the sum of exactly the parts that were written,
\* a killed child costs its own part only, and nothing of the round is left:
\* no zombie, no open descriptor, no sum in a pipe (main.c:111-125).
RoundAddsUp ==
    /\ TypeOK
    /\ where = "report" =>
        /\ total_sum = wrote
        /\ full = {} /\ read_ends = Nobody /\ write_ends = Nobody
        /\ \A c \in Kids : kid[c] = "none"

\* Neither a read nor a wait of the parent blocks for ever, whichever
\* children are killed and in whatever order they end; and children whose
\* parent has given up end by themselves, unless dx is too small to get
\* anywhere (main.c:101-103, 116, 124; integrator.c:11-14).
EverybodyEnds ==
    (where = "pipe" /\ ~tiny) ~> (where \in {"done", "failed"} /\ \A c \in Kids : kid[c] \in {"none", "zombie"})
============================================================================
