--------------------------- MODULE StereoPipeline ---------------------------
(***************************************************************************)
(* Lab 6, program2.c (and the same threads of program3.c): two cameras     *)
(* feed two frame buffers, the synchronizer pairs their frames into two    *)
(* more buffers, the writer writes pairs out, and SIGINT ends it all.      *)
(*                                                                         *)
(* The four buffers are the drop-oldest queues FrameBuffer implements: a   *)
(* push or a successful pop is one step.  A pop that finds its buffer      *)
(* empty keeps its steps: the tests, the wait, the wakeup.                 *)
(***************************************************************************)
EXTENDS Naturals, Sequences

CONSTANTS Size,        \* BUFFER_SIZE (64)
          MaxFrames    \* bound: frames one camera creates

ASSUME SizeAssumption == Size \in Nat \ {0}
ASSUME MaxFramesAssumption == MaxFrames \in Nat

Buffers == {"cam_left", "cam_right", "sync_left", "sync_right"}
Threads == {"left", "right", "sync", "writer", "main"}

\* The one thread that pops from a buffer, and the pop after that one.
User(b) == IF b \in {"cam_left", "cam_right"} THEN "sync" ELSE "writer"
LeftOf(t) == IF t = "sync" THEN "cam_left" ELSE "sync_left"
RightOf(t) == IF t = "sync" THEN "cam_right" ELSE "sync_right"

VARIABLES buf,          \* frames in each buffer, oldest first
          pc,           \* statement of each thread
          id,           \* last frame_id of each camera
          got,          \* locals left and right of synchronizer and writer
          accepted,     \* pairs within SYNC_TOLERANCE_MS, in order
          written,      \* pairs of files written, in order
          is_running,
          handler,      \* buffers handle_sigint still has to broadcast on
          overrun,      \* history: buffers that have dropped a frame
          gap           \* history: SIGINT came while a thread was between the
                        \* test of is_running in buffer_pop and its wait

vars == <<buf, pc, id, got, accepted, written, is_running, handler, overrun, gap>>

Broadcasts == <<"cam_left", "cam_right", "sync_left", "sync_right">>

Init ==
    /\ buf = [b \in Buffers |-> <<>>]
    /\ pc = [t \in Threads |-> <<"loop">>]
    /\ id = [c \in {"left", "right"} |-> 0]
    /\ got = [t \in {"sync", "writer"} |-> [left |-> 0, right |-> 0]]
    /\ accepted = <<>> /\ written = <<>>
    /\ is_running = TRUE /\ handler = Broadcasts /\ overrun = {}
    /\ gap = FALSE

Goto(t, from, to) == pc[t] = from /\ pc' = [pc EXCEPT ![t] = to]

\* The thread that waits on b, if any, is woken and tests again.
Woken(f, b) == [f EXCEPT ![User(b)] = IF @ = <<"wait", b>> THEN <<"pop", b>> ELSE @]

\* A thread in the gap between its test and its wait holds the mutex of b.
MutexFree(b) == pc[User(b)] # <<"gap", b>>

\* Mutant: no frame is dropped from a full buffer.
PushNoDrop(t, b, f, from, to) ==
    /\ pc[t] = from /\ MutexFree(b)
    /\ buf' = [buf EXCEPT ![b] = Append(@, f)]
    /\ pc' = Woken([pc EXCEPT ![t] = to], b)
    /\ overrun' = IF Len(buf[b]) = Size THEN overrun \cup {b} ELSE overrun

\* Mutant: the newest frame is dropped from a full buffer and put in front.
PushFront(t, b, f, from, to) ==
    /\ pc[t] = from /\ MutexFree(b)
    /\ buf' = [buf EXCEPT ![b] = IF Len(@) = Size THEN <<f>> \o Tail(@) ELSE Append(@, f)]
    /\ pc' = Woken([pc EXCEPT ![t] = to], b)
    /\ overrun' = IF Len(buf[b]) = Size THEN overrun \cup {b} ELSE overrun

\* buffer_push by t.
Push(t, b, f, from, to) ==
    /\ pc[t] = from /\ MutexFree(b)
    /\ buf' = [buf EXCEPT ![b] = Append(IF Len(@) = Size THEN Tail(@) ELSE @, f)]
    /\ pc' = Woken([pc EXCEPT ![t] = to], b)
    /\ overrun' = IF Len(buf[b]) = Size THEN overrun \cup {b} ELSE overrun

\* The while (is_running) every thread begins its round with.
LeaveLoop(t) ==
    /\ ~is_running /\ Goto(t, <<"loop">>, <<"done">>) /\ t # "main"
    /\ UNCHANGED <<buf, id, got, accepted, written, is_running, handler, overrun, gap>>

(***************************************************************************)
(* Cameras.                                                                *)
(***************************************************************************)
Capture(c) ==
    /\ is_running /\ id[c] < MaxFrames
    /\ Goto(c, <<"loop">>, <<"push">>)
    /\ id' = [id EXCEPT ![c] = @ + 1]
    /\ UNCHANGED <<buf, got, accepted, written, is_running, handler, overrun, gap>>

CameraPush(c) ==
    /\ Push(c, IF c = "left" THEN "cam_left" ELSE "cam_right", id[c],
            <<"push">>, <<"loop">>)
    /\ UNCHANGED <<id, got, accepted, written, is_running, handler, gap>>

(***************************************************************************)
(* buffer_pop by the synchronizer or the writer.                           *)
(***************************************************************************)
Enter(t) ==
    /\ is_running /\ Goto(t, <<"loop">>, <<"pop", LeftOf(t)>>)
    /\ UNCHANGED <<buf, id, got, accepted, written, is_running, handler, overrun, gap>>

PopTake(t, b) ==
    /\ buf[b] # <<>>
    /\ \/ /\ b = LeftOf(t) /\ Goto(t, <<"pop", b>>, <<"pop", RightOf(t)>>)
          /\ got' = [got EXCEPT ![t].left = Head(buf[b])]
       \/ /\ b = RightOf(t) /\ Goto(t, <<"pop", b>>, <<"both">>)
          /\ got' = [got EXCEPT ![t].right = Head(buf[b])]
    /\ buf' = [buf EXCEPT ![b] = Tail(@)]
    /\ UNCHANGED <<id, accepted, written, is_running, handler, overrun, gap>>

\* Mutant: the flag is not tested, the thread goes back to sleep.
PopEmptyNoTest(t, b) ==
    /\ buf[b] = <<>>
    /\ Goto(t, <<"pop", b>>, <<"gap", b>>)
    /\ UNCHANGED <<buf, id, got, accepted, written, is_running, handler, overrun, gap>>

PopEmpty(t, b) ==
    /\ buf[b] = <<>>
    /\ Goto(t, <<"pop", b>>, IF is_running THEN <<"gap", b>> ELSE <<"done">>)
    /\ UNCHANGED <<buf, id, got, accepted, written, is_running, handler, overrun, gap>>

PopWait(t, b) ==
    /\ Goto(t, <<"gap", b>>, <<"wait", b>>)
    /\ UNCHANGED <<buf, id, got, accepted, written, is_running, handler, overrun, gap>>

Spurious(t, b) ==
    /\ Goto(t, <<"wait", b>>, <<"pop", b>>)
    /\ UNCHANGED <<buf, id, got, accepted, written, is_running, handler, overrun, gap>>

(***************************************************************************)
(* Synchronizer: the pair is kept if the two timestamps, which only the    *)
(* cameras' clocks decide, are close enough.  It is pushed in two steps.   *)
(***************************************************************************)
Match ==
    /\ Goto("sync", <<"both">>, <<"push", "left">>)
    /\ accepted' = Append(accepted, got["sync"])
    /\ UNCHANGED <<buf, id, got, written, is_running, handler, overrun, gap>>

NoMatch ==
    /\ Goto("sync", <<"both">>, <<"loop">>)
    /\ UNCHANGED <<buf, id, got, accepted, written, is_running, handler, overrun, gap>>

SyncPushLeft ==
    /\ Push("sync", "sync_left", got["sync"].left,
            <<"push", "left">>, <<"push", "right">>)
    /\ UNCHANGED <<id, got, accepted, written, is_running, handler, gap>>

\* Mutant: the left frame is pushed to both buffers.
SyncPushLeftTwice ==
    /\ Push("sync", "sync_right", got["sync"].left, <<"push", "right">>, <<"loop">>)
    /\ UNCHANGED <<id, got, accepted, written, is_running, handler, gap>>

SyncPushRight ==
    /\ Push("sync", "sync_right", got["sync"].right, <<"push", "right">>, <<"loop">>)
    /\ UNCHANGED <<id, got, accepted, written, is_running, handler, gap>>

\* Writer: both files, then sleep_for_freq.
Write ==
    /\ Goto("writer", <<"both">>, <<"loop">>)
    /\ written' = Append(written, got["writer"])
    /\ UNCHANGED <<buf, id, got, accepted, is_running, handler, overrun, gap>>

(***************************************************************************)
(* SIGINT, once: clear is_running, then four broadcasts without any mutex. *)
(***************************************************************************)
Sigint ==
    /\ is_running /\ is_running' = FALSE
    /\ gap' = ~ \A b \in Buffers : MutexFree(b)
    /\ UNCHANGED <<buf, pc, id, got, accepted, written, handler, overrun>>

Broadcast ==
    /\ ~is_running /\ handler # <<>>
    /\ pc' = Woken(pc, Head(handler))
    /\ handler' = Tail(handler)
    /\ UNCHANGED <<buf, id, got, accepted, written, is_running, overrun, gap>>

\* main leaves its statistics loop and joins the threads one by one; the
\* buffers are destroyed after that.
Join ==
    /\ ~is_running /\ handler = <<>>
    /\ \A t \in Threads \ {"main"} : pc[t] = <<"done">>
    /\ Goto("main", <<"loop">>, <<"done">>)
    /\ UNCHANGED <<buf, id, got, accepted, written, is_running, handler, overrun, gap>>

Camera(c) == Capture(c) \/ CameraPush(c) \/ LeaveLoop(c)
Popping(t) == \/ Enter(t) \/ LeaveLoop(t)
              \/ \E b \in {LeftOf(t), RightOf(t)} :
                    PopTake(t, b) \/ PopEmpty(t, b) \/ PopWait(t, b)
Sync == Popping("sync") \/ Match \/ NoMatch \/ SyncPushLeft \/ SyncPushRight
Writer == Popping("writer") \/ Write

Next == \/ \E c \in {"left", "right"} : Camera(c)
        \/ Sync \/ Writer
        \/ \E b \in Buffers : Spurious(User(b), b)
        \/ Sigint \/ Broadcast \/ Join

Spec == Init /\ [][Next]_vars

\* Threads and the started handler run on; a push gets its mutex eventually.
Fairness ==
    /\ \A c \in {"left", "right"} : WF_vars(Camera(c)) /\ SF_vars(CameraPush(c))
    /\ WF_vars(Sync) /\ SF_vars(SyncPushLeft) /\ SF_vars(SyncPushRight)
    /\ WF_vars(Writer) /\ WF_vars(Broadcast) /\ WF_vars(Join)

FairSpec == Spec /\ Fairness

-----------------------------------------------------------------------------
Ids == 1 .. MaxFrames
Pair == [left : Ids, right : Ids]
ElementsOf(s) == {s[j] : j \in DOMAIN s}

\* Every variable has its declared type; no buffer holds more than Size.
TypeOK ==
    /\ \A b \in Buffers : ElementsOf(buf[b]) \subseteq Ids /\ Len(buf[b]) <= Size
    /\ DOMAIN pc = Threads /\ DOMAIN buf = Buffers
    /\ id \in [{"left", "right"} -> 0 .. MaxFrames]
    /\ got \in [{"sync", "writer"} -> [left : 0 .. MaxFrames, right : 0 .. MaxFrames]]
    /\ ElementsOf(accepted) \cup ElementsOf(written) \subseteq Pair
    /\ is_running \in BOOLEAN
    /\ ElementsOf(handler) \cup overrun \subseteq Buffers

\* Frames reach the disk at most once and in the order they were taken, on
\* either side, however many are dropped in the two stages between.  And the
\* writer "pulls paired frames": what it writes as a pair is a pair the
\* synchronizer found within its tolerance, until one of the synchronizer's
\* own buffers drops a frame: the cameras' buffers may drop frames on either
\* side without mixing up a pair.
PairsInOrder ==
    /\ TypeOK
    /\ \A j, k \in DOMAIN written :
        j < k => /\ written[j].left < written[k].left
                 /\ written[j].right < written[k].right
    /\ overrun \cap {"sync_left", "sync_right"} = {}
         => ElementsOf(written) \subseteq ElementsOf(accepted)

\* After a SIGINT all threads end, main joins them and returns, unless the
\* signal fell between a thread's test of is_running and its wait: the handler
\* broadcasts without the mutex, and that thread sleeps for ever (program2.c:34).
GracefulShutdown == (~is_running /\ ~gap) ~> pc["main"] = <<"done">>
=============================================================================
