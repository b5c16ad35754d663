---------------------------- MODULE RobotLevel1 ----------------------------
(***************************************************************************)
(* Lab 6, program1.c: two cameras overwrite one frame each and count what  *)
(* they wrote in a semaphore; the synchronizer waits for one of each,      *)
(* reads the latest frames and hands a pair to the writer; main ends it    *)
(* after 20 seconds.  A frame is its frame_id (0: never written).          *)
(***************************************************************************)
EXTENDS Naturals, Sequences

CONSTANT MaxFrames   \* bound: frames one camera creates

Cameras == {"left", "right"}
Threads == Cameras \cup {"sync", "writer"}

VARIABLES frame,            \* left_camera_frame, right_camera_frame
          id,               \* ids the cameras have given out
          sem,              \* left_cam_sem, right_cam_sem
          read,             \* synchronizer: locals left and right
          pair,             \* sync_left_frame, sync_right_frame
          has_new_sync_pair,
          sync_mutex,       \* thread that holds it, or "free"
          got,              \* writer: locals left and right
          pc, mpc,          \* statements of the threads and of main
          is_running,
          accepted, written \* history: pairs published, pairs written out

data == <<frame, id, sem, read, pair, has_new_sync_pair, got>>
history == <<accepted, written>>
vars == <<frame, id, sem, read, pair, has_new_sync_pair, got, sync_mutex,
          pc, mpc, is_running, accepted, written>>

NoFrames == [c \in Cameras |-> 0]

Init ==
    /\ frame = NoFrames /\ id = NoFrames /\ sem = NoFrames
    /\ read = NoFrames /\ pair = NoFrames /\ got = NoFrames
    /\ has_new_sync_pair = FALSE /\ sync_mutex = "free"
    /\ pc = [t \in Threads |-> "loop"] /\ mpc = "sleep" /\ is_running = TRUE
    /\ accepted = <<>> /\ written = <<>>

Goto(t, from, to) == pc[t] = from /\ pc' = [pc EXCEPT ![t] = to]
Acquire(t) == sync_mutex = "free" /\ sync_mutex' = t
Release(t) == sync_mutex = t /\ sync_mutex' = "free"

\* while (is_running), the head of every thread's loop
Loop(t, body) ==
    /\ Goto(t, "loop", IF is_running THEN body ELSE "done")
    /\ UNCHANGED <<data, sync_mutex, mpc, is_running, history>>

(***************************************************************************)
(* Cameras.  camera_mutex covers single steps here: the store of a frame,  *)
(* the copy of both.                                                       *)
(***************************************************************************)
Capture(c) ==
    /\ id[c] < MaxFrames /\ Goto(c, "capture", "post")
    /\ id' = [id EXCEPT ![c] = @ + 1] /\ frame' = [frame EXCEPT ![c] = id[c] + 1]
    /\ UNCHANGED <<sem, read, pair, has_new_sync_pair, got, sync_mutex, mpc,
                   is_running, history>>

\* The bound on frames: the camera only looks at is_running from then on.
CaptureNoMore(c) ==
    /\ id[c] = MaxFrames /\ ~is_running /\ Goto(c, "capture", "loop")
    /\ UNCHANGED <<data, sync_mutex, mpc, is_running, history>>

Post(c) ==
    /\ Goto(c, "post", "loop") /\ sem' = [sem EXCEPT ![c] = @ + 1]
    /\ UNCHANGED <<frame, id, read, pair, has_new_sync_pair, got, sync_mutex, mpc,
                   is_running, history>>

(***************************************************************************)
(* Synchronizer.                                                           *)
(***************************************************************************)
Wait(c, from, to) ==
    /\ Goto("sync", from, to) /\ sem[c] > 0 /\ sem' = [sem EXCEPT ![c] = @ - 1]
    /\ UNCHANGED <<frame, id, read, pair, has_new_sync_pair, got, sync_mutex, mpc,
                   is_running, history>>

WaitLeft == Wait("left", "wait_left", "wait_right")
WaitRight == Wait("right", "wait_right", "check")

\* Mutant: is_running is not tested after the waits.
CheckMissing ==
    /\ Goto("sync", "check", "copy")
    /\ UNCHANGED <<data, sync_mutex, mpc, is_running, history>>

Check ==
    /\ Goto("sync", "check", IF is_running THEN "copy" ELSE "done")
    /\ UNCHANGED <<data, sync_mutex, mpc, is_running, history>>

\* The copy and the comparison of timestamps: only the clocks decide it.
Copy ==
    /\ \E close \in BOOLEAN : Goto("sync", "copy", IF close THEN "publish" ELSE "loop")
    /\ read' = frame
    /\ UNCHANGED <<frame, id, sem, pair, has_new_sync_pair, got, sync_mutex, mpc,
                   is_running, history>>

\* Mutant: the pair is published without the mutex.
PublishLeftNoLock ==
    /\ Goto("sync", "publish", "publish_right") /\ sync_mutex' = sync_mutex
    /\ pair' = [pair EXCEPT !["left"] = read["left"]]
    /\ UNCHANGED <<frame, id, sem, read, has_new_sync_pair, got, mpc, is_running, history>>

PublishLeft ==
    /\ Goto("sync", "publish", "publish_right") /\ Acquire("sync")
    /\ pair' = [pair EXCEPT !["left"] = read["left"]]
    /\ UNCHANGED <<frame, id, sem, read, has_new_sync_pair, got, mpc, is_running, history>>

PublishRight ==
    /\ Goto("sync", "publish_right", "loop")
    /\ sync_mutex' = IF sync_mutex = "sync" THEN "free" ELSE sync_mutex
    /\ pair' = [pair EXCEPT !["right"] = read["right"]] /\ has_new_sync_pair' = TRUE
    /\ accepted' = Append(accepted, read)
    /\ UNCHANGED <<frame, id, sem, read, got, mpc, is_running, written>>

(***************************************************************************)
(* Writer.                                                                 *)
(***************************************************************************)
NothingNew ==
    /\ sync_mutex = "free" /\ ~has_new_sync_pair /\ Goto("writer", "look", "loop")
    /\ UNCHANGED <<data, sync_mutex, mpc, is_running, history>>

TakeLeft ==
    /\ Goto("writer", "look", "take_right") /\ has_new_sync_pair /\ Acquire("writer")
    /\ got' = [got EXCEPT !["left"] = pair["left"]]
    /\ UNCHANGED <<frame, id, sem, read, pair, has_new_sync_pair, mpc, is_running, history>>

\* Mutant: the flag is not cleared.
TakeRightKeepsFlag ==
    /\ Goto("writer", "take_right", "write") /\ Release("writer")
    /\ got' = [got EXCEPT !["right"] = pair["right"]]
    /\ UNCHANGED <<frame, id, sem, read, pair, has_new_sync_pair, mpc, is_running, history>>

TakeRight ==
    /\ Goto("writer", "take_right", "write") /\ Release("writer")
    /\ got' = [got EXCEPT !["right"] = pair["right"]] /\ has_new_sync_pair' = FALSE
    /\ UNCHANGED <<frame, id, sem, read, pair, mpc, is_running, history>>

Write ==
    /\ Goto("writer", "write", "loop") /\ written' = Append(written, got)
    /\ UNCHANGED <<data, sync_mutex, mpc, is_running, accepted>>

(***************************************************************************)
(* main.                                                                   *)
(***************************************************************************)
Main(from, to) == mpc = from /\ mpc' = to

Stop ==
    /\ Main("sleep", "post_left") /\ is_running' = FALSE
    /\ UNCHANGED <<data, sync_mutex, pc, history>>

WakeLeft ==
    /\ Main("post_left", "post_right") /\ sem' = [sem EXCEPT !["left"] = @ + 1]
    /\ UNCHANGED <<frame, id, read, pair, has_new_sync_pair, got, sync_mutex, pc,
                   is_running, history>>

\* Mutant: left_cam_sem is posted twice.
WakeLeftAgain ==
    /\ Main("post_right", "join") /\ sem' = [sem EXCEPT !["left"] = @ + 1]
    /\ UNCHANGED <<frame, id, read, pair, has_new_sync_pair, got, sync_mutex, pc,
                   is_running, history>>

WakeRight ==
    /\ Main("post_right", "join") /\ sem' = [sem EXCEPT !["right"] = @ + 1]
    /\ UNCHANGED <<frame, id, read, pair, has_new_sync_pair, got, sync_mutex, pc,
                   is_running, history>>

Join ==
    /\ \A t \in Threads : pc[t] = "done"
    /\ Main("join", "done")
    /\ UNCHANGED <<data, sync_mutex, pc, is_running, history>>

Camera(c) == Loop(c, "capture") \/ Capture(c) \/ CaptureNoMore(c) \/ Post(c)
Sync == \/ Loop("sync", "wait_left") \/ WaitLeft \/ WaitRight \/ Check \/ Copy
        \/ PublishLeft \/ PublishRight
Writer == Loop("writer", "look") \/ NothingNew \/ TakeLeft \/ TakeRight \/ Write
MainStep == Stop \/ WakeLeft \/ WakeRight \/ Join

Next == (\E c \in Cameras : Camera(c)) \/ Sync \/ Writer \/ MainStep

Spec == Init /\ [][Next]_vars

\* Every thread runs; one that wants sync_mutex gets it eventually.
Fairness ==
    /\ \A c \in Cameras : WF_vars(Camera(c))
    /\ WF_vars(Sync) /\ SF_vars(PublishLeft)
    /\ WF_vars(Writer) /\ SF_vars(NothingNew) /\ SF_vars(TakeLeft)
    /\ WF_vars(MainStep)

-----------------------------------------------------------------------------
Frames == 0 .. MaxFrames
Pairs == [Cameras -> Frames]

\* Every variable has its declared type; a semaphore counts at most the
\* frames of its camera and main's one post.
TypeOK ==
    /\ {frame, id, read, pair, got} \subseteq Pairs
    /\ sem \in [Cameras -> 0 .. MaxFrames + 1]
    /\ has_new_sync_pair \in BOOLEAN /\ is_running \in BOOLEAN
    /\ sync_mutex \in {"free", "sync", "writer"}
    /\ DOMAIN pc = Threads
    /\ {accepted[k] : k \in DOMAIN accepted} \cup {written[k] : k \in DOMAIN written}
          \subseteq Pairs

\* The writer writes published pairs, in order and each publication at most
\* once: never the left frame of one pair and the right frame of another, and
\* never a pair again because has_new_sync_pair was seen twice.  And
\* "Wait for both cameras to produce a frame": the k-th pair published has at
\* least the k-th frame of either camera.  In particular main's wake-up posts
\* never make a pair, and frames nobody has captured are never written.
WrittenInOrderOnce ==
    /\ TypeOK
    /\ \A k \in DOMAIN accepted : accepted[k]["left"] >= k /\ accepted[k]["right"] >= k
    /\ \E f \in [DOMAIN written -> DOMAIN accepted] :
        /\ \A j, k \in DOMAIN written : j < k => f[j] < f[k]
        /\ \A j \in DOMAIN written : written[j] = accepted[f[j]]

\* "Wake up synchronizer thread in case it's waiting on semaphores": all
\* threads end and main joins them.
StoppedGracefully == ~is_running ~> mpc = "done"
=============================================================================
