------------------------ MODULE StereoPipelineProofs ------------------------
(***************************************************************************)
(* Safety of StereoPipeline for any buffer size and any number of frames.  *)
(*                                                                         *)
(* Two facts are followed through the four buffers.  On each side the      *)
(* frame ids form one ascending line: on disk, in the writer's hands, in   *)
(* its buffer, in the synchronizer's hands, in the camera's buffer; ids in *)
(* hand separate what is before from what is behind (Chain).  And while    *)
(* no buffer of the synchronizer has dropped a frame, both of them hold    *)
(* the accepted pairs that are still to be written, in place (Aligned).    *)
(***************************************************************************)
EXTENDS StereoPipeline, Integers, SequenceTheorems, TLAPS

Sides == {"left", "right"}
Users == {"sync", "writer"}
Frames == [left : Nat, right : Nat]

CamOf(s) == IF s = "left" THEN "cam_left" ELSE "cam_right"
SyncedOf(s) == IF s = "left" THEN "sync_left" ELSE "sync_right"

\* The places of the threads.
PopAt(b) == {<<"pop", b>>, <<"gap", b>>, <<"wait", b>>}
CameraPcs == {<<"loop">>, <<"push">>, <<"done">>}
SyncPcs == {<<"loop">>, <<"both">>, <<"push", "left">>, <<"push", "right">>, <<"done">>}
             \cup PopAt("cam_left") \cup PopAt("cam_right")
WriterPcs == {<<"loop">>, <<"both">>, <<"done">>}
               \cup PopAt("sync_left") \cup PopAt("sync_right")
AllPcs == CameraPcs \cup SyncPcs \cup WriterPcs

PcShape ==
    /\ pc \in [Threads -> AllPcs]
    /\ pc["left"] \in CameraPcs /\ pc["right"] \in CameraPcs
    /\ pc["sync"] \in SyncPcs /\ pc["writer"] \in WriterPcs
    /\ pc["main"] \in {<<"loop">>, <<"done">>}

\* The domains of the variables.
Shape ==
    /\ PcShape
    /\ buf \in [Buffers -> Seq(Nat)]
    /\ id \in [Sides -> 0 .. MaxFrames]
    /\ got \in [Users -> Frames]
    /\ accepted \in Seq(Frames) /\ written \in Seq(Frames)
    /\ is_running \in BOOLEAN /\ handler \in Seq(Buffers) /\ overrun \subseteq Buffers

\* No buffer holds more than Size.
Capacity == \A b \in Buffers : Len(buf[b]) <= Size

\* t has taken a frame of side s and has not passed it on.
HeldAt(t, s) == IF s = "left" THEN PopAt(RightOf(t)) \cup {<<"both">>, <<"push", "left">>}
                              ELSE {<<"both">>, <<"push", "left">>, <<"push", "right">>}
Holds(t, s) == IF pc[t] \in HeldAt(t, s) THEN 1 ELSE 0

\* The camera of side s has a frame that is not in its buffer yet.
Pushing(s) == IF pc[s] = <<"push">> THEN 1 ELSE 0

\* An ascending queue of ids above lo, up to hi.
Run(q, lo, hi) ==
    /\ lo <= hi
    /\ \A j \in DOMAIN q : lo < q[j] /\ q[j] <= hi
    /\ \A j, k \in DOMAIN q : j < k => q[j] < q[k]

\* The ids of side s on disk ascend, up to hi.
Files(s, hi) ==
    /\ 0 <= hi
    /\ \A j \in DOMAIN written : written[j][s] <= hi
    /\ \A j, k \in DOMAIN written : j < k => written[j][s] < written[k][s]

\* The last frame of side s its camera has pushed, and a bound of those that
\* t has passed on.
Sent(s) == id[s] - Pushing(s)
Passed(t, s) == got[t][s] - Holds(t, s)

\* The line of side s.
Chain(s) ==
    /\ Run(buf[CamOf(s)], got["sync"][s], Sent(s))
    /\ Run(buf[SyncedOf(s)], got["writer"][s], Passed("sync", s))
    /\ Files(s, Passed("writer", s))

\* The number of accepted frames of side s the synchronizer has pushed, and
\* the number of those the writer has popped.
UnpushedAt(s) == IF s = "left" THEN {<<"push", "left">>}
                               ELSE {<<"push", "left">>, <<"push", "right">>}
In(s) == Len(accepted) - (IF pc["sync"] \in UnpushedAt(s) THEN 1 ELSE 0)
Out(s) == Len(written) + Holds("writer", s)

NoDrop == overrun \cap {"sync_left", "sync_right"} = {}

\* The buffer holds the accepted frames between these two numbers.
Aligned(s) ==
    pc["writer"] # <<"done">> =>
        /\ Len(buf[SyncedOf(s)]) = In(s) - Out(s)
        /\ \A j \in DOMAIN buf[SyncedOf(s)] : buf[SyncedOf(s)][j] = accepted[Out(s) + j][s]
        /\ Holds("writer", s) = 1 => got["writer"][s] = accepted[Out(s)][s]

\* The pairs written are the first of those accepted; the pair the
\* synchronizer pushes is the last of them.
Pairs ==
    NoDrop =>
        /\ \A s \in Sides : Aligned(s)
        /\ \A k \in DOMAIN written : k \in DOMAIN accepted /\ written[k] = accepted[k]
        /\ pc["sync"] \in UnpushedAt("right") =>
                accepted # <<>> /\ got["sync"] = accepted[Len(accepted)]

\* Pairs that were accepted or written have ids of real frames.
RealIds == \A j \in DOMAIN accepted : accepted[j] \in Pair
RealFiles == \A j \in DOMAIN written : written[j] \in Pair

IInv == Shape /\ Capacity /\ (\A s \in Sides : Chain(s)) /\ Pairs /\ RealIds /\ RealFiles

-----------------------------------------------------------------------------
\* A run without its first frame is a run, and one above that frame.
LEMMA RunTail ==
    ASSUME NEW q \in Seq(Nat), NEW lo \in Int, NEW hi \in Int, Run(q, lo, hi), q # <<>>
    PROVE  /\ Tail(q) \in Seq(Nat) /\ Head(q) \in Nat /\ Head(q) = q[1]
           /\ Run(Tail(q), lo, hi) /\ Run(Tail(q), Head(q), hi)
           /\ lo < Head(q) /\ Head(q) <= hi
           /\ Len(Tail(q)) = Len(q) - 1 /\ Len(q) \in Nat
           /\ DOMAIN q = 1 .. Len(q) /\ DOMAIN Tail(q) = 1 .. Len(q) - 1
           /\ \A j \in DOMAIN Tail(q) : Tail(q)[j] = q[j + 1]
<1>1. /\ Tail(q) \in Seq(Nat) /\ Head(q) \in Nat /\ Head(q) = q[1]
      /\ Len(Tail(q)) = Len(q) - 1 /\ Len(q) \in Nat \ {0}
      /\ DOMAIN q = 1 .. Len(q) /\ DOMAIN Tail(q) = 1 .. Len(q) - 1
      /\ \A j \in DOMAIN Tail(q) : Tail(q)[j] = q[j + 1]
      /\ \A j \in DOMAIN q : q[j] \in Nat
  BY HeadTailProperties, EmptySeq
<1>2. \A j \in DOMAIN Tail(q) : /\ j + 1 \in DOMAIN q /\ 1 \in DOMAIN q /\ 1 < j + 1
                                /\ j \in Nat
  BY <1>1
<1>3. lo < Head(q) /\ Head(q) <= hi
  <2>1. 1 \in DOMAIN q
    BY <1>1
  <2>2. lo < q[1] /\ q[1] <= hi
    BY <2>1 DEF Run
  <2>3. QED
    BY <1>1, <2>2
<1>4. /\ \A j \in DOMAIN Tail(q) : lo < Tail(q)[j] /\ Tail(q)[j] <= hi /\ Head(q) < Tail(q)[j]
      /\ \A j, k \in DOMAIN Tail(q) : j < k => Tail(q)[j] < Tail(q)[k]
  <2>1. ASSUME NEW j \in DOMAIN Tail(q)
        PROVE  lo < Tail(q)[j] /\ Tail(q)[j] <= hi /\ Head(q) < Tail(q)[j]
    <3>1. lo < q[j + 1] /\ q[j + 1] <= hi /\ q[1] < q[j + 1]
      BY <1>2 DEF Run
    <3>2. QED
      BY <1>1, <3>1
  <2>2. ASSUME NEW j \in DOMAIN Tail(q), NEW k \in DOMAIN Tail(q), j < k
        PROVE  Tail(q)[j] < Tail(q)[k]
    <3>1. j + 1 < k + 1
      BY <1>2, <2>2
    <3>2. q[j + 1] < q[k + 1]
      BY <1>2, <3>1 DEF Run
    <3>3. QED
      BY <1>1, <3>2
  <2>3. QED
    BY <2>1, <2>2
<1>5. Run(Tail(q), lo, hi) /\ Run(Tail(q), Head(q), hi)
  BY <1>1, <1>3, <1>4 DEF Run
<1>6. QED
  BY <1>1, <1>3, <1>5

-----------------------------------------------------------------------------
\* A newer frame at the end of a run, with the oldest dropped or not.
LEMMA RunPush ==
    ASSUME NEW q \in Seq(Nat), NEW lo \in Int, NEW hi \in Int, NEW f \in Nat,
           Run(q, lo, hi), hi < f
    PROVE  Run(Append(q, f), lo, f) /\ (q # <<>> => Run(Append(Tail(q), f), lo, f))
<1>1. ASSUME NEW r \in Seq(Nat), Run(r, lo, hi) PROVE Run(Append(r, f), lo, f)
  <2>1. PICK n \in Nat : n = Len(r)
    OBVIOUS
  <2>2. DOMAIN r = 1 .. n /\ \A j \in DOMAIN r : r[j] \in Nat
    BY <2>1
  <2>3. /\ DOMAIN Append(r, f) = 1 .. n + 1 /\ Append(r, f)[n + 1] = f
        /\ \A j \in 1 .. n : Append(r, f)[j] = r[j]
    BY <2>1, AppendProperties
  <2>4. /\ lo < f /\ lo <= f /\ \A j \in 1 .. n : lo < r[j] /\ r[j] < f
        /\ \A j, k \in 1 .. n : j < k => r[j] < r[k]
    <3>1. lo < f /\ lo <= f
      BY DEF Run
    <3>2. ASSUME NEW j \in 1 .. n PROVE lo < r[j] /\ r[j] < f
      <4>1. lo < r[j] /\ r[j] <= hi /\ r[j] \in Nat
        BY <1>1, <2>2 DEF Run
      <4>2. QED
        BY <4>1
    <3>3. \A j, k \in 1 .. n : j < k => r[j] < r[k]
      BY <1>1, <2>2 DEF Run
    <3>4. QED
      BY <3>1, <3>2, <3>3
  <2>5. \A j \in 1 .. n + 1 : j \in 1 .. n \/ j = n + 1
    OBVIOUS
  <2>6. \A j \in 1 .. n + 1 : lo < Append(r, f)[j] /\ Append(r, f)[j] <= f
    BY <2>2, <2>3, <2>4, <2>5
  <2>7. ASSUME NEW j \in 1 .. n + 1, NEW k \in 1 .. n + 1, j < k
        PROVE  Append(r, f)[j] < Append(r, f)[k]
    <3>1. j \in 1 .. n
      BY <2>7
    <3>2. QED
      BY <2>3, <2>4, <2>5, <2>7, <3>1
  <2>8. QED
    BY <2>3, <2>4, <2>6, <2>7 DEF Run
<1>2. ASSUME q # <<>> PROVE Tail(q) \in Seq(Nat) /\ Run(Tail(q), lo, hi)
  BY <1>2, RunTail
<1>3. QED
  BY <1>1, <1>2

\* The bound of a run may be raised.
LEMMA RunWiden ==
    ASSUME NEW q \in Seq(Nat), NEW lo \in Int, NEW hi \in Int, NEW top \in Int,
           Run(q, lo, hi), hi <= top
    PROVE  Run(q, lo, top)
<1>1. \A j \in DOMAIN q : q[j] \in Nat
  OBVIOUS
<1>2. QED
  BY <1>1 DEF Run

-----------------------------------------------------------------------------
\* Two places of a thread that differ only in how far a pop has come.
SamePop(x, y) == y = x \/ \E b \in Buffers : x \in PopAt(b) /\ y \in PopAt(b)

\* A thread holds the same frames at both.
LEMMA SameHolds ==
    ASSUME NEW x, NEW y, SamePop(x, y)
    PROVE  /\ \A t \in Users, s \in Sides : x \in HeldAt(t, s) <=> y \in HeldAt(t, s)
           /\ \A s \in Sides : x \in UnpushedAt(s) <=> y \in UnpushedAt(s)
           /\ (x \in SyncPcs <=> y \in SyncPcs) /\ (x \in WriterPcs <=> y \in WriterPcs)
           /\ x \in CameraPcs => y = x
           /\ x \in {<<"loop">>, <<"done">>} => y = x
           /\ x = <<"done">> <=> y = <<"done">>
           /\ x = <<"push">> <=> y = <<"push">>
<1>1. CASE y = x
  BY <1>1
<1>2. ASSUME NEW b \in Buffers, x \in PopAt(b), y \in PopAt(b)
      PROVE  /\ \A t \in Users, s \in Sides : x \in HeldAt(t, s) <=> y \in HeldAt(t, s)
             /\ \A s \in Sides : x \in UnpushedAt(s) <=> y \in UnpushedAt(s)
             /\ (x \in SyncPcs <=> y \in SyncPcs) /\ (x \in WriterPcs <=> y \in WriterPcs)
             /\ x \notin CameraPcs /\ y \notin CameraPcs
             /\ x \notin {<<"loop">>, <<"done">>, <<"push">>}
             /\ y \notin {<<"loop">>, <<"done">>, <<"push">>}
  <2>1. \A c : x \in PopAt(c) => c = b
    BY <1>2 DEF PopAt
  <2>2. \A c : y \in PopAt(c) => c = b
    BY <1>2 DEF PopAt
  <2>3. /\ x \notin {<<"loop">>, <<"done">>, <<"push">>, <<"both">>, <<"push", "left">>,
                     <<"push", "right">>}
        /\ y \notin {<<"loop">>, <<"done">>, <<"push">>, <<"both">>, <<"push", "left">>,
                     <<"push", "right">>}
    BY <1>2 DEF PopAt
  <2>4. \A c : x \in PopAt(c) <=> y \in PopAt(c)
    BY <1>2, <2>1, <2>2
  <2>5. QED
    BY <2>3, <2>4 DEF HeldAt, UnpushedAt, SyncPcs, WriterPcs, CameraPcs
<1>3. QED
  BY <1>1, <1>2 DEF SamePop, CameraPcs

\* A broadcast or signal moves its thread within a pop, if at all.
LEMMA WokenSame ==
    ASSUME NEW f \in [Threads -> AllPcs], NEW b \in Buffers
    PROVE  /\ Woken(f, b) \in [Threads -> AllPcs]
           /\ \A t \in Threads : SamePop(f[t], Woken(f, b)[t])
           /\ \A t \in Threads \ {User(b)} : Woken(f, b)[t] = f[t]
<1>1. User(b) \in Threads
  BY DEF User, Threads
<1>2. Woken(f, b) = [f EXCEPT ![User(b)] =
                        IF f[User(b)] = <<"wait", b>> THEN <<"pop", b>> ELSE f[User(b)]]
  BY DEF Woken
<1>3. <<"wait", b>> \in AllPcs /\ <<"pop", b>> \in AllPcs
  BY DEF AllPcs, SyncPcs, WriterPcs, PopAt, Buffers
<1>4. <<"wait", b>> \in PopAt(b) /\ <<"pop", b>> \in PopAt(b)
  BY DEF PopAt
<1>5. QED
  BY <1>1, <1>2, <1>3, <1>4 DEF SamePop

\* Threads that move within a pop keep the shape of pc.
LEMMA SameShape ==
    ASSUME PcShape, pc' \in [Threads -> AllPcs], \A t \in Threads : SamePop(pc[t], pc'[t])
    PROVE  PcShape'
<1>1. \A t \in Threads : /\ pc[t] \in SyncPcs => pc'[t] \in SyncPcs
                         /\ pc[t] \in WriterPcs => pc'[t] \in WriterPcs
                         /\ pc[t] \in CameraPcs => pc'[t] \in CameraPcs
                         /\ pc[t] \in {<<"loop">>, <<"done">>} => pc'[t] = pc[t]
  BY SameHolds
<1>2. QED
  BY <1>1 DEF PcShape, Threads

-----------------------------------------------------------------------------
\* What buffer_push does to the threads and the buffers.
LEMMA PushEffect ==
    ASSUME Shape, Capacity, NEW t \in Threads, NEW b \in Buffers, NEW f \in Nat,
           NEW from, NEW to \in AllPcs, Push(t, b, f, from, to), t # User(b)
    PROVE  /\ pc[t] = from /\ pc'[t] = to /\ pc' \in [Threads -> AllPcs]
           /\ \A u \in Threads \ {t} : SamePop(pc[u], pc'[u])
           /\ buf' \in [Buffers -> Seq(Nat)] /\ overrun' \subseteq Buffers
           /\ \A c \in Buffers \ {b} : buf'[c] = buf[c]
           /\ Len(buf'[b]) <= Size
           /\ \/ buf'[b] = Append(buf[b], f) /\ overrun' = overrun
              \/ /\ buf[b] # <<>> /\ buf'[b] = Append(Tail(buf[b]), f)
                 /\ overrun' = overrun \cup {b}
<1> DEFINE g == [pc EXCEPT ![t] = to]
<1>1. pc \in [Threads -> AllPcs] /\ buf \in [Buffers -> Seq(Nat)] /\ overrun \subseteq Buffers
  BY DEF Shape, PcShape
<1>2. /\ pc[t] = from /\ pc' = Woken(g, b)
      /\ buf' = [buf EXCEPT ![b] = Append(IF Len(buf[b]) = Size THEN Tail(buf[b])
                                                             ELSE buf[b], f)]
      /\ overrun' = IF Len(buf[b]) = Size THEN overrun \cup {b} ELSE overrun
  BY DEF Push
<1>3. g \in [Threads -> AllPcs] /\ g[t] = to /\ \A u \in Threads \ {t} : g[u] = pc[u]
  BY <1>1
<1> HIDE DEF g
<1>4. /\ pc' \in [Threads -> AllPcs] /\ pc'[t] = to
      /\ \A u \in Threads \ {t} : SamePop(pc[u], pc'[u])
  BY <1>2, <1>3, WokenSame
<1>5. buf[b] \in Seq(Nat) /\ Len(buf[b]) \in Nat /\ Len(buf[b]) <= Size
  BY <1>1 DEF Capacity
<1>6. CASE Len(buf[b]) = Size
  <2>1. buf[b] # <<>> /\ Tail(buf[b]) \in Seq(Nat) /\ Len(Tail(buf[b])) = Size - 1
    BY <1>5, <1>6, SizeAssumption, HeadTailProperties, EmptySeq
  <2>2. Append(Tail(buf[b]), f) \in Seq(Nat) /\ Len(Append(Tail(buf[b]), f)) = Size
    BY <2>1, SizeAssumption, AppendProperties
  <2>3. buf'[b] = Append(Tail(buf[b]), f) /\ overrun' = overrun \cup {b}
    BY <1>1, <1>2, <1>6
  <2>4. buf' \in [Buffers -> Seq(Nat)] /\ \A c \in Buffers \ {b} : buf'[c] = buf[c]
    BY <1>1, <1>2, <1>6, <2>2
  <2>5. QED
    BY <1>1, <1>2, <1>4, <2>1, <2>2, <2>3, <2>4, SizeAssumption
<1>7. CASE Len(buf[b]) # Size
  <2>1. Append(buf[b], f) \in Seq(Nat) /\ Len(Append(buf[b], f)) <= Size
    BY <1>5, <1>7, SizeAssumption, AppendProperties
  <2>2. buf'[b] = Append(buf[b], f) /\ overrun' = overrun
    BY <1>1, <1>2, <1>7
  <2>3. buf' \in [Buffers -> Seq(Nat)] /\ \A c \in Buffers \ {b} : buf'[c] = buf[c]
    BY <1>1, <1>2, <1>7, <2>1
  <2>4. QED
    BY <1>1, <1>2, <1>4, <2>1, <2>2, <2>3
<1>8. QED
  BY <1>6, <1>7

\* The buffer from which t takes its frames of side s.
BufferOf(t, s) == IF s = "left" THEN LeftOf(t) ELSE RightOf(t)

\* What a successful buffer_pop does: some side gets one frame further.
LEMMA PopEffect ==
    ASSUME Shape, NEW t \in Users, NEW b \in {LeftOf(t), RightOf(t)}, PopTake(t, b)
    PROVE  \E s \in Sides :
             /\ b = BufferOf(t, s) /\ b \in Buffers
             /\ pc[t] = <<"pop", b>>
             /\ pc' = [pc EXCEPT ![t] = IF s = "left" THEN <<"pop", RightOf(t)>> ELSE <<"both">>]
             /\ buf[b] # <<>> /\ buf' = [buf EXCEPT ![b] = Tail(buf[b])]
             /\ got' \in [Users -> Frames] /\ got'[t][s] = Head(buf[b])
             /\ \A u \in Users, v \in Sides : u # t \/ v # s => got'[u][v] = got[u][v]
             /\ Head(buf[b]) \in Nat /\ buf' \in [Buffers -> Seq(Nat)]
             /\ UNCHANGED <<id, accepted, written, is_running, handler, overrun>>
<1>1. /\ got \in [Users -> Frames] /\ buf \in [Buffers -> Seq(Nat)]
      /\ LeftOf(t) # RightOf(t) /\ LeftOf(t) \in Buffers /\ RightOf(t) \in Buffers
  BY DEF Shape, LeftOf, RightOf, Buffers, Users
<1>2. /\ buf[b] # <<>> /\ buf' = [buf EXCEPT ![b] = Tail(buf[b])] /\ b \in Buffers
      /\ UNCHANGED <<id, accepted, written, is_running, handler, overrun>>
  BY <1>1 DEF PopTake
<1>3. Head(buf[b]) \in Nat /\ Tail(buf[b]) \in Seq(Nat)
  BY <1>1, <1>2, HeadTailProperties
<1>4. buf' \in [Buffers -> Seq(Nat)]
  BY <1>1, <1>2, <1>3
<1>5. CASE b = LeftOf(t)
  <2>1. /\ pc[t] = <<"pop", b>> /\ pc' = [pc EXCEPT ![t] = <<"pop", RightOf(t)>>]
        /\ got' = [got EXCEPT ![t].left = Head(buf[b])]
    BY <1>1, <1>5 DEF PopTake, Goto
  <2>2. /\ got' \in [Users -> Frames] /\ got'[t]["left"] = Head(buf[b])
        /\ \A u \in Users, v \in Sides : u # t \/ v # "left" => got'[u][v] = got[u][v]
    BY <1>1, <1>3, <2>1 DEF Frames, Sides
  <2>3. "left" \in Sides /\ b = BufferOf(t, "left")
    BY <1>5 DEF Sides, BufferOf
  <2>4. QED
    BY <1>2, <1>3, <1>4, <2>1, <2>2, <2>3
<1>6. CASE b = RightOf(t)
  <2>1. /\ pc[t] = <<"pop", b>> /\ pc' = [pc EXCEPT ![t] = <<"both">>]
        /\ got' = [got EXCEPT ![t].right = Head(buf[b])]
    BY <1>1, <1>6 DEF PopTake, Goto
  <2>2. /\ got' \in [Users -> Frames] /\ got'[t]["right"] = Head(buf[b])
        /\ \A u \in Users, v \in Sides : u # t \/ v # "right" => got'[u][v] = got[u][v]
    BY <1>1, <1>3, <2>1 DEF Frames, Sides
  <2>3. "right" \in Sides /\ b = BufferOf(t, "right")
    BY <1>6 DEF Sides, BufferOf
  <2>4. QED
    BY <1>2, <1>3, <1>4, <2>1, <2>2, <2>3
<1>7. QED
  BY <1>5, <1>6

\* The threads and buffers by their names.
LEMMA Names ==
    /\ Users \subseteq Threads /\ Sides \subseteq Threads
    /\ \A t \in Users : /\ LeftOf(t) \in Buffers /\ RightOf(t) \in Buffers
                        /\ LeftOf(t) # RightOf(t)
                        /\ User(LeftOf(t)) = t /\ User(RightOf(t)) = t
    /\ \A s \in Sides : /\ CamOf(s) \in Buffers /\ SyncedOf(s) \in Buffers
                        /\ CamOf(s) # SyncedOf(s)
                        /\ User(CamOf(s)) = "sync" /\ User(SyncedOf(s)) = "writer"
                        /\ BufferOf("sync", s) = CamOf(s) /\ BufferOf("writer", s) = SyncedOf(s)
    /\ CamOf("left") # CamOf("right") /\ SyncedOf("left") # SyncedOf("right")
    /\ \A r, s \in Sides : CamOf(r) # SyncedOf(s)
    /\ \A b \in Buffers : User(b) \in Users
  BY DEF Users, Sides, Threads, Buffers, LeftOf, RightOf, User, CamOf, SyncedOf, BufferOf

\* One thread moves, the others at most within a pop.
LEMMA OneMoves ==
    ASSUME PcShape, pc' \in [Threads -> AllPcs], NEW t \in Threads,
           \A u \in Threads \ {t} : SamePop(pc[u], pc'[u]),
           \/ t \in Sides /\ pc'[t] \in CameraPcs
           \/ t = "sync" /\ pc'[t] \in SyncPcs
    PROVE  PcShape'
<1>1. \A u \in Threads \ {t} : /\ pc[u] \in SyncPcs => pc'[u] \in SyncPcs
                               /\ pc[u] \in WriterPcs => pc'[u] \in WriterPcs
                               /\ pc[u] \in CameraPcs => pc'[u] \in CameraPcs
                               /\ pc[u] \in {<<"loop">>, <<"done">>} => pc'[u] = pc[u]
  BY SameHolds
<1>2. QED
  BY <1>1 DEF PcShape, Threads, Sides

\* Every step keeps the domains of the variables.
LEMMA ShapeStep ==
    ASSUME Shape, Capacity, [Next]_vars
    PROVE  Shape'
<1>1. ASSUME NEW c \in Sides, Capture(c) PROVE Shape'
  <2>1. PcShape'
    BY <1>1 DEF Capture, Goto, Shape, PcShape, Threads, Sides, AllPcs, CameraPcs
  <2>2. id' \in [Sides -> 0 .. MaxFrames]
    BY <1>1, MaxFramesAssumption DEF Capture, Shape
  <2>3. QED
    BY <1>1, <2>1, <2>2 DEF Capture, Shape
<1>2. ASSUME NEW c \in Sides, CameraPush(c) PROVE Shape'
  <2>1. /\ Push(c, CamOf(c), id[c], <<"push">>, <<"loop">>) /\ id[c] \in Nat
        /\ CamOf(c) \in Buffers /\ c \in Threads /\ c # User(CamOf(c)) /\ <<"loop">> \in AllPcs
    BY <1>2, Names DEF CameraPush, CamOf, Sides, Shape, User, AllPcs, CameraPcs
  <2>2. /\ pc'[c] = <<"loop">> /\ pc' \in [Threads -> AllPcs]
        /\ \A u \in Threads \ {c} : SamePop(pc[u], pc'[u])
        /\ buf' \in [Buffers -> Seq(Nat)] /\ overrun' \subseteq Buffers
    BY <2>1, PushEffect
  <2>3. PcShape'
    BY <2>2, OneMoves DEF Shape, PcShape, Sides, Threads, CameraPcs
  <2>4. QED
    BY <1>2, <2>2, <2>3 DEF CameraPush, Shape
<1>3. ASSUME NEW t \in Threads, LeaveLoop(t) PROVE Shape'
  <2>1. PcShape'
    BY <1>3, Names DEF LeaveLoop, Goto, Shape, PcShape, Threads, Users, Sides, LeftOf, RightOf, AllPcs,
      CameraPcs, SyncPcs, WriterPcs, PopAt
  <2>2. QED
    BY <1>3, <2>1 DEF LeaveLoop, Goto, Shape
<1>4. ASSUME NEW t \in Users, Enter(t) PROVE Shape'
  <2>1. PcShape'
    BY <1>4, Names DEF Enter, Goto, Shape, PcShape, Threads, Users, Sides, LeftOf, RightOf, AllPcs,
      CameraPcs, SyncPcs, WriterPcs, PopAt
  <2>2. QED
    BY <1>4, <2>1 DEF Enter, Goto, Shape
<1>5. ASSUME NEW t \in Users, NEW b \in {LeftOf(t), RightOf(t)}, PopTake(t, b) PROVE Shape'
  <2>1. PICK s \in Sides :
             /\ pc' = [pc EXCEPT ![t] = IF s = "left" THEN <<"pop", RightOf(t)>> ELSE <<"both">>]
             /\ got' \in [Users -> Frames] /\ buf' \in [Buffers -> Seq(Nat)]
             /\ UNCHANGED <<id, accepted, written, is_running, handler, overrun>>
    BY <1>5, PopEffect
  <2>2. PcShape'
    BY <2>1 DEF Shape, PcShape, Threads, Users, RightOf, AllPcs, CameraPcs, SyncPcs,
      WriterPcs, PopAt
  <2>3. QED
    BY <2>1, <2>2 DEF Shape
<1>6. ASSUME NEW t \in Users, NEW b \in {LeftOf(t), RightOf(t)}, PopEmpty(t, b) PROVE Shape'
  <2>1. PcShape'
    BY <1>6, Names DEF PopEmpty, Goto, Shape, PcShape, Threads, Users, Sides, LeftOf, RightOf, AllPcs,
      CameraPcs, SyncPcs, WriterPcs, PopAt
  <2>2. QED
    BY <1>6, <2>1 DEF PopEmpty, Goto, Shape
<1>7. ASSUME NEW t \in Users, NEW b \in {LeftOf(t), RightOf(t)}, PopWait(t, b) PROVE Shape'
  <2>1. PcShape'
    BY <1>7, Names DEF PopWait, Goto, Shape, PcShape, Threads, Users, Sides, LeftOf, RightOf, AllPcs,
      CameraPcs, SyncPcs, WriterPcs, PopAt
  <2>2. QED
    BY <1>7, <2>1 DEF PopWait, Goto, Shape
<1>8. CASE Match
  <2>1. PcShape'
    BY <1>8 DEF Match, Goto, Shape, PcShape, Threads, AllPcs, CameraPcs, SyncPcs, WriterPcs, PopAt
  <2>2. accepted' \in Seq(Frames)
    BY <1>8, AppendProperties DEF Match, Shape, Users
  <2>3. QED
    BY <1>8, <2>1, <2>2 DEF Match, Shape
<1>9. CASE NoMatch
  <2>1. PcShape'
    BY <1>9, Names DEF NoMatch, Goto, Shape, PcShape, Threads, Users, Sides, LeftOf, RightOf, AllPcs,
      CameraPcs, SyncPcs, WriterPcs, PopAt
  <2>2. QED
    BY <1>9, <2>1 DEF NoMatch, Goto, Shape
<1>10. CASE SyncPushLeft
  <2>1. /\ Push("sync", "sync_left", got["sync"].left, <<"push", "left">>, <<"push", "right">>)
        /\ got["sync"].left \in Nat /\ "sync_left" \in Buffers /\ "sync" \in Threads
        /\ "sync" # User("sync_left") /\ <<"push", "right">> \in AllPcs
    BY <1>10, Names DEF SyncPushLeft, Buffers, Threads, Users, Frames, Shape, User, AllPcs, SyncPcs
  <2>2. /\ pc'["sync"] = <<"push", "right">> /\ pc' \in [Threads -> AllPcs]
        /\ \A u \in Threads \ {"sync"} : SamePop(pc[u], pc'[u])
        /\ buf' \in [Buffers -> Seq(Nat)] /\ overrun' \subseteq Buffers
    BY <2>1, PushEffect
  <2>3. PcShape'
    BY <2>2, OneMoves DEF Shape, PcShape, Threads, SyncPcs
  <2>4. QED
    BY <1>10, <2>2, <2>3 DEF SyncPushLeft, Shape
<1>11. CASE SyncPushRight
  <2>1. /\ Push("sync", "sync_right", got["sync"].right, <<"push", "right">>, <<"loop">>)
        /\ got["sync"].right \in Nat /\ "sync_right" \in Buffers /\ "sync" \in Threads
        /\ "sync" # User("sync_right") /\ <<"loop">> \in AllPcs
    BY <1>11, Names DEF SyncPushRight, Buffers, Threads, Users, Frames, Shape, User, AllPcs, SyncPcs
  <2>2. /\ pc'["sync"] = <<"loop">> /\ pc' \in [Threads -> AllPcs]
        /\ \A u \in Threads \ {"sync"} : SamePop(pc[u], pc'[u])
        /\ buf' \in [Buffers -> Seq(Nat)] /\ overrun' \subseteq Buffers
    BY <2>1, PushEffect
  <2>3. PcShape'
    BY <2>2, OneMoves DEF Shape, PcShape, Threads, SyncPcs
  <2>4. QED
    BY <1>11, <2>2, <2>3 DEF SyncPushRight, Shape
<1>12. CASE Write
  <2>1. PcShape'
    BY <1>12 DEF Write, Goto, Shape, PcShape, Threads, AllPcs, CameraPcs, SyncPcs, WriterPcs, PopAt
  <2>2. written' \in Seq(Frames)
    BY <1>12, AppendProperties DEF Write, Shape, Users
  <2>3. QED
    BY <1>12, <2>1, <2>2 DEF Write, Shape
<1>13. ASSUME NEW b \in Buffers, Spurious(User(b), b) PROVE Shape'
  <2>1. PcShape'
    BY <1>13, Names DEF Spurious, Goto, Shape, PcShape, Threads, Users, Sides, LeftOf, RightOf, AllPcs,
      CameraPcs, SyncPcs, WriterPcs, PopAt
  <2>2. QED
    BY <1>13, <2>1 DEF Spurious, Goto, Shape
<1>14. CASE Sigint
  BY <1>14 DEF Sigint, Shape, PcShape
<1>15. CASE Broadcast
  <2>1. handler \in Seq(Buffers) /\ handler # <<>> /\ pc \in [Threads -> AllPcs]
    BY <1>15 DEF Broadcast, Shape, PcShape
  <2>2. Head(handler) \in Buffers /\ Tail(handler) \in Seq(Buffers)
    BY <2>1, HeadTailProperties
  <2>3. pc' \in [Threads -> AllPcs] /\ \A t \in Threads : SamePop(pc[t], pc'[t])
    BY <1>15, <2>1, <2>2, WokenSame DEF Broadcast
  <2>4. PcShape'
    BY <2>3, SameShape DEF Shape
  <2>5. QED
    BY <1>15, <2>2, <2>4 DEF Broadcast, Shape
<1>16. CASE Join
  <2>1. PcShape'
    BY <1>16, Names DEF Join, Goto, Shape, PcShape, Threads, Users, Sides, LeftOf, RightOf, AllPcs,
      CameraPcs, SyncPcs, WriterPcs, PopAt
  <2>2. QED
    BY <1>16, <2>1 DEF Join, Goto, Shape
<1>17. CASE UNCHANGED vars
  BY <1>17 DEF vars, Shape, PcShape
<1>18. QED
  BY <1>1, <1>2, <1>3, <1>4, <1>5, <1>6, <1>7, <1>8, <1>9, <1>10, <1>11, <1>12, <1>13,
    <1>14, <1>15, <1>16, <1>17 DEF Next, Camera, Sync, Writer, Popping, Sides, Users,
    Threads

\* No step fills a buffer beyond Size.
LEMMA CapacityStep ==
    ASSUME Shape, Capacity, [Next]_vars
    PROVE  Capacity'
<1>1. ASSUME NEW c \in Sides, CameraPush(c) PROVE Capacity'
  <2>1. /\ Push(c, CamOf(c), id[c], <<"push">>, <<"loop">>) /\ id[c] \in Nat
        /\ CamOf(c) \in Buffers /\ c \in Threads /\ c # User(CamOf(c)) /\ <<"loop">> \in AllPcs
    BY <1>1, Names DEF CameraPush, CamOf, Sides, Shape, User, AllPcs, CameraPcs
  <2>2. /\ \A b \in Buffers \ {CamOf(c)} : buf'[b] = buf[b]
        /\ Len(buf'[CamOf(c)]) <= Size
    BY <2>1, PushEffect
  <2>3. QED
    BY <2>2 DEF Capacity
<1>2. ASSUME NEW t \in Users, NEW b \in {LeftOf(t), RightOf(t)}, PopTake(t, b) PROVE Capacity'
  <2>1. /\ b \in Buffers /\ buf[b] # <<>> /\ buf' = [buf EXCEPT ![b] = Tail(buf[b])]
    BY <1>2, PopEffect
  <2>2. buf \in [Buffers -> Seq(Nat)]
    BY DEF Shape
  <2>3. Len(Tail(buf[b])) = Len(buf[b]) - 1 /\ Len(buf[b]) \in Nat
    BY <2>1, <2>2, HeadTailProperties
  <2>4. \A c \in Buffers : Len(buf'[c]) <= Size
    BY <2>1, <2>2, <2>3, SizeAssumption DEF Capacity
  <2>5. QED
    BY <2>4 DEF Capacity
<1>3. CASE SyncPushLeft
  <2>1. /\ Push("sync", "sync_left", got["sync"].left, <<"push", "left">>, <<"push", "right">>)
        /\ got["sync"].left \in Nat /\ "sync_left" \in Buffers /\ "sync" \in Threads
        /\ "sync" # User("sync_left") /\ <<"push", "right">> \in AllPcs
    BY <1>3, Names DEF SyncPushLeft, Buffers, Threads, Users, Frames, Shape, User, AllPcs, SyncPcs
  <2>2. /\ \A b \in Buffers \ {"sync_left"} : buf'[b] = buf[b]
        /\ Len(buf'["sync_left"]) <= Size
    BY <2>1, PushEffect
  <2>3. QED
    BY <2>2 DEF Capacity
<1>4. CASE SyncPushRight
  <2>1. /\ Push("sync", "sync_right", got["sync"].right, <<"push", "right">>, <<"loop">>)
        /\ got["sync"].right \in Nat /\ "sync_right" \in Buffers /\ "sync" \in Threads
        /\ "sync" # User("sync_right") /\ <<"loop">> \in AllPcs
    BY <1>4, Names DEF SyncPushRight, Buffers, Threads, Users, Frames, Shape, User, AllPcs, SyncPcs
  <2>2. /\ \A b \in Buffers \ {"sync_right"} : buf'[b] = buf[b]
        /\ Len(buf'["sync_right"]) <= Size
    BY <2>1, PushEffect
  <2>3. QED
    BY <2>2 DEF Capacity
<1>5. CASE UNCHANGED buf
  BY <1>5 DEF Capacity
<1>6. QED
  BY <1>1, <1>2, <1>3, <1>4, <1>5 DEF Next, Camera, Sync, Writer, Popping, Sides, Users,
    vars, Capture, LeaveLoop, Enter, PopEmpty, PopWait, Match, NoMatch, Write, Spurious,
    Sigint, Broadcast, Join

-----------------------------------------------------------------------------
\* A step that moves no frame: at most it drops what a thread holds, when that
\* thread ends or finds its pair too far apart.
Quiet ==
    /\ UNCHANGED <<buf, id, got, accepted, written, overrun>>
    /\ \A s \in Sides : pc'[s] = <<"push">> => pc[s] = <<"push">>
    /\ \A t \in Users, s \in Sides : pc'[t] \in HeldAt(t, s) => pc[t] \in HeldAt(t, s)
    /\ \A s \in Sides : pc'["sync"] \in UnpushedAt(s) <=> pc["sync"] \in UnpushedAt(s)
    /\ pc'["writer"] # <<"done">> =>
          /\ pc["writer"] # <<"done">>
          /\ \A s \in Sides : pc["writer"] \in HeldAt("writer", s)
                                 => pc'["writer"] \in HeldAt("writer", s)

\* Every other step is the action of a frame.
LEMMA QuietOrFrame ==
    ASSUME Shape, [Next]_vars
    PROVE  \/ Quiet
           \/ \E c \in Sides : Capture(c) \/ CameraPush(c)
           \/ \E t \in Users : \E b \in {LeftOf(t), RightOf(t)} : PopTake(t, b)
           \/ Match \/ SyncPushLeft \/ SyncPushRight \/ Write
<1>1. PcShape
  BY DEF Shape
<1>2. ASSUME NEW t \in Threads \ {"main"}, LeaveLoop(t) PROVE Quiet
  <2>1. /\ pc[t] = <<"loop">> /\ pc' = [pc EXCEPT ![t] = <<"done">>]
        /\ UNCHANGED <<buf, id, got, accepted, written, overrun>>
    BY <1>2 DEF LeaveLoop, Goto
  <2>2. QED
    BY <1>1, <2>1 DEF PcShape, Quiet, Sides, Users, Threads, HeldAt, UnpushedAt, PopAt
<1>3. ASSUME NEW t \in Users, Enter(t) PROVE Quiet
  <2>1. /\ pc[t] = <<"loop">> /\ pc' = [pc EXCEPT ![t] = <<"pop", LeftOf(t)>>]
        /\ UNCHANGED <<buf, id, got, accepted, written, overrun>>
    BY <1>3 DEF Enter, Goto
  <2>2. QED
    BY <1>1, <2>1 DEF PcShape, Quiet, Sides, Users, Threads, HeldAt, UnpushedAt, PopAt, LeftOf, RightOf
<1>4. ASSUME NEW t \in Users, NEW b \in {LeftOf(t), RightOf(t)}, PopEmpty(t, b) PROVE Quiet
  <2>1. /\ pc[t] = <<"pop", b>> /\ UNCHANGED <<buf, id, got, accepted, written, overrun>>
        /\ pc' = [pc EXCEPT ![t] = <<"gap", b>>] \/ pc' = [pc EXCEPT ![t] = <<"done">>]
    BY <1>4 DEF PopEmpty, Goto
  <2>2. QED
    BY <1>1, <2>1 DEF PcShape, Quiet, Sides, Users, Threads, HeldAt, UnpushedAt, PopAt
<1>5. ASSUME NEW t \in Users, NEW b \in {LeftOf(t), RightOf(t)}, PopWait(t, b) PROVE Quiet
  <2>1. /\ pc[t] = <<"gap", b>> /\ UNCHANGED <<buf, id, got, accepted, written, overrun>>
        /\ pc' = [pc EXCEPT ![t] = <<"wait", b>>]
    BY <1>5 DEF PopWait, Goto
  <2>2. QED
    BY <1>1, <2>1 DEF PcShape, Quiet, Sides, Users, Threads, HeldAt, UnpushedAt, PopAt
<1>6. CASE NoMatch
  <2>1. /\ pc["sync"] = <<"both">> /\ UNCHANGED <<buf, id, got, accepted, written, overrun>>
        /\ pc' = [pc EXCEPT !["sync"] = <<"loop">>]
    BY <1>6 DEF NoMatch, Goto
  <2>2. QED
    BY <1>1, <2>1 DEF PcShape, Quiet, Sides, Users, Threads, HeldAt, UnpushedAt, PopAt
<1>7. ASSUME UNCHANGED <<buf, id, got, accepted, written, overrun>>,
             \A t \in Threads \ {"main"} : SamePop(pc[t], pc'[t])
      PROVE  Quiet
  <2>1. \A u \in Users : /\ u \in Threads \ {"main"}
                         /\ \A t \in Users, s \in Sides :
                               pc[u] \in HeldAt(t, s) <=> pc'[u] \in HeldAt(t, s)
                         /\ \A s \in Sides : pc[u] \in UnpushedAt(s) <=> pc'[u] \in UnpushedAt(s)
                         /\ pc[u] = <<"done">> <=> pc'[u] = <<"done">>
    BY <1>7, SameHolds DEF Users, Threads
  <2>2. \A s \in Sides : pc[s] = <<"push">> <=> pc'[s] = <<"push">>
    BY <1>7, SameHolds DEF Sides, Threads
  <2>3. QED
    BY <1>7, <2>1, <2>2 DEF Quiet, Users
<1>8. ASSUME NEW b \in Buffers, Spurious(User(b), b) PROVE Quiet
  <2>1. /\ pc[User(b)] = <<"wait", b>> /\ pc' = [pc EXCEPT ![User(b)] = <<"pop", b>>]
        /\ UNCHANGED <<buf, id, got, accepted, written, overrun>>
    BY <1>8 DEF Spurious, Goto
  <2>2. \A t \in Threads : SamePop(pc[t], pc'[t])
    BY <1>1, <2>1 DEF PcShape, SamePop, PopAt
  <2>3. QED
    BY <2>1, <2>2, <1>7
<1>9. CASE Sigint
  <2>1. UNCHANGED <<pc, buf, id, got, accepted, written, overrun>>
    BY <1>9 DEF Sigint
  <2>2. QED
    BY <2>1, <1>7 DEF SamePop
<1>10. CASE Broadcast
  <2>1. /\ handler \in Seq(Buffers) /\ handler # <<>> /\ pc \in [Threads -> AllPcs]
        /\ UNCHANGED <<buf, id, got, accepted, written, overrun>>
    BY <1>10, <1>1 DEF Broadcast, Shape, PcShape
  <2>2. Head(handler) \in Buffers
    BY <2>1, HeadTailProperties
  <2>3. \A t \in Threads : SamePop(pc[t], pc'[t])
    BY <1>10, <2>1, <2>2, WokenSame DEF Broadcast
  <2>4. QED
    BY <2>1, <2>3, <1>7
<1>11. CASE Join
  <2>1. /\ UNCHANGED <<buf, id, got, accepted, written, overrun>>
        /\ pc' = [pc EXCEPT !["main"] = <<"done">>]
    BY <1>11 DEF Join, Goto
  <2>2. \A t \in Threads \ {"main"} : SamePop(pc[t], pc'[t])
    BY <1>1, <2>1 DEF PcShape, SamePop
  <2>3. QED
    BY <2>1, <2>2, <1>7
<1>12. CASE UNCHANGED vars
  <2>1. UNCHANGED <<pc, buf, id, got, accepted, written, overrun>>
    BY <1>12 DEF vars
  <2>2. QED
    BY <2>1, <1>7 DEF SamePop
<1>13. \A t : LeaveLoop(t) => t # "main"
  BY DEF LeaveLoop
<1>14. QED
  BY <1>2, <1>3, <1>4, <1>5, <1>6, <1>8, <1>9, <1>10, <1>11, <1>12, <1>13
    DEF Next, Camera, Sync, Writer, Popping, Sides, Users, Threads

-----------------------------------------------------------------------------
\* The numbers of the line are numbers.
LEMMA LineType ==
    ASSUME Shape
    PROVE  /\ \A b \in Buffers : buf[b] \in Seq(Nat)
           /\ \A s \in Sides : /\ id[s] \in 0 .. MaxFrames /\ Sent(s) \in Int /\ Sent(s) <= id[s]
                               /\ Pushing(s) \in {0, 1}
           /\ \A t \in Users, s \in Sides : /\ got[t][s] \in Nat /\ Holds(t, s) \in {0, 1}
                                            /\ Passed(t, s) \in Int
           /\ written \in Seq(Frames) /\ \A j \in DOMAIN written, s \in Sides : written[j][s] \in Nat
           /\ accepted \in Seq(Frames)
<1>1. \A f \in Frames, s \in Sides : f[s] \in Nat
  BY DEF Frames, Sides
<1>2. \A s \in Sides : /\ id[s] \in 0 .. MaxFrames /\ Sent(s) \in Int /\ Sent(s) <= id[s]
                       /\ Pushing(s) \in {0, 1}
  BY MaxFramesAssumption DEF Shape, Sent, Pushing
<1>3. \A t \in Users, s \in Sides : /\ got[t][s] \in Nat /\ Holds(t, s) \in {0, 1}
                                    /\ Passed(t, s) \in Int
  BY <1>1 DEF Shape, Holds, Passed
<1>4. written \in Seq(Frames) /\ \A j \in DOMAIN written : written[j] \in Frames
  BY DEF Shape
<1>5. QED
  BY <1>1, <1>2, <1>3, <1>4 DEF Shape

\* The line of a side whose frames do not move; frames may have been given up.
LEMMA ChainRest ==
    ASSUME Shape, Shape', NEW s \in Sides, Chain(s),
           buf'[CamOf(s)] = buf[CamOf(s)], buf'[SyncedOf(s)] = buf[SyncedOf(s)],
           \A t \in Users : got'[t][s] = got[t][s] /\ Passed(t, s) <= Passed(t, s)',
           Sent(s) <= Sent(s)', written' = written
    PROVE  Chain(s)'
<1>1. /\ buf[CamOf(s)] \in Seq(Nat) /\ buf[SyncedOf(s)] \in Seq(Nat)
      /\ \A t \in Users : got[t][s] \in Nat /\ Passed(t, s) \in Int /\ Passed(t, s)' \in Int
      /\ Sent(s) \in Int /\ Sent(s)' \in Int
      /\ \A j \in DOMAIN written : written[j][s] \in Nat
  <2>1. Sent(s)' \in Int
    <3>1. id'[s] \in 0 .. MaxFrames
      BY DEF Shape
    <3>2. QED
      BY <3>1, MaxFramesAssumption DEF Sent, Pushing
  <2>2. \A t \in Users : Passed(t, s)' \in Int
    <3>1. \A t \in Users : got'[t][s] \in Nat
      BY LineType
    <3>2. QED
      BY <3>1 DEF Passed, Holds
  <2>3. QED
    BY <2>1, <2>2, LineType, Names
<1>2. /\ Run(buf[CamOf(s)], got["sync"][s], Sent(s))
      /\ Run(buf[SyncedOf(s)], got["writer"][s], Passed("sync", s))
      /\ Files(s, Passed("writer", s))
  BY DEF Chain
<1>3. "sync" \in Users /\ "writer" \in Users
  BY DEF Users
<1>4. Run(buf'[CamOf(s)], got'["sync"][s], Sent(s)')
  BY <1>1, <1>2, <1>3, RunWiden
<1>5. Run(buf'[SyncedOf(s)], got'["writer"][s], Passed("sync", s)')
  BY <1>1, <1>2, <1>3, RunWiden
<1>6. Files(s, Passed("writer", s))'
  <2>1. /\ 0 <= Passed("writer", s)
        /\ \A j \in DOMAIN written : written[j][s] <= Passed("writer", s)
        /\ \A j, k \in DOMAIN written : j < k => written[j][s] < written[k][s]
    BY <1>2 DEF Files
  <2>2. 0 <= Passed("writer", s)'
    BY <1>1, <1>3, <2>1
  <2>3. \A j \in DOMAIN written : written[j][s] <= Passed("writer", s)'
    BY <1>1, <1>3, <2>1
  <2>4. QED
    BY <2>1, <2>2, <2>3 DEF Files
<1>7. QED
  BY <1>4, <1>5, <1>6 DEF Chain

\* A thread that moves at most within a pop has passed on what it had.
LEMMA PassedSame ==
    ASSUME Shape, NEW t \in Users, NEW s \in Sides, SamePop(pc[t], pc'[t]),
           got'[t][s] = got[t][s]
    PROVE  /\ Passed(t, s)' = Passed(t, s) /\ Passed(t, s) <= Passed(t, s)'
           /\ Holds(t, s)' = Holds(t, s)
<1>1. pc[t] \in HeldAt(t, s) <=> pc'[t] \in HeldAt(t, s)
  BY SameHolds
<1>2. Holds(t, s)' = Holds(t, s)
  BY <1>1 DEF Holds
<1>3. Passed(t, s) \in Int
  BY LineType
<1>4. QED
  BY <1>2, <1>3 DEF Passed

\* A camera that moves at most within a pop, that is not at all.
LEMMA SentSame ==
    ASSUME Shape, NEW s \in Sides, SamePop(pc[s], pc'[s]), id'[s] = id[s]
    PROVE  Sent(s)' = Sent(s) /\ Sent(s) <= Sent(s)'
<1>1. pc[s] = <<"push">> <=> pc'[s] = <<"push">>
  BY SameHolds
<1>2. Sent(s) \in Int
  BY LineType
<1>3. QED
  BY <1>1, <1>2 DEF Sent, Pushing

\* A quiet step gives frames up at most.
LEMMA ChainQuiet ==
    ASSUME Shape, Shape', NEW s \in Sides, Chain(s), Quiet
    PROVE  Chain(s)'
<1>1. UNCHANGED <<buf, id, got, accepted, written>>
  BY DEF Quiet
<1>2. \A t \in Users : Passed(t, s) <= Passed(t, s)'
  <2>1. \A t \in Users : Holds(t, s)' <= Holds(t, s)
    BY DEF Quiet, Holds
  <2>2. \A t \in Users : /\ got[t][s] \in Nat /\ Holds(t, s) \in {0, 1} /\ Holds(t, s)' \in {0, 1}
    BY LineType DEF Holds
  <2>3. QED
    BY <1>1, <2>1, <2>2 DEF Passed
<1>3. Sent(s) <= Sent(s)'
  <2>1. id[s] \in Nat
    BY LineType, MaxFramesAssumption
  <2>2. QED
    BY <1>1, <2>1 DEF Quiet, Sent, Pushing
<1>4. QED
  BY <1>1, <1>2, <1>3, ChainRest

\* A camera's new frame is in its hands, not in the line yet.
LEMMA ChainCapture ==
    ASSUME Shape, Shape', NEW s \in Sides, Chain(s), NEW c \in Sides, Capture(c)
    PROVE  Chain(s)'
<1>1. /\ UNCHANGED <<buf, got, accepted, written>> /\ pc[c] = <<"loop">>
      /\ pc' = [pc EXCEPT ![c] = <<"push">>] /\ id' = [id EXCEPT ![c] = id[c] + 1]
  BY DEF Capture, Goto
<1>2. pc \in [Threads -> AllPcs] /\ id \in [Sides -> 0 .. MaxFrames] /\ id[s] \in Nat
  BY LineType, MaxFramesAssumption DEF Shape, PcShape
<1>3. \A t \in Users : SamePop(pc[t], pc'[t])
  BY <1>1, <1>2 DEF Users, Sides, SamePop
<1>4. \A t \in Users : got'[t][s] = got[t][s] /\ Passed(t, s) <= Passed(t, s)'
  BY <1>1, <1>3, PassedSame
<1>5. Sent(s) <= Sent(s)'
  BY <1>1, <1>2, Names DEF Sent, Pushing
<1>6. QED
  BY <1>1, <1>4, <1>5, ChainRest

\* The camera's frame goes to the end of its buffer.
LEMMA ChainCameraPush ==
    ASSUME Shape, Shape', Capacity, NEW s \in Sides, Chain(s), NEW c \in Sides, CameraPush(c)
    PROVE  Chain(s)'
<1>1. /\ Push(c, CamOf(c), id[c], <<"push">>, <<"loop">>) /\ id[c] \in Nat
      /\ CamOf(c) \in Buffers /\ c \in Threads /\ c # User(CamOf(c)) /\ <<"loop">> \in AllPcs
      /\ UNCHANGED <<id, got, accepted, written>>
  <2>1. Push(c, CamOf(c), id[c], <<"push">>, <<"loop">>) /\ UNCHANGED <<id, got, accepted, written>>
    BY DEF CameraPush, CamOf
  <2>2. id[c] \in Nat
    BY Names DEF Shape
  <2>3. CamOf(c) \in Buffers /\ c \in Threads /\ c # User(CamOf(c))
    BY Names DEF CamOf, Sides, User
  <2>4. <<"loop">> \in AllPcs
    BY DEF AllPcs, CameraPcs
  <2>5. QED
    BY <2>1, <2>2, <2>3, <2>4
<1>2. /\ pc[c] = <<"push">> /\ pc'[c] = <<"loop">>
      /\ \A u \in Threads \ {c} : SamePop(pc[u], pc'[u])
      /\ \A b \in Buffers \ {CamOf(c)} : buf'[b] = buf[b]
      /\ \/ buf'[CamOf(c)] = Append(buf[CamOf(c)], id[c])
         \/ /\ buf[CamOf(c)] # <<>>
            /\ buf'[CamOf(c)] = Append(Tail(buf[CamOf(c)]), id[c])
  BY <1>1, PushEffect
<1>3. \A t \in Users : t # c /\ t \in Threads
  BY DEF Users, Sides, Threads
<1>4. \A t \in Users : /\ got'[t][s] = got[t][s] /\ Passed(t, s) <= Passed(t, s)'
                       /\ Passed(t, s)' = Passed(t, s)
  BY <1>1, <1>2, <1>3, PassedSame
<1>5. buf'[SyncedOf(s)] = buf[SyncedOf(s)]
  BY <1>2, Names
<1>6. CASE s # c
  <2>1. Sent(s) <= Sent(s)'
    BY <1>1, <1>2, <1>6, SentSame DEF Sides, Threads
  <2>2. buf'[CamOf(s)] = buf[CamOf(s)]
    BY <1>2, <1>6, Names DEF Sides
  <2>3. QED
    BY <1>1, <1>4, <1>5, <2>1, <2>2, ChainRest
<1>7. CASE s = c
  <2>1. /\ Sent(s) = id[s] - 1 /\ Sent(s)' = id[s] /\ id[s] \in Nat
        /\ got["sync"][s] \in Nat /\ buf[CamOf(s)] \in Seq(Nat) /\ Sent(s) \in Int
    <3>1. Sent(s) = id[s] - 1 /\ Sent(s)' = id[s]
      BY <1>1, <1>2, <1>7 DEF Sent, Pushing
    <3>2. QED
      BY <3>1, <1>1, <1>7, LineType DEF Users
  <2>2. Run(buf[CamOf(s)], got["sync"][s], Sent(s)) /\ Sent(s) < id[s]
    BY <2>1 DEF Chain
  <2>3. /\ Run(Append(buf[CamOf(s)], id[s]), got["sync"][s], id[s])
        /\ buf[CamOf(s)] # <<>> => Run(Append(Tail(buf[CamOf(s)]), id[s]), got["sync"][s], id[s])
    BY <2>1, <2>2, RunPush
  <2>4. Run(buf'[CamOf(s)], got'["sync"][s], Sent(s)')
    BY <1>1, <1>2, <1>7, <2>1, <2>3
  <2>5. Run(buf'[SyncedOf(s)], got'["writer"][s], Passed("sync", s)')
    BY <1>1, <1>4, <1>5 DEF Chain, Users
  <2>6. Files(s, Passed("writer", s))'
    BY <1>1, <1>4 DEF Chain, Users, Files
  <2>7. QED
    BY <2>4, <2>5, <2>6 DEF Chain
<1>8. QED
  BY <1>6, <1>7

\* The synchronizer's frame of side v goes to the end of its buffer.
SyncPush(v) ==
    IF v = "left" THEN SyncPushLeft ELSE SyncPushRight

\* What these two pushes do to the threads and the buffers.
LEMMA SyncPushEffect ==
    ASSUME Shape, Capacity, NEW v \in Sides, SyncPush(v)
    PROVE  /\ pc["sync"] = <<"push", v>>
           /\ pc'["sync"] = IF v = "left" THEN <<"push", "right">> ELSE <<"loop">>
           /\ \A u \in Threads \ {"sync"} : SamePop(pc[u], pc'[u])
           /\ \A b \in Buffers \ {SyncedOf(v)} : buf'[b] = buf[b]
           /\ \/ /\ buf'[SyncedOf(v)] = Append(buf[SyncedOf(v)], got["sync"][v])
                 /\ overrun' = overrun
              \/ /\ buf[SyncedOf(v)] # <<>>
                 /\ buf'[SyncedOf(v)] = Append(Tail(buf[SyncedOf(v)]), got["sync"][v])
                 /\ overrun' = overrun \cup {SyncedOf(v)}
           /\ UNCHANGED <<id, got, accepted, written>>
<1>1. CASE v = "left"
  <2>1. /\ Push("sync", "sync_left", got["sync"].left, <<"push", "left">>, <<"push", "right">>)
        /\ got["sync"].left \in Nat /\ "sync_left" \in Buffers /\ "sync" \in Threads
        /\ "sync" # User("sync_left") /\ <<"push", "right">> \in AllPcs
        /\ UNCHANGED <<id, got, accepted, written>>
    BY <1>1, Names DEF SyncPush, SyncPushLeft, Buffers, Threads, Users, Frames, Shape, User,
      AllPcs, SyncPcs
  <2>2. SyncedOf(v) = "sync_left" /\ got["sync"].left = got["sync"][v]
    BY <1>1 DEF SyncedOf
  <2>3. QED
    BY <1>1, <2>1, <2>2, PushEffect
<1>2. CASE v = "right"
  <2>1. /\ Push("sync", "sync_right", got["sync"].right, <<"push", "right">>, <<"loop">>)
        /\ got["sync"].right \in Nat /\ "sync_right" \in Buffers /\ "sync" \in Threads
        /\ "sync" # User("sync_right") /\ <<"loop">> \in AllPcs
        /\ UNCHANGED <<id, got, accepted, written>>
    BY <1>2, Names DEF SyncPush, SyncPushRight, Buffers, Threads, Users, Frames, Shape, User,
      AllPcs, SyncPcs
  <2>2. SyncedOf(v) = "sync_right" /\ got["sync"].right = got["sync"][v]
    BY <1>2 DEF SyncedOf
  <2>3. QED
    BY <1>2, <2>1, <2>2, PushEffect
<1>3. QED
  BY <1>1, <1>2 DEF Sides

\* The frame leaves the hands of the synchronizer at the end of the line of its
\* side.
LEMMA ChainSyncPush ==
    ASSUME Shape, Shape', Capacity, NEW s \in Sides, Chain(s), NEW v \in Sides, SyncPush(v)
    PROVE  Chain(s)'
<1>1. /\ pc["sync"] = <<"push", v>>
      /\ pc'["sync"] = IF v = "left" THEN <<"push", "right">> ELSE <<"loop">>
      /\ \A u \in Threads \ {"sync"} : SamePop(pc[u], pc'[u])
      /\ \A b \in Buffers \ {SyncedOf(v)} : buf'[b] = buf[b]
      /\ \/ buf'[SyncedOf(v)] = Append(buf[SyncedOf(v)], got["sync"][v])
         \/ /\ buf[SyncedOf(v)] # <<>>
            /\ buf'[SyncedOf(v)] = Append(Tail(buf[SyncedOf(v)]), got["sync"][v])
      /\ UNCHANGED <<id, got, accepted, written>>
  BY SyncPushEffect
<1>2. Passed("writer", s)' = Passed("writer", s) /\ Passed("writer", s) <= Passed("writer", s)'
  <2>1. SamePop(pc["writer"], pc'["writer"]) /\ "writer" \in Users
    BY <1>1 DEF Threads, Users
  <2>2. QED
    BY <1>1, <2>1, PassedSame
<1>3. Sent(s)' = Sent(s) /\ Sent(s) <= Sent(s)'
  <2>1. SamePop(pc[s], pc'[s])
    BY <1>1, Names DEF Sides
  <2>2. QED
    BY <1>1, <2>1, SentSame
<1>4. buf'[CamOf(s)] = buf[CamOf(s)]
  BY <1>1, Names
<1>5. /\ got["sync"][s] \in Nat /\ got["writer"][s] \in Nat
      /\ buf[SyncedOf(s)] \in Seq(Nat) /\ Passed("sync", s) \in Int
  BY LineType, Names DEF Users
<1>6. CASE s # v
  <2>1. Holds("sync", s)' = Holds("sync", s)
    BY <1>1, <1>6 DEF Holds, HeldAt, Sides, PopAt
  <2>2. Passed("sync", s) <= Passed("sync", s)'
    BY <1>1, <1>5, <2>1 DEF Passed
  <2>3. buf'[SyncedOf(s)] = buf[SyncedOf(s)]
    BY <1>1, <1>6, Names DEF Sides
  <2>4. \A t \in Users : got'[t][s] = got[t][s] /\ Passed(t, s) <= Passed(t, s)'
    BY <1>1, <1>2, <2>2 DEF Users
  <2>5. QED
    BY <1>1, <1>3, <1>4, <2>3, <2>4, ChainRest
<1>7. CASE s = v
  <2>1. Holds("sync", s) = 1 /\ Holds("sync", s)' = 0
    BY <1>1, <1>7 DEF Holds, HeldAt, Sides, PopAt
  <2>2. Passed("sync", s) = got["sync"][s] - 1 /\ Passed("sync", s)' = got["sync"][s]
    BY <1>1, <1>5, <2>1 DEF Passed
  <2>3. Run(buf[SyncedOf(s)], got["writer"][s], Passed("sync", s)) /\ Passed("sync", s) < got["sync"][s]
    BY <1>5, <2>2 DEF Chain
  <2>4. /\ Run(Append(buf[SyncedOf(s)], got["sync"][s]), got["writer"][s], got["sync"][s])
        /\ buf[SyncedOf(s)] # <<>>
             => Run(Append(Tail(buf[SyncedOf(s)]), got["sync"][s]), got["writer"][s], got["sync"][s])
    BY <1>5, <2>3, RunPush
  <2>5. Run(buf'[SyncedOf(s)], got'["writer"][s], Passed("sync", s)')
    BY <1>1, <1>7, <2>2, <2>4
  <2>6. Run(buf'[CamOf(s)], got'["sync"][s], Sent(s)')
    BY <1>1, <1>3, <1>4 DEF Chain
  <2>7. Files(s, Passed("writer", s))'
    BY <1>1, <1>2 DEF Chain, Files
  <2>8. QED
    BY <2>5, <2>6, <2>7 DEF Chain
<1>8. QED
  BY <1>6, <1>7

\* What is held at the places a successful pop leads through.
LEMMA PopHeld ==
    ASSUME NEW t \in Users
    PROVE  /\ \A s \in Sides : <<"pop", LeftOf(t)>> \notin HeldAt(t, s) /\ <<"both">> \in HeldAt(t, s)
           /\ <<"pop", RightOf(t)>> \in HeldAt(t, "left") /\ <<"pop", RightOf(t)>> \notin HeldAt(t, "right")
<1>1. LeftOf(t) # RightOf(t)
  BY Names
<1>2. <<"pop", LeftOf(t)>> \notin PopAt(RightOf(t)) /\ <<"pop", RightOf(t)>> \in PopAt(RightOf(t))
  BY <1>1 DEF PopAt
<1>3. QED
  BY <1>2 DEF HeldAt

\* A frame that is taken separates what its taker has passed on from what is
\* behind it in the buffer.
LEMMA ChainPop ==
    ASSUME Shape, Shape', NEW s \in Sides, Chain(s), NEW t \in Users,
           NEW b \in {LeftOf(t), RightOf(t)}, PopTake(t, b)
    PROVE  Chain(s)'
<1>1. PICK v \in Sides :
         /\ b = BufferOf(t, v) /\ b \in Buffers
         /\ pc[t] = <<"pop", b>>
         /\ pc' = [pc EXCEPT ![t] = IF v = "left" THEN <<"pop", RightOf(t)>> ELSE <<"both">>]
         /\ buf[b] # <<>> /\ buf' = [buf EXCEPT ![b] = Tail(buf[b])]
         /\ got' \in [Users -> Frames] /\ got'[t][v] = Head(buf[b])
         /\ \A u \in Users, w \in Sides : u # t \/ w # v => got'[u][w] = got[u][w]
         /\ Head(buf[b]) \in Nat /\ buf' \in [Buffers -> Seq(Nat)]
         /\ UNCHANGED <<id, accepted, written, is_running, handler, overrun>>
  BY PopEffect
<1>2. pc \in [Threads -> AllPcs] /\ buf \in [Buffers -> Seq(Nat)]
  BY DEF Shape, PcShape
<1>3. \A u \in Threads \ {t} : SamePop(pc[u], pc'[u])
  BY <1>1, <1>2 DEF SamePop
<1>4. Sent(s)' = Sent(s) /\ Sent(s) <= Sent(s)'
  <2>1. SamePop(pc[s], pc'[s]) /\ id'[s] = id[s]
    BY <1>1, <1>3, Names DEF Sides, Users
  <2>2. QED
    BY <2>1, SentSame
<1>5. \A u \in Users \ {t} : /\ Passed(u, s)' = Passed(u, s) /\ Passed(u, s) <= Passed(u, s)'
                             /\ got'[u][s] = got[u][s]
  BY <1>1, <1>3, Names, PassedSame, SMTT(30)
<1>6. \A c \in Buffers \ {b} : buf'[c] = buf[c]
  <2>1. buf' = [buf EXCEPT ![b] = Tail(buf[b])]
    BY <1>1
  <2>2. QED
    BY <1>2, <2>1
<1>7. pc'[t] = IF v = "left" THEN <<"pop", RightOf(t)>> ELSE <<"both">>
  BY <1>1, <1>2, Names
<1>8. /\ got["sync"][s] \in Nat /\ got["writer"][s] \in Nat /\ got[t][s] \in Nat
      /\ buf[SyncedOf(s)] \in Seq(Nat) /\ buf[CamOf(s)] \in Seq(Nat)
      /\ Passed("sync", s) \in Int /\ Sent(s) \in Int /\ Holds(t, s) \in {0, 1}
  BY LineType, Names DEF Users
<1>9. CASE s # v
  <2>1. Holds(t, s)' = Holds(t, s)
    <3>1. pc[t] \in HeldAt(t, s) <=> pc'[t] \in HeldAt(t, s)
      <4>1. CASE v = "left" /\ s = "right"
        <5>1. pc[t] = <<"pop", LeftOf(t)>> /\ pc'[t] = <<"pop", RightOf(t)>>
          BY <1>1, <1>7, <4>1 DEF BufferOf
        <5>2. QED
          BY <4>1, <5>1, PopHeld DEF Sides
      <4>2. CASE v = "right" /\ s = "left"
        <5>1. pc[t] = <<"pop", RightOf(t)>> /\ pc'[t] = <<"both">>
          BY <1>1, <1>7, <4>2 DEF BufferOf
        <5>2. QED
          BY <4>2, <5>1, PopHeld DEF Sides
      <4>3. QED
        BY <1>9, <4>1, <4>2 DEF Sides
    <3>2. QED
      BY <3>1 DEF Holds
  <2>2. got'[t][s] = got[t][s] /\ Passed(t, s) <= Passed(t, s)'
    BY <1>1, <1>8, <1>9, <2>1 DEF Passed
  <2>3. \A u \in Users : got'[u][s] = got[u][s] /\ Passed(u, s) <= Passed(u, s)'
    BY <1>5, <2>2
  <2>4. CamOf(s) # b /\ SyncedOf(s) # b
    BY <1>1, <1>9, Names DEF Sides, Users, BufferOf, LeftOf, RightOf, CamOf, SyncedOf
  <2>5. buf'[CamOf(s)] = buf[CamOf(s)] /\ buf'[SyncedOf(s)] = buf[SyncedOf(s)]
    BY <1>6, <2>4, Names
  <2>6. QED
    BY <1>1, <1>4, <2>3, <2>5, ChainRest
<1>10. CASE s = v
  <2>1. Holds(t, s) = 0 /\ Holds(t, s)' = 1
    <3>1. pc[t] \notin HeldAt(t, s) /\ pc'[t] \in HeldAt(t, s)
      BY <1>1, <1>7, <1>10, PopHeld DEF Sides, BufferOf
    <3>2. QED
      BY <3>1 DEF Holds
  <2>2. Passed(t, s) = got[t][s] /\ Passed(t, s)' = Head(buf[b]) - 1
    <3>1. got'[t][s] = Head(buf[b])
      BY <1>1, <1>10
    <3>2. QED
      BY <2>1, <3>1, <1>8 DEF Passed
  <2>3. /\ Run(buf[CamOf(s)], got["sync"][s], Sent(s))
        /\ Run(buf[SyncedOf(s)], got["writer"][s], Passed("sync", s))
        /\ Files(s, Passed("writer", s))
    BY DEF Chain
  <2>4. CASE t = "sync"
    <3>1. b = CamOf(s) /\ SyncedOf(s) # b /\ buf'[b] = Tail(buf[b])
      BY <1>1, <1>2, <1>10, <2>4, Names
    <3>2. /\ Run(Tail(buf[b]), Head(buf[b]), Sent(s)) /\ Head(buf[b]) \in Nat
          /\ got["sync"][s] < Head(buf[b])
      BY <1>1, <1>8, <2>3, <3>1, RunTail
    <3>3. Run(buf'[CamOf(s)], got'["sync"][s], Sent(s)')
      BY <1>1, <1>4, <1>10, <2>4, <3>1, <3>2
    <3>4. Passed("sync", s)' \in Int /\ Passed("sync", s) <= Passed("sync", s)'
      BY <1>8, <2>2, <2>4, <3>2
    <3>5. Run(buf[SyncedOf(s)], got["writer"][s], Passed("sync", s)')
      BY <1>8, <2>3, <3>4, RunWiden
    <3>6. /\ Run(buf'[SyncedOf(s)], got'["writer"][s], Passed("sync", s)')
          /\ Passed("writer", s)' = Passed("writer", s)
      BY <1>5, <1>6, <2>4, <3>1, <3>5, Names DEF Users
    <3>7. Files(s, Passed("writer", s))'
      BY <1>1, <2>3, <3>6 DEF Files
    <3>8. QED
      BY <3>3, <3>6, <3>7 DEF Chain
  <2>5. CASE t = "writer"
    <3>1. b = SyncedOf(s) /\ CamOf(s) # b /\ buf'[b] = Tail(buf[b])
      BY <1>1, <1>2, <1>10, <2>5, Names
    <3>2. /\ Run(Tail(buf[b]), Head(buf[b]), Passed("sync", s)) /\ Head(buf[b]) \in Nat
          /\ got["writer"][s] < Head(buf[b])
      BY <1>1, <1>8, <2>3, <3>1, RunTail
    <3>3. /\ Run(buf'[CamOf(s)], got'["sync"][s], Sent(s)')
          /\ Passed("sync", s)' = Passed("sync", s)
      BY <1>4, <1>5, <1>6, <2>3, <2>5, <3>1, Names DEF Users
    <3>4. Run(buf'[SyncedOf(s)], got'["writer"][s], Passed("sync", s)')
      BY <1>1, <1>10, <2>5, <3>1, <3>2, <3>3
    <3>5. Files(s, Passed("writer", s))'
      <4>1. got["writer"][s] <= Head(buf[b]) - 1 /\ 0 <= Head(buf[b]) - 1
        BY <1>8, <3>2
      <4>2. /\ \A j \in DOMAIN written : written[j][s] <= got["writer"][s] /\ written[j][s] \in Nat
            /\ \A j, k \in DOMAIN written : j < k => written[j][s] < written[k][s]
        BY <2>2, <2>3, <2>5, LineType DEF Files
      <4>3. \A j \in DOMAIN written : written[j][s] <= Head(buf[b]) - 1
        BY <1>8, <3>2, <4>1, <4>2
      <4>4. Passed("writer", s)' = Head(buf[b]) - 1 /\ written' = written
        BY <1>1, <2>2, <2>5
      <4>5. QED
        BY <4>1, <4>2, <4>3, <4>4 DEF Files
    <3>6. QED
      BY <3>3, <3>4, <3>5 DEF Chain
  <2>6. QED
    BY <2>4, <2>5 DEF Users
<1>11. QED
  BY <1>9, <1>10

\* The pair that matches stays in the synchronizer's hands.
LEMMA ChainMatch ==
    ASSUME Shape, Shape', NEW s \in Sides, Chain(s), Match
    PROVE  Chain(s)'
<1>1. /\ UNCHANGED <<buf, id, got, written>> /\ pc["sync"] = <<"both">>
      /\ pc' = [pc EXCEPT !["sync"] = <<"push", "left">>] /\ pc \in [Threads -> AllPcs]
  BY DEF Match, Goto, Shape, PcShape
<1>2. \A t \in Threads \ {"sync"} : SamePop(pc[t], pc'[t])
  BY <1>1 DEF SamePop
<1>3. Sent(s) <= Sent(s)'
  BY <1>1, <1>2, SentSame DEF Sides, Threads
<1>4. Passed("writer", s) <= Passed("writer", s)'
  BY <1>1, <1>2, PassedSame DEF Users, Threads
<1>5. Holds("sync", s)' = Holds("sync", s)
  BY <1>1 DEF Holds, HeldAt, Threads, PopAt
<1>6. Passed("sync", s) \in Int
  BY LineType DEF Users
<1>7. Passed("sync", s) <= Passed("sync", s)'
  BY <1>1, <1>5, <1>6 DEF Passed
<1>8. \A t \in Users : got'[t][s] = got[t][s] /\ Passed(t, s) <= Passed(t, s)'
  BY <1>1, <1>4, <1>7 DEF Users
<1>9. QED
  BY <1>1, <1>3, <1>8, ChainRest

\* The writer's pair follows all files.
LEMMA ChainWrite ==
    ASSUME Shape, Shape', NEW s \in Sides, Chain(s), Write
    PROVE  Chain(s)'
<1>1. /\ UNCHANGED <<buf, id, got>> /\ pc["writer"] = <<"both">>
      /\ pc' = [pc EXCEPT !["writer"] = <<"loop">>] /\ pc \in [Threads -> AllPcs]
      /\ written' = Append(written, got["writer"])
  BY DEF Write, Goto, Shape, PcShape
<1>2. \A t \in Threads \ {"writer"} : SamePop(pc[t], pc'[t])
  BY <1>1 DEF SamePop
<1>3. Sent(s)' = Sent(s)
  BY <1>1, <1>2, SentSame DEF Sides, Threads
<1>4. Passed("sync", s)' = Passed("sync", s)
  BY <1>1, <1>2, PassedSame DEF Users, Threads
<1>5. Holds("writer", s) = 1 /\ Holds("writer", s)' = 0
  BY <1>1 DEF Holds, HeldAt, Threads, PopAt
<1>6. /\ got["writer"][s] \in Nat /\ got["writer"] \in Frames /\ written \in Seq(Frames)
      /\ \A j \in DOMAIN written : written[j][s] \in Nat
  BY LineType DEF Users, Shape
<1>7. Passed("writer", s) = got["writer"][s] - 1 /\ Passed("writer", s)' = got["writer"][s]
  BY <1>1, <1>5, <1>6 DEF Passed
<1>8. /\ \A j \in DOMAIN written : written[j][s] <= got["writer"][s] - 1
      /\ \A j, k \in DOMAIN written : j < k => written[j][s] < written[k][s]
  BY <1>7 DEF Chain, Files
<1>9. \A j \in DOMAIN written : written[j][s] < got["writer"][s]
  BY <1>6, <1>8
<1>10. PICK n \in Nat : n = Len(written)
  BY <1>6
<1>11. /\ DOMAIN written = 1 .. n /\ DOMAIN written' = 1 .. n + 1
       /\ written'[n + 1] = got["writer"] /\ \A j \in 1 .. n : written'[j] = written[j]
  BY <1>1, <1>6, <1>10, AppendProperties
<1>12. \A j \in 1 .. n + 1 : j \in 1 .. n \/ j = n + 1
  OBVIOUS
<1>13. \A j \in DOMAIN written' : written'[j][s] <= got["writer"][s]
  BY <1>6, <1>9, <1>11, <1>12
<1>14. ASSUME NEW j \in 1 .. n + 1, NEW k \in 1 .. n + 1, j < k
       PROVE  written'[j][s] < written'[k][s]
  <2>1. j \in 1 .. n
    BY <1>14
  <2>2. CASE k \in 1 .. n
    BY <1>8, <1>11, <1>14, <2>1, <2>2
  <2>3. CASE k = n + 1
    BY <1>9, <1>11, <2>1, <2>3
  <2>4. QED
    BY <1>12, <2>2, <2>3
<1>15. 0 <= got["writer"][s]
  BY <1>6
<1>16. Files(s, Passed("writer", s))'
  BY <1>7, <1>11, <1>13, <1>14, <1>15 DEF Files
<1>17. QED
  BY <1>1, <1>3, <1>4, <1>16 DEF Chain

-----------------------------------------------------------------------------
\* The counts of the pairs are numbers.
LEMMA CountType ==
    ASSUME Shape, NEW s \in Sides
    PROVE  /\ Len(accepted) \in Nat /\ DOMAIN accepted = 1 .. Len(accepted)
           /\ Len(written) \in Nat /\ DOMAIN written = 1 .. Len(written)
           /\ Len(buf[SyncedOf(s)]) \in Nat /\ buf[SyncedOf(s)] \in Seq(Nat)
           /\ DOMAIN buf[SyncedOf(s)] = 1 .. Len(buf[SyncedOf(s)])
           /\ In(s) \in Int /\ In(s) <= Len(accepted) /\ Out(s) \in Nat
           /\ Holds("writer", s) \in {0, 1}
<1>1. /\ accepted \in Seq(Frames) /\ written \in Seq(Frames) /\ buf[SyncedOf(s)] \in Seq(Nat)
      /\ Holds("writer", s) \in {0, 1}
  BY LineType, Names DEF Users
<1>2. Len(accepted) \in Nat /\ Len(written) \in Nat
  BY <1>1
<1>3. In(s) \in Int /\ In(s) <= Len(accepted) /\ Out(s) \in Nat
  BY <1>1, <1>2 DEF In, Out
<1>4. QED
  BY <1>1, <1>2, <1>3

\* A pair is its two frames.
LEMMA SamePair ==
    ASSUME NEW f \in Frames, NEW g \in Frames, f["left"] = g["left"], f["right"] = g["right"]
    PROVE  f = g
  BY DEF Frames

\* The frames of a side that does not move stay where they are.
LEMMA AlignedRest ==
    ASSUME Shape, NEW s \in Sides, Aligned(s),
           pc'["writer"] # <<"done">> => pc["writer"] # <<"done">> /\ Holds("writer", s)' = Holds("writer", s),
           buf'[SyncedOf(s)] = buf[SyncedOf(s)], got'["writer"][s] = got["writer"][s],
           In(s)' = In(s), written' = written,
           \A k \in 1 .. Len(accepted) : accepted'[k] = accepted[k]
    PROVE  Aligned(s)'
<1> SUFFICES ASSUME pc'["writer"] # <<"done">>
             PROVE  /\ Len(buf'[SyncedOf(s)]) = In(s)' - Out(s)'
                    /\ \A j \in DOMAIN buf'[SyncedOf(s)] :
                          buf'[SyncedOf(s)][j] = accepted'[Out(s)' + j][s]
                    /\ Holds("writer", s)' = 1 => got'["writer"][s] = accepted'[Out(s)'][s]
  BY DEF Aligned
<1>1. /\ Len(buf[SyncedOf(s)]) = In(s) - Out(s)
      /\ \A j \in DOMAIN buf[SyncedOf(s)] : buf[SyncedOf(s)][j] = accepted[Out(s) + j][s]
      /\ Holds("writer", s) = 1 => got["writer"][s] = accepted[Out(s)][s]
  BY DEF Aligned
<1>2. Holds("writer", s)' = Holds("writer", s)
  OBVIOUS
<1>3. Out(s)' = Out(s)
  BY <1>2 DEF Out
<1>4. \A j \in DOMAIN buf[SyncedOf(s)] : Out(s) + j \in 1 .. Len(accepted)
  BY <1>1, CountType
<1>5. Holds("writer", s) = 1 => Out(s) \in 1 .. Len(accepted)
  <2>1. Holds("writer", s) = 1 => Out(s) >= 1
    BY CountType DEF Out
  <2>2. QED
    BY <1>1, <2>1, CountType
<1>6. QED
  BY <1>1, <1>2, <1>3, <1>4, <1>5

\* A quiet step moves no pair.
LEMMA PairsQuiet ==
    ASSUME Shape, Pairs, Quiet
    PROVE  Pairs'
<1>1. UNCHANGED <<buf, id, got, accepted, written, overrun>>
  BY DEF Quiet
<1>2. ASSUME NoDrop, NEW s \in Sides PROVE Aligned(s)'
  <2>1. pc'["writer"] # <<"done">> =>
            pc["writer"] # <<"done">> /\ Holds("writer", s)' = Holds("writer", s)
    BY DEF Quiet, Holds, Users
  <2>2. In(s)' = In(s)
    BY <1>1 DEF Quiet, In
  <2>3. Aligned(s)
    BY <1>2 DEF Pairs
  <2>4. QED
    BY <1>1, <2>1, <2>2, <2>3, AlignedRest
<1>3. NoDrop' <=> NoDrop
  BY <1>1 DEF NoDrop
<1>4. pc'["sync"] \in UnpushedAt("right") => pc["sync"] \in UnpushedAt("right")
  BY DEF Quiet, Sides
<1>5. QED
  BY <1>1, <1>2, <1>3, <1>4 DEF Pairs

\* Neither does a camera.
LEMMA PairsCamera ==
    ASSUME Shape, Capacity, Pairs, NEW c \in Sides, Capture(c) \/ CameraPush(c)
    PROVE  Pairs'
<1>1. /\ UNCHANGED <<got, accepted, written>>
      /\ \A s \in Sides : buf'[SyncedOf(s)] = buf[SyncedOf(s)]
      /\ NoDrop' <=> NoDrop
      /\ \A t \in Users : SamePop(pc[t], pc'[t])
  <2>1. CASE Capture(c)
    <3>1. pc' = [pc EXCEPT ![c] = <<"push">>] /\ UNCHANGED <<buf, got, accepted, written, overrun>>
      BY <2>1 DEF Capture, Goto
    <3>2. pc \in [Threads -> AllPcs]
      BY DEF Shape, PcShape
    <3>3. QED
      BY <3>1, <3>2 DEF NoDrop, SamePop, Users, Sides, Threads
  <2>2. CASE CameraPush(c)
    <3>1. /\ Push(c, CamOf(c), id[c], <<"push">>, <<"loop">>) /\ id[c] \in Nat
          /\ CamOf(c) \in Buffers /\ c \in Threads /\ c # User(CamOf(c)) /\ <<"loop">> \in AllPcs
          /\ UNCHANGED <<id, got, accepted, written>>
      BY <2>2, Names DEF CameraPush, CamOf, Sides, Shape, User, AllPcs, CameraPcs
    <3>2. /\ \A u \in Threads \ {c} : SamePop(pc[u], pc'[u])
          /\ \A b \in Buffers \ {CamOf(c)} : buf'[b] = buf[b]
          /\ overrun' = overrun \/ overrun' = overrun \cup {CamOf(c)}
      BY <3>1, PushEffect
    <3>3. NoDrop' <=> NoDrop
      BY <3>2 DEF NoDrop, CamOf
    <3>4. QED
      BY <3>1, <3>2, <3>3, Names DEF Users, Sides, Threads
  <2>3. QED
    BY <2>1, <2>2
<1>2. /\ \A s \in Sides : /\ pc["sync"] \in UnpushedAt(s) <=> pc'["sync"] \in UnpushedAt(s)
                          /\ Holds("writer", s)' = Holds("writer", s)
      /\ pc["writer"] = <<"done">> <=> pc'["writer"] = <<"done">>
  BY <1>1, SameHolds DEF Users, Holds
<1>3. ASSUME NoDrop, NEW s \in Sides PROVE Aligned(s)'
  <2>1. In(s)' = In(s)
    BY <1>1, <1>2 DEF In
  <2>2. Aligned(s)
    BY <1>3 DEF Pairs
  <2>3. QED
    BY <1>1, <1>2, <2>1, <2>2, AlignedRest
<1>4. QED
  BY <1>1, <1>2, <1>3 DEF Pairs, Sides

\* An accepted pair is one more to push, in the synchronizer's hands.
LEMMA PairsMatch ==
    ASSUME Shape, Pairs, Match
    PROVE  Pairs'
<1>1. /\ UNCHANGED <<buf, got, written, overrun>> /\ pc["sync"] = <<"both">>
      /\ pc'["sync"] = <<"push", "left">> /\ pc'["writer"] = pc["writer"]
      /\ accepted' = Append(accepted, got["sync"])
  BY DEF Match, Goto, Shape, PcShape, Threads
<1>2. accepted \in Seq(Frames) /\ got["sync"] \in Frames
  BY DEF Shape, Users
<1>3. PICK n \in Nat : n = Len(accepted)
  BY <1>2
<1>4. /\ Len(accepted') = n + 1 /\ accepted'[n + 1] = got["sync"]
      /\ \A k \in 1 .. n : accepted'[k] = accepted[k]
      /\ DOMAIN accepted' = 1 .. n + 1 /\ DOMAIN accepted = 1 .. n
  BY <1>1, <1>2, <1>3, AppendProperties
<1>5. ASSUME NEW s \in Sides PROVE In(s)' = In(s)
  <2>1. pc["sync"] \notin UnpushedAt(s) /\ pc'["sync"] \in UnpushedAt(s)
    BY <1>1 DEF UnpushedAt
  <2>2. In(s) = n /\ In(s)' = (n + 1) - 1
    BY <1>3, <1>4, <2>1 DEF In
  <2>3. QED
    BY <2>2
<1>6. ASSUME NoDrop, NEW s \in Sides PROVE Aligned(s)'
  <2>1. Holds("writer", s)' = Holds("writer", s)
    BY <1>1 DEF Holds
  <2>2. Aligned(s)
    BY <1>6 DEF Pairs
  <2>3. QED
    BY <1>1, <1>3, <1>4, <1>5, <2>1, <2>2, AlignedRest
<1>7. ASSUME NoDrop, NEW k \in DOMAIN written
      PROVE  k \in DOMAIN accepted' /\ written[k] = accepted'[k]
  <2>1. k \in DOMAIN accepted /\ written[k] = accepted[k]
    BY <1>7 DEF Pairs
  <2>2. k \in 1 .. n /\ k \in 1 .. n + 1
    BY <1>4, <2>1
  <2>3. QED
    BY <1>4, <2>1, <2>2
<1>8. accepted' # <<>> /\ got'["sync"] = accepted'[Len(accepted')]
  <2>1. accepted' # <<>>
    BY <1>4
  <2>2. QED
    BY <1>1, <1>4, <2>1
<1>9. NoDrop' <=> NoDrop
  BY <1>1 DEF NoDrop
<1>10. QED
  BY <1>1, <1>6, <1>7, <1>8, <1>9 DEF Pairs

\* A pushed frame takes its place behind those of its side, unless the push
\* drops one.
LEMMA PairsSyncPush ==
    ASSUME Shape, Capacity, Pairs, NEW v \in Sides, SyncPush(v)
    PROVE  Pairs'
<1>1. /\ pc["sync"] = <<"push", v>>
      /\ pc'["sync"] = IF v = "left" THEN <<"push", "right">> ELSE <<"loop">>
      /\ \A u \in Threads \ {"sync"} : SamePop(pc[u], pc'[u])
      /\ \A b \in Buffers \ {SyncedOf(v)} : buf'[b] = buf[b]
      /\ \/ /\ buf'[SyncedOf(v)] = Append(buf[SyncedOf(v)], got["sync"][v])
            /\ overrun' = overrun
         \/ /\ buf[SyncedOf(v)] # <<>>
            /\ buf'[SyncedOf(v)] = Append(Tail(buf[SyncedOf(v)]), got["sync"][v])
            /\ overrun' = overrun \cup {SyncedOf(v)}
      /\ UNCHANGED <<id, got, accepted, written>>
  BY SyncPushEffect
<1> SUFFICES ASSUME NoDrop'
             PROVE  /\ \A s \in Sides : Aligned(s)'
                    /\ \A k \in DOMAIN written : k \in DOMAIN accepted /\ written[k] = accepted[k]
                    /\ pc'["sync"] \in UnpushedAt("right") =>
                            accepted # <<>> /\ got["sync"] = accepted[Len(accepted)]
  BY <1>1 DEF Pairs
<1>2. /\ buf'[SyncedOf(v)] = Append(buf[SyncedOf(v)], got["sync"][v]) /\ overrun' = overrun
  BY <1>1 DEF NoDrop, SyncedOf
<1>3. NoDrop
  BY <1>2 DEF NoDrop
<1>4. /\ \A s \in Sides : Aligned(s)
      /\ \A k \in DOMAIN written : k \in DOMAIN accepted /\ written[k] = accepted[k]
      /\ accepted # <<>> /\ got["sync"] = accepted[Len(accepted)]
  BY <1>1, <1>3 DEF Pairs, UnpushedAt, Sides
<1>5. \A s \in Sides : Holds("writer", s)' = Holds("writer", s)
  <2>1. \A s \in Sides : pc["writer"] \in HeldAt("writer", s) <=> pc'["writer"] \in HeldAt("writer", s)
    BY <1>1, SameHolds DEF Users, Threads
  <2>2. QED
    BY <2>1 DEF Holds
<1>6. pc["writer"] = <<"done">> <=> pc'["writer"] = <<"done">>
  BY <1>1, SameHolds DEF Threads
<1>7. ASSUME NEW s \in Sides, s # v PROVE Aligned(s)'
  <2>1. In(s)' = In(s)
    BY <1>1, <1>7 DEF In, UnpushedAt, Sides
  <2>2. buf'[SyncedOf(s)] = buf[SyncedOf(s)]
    BY <1>1, <1>7, Names DEF Sides
  <2>3. QED
    BY <1>1, <1>4, <1>5, <1>6, <2>1, <2>2, AlignedRest
<1>8. Aligned(v)'
  <2> SUFFICES ASSUME pc'["writer"] # <<"done">>
               PROVE  /\ Len(buf'[SyncedOf(v)]) = In(v)' - Out(v)'
                      /\ \A j \in DOMAIN buf'[SyncedOf(v)] :
                            buf'[SyncedOf(v)][j] = accepted'[Out(v)' + j][v]
                      /\ Holds("writer", v)' = 1 => got'["writer"][v] = accepted'[Out(v)'][v]
    BY DEF Aligned
  <2>1. /\ Len(buf[SyncedOf(v)]) = In(v) - Out(v)
        /\ \A j \in DOMAIN buf[SyncedOf(v)] : buf[SyncedOf(v)][j] = accepted[Out(v) + j][v]
        /\ Holds("writer", v) = 1 => got["writer"][v] = accepted[Out(v)][v]
    BY <1>4, <1>6 DEF Aligned
  <2>2. In(v) = Len(accepted) - 1 /\ In(v)' = Len(accepted)
    <3>1. pc["sync"] \in UnpushedAt(v) /\ pc'["sync"] \notin UnpushedAt(v)
      BY <1>1 DEF UnpushedAt, Sides
    <3>2. QED
      BY <1>1, <3>1, CountType DEF In
  <2>3. Out(v)' = Out(v)
    BY <1>1, <1>5 DEF Out
  <2>4. PICK n \in Nat : n = Len(buf[SyncedOf(v)])
    BY CountType
  <2>5. /\ DOMAIN buf'[SyncedOf(v)] = 1 .. n + 1 /\ Len(buf'[SyncedOf(v)]) = n + 1
        /\ DOMAIN buf[SyncedOf(v)] = 1 .. n
        /\ buf'[SyncedOf(v)][n + 1] = got["sync"][v]
        /\ \A j \in 1 .. n : buf'[SyncedOf(v)][j] = buf[SyncedOf(v)][j]
    <3>1. buf[SyncedOf(v)] \in Seq(Nat) /\ got["sync"][v] \in Nat
      BY LineType, Names DEF Users
    <3>2. QED
      BY <1>2, <2>4, <3>1, AppendProperties
  <2>6. Len(accepted) \in Nat /\ Out(v) \in Nat
    BY CountType
  <2>7. n + 1 = In(v)' - Out(v)' /\ Out(v) + (n + 1) = Len(accepted)
    BY <2>1, <2>2, <2>3, <2>4, <2>6
  <2>8. got["sync"][v] = accepted[Out(v) + (n + 1)][v]
    BY <1>4, <2>7
  <2>9. \A j \in 1 .. n + 1 : j \in 1 .. n \/ j = n + 1
    OBVIOUS
  <2>10. \A j \in 1 .. n + 1 : buf'[SyncedOf(v)][j] = accepted[Out(v) + j][v]
    BY <2>1, <2>5, <2>8, <2>9
  <2>11. QED
    BY <1>1, <1>5, <2>1, <2>3, <2>5, <2>7, <2>10
<1>9. QED
  BY <1>4, <1>7, <1>8

\* The frame a pop takes was the next one of its side.
LEMMA PairsPop ==
    ASSUME Shape, Pairs, NEW t \in Users, NEW b \in {LeftOf(t), RightOf(t)}, PopTake(t, b)
    PROVE  Pairs'
<1>1. PICK v \in Sides :
         /\ b = BufferOf(t, v) /\ b \in Buffers
         /\ pc[t] = <<"pop", b>>
         /\ pc' = [pc EXCEPT ![t] = IF v = "left" THEN <<"pop", RightOf(t)>> ELSE <<"both">>]
         /\ buf[b] # <<>> /\ buf' = [buf EXCEPT ![b] = Tail(buf[b])]
         /\ got' \in [Users -> Frames] /\ got'[t][v] = Head(buf[b])
         /\ \A u \in Users, w \in Sides : u # t \/ w # v => got'[u][w] = got[u][w]
         /\ Head(buf[b]) \in Nat /\ buf' \in [Buffers -> Seq(Nat)]
         /\ UNCHANGED <<id, accepted, written, is_running, handler, overrun>>
  BY PopEffect
<1>2. pc \in [Threads -> AllPcs] /\ buf \in [Buffers -> Seq(Nat)]
  BY DEF Shape, PcShape
<1>3. pc'[t] = (IF v = "left" THEN <<"pop", RightOf(t)>> ELSE <<"both">>) /\ pc[t] = <<"pop", b>>
  BY <1>1, <1>2, Names
<1>4. NoDrop' <=> NoDrop
  BY <1>1 DEF NoDrop
<1>5. CASE t = "sync"
  <2>1. \A s \in Sides : In(s)' = In(s)
    BY <1>1, <1>3, <1>5 DEF In, UnpushedAt, RightOf, LeftOf
  <2>2. \A s \in Sides : buf'[SyncedOf(s)] = buf[SyncedOf(s)]
    BY <1>1, <1>2, <1>5, Names
  <2>3. pc'["writer"] = pc["writer"] /\ \A s \in Sides : Holds("writer", s)' = Holds("writer", s)
    BY <1>1, <1>2, <1>5 DEF Holds
  <2>4. \A s \in Sides : got'["writer"][s] = got["writer"][s]
    BY <1>1, <1>5 DEF Users
  <2>5. ASSUME NoDrop, NEW s \in Sides PROVE Aligned(s)'
    <3>1. Aligned(s)
      BY <2>5 DEF Pairs
    <3>2. QED
      BY <1>1, <2>1, <2>2, <2>3, <2>4, <3>1, AlignedRest
  <2>6. pc'["sync"] \notin UnpushedAt("right")
    BY <1>3, <1>5 DEF UnpushedAt, RightOf
  <2>7. QED
    BY <1>1, <1>4, <2>5, <2>6 DEF Pairs
<1>6. CASE t = "writer"
  <2>1. pc'["sync"] = pc["sync"] /\ \A s \in Sides : In(s)' = In(s)
    BY <1>1, <1>2, <1>6 DEF In
  <2>2. got'["sync"] = got["sync"]
    <3>1. got'["sync"] \in Frames /\ got["sync"] \in Frames
      BY <1>1 DEF Shape, Users
    <3>2. got'["sync"]["left"] = got["sync"]["left"] /\ got'["sync"]["right"] = got["sync"]["right"]
      BY <1>1, <1>6 DEF Users, Sides
    <3>3. QED
      BY <3>1, <3>2 DEF Frames
  <2>3. pc["writer"] # <<"done">> /\ pc'["writer"] # <<"done">>
    BY <1>3, <1>6
  <2>4. ASSUME NoDrop, NEW s \in Sides, s # v PROVE Aligned(s)'
    <3>1. Aligned(s)
      BY <2>4 DEF Pairs
    <3>2. buf'[SyncedOf(s)] = buf[SyncedOf(s)] /\ got'["writer"][s] = got["writer"][s]
      <4>1. SyncedOf(s) # b /\ SyncedOf(s) \in Buffers
        BY <1>1, <1>6, <2>4, Names DEF Sides
      <4>2. QED
        BY <1>1, <1>2, <2>4, <4>1 DEF Users
    <3>3. Holds("writer", s)' = Holds("writer", s)
      <4>1. pc["writer"] \in HeldAt("writer", s) <=> pc'["writer"] \in HeldAt("writer", s)
        <5>1. CASE v = "left" /\ s = "right"
          <6>1. pc[t] = <<"pop", LeftOf(t)>> /\ pc'[t] = <<"pop", RightOf(t)>>
            BY <1>1, <1>3, <5>1 DEF BufferOf
          <6>2. QED
            BY <1>6, <5>1, <6>1, PopHeld DEF Sides
        <5>2. CASE v = "right" /\ s = "left"
          <6>1. pc[t] = <<"pop", RightOf(t)>> /\ pc'[t] = <<"both">>
            BY <1>1, <1>3, <5>2 DEF BufferOf
          <6>2. QED
            BY <1>6, <5>2, <6>1, PopHeld DEF Sides
        <5>3. QED
          BY <2>4, <5>1, <5>2 DEF Sides
      <4>2. QED
        BY <4>1 DEF Holds
    <3>4. QED
      BY <1>1, <2>1, <2>3, <3>1, <3>2, <3>3, AlignedRest
  <2>5. ASSUME NoDrop PROVE Aligned(v)'
    <3>1. b = SyncedOf(v) /\ got'["writer"][v] = Head(buf[b]) /\ buf'[b] = Tail(buf[b])
      BY <1>1, <1>2, <1>6, Names
    <3>2. /\ Len(buf[b]) = In(v) - Out(v)
          /\ \A j \in DOMAIN buf[b] : buf[b][j] = accepted[Out(v) + j][v]
      BY <2>3, <2>5, <3>1 DEF Pairs, Aligned
    <3>3. Holds("writer", v) = 0 /\ Holds("writer", v)' = 1
      <4>1. pc[t] \notin HeldAt(t, v) /\ pc'[t] \in HeldAt(t, v)
        BY <1>1, <1>3, PopHeld DEF Sides, BufferOf
      <4>2. QED
        BY <1>6, <4>1 DEF Holds
    <3>4. Out(v)' = Out(v) + 1 /\ Out(v) \in Nat /\ In(v) \in Int
      <4>1. Len(written) \in Nat /\ Out(v) \in Nat /\ In(v) \in Int
        BY CountType
      <4>2. QED
        BY <1>1, <3>3, <4>1 DEF Out
    <3>5. PICK n \in Nat \ {0} : /\ n = Len(buf[b]) /\ Len(Tail(buf[b])) = n - 1
                                 /\ DOMAIN buf[b] = 1 .. n /\ DOMAIN Tail(buf[b]) = 1 .. n - 1
                                 /\ Head(buf[b]) = buf[b][1]
                                 /\ \A j \in 1 .. n - 1 : Tail(buf[b])[j] = buf[b][j + 1]
      BY <1>1, <1>2, HeadTailProperties, EmptySeq
    <3>6. Len(buf'[b]) = In(v)' - Out(v)'
      BY <2>1, <3>1, <3>2, <3>4, <3>5
    <3>7. ASSUME NEW j \in DOMAIN buf'[b] PROVE buf'[b][j] = accepted'[Out(v)' + j][v]
      <4>1. j \in 1 .. n - 1 /\ j + 1 \in 1 .. n
        BY <3>1, <3>5, <3>7
      <4>2. buf'[b][j] = accepted[Out(v) + (j + 1)][v]
        BY <3>1, <3>2, <3>5, <4>1
      <4>3. Out(v) + (j + 1) = Out(v)' + j
        BY <3>4, <4>1
      <4>4. QED
        BY <1>1, <4>2, <4>3
    <3>8. got'["writer"][v] = accepted'[Out(v)'][v]
      <4>1. 1 \in DOMAIN buf[b]
        BY <3>5
      <4>2. QED
        BY <1>1, <3>1, <3>2, <3>4, <3>5, <4>1
    <3>9. QED
      BY <3>1, <3>6, <3>7, <3>8 DEF Aligned
  <2>6. \A s \in Sides : NoDrop => Aligned(s)'
    BY <2>4, <2>5
  <2>7. QED
    BY <1>1, <1>4, <2>1, <2>2, <2>6 DEF Pairs
<1>7. QED
  BY <1>5, <1>6 DEF Users

\* The pair in the writer's hands is the one after those written.
LEMMA PairsWrite ==
    ASSUME Shape, Pairs, Write
    PROVE  Pairs'
<1>1. /\ UNCHANGED <<buf, got, accepted, overrun>> /\ pc["writer"] = <<"both">>
      /\ pc'["writer"] = <<"loop">> /\ pc'["sync"] = pc["sync"]
      /\ written' = Append(written, got["writer"])
  BY DEF Write, Goto, Shape, PcShape, Threads
<1>2. /\ written \in Seq(Frames) /\ got["writer"] \in Frames /\ accepted \in Seq(Frames)
  BY DEF Shape, Users
<1>3. PICK n \in Nat : n = Len(written)
  BY <1>2
<1>4. /\ Len(written') = n + 1 /\ written'[n + 1] = got["writer"]
      /\ \A k \in 1 .. n : written'[k] = written[k]
      /\ DOMAIN written' = 1 .. n + 1 /\ DOMAIN written = 1 .. n
  BY <1>1, <1>2, <1>3, AppendProperties
<1>5. ASSUME NEW s \in Sides
      PROVE  /\ Out(s) = n + 1 /\ Out(s)' = n + 1 /\ In(s)' = In(s)
             /\ Holds("writer", s) = 1 /\ Holds("writer", s)' = 0
  <2>1. pc["writer"] \in HeldAt("writer", s) /\ pc'["writer"] \notin HeldAt("writer", s)
    BY <1>1 DEF HeldAt, PopAt
  <2>2. Holds("writer", s) = 1 /\ Holds("writer", s)' = 0
    BY <2>1 DEF Holds
  <2>3. QED
    BY <1>1, <1>3, <1>4, <2>2 DEF In, Out
<1>6. ASSUME NoDrop, NEW s \in Sides
      PROVE  /\ Aligned(s)' /\ n + 1 \in DOMAIN accepted
             /\ got["writer"][s] = accepted[n + 1][s]
  <2>1. /\ Len(buf[SyncedOf(s)]) = In(s) - Out(s)
        /\ \A j \in DOMAIN buf[SyncedOf(s)] : buf[SyncedOf(s)][j] = accepted[Out(s) + j][s]
        /\ Holds("writer", s) = 1 => got["writer"][s] = accepted[Out(s)][s]
    BY <1>1, <1>6 DEF Pairs, Aligned
  <2>2. n + 1 \in DOMAIN accepted
    BY <1>5, <2>1, CountType
  <2>3. Aligned(s)'
    BY <1>1, <1>5, <2>1 DEF Aligned
  <2>4. QED
    BY <1>5, <2>1, <2>2, <2>3
<1>7. ASSUME NoDrop PROVE n + 1 \in DOMAIN accepted /\ got["writer"] = accepted[n + 1]
  <2>1. /\ n + 1 \in DOMAIN accepted
        /\ got["writer"]["left"] = accepted[n + 1]["left"]
        /\ got["writer"]["right"] = accepted[n + 1]["right"]
    BY <1>6, <1>7 DEF Sides
  <2>2. accepted[n + 1] \in Frames
    BY <1>2, <2>1
  <2>3. QED
    BY <1>2, <2>1, <2>2, SamePair
<1>8. ASSUME NoDrop, NEW k \in DOMAIN written'
      PROVE  k \in DOMAIN accepted /\ written'[k] = accepted[k]
  <2>1. CASE k \in 1 .. n
    BY <1>4, <1>8, <2>1 DEF Pairs
  <2>2. CASE k = n + 1
    BY <1>4, <1>7, <1>8, <2>2
  <2>3. QED
    BY <1>4, <1>8, <2>1, <2>2
<1>9. NoDrop' <=> NoDrop
  BY <1>1 DEF NoDrop
<1>10. QED
  BY <1>1, <1>6, <1>8, <1>9 DEF Pairs

-----------------------------------------------------------------------------
\* A thread holds only frames its camera has created.
LEMMA HeldIds ==
    ASSUME Shape, NEW s \in Sides, Chain(s), NEW t \in Users, pc[t] \in HeldAt(t, s)
    PROVE  got[t][s] \in Ids
<1>1. /\ got["sync"][s] <= Sent(s) /\ got["writer"][s] <= Passed("sync", s)
      /\ 0 <= Passed("writer", s)
  BY DEF Chain, Run, Files
<1>2. /\ Passed("sync", s) = got["sync"][s] - Holds("sync", s)
      /\ Passed("writer", s) = got["writer"][s] - Holds("writer", s)
      /\ Holds("sync", s) \in {0, 1} /\ Holds("writer", s) \in {0, 1} /\ Holds(t, s) = 1
  BY LineType DEF Passed, Holds, Users
<1>3. /\ got["sync"][s] \in Nat /\ got["writer"][s] \in Nat
      /\ Sent(s) \in Int /\ Sent(s) <= id[s] /\ id[s] \in 0 .. MaxFrames
  BY LineType DEF Users
<1>4. CASE t = "sync"
  BY <1>1, <1>2, <1>3, <1>4, MaxFramesAssumption DEF Ids
<1>5. CASE t = "writer"
  BY <1>1, <1>2, <1>3, <1>5, MaxFramesAssumption DEF Ids
<1>6. QED
  BY <1>4, <1>5 DEF Users

\* A pair that is accepted or written has real frames.
LEMMA RealStep ==
    ASSUME Shape, \A s \in Sides : Chain(s), RealIds, RealFiles, [Next]_vars
    PROVE  RealIds' /\ RealFiles'
<1>1. ASSUME NEW t \in Users, pc[t] = <<"both">> PROVE got[t] \in Pair /\ got[t] \in Frames
  <2>1. \A s \in Sides : got[t][s] \in Ids
    BY <1>1, HeldIds, PopHeld
  <2>2. got[t]["left"] \in Ids /\ got[t]["right"] \in Ids /\ got[t] \in Frames
    BY <2>1 DEF Sides, Shape
  <2>3. QED
    BY <2>2 DEF Pair, Frames
<1>2. CASE Match
  <2>1. /\ accepted' = Append(accepted, got["sync"]) /\ written' = written
        /\ got["sync"] \in Pair /\ got["sync"] \in Frames /\ accepted \in Seq(Frames)
    BY <1>1, <1>2 DEF Match, Goto, Users, Shape
  <2>2. PICK n \in Nat : n = Len(accepted)
    BY <2>1
  <2>3. /\ DOMAIN accepted' = 1 .. n + 1 /\ accepted'[n + 1] = got["sync"]
        /\ DOMAIN accepted = 1 .. n /\ \A k \in 1 .. n : accepted'[k] = accepted[k]
    BY <2>1, <2>2, AppendProperties
  <2>4. \A k \in 1 .. n + 1 : k \in 1 .. n \/ k = n + 1
    OBVIOUS
  <2>5. QED
    BY <2>1, <2>3, <2>4 DEF RealIds, RealFiles
<1>3. CASE Write
  <2>1. /\ written' = Append(written, got["writer"]) /\ accepted' = accepted
        /\ got["writer"] \in Pair /\ got["writer"] \in Frames /\ written \in Seq(Frames)
    BY <1>1, <1>3 DEF Write, Goto, Users, Shape
  <2>2. PICK n \in Nat : n = Len(written)
    BY <2>1
  <2>3. /\ DOMAIN written' = 1 .. n + 1 /\ written'[n + 1] = got["writer"]
        /\ DOMAIN written = 1 .. n /\ \A k \in 1 .. n : written'[k] = written[k]
    BY <2>1, <2>2, AppendProperties
  <2>4. \A k \in 1 .. n + 1 : k \in 1 .. n \/ k = n + 1
    OBVIOUS
  <2>5. QED
    BY <2>1, <2>3, <2>4 DEF RealIds, RealFiles
<1>4. CASE UNCHANGED <<accepted, written>>
  BY <1>4 DEF RealIds, RealFiles
<1>5. \A t \in Users : \A b \in {LeftOf(t), RightOf(t)} : PopTake(t, b) => UNCHANGED <<accepted, written>>
  BY DEF PopTake
<1>6. QED
  BY <1>2, <1>3, <1>4, <1>5 DEF Quiet, Capture, CameraPush, SyncPushLeft, SyncPushRight, PopTake,
    Next, Camera, Sync, Writer, Popping, Sides, Users, vars, LeaveLoop, Enter, PopEmpty,
    PopWait, NoMatch, Spurious, Sigint, Broadcast, Join

-----------------------------------------------------------------------------
\* All is empty at the start.
LEMMA InitIInv == Init => IInv
<1> SUFFICES ASSUME Init PROVE IInv
  OBVIOUS
<1>1. Shape
  <2>1. PcShape
    BY DEF Init, PcShape, Threads, AllPcs, CameraPcs, SyncPcs, WriterPcs
  <2>2. buf \in [Buffers -> Seq(Nat)] /\ accepted \in Seq(Frames) /\ written \in Seq(Frames)
    BY DEF Init
  <2>3. id \in [Sides -> 0 .. MaxFrames]
    BY MaxFramesAssumption DEF Init, Sides
  <2>4. got \in [Users -> Frames]
    BY DEF Init, Users, Frames
  <2>5. handler \in Seq(Buffers)
    BY DEF Init, Broadcasts, Buffers
  <2>6. QED
    BY <2>1, <2>2, <2>3, <2>4, <2>5 DEF Init, Shape
<1>2. Capacity
  BY SizeAssumption DEF Init, Capacity
<1>3. ASSUME NEW s \in Sides PROVE Chain(s)
  <2>1. /\ buf[CamOf(s)] = <<>> /\ buf[SyncedOf(s)] = <<>> /\ written = <<>>
        /\ got["sync"][s] = 0 /\ got["writer"][s] = 0 /\ id[s] = 0
        /\ pc["sync"] = <<"loop">> /\ pc["writer"] = <<"loop">> /\ pc[s] = <<"loop">>
    <3>1. buf[CamOf(s)] = <<>> /\ buf[SyncedOf(s)] = <<>> /\ written = <<>>
      BY Names DEF Init
    <3>2. s \in {"left", "right"} /\ id[s] = 0
      BY DEF Init, Sides
    <3>3. got["sync"] = [left |-> 0, right |-> 0] /\ got["writer"] = [left |-> 0, right |-> 0]
      BY DEF Init
    <3>4. pc["sync"] = <<"loop">> /\ pc["writer"] = <<"loop">> /\ pc[s] = <<"loop">>
      BY DEF Init, Sides, Threads
    <3>5. QED
      BY <3>1, <3>2, <3>3, <3>4
  <2>2. Sent(s) = 0 /\ Passed("sync", s) = 0 /\ Passed("writer", s) = 0
    <3>1. \A t : <<"loop">> \notin HeldAt(t, s)
      BY DEF HeldAt, PopAt
    <3>2. Holds("sync", s) = 0 /\ Holds("writer", s) = 0
      BY <2>1, <3>1 DEF Holds
    <3>3. Pushing(s) = 0
      BY <2>1 DEF Pushing
    <3>4. QED
      BY <2>1, <3>2, <3>3 DEF Sent, Passed
  <2>3. Run(<<>>, 0, 0)
    BY DEF Run
  <2>4. Files(s, 0)
    BY <2>1 DEF Files
  <2>5. QED
    BY <2>1, <2>2, <2>3, <2>4 DEF Chain
<1>4. Pairs
  <2>1. ASSUME NEW s \in Sides PROVE Aligned(s)
    <3>1. /\ buf[SyncedOf(s)] = <<>> /\ written = <<>> /\ accepted = <<>>
          /\ pc["sync"] = <<"loop">> /\ pc["writer"] = <<"loop">>
      BY Names DEF Init, Threads
    <3>2. In(s) = 0 /\ Out(s) = 0 /\ Holds("writer", s) = 0
      BY <3>1 DEF In, Out, Holds, HeldAt, UnpushedAt, PopAt
    <3>3. QED
      BY <3>1, <3>2 DEF Aligned
  <2>2. written = <<>> /\ pc["sync"] \notin UnpushedAt("right")
    BY DEF Init, Threads, UnpushedAt
  <2>3. QED
    BY <2>1, <2>2 DEF Pairs
<1>5. RealIds /\ RealFiles
  BY DEF Init, RealIds, RealFiles
<1>6. QED
  BY <1>1, <1>2, <1>3, <1>4, <1>5 DEF IInv

\* And every step keeps the invariant.
LEMMA NextIInv == IInv /\ [Next]_vars => IInv'
<1> SUFFICES ASSUME IInv, [Next]_vars PROVE IInv'
  OBVIOUS
<1>1. Shape /\ Capacity /\ (\A s \in Sides : Chain(s)) /\ Pairs /\ RealIds /\ RealFiles
  BY DEF IInv
<1>2. Shape' /\ Capacity' /\ RealIds' /\ RealFiles'
  BY <1>1, ShapeStep, CapacityStep, RealStep
<1>3. (\A s \in Sides : Chain(s)') /\ Pairs'
  <2>1. CASE Quiet
    BY <1>1, <1>2, <2>1, ChainQuiet, PairsQuiet
  <2>2. ASSUME NEW c \in Sides, Capture(c) \/ CameraPush(c)
        PROVE  (\A s \in Sides : Chain(s)') /\ Pairs'
    BY <1>1, <1>2, <2>2, ChainCapture, ChainCameraPush, PairsCamera
  <2>3. ASSUME NEW t \in Users, NEW b \in {LeftOf(t), RightOf(t)}, PopTake(t, b)
        PROVE  (\A s \in Sides : Chain(s)') /\ Pairs'
    BY <1>1, <1>2, <2>3, ChainPop, PairsPop
  <2>4. CASE Match
    BY <1>1, <1>2, <2>4, ChainMatch, PairsMatch
  <2>5. ASSUME NEW v \in Sides, SyncPush(v) PROVE (\A s \in Sides : Chain(s)') /\ Pairs'
    BY <1>1, <1>2, <2>5, ChainSyncPush, PairsSyncPush
  <2>6. CASE Write
    BY <1>1, <1>2, <2>6, ChainWrite, PairsWrite
  <2>7. SyncPushLeft => SyncPush("left")
    BY DEF SyncPush
  <2>8. SyncPushRight => SyncPush("right")
    BY DEF SyncPush
  <2>9. "left" \in Sides /\ "right" \in Sides
    BY DEF Sides
  <2>10. QED
    BY <1>1, <2>1, <2>2, <2>3, <2>4, <2>5, <2>6, <2>7, <2>8, <2>9, QuietOrFrame
<1>4. QED
  BY <1>2, <1>3 DEF IInv

\* The ids of each side form one line through the pipeline, and while nothing
\* is dropped behind the synchronizer its buffers hold the accepted pairs.
THEOREM IInvHolds == Spec => []IInv
<1>1. QED
  BY InitIInv, NextIInv, PTL DEF Spec

\* The type invariant follows.
LEMMA TypeFollows == IInv => TypeOK
<1> SUFFICES ASSUME IInv PROVE TypeOK
  OBVIOUS
<1>1. Shape /\ Capacity /\ (\A s \in Sides : Chain(s)) /\ RealIds /\ RealFiles
  BY DEF IInv
<1>2. ASSUME NEW s \in Sides
      PROVE  /\ got["sync"][s] \in 0 .. MaxFrames /\ got["writer"][s] \in 0 .. MaxFrames
             /\ ElementsOf(buf[CamOf(s)]) \subseteq Ids /\ ElementsOf(buf[SyncedOf(s)]) \subseteq Ids
  <2>1. /\ Run(buf[CamOf(s)], got["sync"][s], Sent(s))
        /\ Run(buf[SyncedOf(s)], got["writer"][s], Passed("sync", s))
    BY <1>1 DEF Chain
  <2>2. /\ got["sync"][s] \in Nat /\ got["writer"][s] \in Nat /\ Sent(s) \in Int
        /\ Sent(s) <= id[s] /\ id[s] \in 0 .. MaxFrames
        /\ Passed("sync", s) = got["sync"][s] - Holds("sync", s) /\ Holds("sync", s) \in {0, 1}
        /\ buf[CamOf(s)] \in Seq(Nat) /\ buf[SyncedOf(s)] \in Seq(Nat)
    BY <1>1, LineType, Names DEF Users, Passed
  <2>3. Sent(s) <= MaxFrames /\ got["sync"][s] <= Sent(s) /\ Passed("sync", s) <= MaxFrames
    <3>1. got["sync"][s] <= Sent(s)
      BY <2>1 DEF Run
    <3>2. QED
      BY <2>2, <3>1, MaxFramesAssumption
  <2>4. got["writer"][s] <= Passed("sync", s)
    BY <2>1 DEF Run
  <2>5. ASSUME NEW q \in Seq(Nat), NEW lo \in Nat, NEW hi \in Int, Run(q, lo, hi), hi <= MaxFrames
        PROVE  ElementsOf(q) \subseteq Ids
    <3>1. \A j \in DOMAIN q : q[j] \in Nat /\ lo < q[j] /\ q[j] <= hi
      BY <2>5 DEF Run
    <3>2. \A j \in DOMAIN q : q[j] \in Ids
      BY <2>5, <3>1, MaxFramesAssumption DEF Ids
    <3>3. QED
      BY <3>2 DEF ElementsOf
  <2>6. Passed("sync", s) \in Int
    BY <2>2
  <2>7. ElementsOf(buf[CamOf(s)]) \subseteq Ids /\ ElementsOf(buf[SyncedOf(s)]) \subseteq Ids
    BY <2>1, <2>2, <2>3, <2>5, <2>6
  <2>8. QED
    BY <2>2, <2>3, <2>4, <2>6, <2>7, MaxFramesAssumption
<1>3. \A b \in Buffers : ElementsOf(buf[b]) \subseteq Ids
  BY <1>2 DEF Buffers, Sides, CamOf, SyncedOf
<1>4. got \in [{"sync", "writer"} -> [left : 0 .. MaxFrames, right : 0 .. MaxFrames]]
  <2>1. got \in [Users -> Frames]
    BY <1>1 DEF Shape
  <2>2. \A t \in Users : got[t]["left"] \in 0 .. MaxFrames /\ got[t]["right"] \in 0 .. MaxFrames
    BY <1>2 DEF Users, Sides
  <2>3. \A t \in Users : got[t] \in [left : 0 .. MaxFrames, right : 0 .. MaxFrames]
    BY <2>1, <2>2 DEF Frames
  <2>4. QED
    BY <2>1, <2>3 DEF Users
<1>5. ElementsOf(accepted) \cup ElementsOf(written) \subseteq Pair
  BY <1>1 DEF RealIds, RealFiles, ElementsOf
<1>6. ElementsOf(handler) \cup overrun \subseteq Buffers
  BY <1>1 DEF Shape, ElementsOf
<1>7. DOMAIN pc = Threads /\ DOMAIN buf = Buffers /\ is_running \in BOOLEAN
      /\ id \in [{"left", "right"} -> 0 .. MaxFrames]
  BY <1>1 DEF Shape, PcShape, Sides
<1>8. QED
  BY <1>1, <1>3, <1>4, <1>5, <1>6, <1>7 DEF TypeOK, Capacity

\* Frames reach the disk at most once and in the order they were taken, for
\* any buffer size; and as long as neither of the synchronizer's buffers drops
\* a frame, every pair on disk is one the synchronizer accepted.
THEOREM PairsInOrderHolds == Spec => []PairsInOrder
<1>1. IInv => PairsInOrder
  <2> SUFFICES ASSUME IInv PROVE PairsInOrder
    OBVIOUS
  <2>1. \A s \in Sides : \A j, k \in DOMAIN written : j < k => written[j][s] < written[k][s]
    BY DEF IInv, Chain, Files
  <2>2. \A j, k \in DOMAIN written :
            j < k => /\ written[j].left < written[k].left /\ written[j].right < written[k].right
    BY <2>1 DEF Sides
  <2>3. NoDrop => ElementsOf(written) \subseteq ElementsOf(accepted)
    BY DEF IInv, Pairs, ElementsOf
  <2>4. QED
    BY <2>2, <2>3, TypeFollows DEF PairsInOrder, NoDrop
<1>2. QED
  BY <1>1, IInvHolds, PTL
=============================================================================
