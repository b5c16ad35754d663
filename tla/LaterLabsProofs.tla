-------------------------- MODULE LaterLabsProofs --------------------------
(***************************************************************************)
(* Safety of the programs of LaterLabs, for any bounds and any sets of     *)
(* clients and processes.                                                  *)
(*                                                                         *)
(* The programs share nothing: each has an invariant of its own, that its  *)
(* own steps preserve and that the steps of the others do not touch.       *)
(***************************************************************************)
EXTENDS LaterLabs, BufferLemmas, WellFoundedInduction

-----------------------------------------------------------------------------
(***************************************************************************)
(* Lab 6, level 1, RobotLevel1.                                            *)
(*                                                                         *)
(* A pair is written twice only if the writer takes it when no longer new, *)
(* and frames are paired wrongly only if a semaphore counts what is not    *)
(* there: the invariant counts the posts of either semaphore against the   *)
(* frames captured, and follows one pair from the synchronizer to the      *)
(* writer through the two statements of each.                              *)
(***************************************************************************)
\* Every thread is at a statement of its own function.
Level1Shape ==
    /\ {frame, id, read, pair, got} \subseteq Level1!Pairs /\ frame = id
    /\ sem \in [Level1!Cameras -> Nat]
    /\ has_new_sync_pair \in BOOLEAN
    /\ accepted \in Seq(Level1!Pairs) /\ written \in Seq(Level1!Pairs)
    /\ DOMAIN pc1 = Level1!Threads
    /\ \A c \in Level1!Cameras : pc1[c] \in {"loop", "capture", "post", "done"}
    /\ pc1["sync"] \in {"loop", "wait_left", "wait_right", "check", "copy", "publish",
                       "publish_right", "done"}
    /\ pc1["writer"] \in {"loop", "look", "take_right", "write", "done"}
    /\ mpc1 \in {"sleep", "post_left", "post_right", "join", "done"}
    /\ is_running1 = (mpc1 = "sleep")

\* sync_mutex is held by the thread that is between its two statements.
Level1Mutex ==
    /\ ~(pc1["sync"] = "publish_right" /\ pc1["writer"] = "take_right")
    /\ sync_mutex = IF pc1["sync"] = "publish_right" THEN "sync"
                    ELSE IF pc1["writer"] = "take_right" THEN "writer" ELSE "free"

\* Posts of c's semaphore that are not its camera's, and what the synchronizer
\* has taken from it and not yet turned into a pair.
Woken(c) == IF mpc1 = "sleep" \/ mpc1 = "post_left" \/ (c = "right" /\ mpc1 = "post_right")
            THEN 0 ELSE 1
Unposted(c) == IF pc1[c] = "post" THEN 1 ELSE 0
Held(c) == IF \/ pc1["sync"] \in {"check", "copy", "publish", "publish_right"}
              \/ c = "left" /\ pc1["sync"] = "wait_right" THEN 1 ELSE 0

\* Every frame is posted once: what is on a semaphore, taken by the
\* synchronizer, published or still to be posted has been captured, but for
\* the post by which main wakes the synchronizer.
Tokens == \A c \in Level1!Cameras :
    sem[c] + Held(c) + Len(accepted) + Unposted(c) <= id[c] + Woken(c)

\* Once past the test of is_running the synchronizer has a frame of each
\* camera beyond those of the pairs published.
Fresh ==
    /\ pc1["sync"] = "copy" => \A c \in Level1!Cameras : id[c] > Len(accepted)
    /\ pc1["sync"] \in {"publish", "publish_right"} =>
          \A c \in Level1!Cameras : read[c] > Len(accepted)
    /\ \A k \in 1 .. Len(accepted) : accepted[k]["left"] >= k /\ accepted[k]["right"] >= k

\* pair is the last pair published, unless half of it has been replaced; the
\* writer has taken half of it only while it is new.
Latest ==
    /\ pc1["sync"] = "publish_right" => pair["left"] = read["left"]
    /\ has_new_sync_pair => Len(accepted) > 0
    /\ has_new_sync_pair /\ pc1["sync"] # "publish_right" => pair = accepted[Len(accepted)]
    /\ pc1["writer"] = "take_right" => has_new_sync_pair /\ got["left"] = pair["left"]

\* What the writer has written or is about to, and how many of the published
\* pairs it may have come by.
Taken == IF pc1["writer"] = "write" THEN Append(written, got) ELSE written
Settled == IF has_new_sync_pair THEN Len(accepted) - 1 ELSE Len(accepted)

\* w is some of the first n elements of s, in their order.
Selects(w, s, n) == \E f \in [1 .. Len(w) -> 1 .. n] :
    /\ \A j, k \in 1 .. Len(w) : j < k => f[j] < f[k]
    /\ \A j \in 1 .. Len(w) : w[j] = s[f[j]]

\* The pairs taken are published pairs, each once and in order.
InOrder == Selects(Taken, accepted, Settled)

\* The invariant of level 1.
Level1Inv == Level1Shape /\ Level1Mutex /\ Tokens /\ Fresh /\ Latest /\ InOrder

\* The invariant holds before the threads start.
LEMMA Level1InitInv ==
    Level1!Init => Level1Inv
<1> USE RobotAssumption
<1>1. SUFFICES ASSUME Level1!Init PROVE Level1Inv
  OBVIOUS
<1>2. Level1Shape
  <2>1. Level1!NoFrames \in Level1!Pairs
    BY DEF Level1!NoFrames, Level1!Pairs, Level1!Frames
  <2>2. {frame, id, read, pair, got} \subseteq Level1!Pairs /\ frame = id
    BY <1>1, <2>1 DEF Level1!Init
  <2>3. sem \in [Level1!Cameras -> Nat] /\ accepted \in Seq(Level1!Pairs)
          /\ written \in Seq(Level1!Pairs)
    BY <1>1 DEF Level1!Init, Level1!NoFrames, Level1!Cameras
  <2>4. QED
    BY <1>1, <2>2, <2>3 DEF Level1!Init, Level1Shape, Level1!Cameras, Level1!Threads
<1>3. Level1Mutex /\ Fresh /\ Latest
  BY <1>1
     DEF Level1!Init, Level1!NoFrames, Level1Mutex, Fresh, Latest, Level1!Threads,
         Level1!Cameras
<1>4. Tokens
  BY <1>1
     DEF Level1!Init, Level1!NoFrames, Tokens, Woken, Held, Unposted, Level1!Threads,
         Level1!Cameras
<1>5. InOrder
  <2>1. Taken = <<>> /\ Settled = 0 /\ Len(<<>>) = 0
    BY <1>1 DEF Level1!Init, Taken, Settled, Level1!Threads
  <2>2. Selects(<<>>, accepted, 0)
    <3>1. SUFFICES \E f \in [1 .. 0 -> 1 .. 0] : /\ \A j, k \in 1 .. 0 : j < k => f[j] < f[k]
                                                 /\ \A j \in 1 .. 0 : <<>>[j] = accepted[f[j]]
      BY <2>1 DEF Selects
    <3>2. \A j \in 1 .. 0 : FALSE
      OBVIOUS
    <3> WITNESS [k \in 1 .. 0 |-> 0] \in [1 .. 0 -> 1 .. 0]
    <3>3. QED
      BY <3>2
  <2>3. QED
    BY <2>1, <2>2 DEF InOrder
<1>6. QED
  BY <1>2, <1>3, <1>4, <1>5 DEF Level1Inv

\* Every step keeps the threads at their own statements.
LEMMA Level1ShapeStep ==
    ASSUME Level1Inv, Level1!Next
    PROVE  Level1Shape'
<1> USE RobotAssumption DEF Level1Inv, Level1Shape, Level1!Pairs, Level1!Frames, Level1!Cameras,
        Level1!Threads, Level1!Goto, Level1!Acquire, Level1!Release, Level1!Main, Level1!data,
        Level1!history
<1>1. ASSUME NEW c \in Level1!Cameras, Level1!Loop(c, "capture") PROVE Level1Shape'
  BY <1>1 DEF Level1!Loop
<1>2. ASSUME NEW c \in Level1!Cameras, Level1!Capture(c) PROVE Level1Shape'
  <2>1. id' \in Level1!Pairs /\ frame' = id'
    BY <1>2 DEF Level1!Capture
  <2>2. UNCHANGED <<sem, read, pair, has_new_sync_pair, got, mpc1, is_running1, Level1!history>>
    BY <1>2 DEF Level1!Capture
  <2>3. /\ DOMAIN pc1' = Level1!Threads
        /\ \A d \in Level1!Cameras : pc1'[d] \in {"loop", "capture", "post", "done"}
    BY <1>2 DEF Level1!Capture
  <2>4. pc1'["sync"] = pc1["sync"] /\ pc1'["writer"] = pc1["writer"]
    BY <1>2 DEF Level1!Capture
  <2>5. QED
    BY <2>1, <2>2, <2>3, <2>4
<1>3. ASSUME NEW c \in Level1!Cameras, Level1!CaptureNoMore(c) PROVE Level1Shape'
  BY <1>3 DEF Level1!CaptureNoMore
<1>4. ASSUME NEW c \in Level1!Cameras, Level1!Post(c) PROVE Level1Shape'
  <2>1. sem' \in [Level1!Cameras -> Nat]
    BY <1>4 DEF Level1!Post
  <2>2. UNCHANGED <<frame, id, read, pair, has_new_sync_pair, got, mpc1, is_running1,
                    Level1!history>>
    BY <1>4 DEF Level1!Post
  <2>3. /\ DOMAIN pc1' = Level1!Threads
        /\ \A d \in Level1!Cameras : pc1'[d] \in {"loop", "capture", "post", "done"}
    BY <1>4 DEF Level1!Post
  <2>4. pc1'["sync"] = pc1["sync"] /\ pc1'["writer"] = pc1["writer"]
    BY <1>4 DEF Level1!Post
  <2>5. QED
    BY <2>1, <2>2, <2>3, <2>4
<1>5. CASE Level1!Loop("sync", "wait_left")
  BY <1>5 DEF Level1!Loop
<1>6. CASE Level1!WaitLeft
  BY <1>6 DEF Level1!WaitLeft, Level1!Wait
<1>7. CASE Level1!WaitRight
  BY <1>7 DEF Level1!WaitRight, Level1!Wait
<1>8. CASE Level1!Check
  BY <1>8 DEF Level1!Check
<1>9. CASE Level1!Copy
  BY <1>9 DEF Level1!Copy
<1>10. CASE Level1!PublishLeft
  BY <1>10 DEF Level1!PublishLeft
<1>11. CASE Level1!PublishRight
  <2>1. pair' \in Level1!Pairs
    <3>1. pair' = [pair EXCEPT !["right"] = read["right"]] /\ pair \in Level1!Pairs
            /\ read \in Level1!Pairs
      BY <1>11 DEF Level1!PublishRight
    <3>2. QED
      BY <3>1
  <2>2. accepted' \in Seq(Level1!Pairs)
    BY <1>11 DEF Level1!PublishRight
  <2>3. UNCHANGED <<frame, id, sem, read, got, mpc1, is_running1, written>> /\ has_new_sync_pair'
    BY <1>11 DEF Level1!PublishRight
  <2>4. /\ DOMAIN pc1' = Level1!Threads /\ pc1'["sync"] = "loop" /\ pc1'["writer"] = pc1["writer"]
        /\ \A d \in Level1!Cameras : pc1'[d] = pc1[d]
    BY <1>11 DEF Level1!PublishRight
  <2>5. has_new_sync_pair' \in BOOLEAN
    BY <1>11 DEF Level1!PublishRight
  <2>6. QED
    BY <2>1, <2>2, <2>3, <2>4, <2>5
<1>12. CASE Level1!Loop("writer", "look")
  BY <1>12 DEF Level1!Loop
<1>13. CASE Level1!NothingNew
  BY <1>13 DEF Level1!NothingNew
<1>14. CASE Level1!TakeLeft
  BY <1>14 DEF Level1!TakeLeft
<1>15. CASE Level1!TakeRight
  <2>1. got' \in Level1!Pairs
    BY <1>15 DEF Level1!TakeRight
  <2>2. has_new_sync_pair' = FALSE
    BY <1>15 DEF Level1!TakeRight
  <2>3. /\ DOMAIN pc1' = Level1!Threads /\ pc1'["writer"] = "write" /\ pc1'["sync"] = pc1["sync"]
        /\ \A d \in Level1!Cameras : pc1'[d] = pc1[d]
    BY <1>15 DEF Level1!TakeRight
  <2>4. UNCHANGED <<frame, id, sem, read, pair, mpc1, is_running1, Level1!history>>
    BY <1>15 DEF Level1!TakeRight
  <2>5. QED
    BY <2>1, <2>2, <2>3, <2>4
<1>16. CASE Level1!Write
  BY <1>16 DEF Level1!Write
<1>17. CASE Level1!Stop
  BY <1>17 DEF Level1!Stop
<1>18. CASE Level1!WakeLeft
  <2>1. sem' \in [Level1!Cameras -> Nat]
    BY <1>18 DEF Level1!WakeLeft
  <2>2. QED
    BY <1>18, <2>1 DEF Level1!WakeLeft
<1>19. CASE Level1!WakeRight
  <2>1. sem' \in [Level1!Cameras -> Nat]
    BY <1>19 DEF Level1!WakeRight
  <2>2. QED
    BY <1>19, <2>1 DEF Level1!WakeRight
<1>20. CASE Level1!Join
  BY <1>20 DEF Level1!Join
<1>. QED
  BY <1>1, <1>2, <1>3, <1>4, <1>5, <1>6, <1>7, <1>8, <1>9, <1>10, <1>11, <1>12, <1>13, <1>14,
     <1>15, <1>16, <1>17, <1>18, <1>19, <1>20
     DEF Level1!Next, Level1!Camera, Level1!Sync, Level1!Writer, Level1!MainStep

\* Every step keeps sync_mutex with whoever is between two statements.
LEMMA Level1MutexStep ==
    ASSUME Level1Inv, Level1!Next
    PROVE  Level1Mutex'
<1> USE DEF Level1Inv, Level1Shape, Level1Mutex, Level1!Cameras, Level1!Threads, Level1!Goto,
        Level1!Acquire, Level1!Release, Level1!Main, Level1!data, Level1!history
<1>1. ASSUME NEW c \in Level1!Cameras, Level1!Loop(c, "capture") PROVE Level1Mutex'
  BY <1>1 DEF Level1!Loop
<1>2. ASSUME NEW c \in Level1!Cameras, Level1!Capture(c) PROVE Level1Mutex'
  BY <1>2 DEF Level1!Capture
<1>3. ASSUME NEW c \in Level1!Cameras, Level1!CaptureNoMore(c) PROVE Level1Mutex'
  BY <1>3 DEF Level1!CaptureNoMore
<1>4. ASSUME NEW c \in Level1!Cameras, Level1!Post(c) PROVE Level1Mutex'
  BY <1>4 DEF Level1!Post
<1>5. CASE Level1!Loop("sync", "wait_left")
  BY <1>5 DEF Level1!Loop
<1>6. CASE Level1!WaitLeft
  BY <1>6 DEF Level1!WaitLeft, Level1!Wait
<1>7. CASE Level1!WaitRight
  BY <1>7 DEF Level1!WaitRight, Level1!Wait
<1>8. CASE Level1!Check
  BY <1>8 DEF Level1!Check
<1>9. CASE Level1!Copy
  BY <1>9 DEF Level1!Copy
<1>10. CASE Level1!PublishLeft
  BY <1>10 DEF Level1!PublishLeft
<1>11. CASE Level1!PublishRight
  BY <1>11 DEF Level1!PublishRight
<1>12. CASE Level1!Loop("writer", "look")
  BY <1>12 DEF Level1!Loop
<1>13. CASE Level1!NothingNew
  BY <1>13 DEF Level1!NothingNew
<1>14. CASE Level1!TakeLeft
  BY <1>14 DEF Level1!TakeLeft
<1>15. CASE Level1!TakeRight
  BY <1>15 DEF Level1!TakeRight
<1>16. CASE Level1!Write
  BY <1>16 DEF Level1!Write
<1>17. CASE Level1!Stop
  BY <1>17 DEF Level1!Stop
<1>18. CASE Level1!WakeLeft
  BY <1>18 DEF Level1!WakeLeft
<1>19. CASE Level1!WakeRight
  BY <1>19 DEF Level1!WakeRight
<1>20. CASE Level1!Join
  BY <1>20 DEF Level1!Join
<1>. QED
  BY <1>1, <1>2, <1>3, <1>4, <1>5, <1>6, <1>7, <1>8, <1>9, <1>10, <1>11, <1>12, <1>13, <1>14,
     <1>15, <1>16, <1>17, <1>18, <1>19, <1>20
     DEF Level1!Next, Level1!Camera, Level1!Sync, Level1!Writer, Level1!MainStep

\* The numbers Tokens relates are natural numbers.
LEMMA TokenTypes ==
    ASSUME Level1Shape, NEW d \in Level1!Cameras
    PROVE  /\ sem[d] \in Nat /\ id[d] \in Nat /\ id[d] <= MaxFrames /\ Len(accepted) \in Nat
           /\ Woken(d) \in 0 .. 1 /\ Held(d) \in 0 .. 1 /\ Unposted(d) \in 0 .. 1
<1>1. id[d] \in 0 .. MaxFrames
  BY DEF Level1Shape, Level1!Pairs, Level1!Frames
<1>2. QED
  BY <1>1, RobotAssumption DEF Level1Shape, Woken, Held, Unposted

\* No step takes a frame twice or makes one of nothing.
LEMMA TokensStep ==
    ASSUME Level1Inv, Level1!Next
    PROVE  Tokens'
<1>0. \A d \in Level1!Cameras :
        /\ sem[d] \in Nat /\ id[d] \in Nat /\ id[d] <= MaxFrames /\ Len(accepted) \in Nat
        /\ Woken(d) \in 0 .. 1 /\ Held(d) \in 0 .. 1 /\ Unposted(d) \in 0 .. 1
        /\ sem[d] + Held(d) + Len(accepted) + Unposted(d) <= id[d] + Woken(d)
  BY TokenTypes DEF Level1Inv, Tokens
<1> USE DEF Level1Inv, Level1Shape, Level1!Cameras, Level1!Threads, Level1!Goto, Level1!Main,
        Level1!data, Level1!history
<1>1. ASSUME NEW c \in Level1!Cameras, Level1!Loop(c, "capture") PROVE Tokens'
  BY <1>1 DEF Level1!Loop, Tokens, Held, Woken, Unposted
<1>2. ASSUME NEW c \in Level1!Cameras, Level1!Capture(c) PROVE Tokens'
  <2>1. accepted' = accepted /\ sem' = sem /\ \A d \in Level1!Cameras : Held(d)' = Held(d)
          /\ Woken(d)' = Woken(d)
    BY <1>2 DEF Level1!Capture, Held, Woken, Unposted, Level1!Pairs
  <2>2. \A d \in Level1!Cameras \ {c} : id'[d] = id[d] /\ Unposted(d)' = Unposted(d)
    BY <1>2 DEF Level1!Capture, Held, Woken, Unposted, Level1!Pairs
  <2>3. id'[c] = id[c] + 1 /\ Unposted(c) = 0 /\ Unposted(c)' = 1
    BY <1>2 DEF Level1!Capture, Held, Woken, Unposted, Level1!Pairs
  <2>4. ASSUME NEW d \in Level1!Cameras
        PROVE  sem'[d] + Held(d)' + Len(accepted') + Unposted(d)' <= id'[d] + Woken(d)'
    <3>1. /\ sem[d] \in Nat /\ id[d] \in Nat /\ Len(accepted) \in Nat
          /\ Woken(d) \in 0 .. 1 /\ Held(d) \in 0 .. 1 /\ Unposted(d) \in 0 .. 1
          /\ sem[d] + Held(d) + Len(accepted) + Unposted(d) <= id[d] + Woken(d)
      BY <1>0
    <3>2. sem'[d] = sem[d] /\ Held(d)' = Held(d) /\ Woken(d)' = Woken(d) /\ accepted' = accepted
      BY <2>1
    <3>3. CASE d = c
      <4>1. id'[d] = id[d] + 1 /\ Unposted(d) = 0 /\ Unposted(d)' = 1
        BY <2>3, <3>3
      <4>2. QED
        BY ONLY <3>1, <3>2, <4>1
    <3>4. CASE d # c
      <4>1. id'[d] = id[d] /\ Unposted(d)' = Unposted(d)
        BY <2>2, <3>4
      <4>2. QED
        BY ONLY <3>1, <3>2, <4>1
    <3>5. QED
      BY <3>3, <3>4
  <2>5. QED
    BY <2>4 DEF Tokens
<1>3. ASSUME NEW c \in Level1!Cameras, Level1!CaptureNoMore(c) PROVE Tokens'
  BY <1>3 DEF Level1!CaptureNoMore, Tokens, Held, Woken, Unposted
<1>4. ASSUME NEW c \in Level1!Cameras, Level1!Post(c) PROVE Tokens'
  <2>1. accepted' = accepted /\ id' = id /\ \A d \in Level1!Cameras : Held(d)' = Held(d)
          /\ Woken(d)' = Woken(d)
    BY <1>4 DEF Level1!Post, Held, Woken, Unposted
  <2>2. \A d \in Level1!Cameras \ {c} : sem'[d] = sem[d] /\ Unposted(d)' = Unposted(d)
    BY <1>4 DEF Level1!Post, Held, Woken, Unposted
  <2>3. sem'[c] = sem[c] + 1 /\ Unposted(c) = 1 /\ Unposted(c)' = 0
    BY <1>4 DEF Level1!Post, Held, Woken, Unposted
  <2>4. ASSUME NEW d \in Level1!Cameras
        PROVE  sem'[d] + Held(d)' + Len(accepted') + Unposted(d)' <= id'[d] + Woken(d)'
    <3>1. /\ sem[d] \in Nat /\ id[d] \in Nat /\ Len(accepted) \in Nat
          /\ Woken(d) \in 0 .. 1 /\ Held(d) \in 0 .. 1 /\ Unposted(d) \in 0 .. 1
          /\ sem[d] + Held(d) + Len(accepted) + Unposted(d) <= id[d] + Woken(d)
      BY <1>0
    <3>2. id'[d] = id[d] /\ Held(d)' = Held(d) /\ Woken(d)' = Woken(d) /\ accepted' = accepted
      BY <2>1
    <3>3. CASE d = c
      <4>1. sem'[d] = sem[d] + 1 /\ Unposted(d) = 1 /\ Unposted(d)' = 0
        BY <2>3, <3>3
      <4>2. QED
        BY ONLY <3>1, <3>2, <4>1
    <3>4. CASE d # c
      <4>1. sem'[d] = sem[d] /\ Unposted(d)' = Unposted(d)
        BY <2>2, <3>4
      <4>2. QED
        BY ONLY <3>1, <3>2, <4>1
    <3>5. QED
      BY <3>3, <3>4
  <2>5. QED
    BY <2>4 DEF Tokens
<1>5. CASE Level1!Loop("sync", "wait_left")
  BY <1>5 DEF Level1!Loop, Tokens, Held, Woken, Unposted
<1>6. CASE Level1!WaitLeft
  BY <1>6 DEF Level1!WaitLeft, Level1!Wait, Tokens, Held, Woken, Unposted
<1>7. CASE Level1!WaitRight
  BY <1>7 DEF Level1!WaitRight, Level1!Wait, Tokens, Held, Woken, Unposted
<1>8. CASE Level1!Check
  <2>1. UNCHANGED <<id, sem, accepted>>
    BY <1>8 DEF Level1!Check, Held, Woken, Unposted
  <2>2. \A d \in Level1!Cameras : Held(d)' \in {0, Held(d)} /\ Unposted(d)' = Unposted(d)
          /\ Woken(d)' = Woken(d)
    BY <1>8 DEF Level1!Check, Held, Woken, Unposted
  <2>3. ASSUME NEW d \in Level1!Cameras
        PROVE  sem'[d] + Held(d)' + Len(accepted') + Unposted(d)' <= id'[d] + Woken(d)'
    <3>1. /\ sem[d] \in Nat /\ id[d] \in Nat /\ Len(accepted) \in Nat
          /\ Woken(d) \in 0 .. 1 /\ Held(d) \in 0 .. 1 /\ Unposted(d) \in 0 .. 1
          /\ sem[d] + Held(d) + Len(accepted) + Unposted(d) <= id[d] + Woken(d)
      BY <1>0
    <3>2. /\ sem'[d] = sem[d] /\ id'[d] = id[d] /\ accepted' = accepted
          /\ Held(d)' \in {0, Held(d)} /\ Unposted(d)' = Unposted(d) /\ Woken(d)' = Woken(d)
      BY <2>1, <2>2
    <3>3. QED
      BY ONLY <3>1, <3>2
  <2>4. QED
    BY <2>3 DEF Tokens
<1>9. CASE Level1!Copy
  <2>1. UNCHANGED <<id, sem, accepted>>
    BY <1>9 DEF Level1!Copy, Held, Woken, Unposted
  <2>2. \A d \in Level1!Cameras : Held(d)' \in {0, Held(d)} /\ Unposted(d)' = Unposted(d)
          /\ Woken(d)' = Woken(d)
    BY <1>9 DEF Level1!Copy, Held, Woken, Unposted
  <2>3. ASSUME NEW d \in Level1!Cameras
        PROVE  sem'[d] + Held(d)' + Len(accepted') + Unposted(d)' <= id'[d] + Woken(d)'
    <3>1. /\ sem[d] \in Nat /\ id[d] \in Nat /\ Len(accepted) \in Nat
          /\ Woken(d) \in 0 .. 1 /\ Held(d) \in 0 .. 1 /\ Unposted(d) \in 0 .. 1
          /\ sem[d] + Held(d) + Len(accepted) + Unposted(d) <= id[d] + Woken(d)
      BY <1>0
    <3>2. /\ sem'[d] = sem[d] /\ id'[d] = id[d] /\ accepted' = accepted
          /\ Held(d)' \in {0, Held(d)} /\ Unposted(d)' = Unposted(d) /\ Woken(d)' = Woken(d)
      BY <2>1, <2>2
    <3>3. QED
      BY ONLY <3>1, <3>2
  <2>4. QED
    BY <2>3 DEF Tokens
<1>10. CASE Level1!PublishLeft
  BY <1>10 DEF Level1!PublishLeft, Tokens, Held, Woken, Unposted
<1>11. CASE Level1!PublishRight
  <2>1. UNCHANGED <<id, sem>> /\ Len(accepted') = Len(accepted) + 1
    BY <1>11 DEF Level1!PublishRight, Held, Woken, Unposted
  <2>2. \A d \in Level1!Cameras : Held(d) = 1 /\ Held(d)' = 0 /\ Unposted(d)' = Unposted(d)
          /\ Woken(d)' = Woken(d)
    BY <1>11 DEF Level1!PublishRight, Held, Woken, Unposted
  <2>3. ASSUME NEW d \in Level1!Cameras
        PROVE  sem'[d] + Held(d)' + Len(accepted') + Unposted(d)' <= id'[d] + Woken(d)'
    <3>1. /\ sem[d] \in Nat /\ id[d] \in Nat /\ Len(accepted) \in Nat
          /\ Woken(d) \in 0 .. 1 /\ Held(d) \in 0 .. 1 /\ Unposted(d) \in 0 .. 1
          /\ sem[d] + Held(d) + Len(accepted) + Unposted(d) <= id[d] + Woken(d)
      BY <1>0
    <3>2. /\ sem'[d] = sem[d] /\ id'[d] = id[d] /\ Len(accepted') = Len(accepted) + 1
          /\ Held(d) = 1 /\ Held(d)' = 0 /\ Unposted(d)' = Unposted(d) /\ Woken(d)' = Woken(d)
      BY <2>1, <2>2
    <3>3. QED
      BY ONLY <3>1, <3>2
  <2>4. QED
    BY <2>3 DEF Tokens
<1>12. CASE Level1!Loop("writer", "look")
  BY <1>12 DEF Level1!Loop, Tokens, Held, Woken, Unposted
<1>13. CASE Level1!NothingNew
  BY <1>13 DEF Level1!NothingNew, Tokens, Held, Woken, Unposted
<1>14. CASE Level1!TakeLeft
  BY <1>14 DEF Level1!TakeLeft, Tokens, Held, Woken, Unposted
<1>15. CASE Level1!TakeRight
  BY <1>15 DEF Level1!TakeRight, Tokens, Held, Woken, Unposted
<1>16. CASE Level1!Write
  BY <1>16 DEF Level1!Write, Tokens, Held, Woken, Unposted
<1>17. CASE Level1!Stop
  BY <1>17 DEF Level1!Stop, Tokens, Held, Woken, Unposted
<1>18. CASE Level1!WakeLeft
  <2>1. accepted' = accepted /\ id' = id /\ \A d \in Level1!Cameras : Held(d)' = Held(d)
          /\ Unposted(d)' = Unposted(d)
    BY <1>18 DEF Level1!WakeLeft, Held, Woken, Unposted
  <2>2. sem'["right"] = sem["right"] /\ Woken("right")' = Woken("right")
    BY <1>18 DEF Level1!WakeLeft, Held, Woken, Unposted
  <2>3. sem'["left"] = sem["left"] + 1 /\ Woken("left") = 0 /\ Woken("left")' = 1
    BY <1>18 DEF Level1!WakeLeft, Held, Woken, Unposted
  <2>4. ASSUME NEW d \in Level1!Cameras
        PROVE  sem'[d] + Held(d)' + Len(accepted') + Unposted(d)' <= id'[d] + Woken(d)'
    <3>1. /\ sem[d] \in Nat /\ id[d] \in Nat /\ Len(accepted) \in Nat
          /\ Woken(d) \in 0 .. 1 /\ Held(d) \in 0 .. 1 /\ Unposted(d) \in 0 .. 1
          /\ sem[d] + Held(d) + Len(accepted) + Unposted(d) <= id[d] + Woken(d)
      BY <1>0
    <3>2. id'[d] = id[d] /\ Held(d)' = Held(d) /\ Unposted(d)' = Unposted(d) /\ accepted' = accepted
      BY <2>1
    <3>3. CASE d = "left"
      <4>1. sem'[d] = sem[d] + 1 /\ Woken(d) = 0 /\ Woken(d)' = 1
        BY <2>3, <3>3
      <4>2. QED
        BY ONLY <3>1, <3>2, <4>1
    <3>4. CASE d # "left"
      <4>1. sem'[d] = sem[d] /\ Woken(d)' = Woken(d)
        BY <2>2, <3>4
      <4>2. QED
        BY ONLY <3>1, <3>2, <4>1
    <3>5. QED
      BY <3>3, <3>4
  <2>5. QED
    BY <2>4 DEF Tokens
<1>19. CASE Level1!WakeRight
  <2>1. accepted' = accepted /\ id' = id /\ \A d \in Level1!Cameras : Held(d)' = Held(d)
          /\ Unposted(d)' = Unposted(d)
    BY <1>19 DEF Level1!WakeRight, Held, Woken, Unposted
  <2>2. sem'["left"] = sem["left"] /\ Woken("left")' = Woken("left")
    BY <1>19 DEF Level1!WakeRight, Held, Woken, Unposted
  <2>3. sem'["right"] = sem["right"] + 1 /\ Woken("right") = 0 /\ Woken("right")' = 1
    BY <1>19 DEF Level1!WakeRight, Held, Woken, Unposted
  <2>4. ASSUME NEW d \in Level1!Cameras
        PROVE  sem'[d] + Held(d)' + Len(accepted') + Unposted(d)' <= id'[d] + Woken(d)'
    <3>1. /\ sem[d] \in Nat /\ id[d] \in Nat /\ Len(accepted) \in Nat
          /\ Woken(d) \in 0 .. 1 /\ Held(d) \in 0 .. 1 /\ Unposted(d) \in 0 .. 1
          /\ sem[d] + Held(d) + Len(accepted) + Unposted(d) <= id[d] + Woken(d)
      BY <1>0
    <3>2. id'[d] = id[d] /\ Held(d)' = Held(d) /\ Unposted(d)' = Unposted(d) /\ accepted' = accepted
      BY <2>1
    <3>3. CASE d = "right"
      <4>1. sem'[d] = sem[d] + 1 /\ Woken(d) = 0 /\ Woken(d)' = 1
        BY <2>3, <3>3
      <4>2. QED
        BY ONLY <3>1, <3>2, <4>1
    <3>4. CASE d # "right"
      <4>1. sem'[d] = sem[d] /\ Woken(d)' = Woken(d)
        BY <2>2, <3>4
      <4>2. QED
        BY ONLY <3>1, <3>2, <4>1
    <3>5. QED
      BY <3>3, <3>4
  <2>5. QED
    BY <2>4 DEF Tokens
<1>20. CASE Level1!Join
  BY <1>20 DEF Level1!Join, Tokens, Held, Woken, Unposted
<1>. QED
  BY <1>1, <1>2, <1>3, <1>4, <1>5, <1>6, <1>7, <1>8, <1>9, <1>10, <1>11, <1>12, <1>13, <1>14,
     <1>15, <1>16, <1>17, <1>18, <1>19, <1>20
     DEF Level1!Next, Level1!Camera, Level1!Sync, Level1!Writer, Level1!MainStep

\* The k-th published pair has k frames of either camera behind it.
LEMMA FreshStep ==
    ASSUME Level1Inv, Level1!Next
    PROVE  Fresh'
<1>0. \A d \in Level1!Cameras :
        /\ sem[d] \in Nat /\ id[d] \in Nat /\ id[d] <= MaxFrames /\ Len(accepted) \in Nat
        /\ Woken(d) \in 0 .. 1 /\ Held(d) \in 0 .. 1 /\ Unposted(d) \in 0 .. 1
        /\ sem[d] + Held(d) + Len(accepted) + Unposted(d) <= id[d] + Woken(d)
  BY TokenTypes DEF Level1Inv, Tokens
<1>a. ASSUME \A d \in Level1!Cameras : Held(d) = 1 /\ Woken(d) = 0
      PROVE  \A d \in Level1!Cameras : id[d] > Len(accepted)
  <2>1. SUFFICES ASSUME NEW d \in Level1!Cameras PROVE id[d] > Len(accepted)
    OBVIOUS
  <2>2. /\ sem[d] \in Nat /\ id[d] \in Nat /\ Len(accepted) \in Nat /\ Unposted(d) \in 0 .. 1
        /\ sem[d] + Held(d) + Len(accepted) + Unposted(d) <= id[d] + Woken(d)
    BY <1>0
  <2>3. Held(d) = 1 /\ Woken(d) = 0
    BY <1>a
  <2>4. QED
    BY <2>2, <2>3
<1> USE DEF Level1Inv, Level1Shape, Fresh, Level1!Cameras, Level1!Threads, Level1!Goto,
        Level1!Acquire, Level1!Release, Level1!Main, Level1!data, Level1!history, Level1!Pairs,
        Level1!Frames
<1>1. ASSUME NEW c \in Level1!Cameras, Level1!Loop(c, "capture") PROVE Fresh'
  BY <1>1 DEF Level1!Loop
<1>2. ASSUME NEW c \in Level1!Cameras, Level1!Capture(c) PROVE Fresh'
  BY <1>2 DEF Level1!Capture
<1>3. ASSUME NEW c \in Level1!Cameras, Level1!CaptureNoMore(c) PROVE Fresh'
  BY <1>3 DEF Level1!CaptureNoMore
<1>4. ASSUME NEW c \in Level1!Cameras, Level1!Post(c) PROVE Fresh'
  BY <1>4 DEF Level1!Post
<1>5. CASE Level1!Loop("sync", "wait_left")
  BY <1>5 DEF Level1!Loop
<1>6. CASE Level1!WaitLeft
  BY <1>6 DEF Level1!WaitLeft, Level1!Wait
<1>7. CASE Level1!WaitRight
  BY <1>7 DEF Level1!WaitRight, Level1!Wait
<1>8. CASE Level1!Check
  <2>1. UNCHANGED <<id, read, accepted>>
    BY <1>8 DEF Level1!Check
  <2>2. CASE is_running1
    <3>1. \A d \in Level1!Cameras : Held(d) = 1 /\ Woken(d) = 0
      BY <1>8, <2>2 DEF Level1!Check, Held, Woken
    <3>2. \A d \in Level1!Cameras : id[d] > Len(accepted)
      BY <3>1, <1>a
    <3>3. QED
      BY <1>8, <2>1, <3>2 DEF Level1!Check
  <2>3. CASE ~is_running1
    BY <1>8, <2>1, <2>3 DEF Level1!Check
  <2>4. QED
    BY <2>2, <2>3
<1>9. CASE Level1!Copy
  BY <1>9 DEF Level1!Copy
<1>10. CASE Level1!PublishLeft
  BY <1>10 DEF Level1!PublishLeft
<1>11. CASE Level1!PublishRight
  BY <1>11 DEF Level1!PublishRight
<1>12. CASE Level1!Loop("writer", "look")
  BY <1>12 DEF Level1!Loop
<1>13. CASE Level1!NothingNew
  BY <1>13 DEF Level1!NothingNew
<1>14. CASE Level1!TakeLeft
  BY <1>14 DEF Level1!TakeLeft
<1>15. CASE Level1!TakeRight
  BY <1>15 DEF Level1!TakeRight
<1>16. CASE Level1!Write
  BY <1>16 DEF Level1!Write
<1>17. CASE Level1!Stop
  BY <1>17 DEF Level1!Stop
<1>18. CASE Level1!WakeLeft
  BY <1>18 DEF Level1!WakeLeft
<1>19. CASE Level1!WakeRight
  BY <1>19 DEF Level1!WakeRight
<1>20. CASE Level1!Join
  BY <1>20 DEF Level1!Join
<1>. QED
  BY <1>1, <1>2, <1>3, <1>4, <1>5, <1>6, <1>7, <1>8, <1>9, <1>10, <1>11, <1>12, <1>13, <1>14,
     <1>15, <1>16, <1>17, <1>18, <1>19, <1>20
     DEF Level1!Next, Level1!Camera, Level1!Sync, Level1!Writer, Level1!MainStep

\* Every step keeps the shared pair that of the last publication.
LEMMA LatestStep ==
    ASSUME Level1Inv, Level1!Next
    PROVE  Latest'
<1> USE DEF Level1Inv, Level1Shape, Level1Mutex, Latest, Level1!Cameras, Level1!Threads,
        Level1!Goto, Level1!Acquire, Level1!Release, Level1!Main, Level1!data, Level1!history,
        Level1!Pairs, Level1!Frames
<1>1. ASSUME NEW c \in Level1!Cameras, Level1!Loop(c, "capture") PROVE Latest'
  BY <1>1 DEF Level1!Loop
<1>2. ASSUME NEW c \in Level1!Cameras, Level1!Capture(c) PROVE Latest'
  BY <1>2 DEF Level1!Capture
<1>3. ASSUME NEW c \in Level1!Cameras, Level1!CaptureNoMore(c) PROVE Latest'
  BY <1>3 DEF Level1!CaptureNoMore
<1>4. ASSUME NEW c \in Level1!Cameras, Level1!Post(c) PROVE Latest'
  BY <1>4 DEF Level1!Post
<1>5. CASE Level1!Loop("sync", "wait_left")
  BY <1>5 DEF Level1!Loop
<1>6. CASE Level1!WaitLeft
  BY <1>6 DEF Level1!WaitLeft, Level1!Wait
<1>7. CASE Level1!WaitRight
  BY <1>7 DEF Level1!WaitRight, Level1!Wait
<1>8. CASE Level1!Check
  BY <1>8 DEF Level1!Check
<1>9. CASE Level1!Copy
  BY <1>9 DEF Level1!Copy
<1>10. CASE Level1!PublishLeft
  BY <1>10 DEF Level1!PublishLeft
<1>11. CASE Level1!PublishRight
  <2>1. pair' = read
    BY <1>11 DEF Level1!PublishRight
  <2>2. Len(accepted') = Len(accepted) + 1 /\ accepted'[Len(accepted) + 1] = read
          /\ Len(accepted) \in Nat
    BY <1>11 DEF Level1!PublishRight
  <2>3. pc1'["sync"] = "loop" /\ pc1'["writer"] = pc1["writer"] /\ pc1["writer"] # "take_right"
    BY <1>11 DEF Level1!PublishRight
  <2>4. QED
    BY <2>1, <2>2, <2>3
<1>12. CASE Level1!Loop("writer", "look")
  BY <1>12 DEF Level1!Loop
<1>13. CASE Level1!NothingNew
  BY <1>13 DEF Level1!NothingNew
<1>14. CASE Level1!TakeLeft
  BY <1>14 DEF Level1!TakeLeft
<1>15. CASE Level1!TakeRight
  BY <1>15 DEF Level1!TakeRight
<1>16. CASE Level1!Write
  BY <1>16 DEF Level1!Write
<1>17. CASE Level1!Stop
  BY <1>17 DEF Level1!Stop
<1>18. CASE Level1!WakeLeft
  BY <1>18 DEF Level1!WakeLeft
<1>19. CASE Level1!WakeRight
  BY <1>19 DEF Level1!WakeRight
<1>20. CASE Level1!Join
  BY <1>20 DEF Level1!Join
<1>. QED
  BY <1>1, <1>2, <1>3, <1>4, <1>5, <1>6, <1>7, <1>8, <1>9, <1>10, <1>11, <1>12, <1>13, <1>14,
     <1>15, <1>16, <1>17, <1>18, <1>19, <1>20
     DEF Level1!Next, Level1!Camera, Level1!Sync, Level1!Writer, Level1!MainStep
\* What is selected from the first n elements stays selected if s grows.
LEMMA SelectsMore ==
    ASSUME NEW w, NEW s, NEW t, NEW m \in Nat, NEW n \in Nat, Selects(w, s, m), m <= n,
           \A k \in 1 .. m : t[k] = s[k]
    PROVE  Selects(w, t, n)
<1>1. PICK f \in [1 .. Len(w) -> 1 .. m] :
        /\ \A j, k \in 1 .. Len(w) : j < k => f[j] < f[k]
        /\ \A j \in 1 .. Len(w) : w[j] = s[f[j]]
  BY DEF Selects
<1>2. f \in [1 .. Len(w) -> 1 .. n]
  OBVIOUS
<1>3. \A j \in 1 .. Len(w) : w[j] = t[f[j]]
  BY <1>1
<1>4. QED
  BY <1>1, <1>2, <1>3 DEF Selects

\* A later element of s can be appended to what was selected.
LEMMA SelectsNext ==
    ASSUME NEW S, NEW w \in Seq(S), NEW s, NEW n \in Nat \ {0}, Selects(w, s, n - 1)
    PROVE  Selects(Append(w, s[n]), s, n)
<1>1. PICK f \in [1 .. Len(w) -> 1 .. (n - 1)] :
        /\ \A j, k \in 1 .. Len(w) : j < k => f[j] < f[k]
        /\ \A j \in 1 .. Len(w) : w[j] = s[f[j]]
  BY DEF Selects
<1> DEFINE v == Append(w, s[n])
           g == [j \in 1 .. Len(v) |-> IF j \in 1 .. Len(w) THEN f[j] ELSE n]
<1>2. Len(w) \in Nat /\ Len(v) = Len(w) + 1
  OBVIOUS
<1>3. \A j \in 1 .. Len(w) : v[j] = w[j]
  OBVIOUS
<1>4. v[Len(w) + 1] = s[n]
  OBVIOUS
<1> HIDE DEF v
<1>5. g \in [1 .. Len(v) -> 1 .. n]
  BY <1>2
<1>6. \A j, k \in 1 .. Len(v) : j < k => g[j] < g[k]
  <2>1. \A j, k \in 1 .. Len(v) : j < k => j \in 1 .. Len(w)
    BY <1>2
  <2>2. \A j \in 1 .. Len(w) : f[j] \in Nat /\ f[j] < n
    OBVIOUS
  <2>3. QED
    BY <1>1, <1>2, <2>1, <2>2
<1>7. \A j \in 1 .. Len(v) : v[j] = s[g[j]]
  BY <1>1, <1>2, <1>3, <1>4
<1>8. QED
  BY <1>5, <1>6, <1>7 DEF Selects, v

\* What is written, with the pair in the writer's hands, is always some of the
\* pairs published before the one that waits.
LEMMA InOrderStep ==
    ASSUME Level1Inv, Level1!Next
    PROVE  InOrder'
<1> USE DEF Level1Inv, Level1Shape, Level1!Cameras, Level1!Threads, Level1!Goto, Level1!Main,
        Level1!data, Level1!history
<1>1. ASSUME NEW c \in Level1!Cameras, Level1!Loop(c, "capture")
      PROVE  UNCHANGED <<Taken, accepted, has_new_sync_pair>>
  BY <1>1 DEF Level1!Loop, Taken
<1>2. ASSUME NEW c \in Level1!Cameras, Level1!Capture(c)
      PROVE  UNCHANGED <<Taken, accepted, has_new_sync_pair>>
  BY <1>2 DEF Level1!Capture, Taken
<1>3. ASSUME NEW c \in Level1!Cameras, Level1!CaptureNoMore(c)
      PROVE  UNCHANGED <<Taken, accepted, has_new_sync_pair>>
  BY <1>3 DEF Level1!CaptureNoMore, Taken
<1>4. ASSUME NEW c \in Level1!Cameras, Level1!Post(c)
      PROVE  UNCHANGED <<Taken, accepted, has_new_sync_pair>>
  BY <1>4 DEF Level1!Post, Taken
<1>5. ASSUME Level1!Loop("sync", "wait_left")
      PROVE  UNCHANGED <<Taken, accepted, has_new_sync_pair>>
  BY <1>5 DEF Level1!Loop, Taken
<1>6. ASSUME Level1!WaitLeft PROVE UNCHANGED <<Taken, accepted, has_new_sync_pair>>
  BY <1>6 DEF Level1!WaitLeft, Level1!Wait, Taken
<1>7. ASSUME Level1!WaitRight PROVE UNCHANGED <<Taken, accepted, has_new_sync_pair>>
  BY <1>7 DEF Level1!WaitRight, Level1!Wait, Taken
<1>8. ASSUME Level1!Check PROVE UNCHANGED <<Taken, accepted, has_new_sync_pair>>
  BY <1>8 DEF Level1!Check, Taken
<1>9. ASSUME Level1!Copy PROVE UNCHANGED <<Taken, accepted, has_new_sync_pair>>
  BY <1>9 DEF Level1!Copy, Taken
<1>10. ASSUME Level1!PublishLeft PROVE UNCHANGED <<Taken, accepted, has_new_sync_pair>>
  BY <1>10 DEF Level1!PublishLeft, Taken
<1>11. CASE Level1!PublishRight
  <2>1. /\ Taken' = Taken /\ accepted' = Append(accepted, read) /\ Settled' = Len(accepted)
        /\ Settled \in Nat /\ Settled <= Len(accepted)
    BY <1>11 DEF Level1!PublishRight, Taken, Settled, Latest
  <2>2. \A k \in 1 .. Settled : accepted'[k] = accepted[k]
    BY <2>1
  <2>3. Selects(Taken, accepted, Settled)
    BY DEF InOrder
  <2>4. Len(accepted) \in Nat
    OBVIOUS
  <2>5. Selects(Taken, accepted', Len(accepted))
    BY <2>1, <2>2, <2>3, <2>4, SelectsMore
  <2>6. QED
    BY <2>1, <2>5 DEF InOrder
<1>12. ASSUME Level1!Loop("writer", "look") PROVE UNCHANGED <<Taken, accepted, has_new_sync_pair>>
  BY <1>12 DEF Level1!Loop, Taken
<1>13. ASSUME Level1!NothingNew PROVE UNCHANGED <<Taken, accepted, has_new_sync_pair>>
  BY <1>13 DEF Level1!NothingNew, Taken
<1>14. ASSUME Level1!TakeLeft PROVE UNCHANGED <<Taken, accepted, has_new_sync_pair>>
  BY <1>14 DEF Level1!TakeLeft, Taken
<1>15. CASE Level1!TakeRight
  <2>1. /\ Taken = written /\ Settled = Len(accepted) - 1 /\ Len(accepted) \in Nat \ {0}
        /\ accepted' = accepted /\ Settled' = Len(accepted) /\ Taken' = Append(written, got')
    BY <1>15 DEF Level1!TakeRight, Taken, Settled, Latest
  <2>2. got' = accepted[Len(accepted)]
    BY <1>15 DEF Level1!TakeRight, Latest, Level1Mutex, Level1!Pairs
  <2>3. QED
    BY <2>1, <2>2, SelectsNext DEF InOrder
<1>16. ASSUME Level1!Write PROVE UNCHANGED <<Taken, accepted, has_new_sync_pair>>
  BY <1>16 DEF Level1!Write, Taken
<1>17. ASSUME Level1!Stop PROVE UNCHANGED <<Taken, accepted, has_new_sync_pair>>
  BY <1>17 DEF Level1!Stop, Taken
<1>18. ASSUME Level1!WakeLeft PROVE UNCHANGED <<Taken, accepted, has_new_sync_pair>>
  BY <1>18 DEF Level1!WakeLeft, Taken
<1>19. ASSUME Level1!WakeRight PROVE UNCHANGED <<Taken, accepted, has_new_sync_pair>>
  BY <1>19 DEF Level1!WakeRight, Taken
<1>20. ASSUME Level1!Join PROVE UNCHANGED <<Taken, accepted, has_new_sync_pair>>
  BY <1>20 DEF Level1!Join, Taken
<1>21. ASSUME UNCHANGED <<Taken, accepted, has_new_sync_pair>> PROVE InOrder'
  BY <1>21 DEF InOrder, Settled
<1>. QED
  BY <1>1, <1>2, <1>3, <1>4, <1>5, <1>6, <1>7, <1>8, <1>9, <1>10, <1>11, <1>12, <1>13, <1>14,
     <1>15, <1>16, <1>17, <1>18, <1>19, <1>20, <1>21
     DEF Level1!Next, Level1!Camera, Level1!Sync, Level1!Writer, Level1!MainStep

\* Level1Inv holds before anything is launched and for ever.
LEMMA Level1InvHolds == Spec => []Level1Inv
<1>1. Init => Level1Inv
  BY Level1InitInv DEF Init
<1>2. Level1Inv /\ [Next]_vars => Level1Inv'
  <2>1. ASSUME Level1Inv, Level1!Next PROVE Level1Inv'
    BY <2>1, Level1ShapeStep, Level1MutexStep, TokensStep, FreshStep, LatestStep, InOrderStep
       DEF Level1Inv
  <2>2. ASSUME Level1Inv, UNCHANGED level1 PROVE Level1Inv'
    BY <2>2
       DEF level1, Level1Inv, Level1Shape, Level1Mutex, Tokens, Woken, Held, Unposted,
           Fresh, Latest, InOrder, Taken, Settled
  <2>3. QED
    BY <2>1, <2>2 DEF Next, vars, RunLevel1, RunMonitor, RunServer, RunIpc
<1>3. QED
  BY <1>1, <1>2, PTL DEF Spec

\* WrittenInOrderOnce of RobotLevel1.tla: the writer of program1.c, which
\* clears has_new_sync_pair as it takes a pair, writes published pairs in order
\* and each at most once, whatever it misses (program1.c:103-166).
THEOREM WrittenInOrderOnceHolds == Spec => []WrittenInOrderOnce
<1>1. ASSUME Level1Inv PROVE WrittenInOrderOnce
  <2> USE <1>1 DEF Level1Inv, Level1Shape
  <2>1. Level1!TypeOK
    <3>1. ASSUME NEW c \in Level1!Cameras PROVE sem[c] \in 0 .. MaxFrames + 1
      <4>1. /\ sem[c] \in Nat /\ id[c] \in Nat /\ id[c] <= MaxFrames /\ Len(accepted) \in Nat
            /\ Woken(c) \in 0 .. 1 /\ Held(c) \in 0 .. 1 /\ Unposted(c) \in 0 .. 1
            /\ sem[c] + Held(c) + Len(accepted) + Unposted(c) <= id[c] + Woken(c)
        BY TokenTypes DEF Tokens
      <4>2. MaxFrames \in Nat
        BY RobotAssumption
      <4>3. QED
        BY <4>1, <4>2
    <3>2. sem \in [Level1!Cameras -> 0 .. MaxFrames + 1]
      BY <3>1
    <3>3. sync_mutex \in {"free", "sync", "writer"}
      BY DEF Level1Mutex
    <3>4. {accepted[k] : k \in DOMAIN accepted} \cup {written[k] : k \in DOMAIN written}
            \subseteq Level1!Pairs
      OBVIOUS
    <3>5. QED
      BY <3>2, <3>3, <3>4 DEF Level1!TypeOK
  <2>2. \A k \in DOMAIN accepted : accepted[k]["left"] >= k /\ accepted[k]["right"] >= k
    BY DEF Fresh
  <2>3. PICK f \in [1 .. Len(Taken) -> 1 .. Settled] :
          /\ \A j, k \in 1 .. Len(Taken) : j < k => f[j] < f[k]
          /\ \A j \in 1 .. Len(Taken) : Taken[j] = accepted[f[j]]
    BY DEF InOrder, Selects
  <2>4. /\ Len(written) \in Nat /\ Len(written) <= Len(Taken) /\ Len(Taken) \in Nat
        /\ \A j \in 1 .. Len(written) : Taken[j] = written[j]
    BY DEF Taken
  <2>5. Settled \in Int /\ Settled <= Len(accepted) /\ Len(accepted) \in Nat
    BY DEF Settled
  <2> DEFINE g == [j \in DOMAIN written |-> f[j]]
  <2>6. g \in [DOMAIN written -> DOMAIN accepted]
    BY <2>4, <2>5
  <2>7. /\ \A j, k \in DOMAIN written : j < k => g[j] < g[k]
        /\ \A j \in DOMAIN written : written[j] = accepted[g[j]]
    <3>1. DOMAIN written = 1 .. Len(written) /\ \A j \in 1 .. Len(written) : j \in 1 .. Len(Taken)
      BY <2>4
    <3>2. \A j \in DOMAIN written : g[j] = f[j]
      OBVIOUS
    <3>3. QED
      BY <2>3, <2>4, <3>1, <3>2
  <2>8. QED
    BY <2>1, <2>2, <2>6, <2>7 DEF WrittenInOrderOnce, Level1!WrittenInOrderOnce
<1>2. QED
  BY <1>1, Level1InvHolds, PTL

-----------------------------------------------------------------------------
(***************************************************************************)
(* Lab 6, level 3, RobotMonitor.                                           *)
(*                                                                         *)
(* A torn state and a lost count are both made by steps of two threads:    *)
(* the invariant MonitorInv says what the shared state and the counters    *)
(* are while a thread is between its two accesses to them.                 *)
(***************************************************************************)
\* Every thread is at a statement of its own function.
MonitorPcShape ==
    /\ pc3 \in [Monitor!Threads -> {"loop", "produce", "store_y", "total", "recent", "load_x",
                           "load_y", "log", "sleep", "exchange", "done"}]
    /\ \A c \in Monitor!Sources : pc3[c] \in {"loop", "produce", "store_y", "total", "recent",
       "done"}
    /\ pc3["left"] # "store_y" /\ pc3["right"] # "store_y"
    /\ pc3["logger"] \in {"loop", "load_x", "load_y", "log", "done"}
    /\ pc3["watchdog"] \in {"loop", "sleep", "exchange", "done"}

\* The domains of the variables, without the bounds on the counters.
MonitorShape ==
    /\ MonitorPcShape
    /\ current_robot_state \in [x : Nat, y : Nat]
    /\ state \in [x : Nat, y : Nat] /\ logged \in [x : Nat, y : Nat]
    /\ made \in [Monitor!Sources -> 0 .. MaxUpdates]
    /\ total \in [Monitor!Sources -> Nat] /\ recent \in [Monitor!Sources -> Nat]
    /\ seen \in [Monitor!Sources -> Nat] /\ report \in [Monitor!Sources -> Nat]
    /\ next \in 1 .. 4 /\ is_running3 \in BOOLEAN /\ mpc3 \in {"idle", "done"}

\* state_mutex is held by the thread that is between its two accesses.
MutexHeld ==
    /\ ~(pc3["state"] = "store_y" /\ pc3["logger"] = "load_y")
    /\ state_mutex = IF pc3["state"] = "store_y" THEN "state"
                     ELSE IF pc3["logger"] = "load_y" THEN "logger" ELSE "free"

\* x and y are those of the last update, but while it is being stored; and
\* the logger, which cannot look then, has both from one update.
WholeStates ==
    /\ current_robot_state.x = made["state"]
    /\ IF pc3["state"] = "store_y" THEN made["state"] > 0
                                  ELSE current_robot_state.y = made["state"]
    /\ IF pc3["logger"] = "load_y" THEN state.x = made["state"]
                                  ELSE state.x = state.y /\ state.x <= made["state"]
    /\ current_robot_state.y <= made["state"] /\ state.y <= made["state"]
    /\ logged.x = logged.y /\ logged.x <= made["state"]

\* What a source has made and not counted in total, and counted in total and
\* not in recent, is what its place says.
Uncounted(s) == IF pc3[s] \in {"store_y", "total"} THEN 1 ELSE 0
Halfway(s) == IF pc3[s] = "recent" THEN 1 ELSE 0
Counts ==
    \A s \in Monitor!Sources : /\ made[s] = total[s] + Uncounted(s)
                               /\ total[s] = seen[s] + recent[s] + Halfway(s)

\* main writes its report when every thread has ended.
Reported ==
    IF mpc3 = "done" THEN report = total /\ \A t \in Monitor!Threads : pc3[t] = "done"
                    ELSE report = Monitor!Zero

\* The invariant of the state, the logger and the watchdog.
MonitorInv == MonitorShape /\ MutexHeld /\ WholeStates /\ Counts /\ Reported

\* Every step keeps the domains of the variables.
LEMMA MonitorShapeStep ==
    ASSUME MonitorShape, Monitor!Next
    PROVE  MonitorShape'
<1>1. ASSUME NEW c \in Monitor!Sources, Monitor!Loop(c, "produce") PROVE MonitorShape'
  BY <1>1, RobotAssumption
     DEF Monitor!Loop, Monitor!Goto, Monitor!snapshot, Monitor!counters, MonitorShape,
         MonitorPcShape, Monitor!Threads, Monitor!Sources
<1>2. ASSUME NEW c \in Monitor!Sources, Monitor!Produce(c) PROVE MonitorShape'
  BY <1>2, RobotAssumption
     DEF Monitor!Produce, Monitor!Goto, Monitor!snapshot, Monitor!counters, MonitorShape,
         MonitorPcShape, Monitor!Threads, Monitor!Sources
<1>3. ASSUME NEW c \in Monitor!Sources, Monitor!ProduceNoMore(c) PROVE MonitorShape'
  BY <1>3, RobotAssumption
     DEF Monitor!ProduceNoMore, Monitor!Goto, Monitor!snapshot, Monitor!counters, MonitorShape,
         MonitorPcShape, Monitor!Threads, Monitor!Sources
<1>4. ASSUME NEW c \in Monitor!Sources, Monitor!AddTotal(c) PROVE MonitorShape'
  BY <1>4, RobotAssumption
     DEF Monitor!AddTotal, Monitor!Goto, Monitor!snapshot, Monitor!counters, MonitorShape,
         MonitorPcShape, Monitor!Threads, Monitor!Sources
<1>5. ASSUME NEW c \in Monitor!Sources, Monitor!AddRecent(c) PROVE MonitorShape'
  BY <1>5, RobotAssumption
     DEF Monitor!AddRecent, Monitor!Goto, Monitor!snapshot, Monitor!counters, MonitorShape,
         MonitorPcShape, Monitor!Threads, Monitor!Sources
<1>6. CASE Monitor!StoreX
  BY <1>6, RobotAssumption
     DEF Monitor!StoreX, Monitor!Goto, Monitor!snapshot, Monitor!counters, MonitorShape,
         MonitorPcShape, Monitor!Threads, Monitor!Sources
<1>7. CASE Monitor!StoreY
  BY <1>7, RobotAssumption
     DEF Monitor!StoreY, Monitor!Goto, Monitor!snapshot, Monitor!counters, MonitorShape,
         MonitorPcShape, Monitor!Threads, Monitor!Sources
<1>8. CASE Monitor!Loop("logger", "load_x")
  BY <1>8, RobotAssumption
     DEF Monitor!Loop, Monitor!Goto, Monitor!snapshot, Monitor!counters, MonitorShape,
         MonitorPcShape, Monitor!Threads, Monitor!Sources
<1>9. CASE Monitor!LoadX
  BY <1>9, RobotAssumption
     DEF Monitor!LoadX, Monitor!Goto, Monitor!snapshot, Monitor!counters, MonitorShape,
         MonitorPcShape, Monitor!Threads, Monitor!Sources
<1>10. CASE Monitor!LoadY
  BY <1>10, RobotAssumption
     DEF Monitor!LoadY, Monitor!Goto, Monitor!snapshot, Monitor!counters, MonitorShape,
         MonitorPcShape, Monitor!Threads, Monitor!Sources
<1>11. CASE Monitor!Log
  BY <1>11, RobotAssumption
     DEF Monitor!Log, Monitor!Goto, Monitor!snapshot, Monitor!counters, MonitorShape,
         MonitorPcShape, Monitor!Threads, Monitor!Sources
<1>12. CASE Monitor!Loop("watchdog", "sleep")
  BY <1>12, RobotAssumption
     DEF Monitor!Loop, Monitor!Goto, Monitor!snapshot, Monitor!counters, MonitorShape,
         MonitorPcShape, Monitor!Threads, Monitor!Sources
<1>13. CASE Monitor!Wake
  BY <1>13, RobotAssumption
     DEF Monitor!Wake, Monitor!Goto, Monitor!snapshot, Monitor!counters, MonitorShape,
         MonitorPcShape, Monitor!Threads, Monitor!Sources
<1>14. CASE Monitor!Exchange
  <2>1. Len(Monitor!Order) = 3 /\ next \in 1 .. 3 /\ Monitor!Order[next] \in Monitor!Sources
    BY <1>14 DEF Monitor!Exchange, Monitor!Order, Monitor!Sources
  <2>2. /\ recent[Monitor!Order[next]] \in Nat
        /\ seen[Monitor!Order[next]] + recent[Monitor!Order[next]] \in Nat
    BY <2>1 DEF MonitorShape
  <2>3. /\ next' \in 1 .. 4 /\ recent' \in [Monitor!Sources -> Nat]
        /\ seen' \in [Monitor!Sources -> Nat]
    BY <1>14, <2>1, <2>2 DEF Monitor!Exchange, MonitorShape
  <2>4. MonitorPcShape'
    BY <1>14
       DEF Monitor!Exchange, Monitor!Goto, MonitorShape, MonitorPcShape, Monitor!Threads,
           Monitor!Sources
  <2>5. QED
    BY <1>14, <2>3, <2>4 DEF Monitor!Exchange, MonitorShape, Monitor!snapshot
<1>15. CASE Monitor!Checked
  BY <1>15, RobotAssumption
     DEF Monitor!Checked, Monitor!Goto, Monitor!snapshot, Monitor!counters, MonitorShape,
         MonitorPcShape, Monitor!Threads, Monitor!Sources
<1>16. CASE Monitor!Sigint
  BY <1>16, RobotAssumption DEF Monitor!Sigint, Monitor!snapshot, Monitor!counters, MonitorShape,
    MonitorPcShape, Monitor!Threads, Monitor!Sources
<1>17. CASE Monitor!Report
  BY <1>17, RobotAssumption DEF Monitor!Report, Monitor!snapshot, Monitor!counters, MonitorShape,
    MonitorPcShape, Monitor!Threads, Monitor!Sources
<1>19. QED
  BY <1>1, <1>2, <1>3, <1>4, <1>5, <1>6, <1>7, <1>8, <1>9, <1>10, <1>11,
    <1>12, <1>13, <1>14, <1>15, <1>16, <1>17 DEF Monitor!Next, Monitor!Counting

\* Every step keeps state_mutex with whoever is between two accesses.
LEMMA MonitorMutexStep ==
    ASSUME MonitorShape, MutexHeld, Monitor!Next
    PROVE  MutexHeld'
<1>1. ASSUME NEW c \in Monitor!Sources, Monitor!Loop(c, "produce") PROVE MutexHeld'
  BY <1>1
     DEF Monitor!Loop, Monitor!Goto, Monitor!snapshot, Monitor!counters, MonitorShape,
         MonitorPcShape, MutexHeld, Monitor!Threads, Monitor!Sources
<1>2. ASSUME NEW c \in Monitor!Sources, Monitor!Produce(c) PROVE MutexHeld'
  BY <1>2
     DEF Monitor!Produce, Monitor!Goto, Monitor!snapshot, Monitor!counters, MonitorShape,
         MonitorPcShape, MutexHeld, Monitor!Threads, Monitor!Sources
<1>3. ASSUME NEW c \in Monitor!Sources, Monitor!ProduceNoMore(c) PROVE MutexHeld'
  BY <1>3
     DEF Monitor!ProduceNoMore, Monitor!Goto, Monitor!snapshot, Monitor!counters, MonitorShape,
         MonitorPcShape, MutexHeld, Monitor!Threads, Monitor!Sources
<1>4. ASSUME NEW c \in Monitor!Sources, Monitor!AddTotal(c) PROVE MutexHeld'
  BY <1>4
     DEF Monitor!AddTotal, Monitor!Goto, Monitor!snapshot, Monitor!counters, MonitorShape,
         MonitorPcShape, MutexHeld, Monitor!Threads, Monitor!Sources
<1>5. ASSUME NEW c \in Monitor!Sources, Monitor!AddRecent(c) PROVE MutexHeld'
  BY <1>5
     DEF Monitor!AddRecent, Monitor!Goto, Monitor!snapshot, Monitor!counters, MonitorShape,
         MonitorPcShape, MutexHeld, Monitor!Threads, Monitor!Sources
<1>6. CASE Monitor!StoreX
  BY <1>6
     DEF Monitor!StoreX, Monitor!Goto, Monitor!snapshot, Monitor!counters, MonitorShape,
         MonitorPcShape, MutexHeld, Monitor!Threads, Monitor!Sources
<1>7. CASE Monitor!StoreY
  BY <1>7
     DEF Monitor!StoreY, Monitor!Goto, Monitor!snapshot, Monitor!counters, MonitorShape,
         MonitorPcShape, MutexHeld, Monitor!Threads, Monitor!Sources
<1>8. CASE Monitor!Loop("logger", "load_x")
  BY <1>8
     DEF Monitor!Loop, Monitor!Goto, Monitor!snapshot, Monitor!counters, MonitorShape,
         MonitorPcShape, MutexHeld, Monitor!Threads, Monitor!Sources
<1>9. CASE Monitor!LoadX
  BY <1>9
     DEF Monitor!LoadX, Monitor!Goto, Monitor!snapshot, Monitor!counters, MonitorShape,
         MonitorPcShape, MutexHeld, Monitor!Threads, Monitor!Sources
<1>10. CASE Monitor!LoadY
  BY <1>10
     DEF Monitor!LoadY, Monitor!Goto, Monitor!snapshot, Monitor!counters, MonitorShape,
         MonitorPcShape, MutexHeld, Monitor!Threads, Monitor!Sources
<1>11. CASE Monitor!Log
  BY <1>11
     DEF Monitor!Log, Monitor!Goto, Monitor!snapshot, Monitor!counters, MonitorShape,
         MonitorPcShape, MutexHeld, Monitor!Threads, Monitor!Sources
<1>12. CASE Monitor!Loop("watchdog", "sleep")
  BY <1>12
     DEF Monitor!Loop, Monitor!Goto, Monitor!snapshot, Monitor!counters, MonitorShape,
         MonitorPcShape, MutexHeld, Monitor!Threads, Monitor!Sources
<1>13. CASE Monitor!Wake
  BY <1>13
     DEF Monitor!Wake, Monitor!Goto, Monitor!snapshot, Monitor!counters, MonitorShape,
         MonitorPcShape, MutexHeld, Monitor!Threads, Monitor!Sources
<1>14. CASE Monitor!Exchange
  BY <1>14
     DEF Monitor!Exchange, Monitor!Goto, Monitor!snapshot, Monitor!counters, MonitorShape,
         MonitorPcShape, MutexHeld, Monitor!Threads, Monitor!Sources
<1>15. CASE Monitor!Checked
  BY <1>15
     DEF Monitor!Checked, Monitor!Goto, Monitor!snapshot, Monitor!counters, MonitorShape,
         MonitorPcShape, MutexHeld, Monitor!Threads, Monitor!Sources
<1>16. CASE Monitor!Sigint
  BY <1>16
     DEF Monitor!Sigint, Monitor!snapshot, Monitor!counters, MonitorShape, MonitorPcShape,
         MutexHeld, Monitor!Threads, Monitor!Sources
<1>17. CASE Monitor!Report
  BY <1>17
     DEF Monitor!Report, Monitor!snapshot, Monitor!counters, MonitorShape, MonitorPcShape,
         MutexHeld, Monitor!Threads, Monitor!Sources
<1>19. QED
  BY <1>1, <1>2, <1>3, <1>4, <1>5, <1>6, <1>7, <1>8, <1>9, <1>10, <1>11,
    <1>12, <1>13, <1>14, <1>15, <1>16, <1>17 DEF Monitor!Next, Monitor!Counting

\* Every step keeps the states whole.
LEMMA WholeStatesStep ==
    ASSUME MonitorShape, MutexHeld, WholeStates, Monitor!Next
    PROVE  WholeStates'
<1>1. ASSUME NEW c \in Monitor!Sources, Monitor!Loop(c, "produce") PROVE WholeStates'
  BY <1>1
     DEF Monitor!Loop, Monitor!Goto, Monitor!snapshot, Monitor!counters, MonitorShape,
         MonitorPcShape, MutexHeld, WholeStates, Monitor!Threads, Monitor!Sources
<1>2. ASSUME NEW c \in Monitor!Sources, Monitor!Produce(c) PROVE WholeStates'
  BY <1>2
     DEF Monitor!Produce, Monitor!Goto, Monitor!snapshot, Monitor!counters, MonitorShape,
         MonitorPcShape, MutexHeld, WholeStates, Monitor!Threads, Monitor!Sources
<1>3. ASSUME NEW c \in Monitor!Sources, Monitor!ProduceNoMore(c) PROVE WholeStates'
  BY <1>3
     DEF Monitor!ProduceNoMore, Monitor!Goto, Monitor!snapshot, Monitor!counters, MonitorShape,
         MonitorPcShape, MutexHeld, WholeStates, Monitor!Threads, Monitor!Sources
<1>4. ASSUME NEW c \in Monitor!Sources, Monitor!AddTotal(c) PROVE WholeStates'
  BY <1>4
     DEF Monitor!AddTotal, Monitor!Goto, Monitor!snapshot, Monitor!counters, MonitorShape,
         MonitorPcShape, MutexHeld, WholeStates, Monitor!Threads, Monitor!Sources
<1>5. ASSUME NEW c \in Monitor!Sources, Monitor!AddRecent(c) PROVE WholeStates'
  BY <1>5
     DEF Monitor!AddRecent, Monitor!Goto, Monitor!snapshot, Monitor!counters, MonitorShape,
         MonitorPcShape, MutexHeld, WholeStates, Monitor!Threads, Monitor!Sources
<1>6. CASE Monitor!StoreX
  BY <1>6
     DEF Monitor!StoreX, Monitor!Goto, Monitor!snapshot, Monitor!counters, MonitorShape,
         MonitorPcShape, MutexHeld, WholeStates, Monitor!Threads, Monitor!Sources
<1>7. CASE Monitor!StoreY
  BY <1>7
     DEF Monitor!StoreY, Monitor!Goto, Monitor!snapshot, Monitor!counters, MonitorShape,
         MonitorPcShape, MutexHeld, WholeStates, Monitor!Threads, Monitor!Sources
<1>8. CASE Monitor!Loop("logger", "load_x")
  BY <1>8
     DEF Monitor!Loop, Monitor!Goto, Monitor!snapshot, Monitor!counters, MonitorShape,
         MonitorPcShape, MutexHeld, WholeStates, Monitor!Threads, Monitor!Sources
<1>9. CASE Monitor!LoadX
  BY <1>9
     DEF Monitor!LoadX, Monitor!Goto, Monitor!snapshot, Monitor!counters, MonitorShape,
         MonitorPcShape, MutexHeld, WholeStates, Monitor!Threads, Monitor!Sources
<1>10. CASE Monitor!LoadY
  BY <1>10
     DEF Monitor!LoadY, Monitor!Goto, Monitor!snapshot, Monitor!counters, MonitorShape,
         MonitorPcShape, MutexHeld, WholeStates, Monitor!Threads, Monitor!Sources
<1>11. CASE Monitor!Log
  BY <1>11
     DEF Monitor!Log, Monitor!Goto, Monitor!snapshot, Monitor!counters, MonitorShape,
         MonitorPcShape, MutexHeld, WholeStates, Monitor!Threads, Monitor!Sources
<1>12. CASE Monitor!Loop("watchdog", "sleep")
  BY <1>12
     DEF Monitor!Loop, Monitor!Goto, Monitor!snapshot, Monitor!counters, MonitorShape,
         MonitorPcShape, MutexHeld, WholeStates, Monitor!Threads, Monitor!Sources
<1>13. CASE Monitor!Wake
  BY <1>13
     DEF Monitor!Wake, Monitor!Goto, Monitor!snapshot, Monitor!counters, MonitorShape,
         MonitorPcShape, MutexHeld, WholeStates, Monitor!Threads, Monitor!Sources
<1>14. CASE Monitor!Exchange
  BY <1>14
     DEF Monitor!Exchange, Monitor!Goto, Monitor!snapshot, Monitor!counters, MonitorShape,
         MonitorPcShape, MutexHeld, WholeStates, Monitor!Threads, Monitor!Sources
<1>15. CASE Monitor!Checked
  BY <1>15
     DEF Monitor!Checked, Monitor!Goto, Monitor!snapshot, Monitor!counters, MonitorShape,
         MonitorPcShape, MutexHeld, WholeStates, Monitor!Threads, Monitor!Sources
<1>16. CASE Monitor!Sigint
  BY <1>16
     DEF Monitor!Sigint, Monitor!snapshot, Monitor!counters, MonitorShape, MonitorPcShape,
         MutexHeld, WholeStates, Monitor!Threads, Monitor!Sources
<1>17. CASE Monitor!Report
  BY <1>17
     DEF Monitor!Report, Monitor!snapshot, Monitor!counters, MonitorShape, MonitorPcShape,
         MutexHeld, WholeStates, Monitor!Threads, Monitor!Sources
<1>19. QED
  BY <1>1, <1>2, <1>3, <1>4, <1>5, <1>6, <1>7, <1>8, <1>9, <1>10, <1>11,
    <1>12, <1>13, <1>14, <1>15, <1>16, <1>17 DEF Monitor!Next, Monitor!Counting

\* Every step keeps the counters in agreement.
LEMMA CountsStep ==
    ASSUME MonitorShape, Counts, Monitor!Next
    PROVE  Counts'
<1>1. ASSUME NEW c \in Monitor!Sources, Monitor!Loop(c, "produce") PROVE Counts'
  BY <1>1
     DEF Monitor!Loop, Monitor!Goto, Monitor!snapshot, Monitor!counters, MonitorShape,
         MonitorPcShape, Counts, Uncounted, Halfway, Monitor!Threads, Monitor!Sources
<1>2. ASSUME NEW c \in Monitor!Sources, Monitor!Produce(c) PROVE Counts'
  BY <1>2
     DEF Monitor!Produce, Monitor!Goto, Monitor!snapshot, Monitor!counters, MonitorShape,
         MonitorPcShape, Counts, Uncounted, Halfway, Monitor!Threads, Monitor!Sources
<1>3. ASSUME NEW c \in Monitor!Sources, Monitor!ProduceNoMore(c) PROVE Counts'
  BY <1>3
     DEF Monitor!ProduceNoMore, Monitor!Goto, Monitor!snapshot, Monitor!counters, MonitorShape,
         MonitorPcShape, Counts, Uncounted, Halfway, Monitor!Threads, Monitor!Sources
<1>4. ASSUME NEW c \in Monitor!Sources, Monitor!AddTotal(c) PROVE Counts'
  BY <1>4
     DEF Monitor!AddTotal, Monitor!Goto, Monitor!snapshot, Monitor!counters, MonitorShape,
         MonitorPcShape, Counts, Uncounted, Halfway, Monitor!Threads, Monitor!Sources
<1>5. ASSUME NEW c \in Monitor!Sources, Monitor!AddRecent(c) PROVE Counts'
  BY <1>5
     DEF Monitor!AddRecent, Monitor!Goto, Monitor!snapshot, Monitor!counters, MonitorShape,
         MonitorPcShape, Counts, Uncounted, Halfway, Monitor!Threads, Monitor!Sources
<1>6. CASE Monitor!StoreX
  BY <1>6
     DEF Monitor!StoreX, Monitor!Goto, Monitor!snapshot, Monitor!counters, MonitorShape,
         MonitorPcShape, Counts, Uncounted, Halfway, Monitor!Threads, Monitor!Sources
<1>7. CASE Monitor!StoreY
  BY <1>7
     DEF Monitor!StoreY, Monitor!Goto, Monitor!snapshot, Monitor!counters, MonitorShape,
         MonitorPcShape, Counts, Uncounted, Halfway, Monitor!Threads, Monitor!Sources
<1>8. CASE Monitor!Loop("logger", "load_x")
  BY <1>8
     DEF Monitor!Loop, Monitor!Goto, Monitor!snapshot, Monitor!counters, MonitorShape,
         MonitorPcShape, Counts, Uncounted, Halfway, Monitor!Threads, Monitor!Sources
<1>9. CASE Monitor!LoadX
  BY <1>9
     DEF Monitor!LoadX, Monitor!Goto, Monitor!snapshot, Monitor!counters, MonitorShape,
         MonitorPcShape, Counts, Uncounted, Halfway, Monitor!Threads, Monitor!Sources
<1>10. CASE Monitor!LoadY
  BY <1>10
     DEF Monitor!LoadY, Monitor!Goto, Monitor!snapshot, Monitor!counters, MonitorShape,
         MonitorPcShape, Counts, Uncounted, Halfway, Monitor!Threads, Monitor!Sources
<1>11. CASE Monitor!Log
  BY <1>11
     DEF Monitor!Log, Monitor!Goto, Monitor!snapshot, Monitor!counters, MonitorShape,
         MonitorPcShape, Counts, Uncounted, Halfway, Monitor!Threads, Monitor!Sources
<1>12. CASE Monitor!Loop("watchdog", "sleep")
  BY <1>12
     DEF Monitor!Loop, Monitor!Goto, Monitor!snapshot, Monitor!counters, MonitorShape,
         MonitorPcShape, Counts, Uncounted, Halfway, Monitor!Threads, Monitor!Sources
<1>13. CASE Monitor!Wake
  BY <1>13
     DEF Monitor!Wake, Monitor!Goto, Monitor!snapshot, Monitor!counters, MonitorShape,
         MonitorPcShape, Counts, Uncounted, Halfway, Monitor!Threads, Monitor!Sources
<1>14. CASE Monitor!Exchange
  BY <1>14
     DEF Monitor!Exchange, Monitor!Goto, Monitor!snapshot, Monitor!counters, MonitorShape,
         MonitorPcShape, Counts, Uncounted, Halfway, Monitor!Threads, Monitor!Sources
<1>15. CASE Monitor!Checked
  BY <1>15
     DEF Monitor!Checked, Monitor!Goto, Monitor!snapshot, Monitor!counters, MonitorShape,
         MonitorPcShape, Counts, Uncounted, Halfway, Monitor!Threads, Monitor!Sources
<1>16. CASE Monitor!Sigint
  BY <1>16
     DEF Monitor!Sigint, Monitor!snapshot, Monitor!counters, MonitorShape, MonitorPcShape,
         Counts, Uncounted, Halfway, Monitor!Threads, Monitor!Sources
<1>17. CASE Monitor!Report
  BY <1>17
     DEF Monitor!Report, Monitor!snapshot, Monitor!counters, MonitorShape, MonitorPcShape,
         Counts, Uncounted, Halfway, Monitor!Threads, Monitor!Sources
<1>19. QED
  BY <1>1, <1>2, <1>3, <1>4, <1>5, <1>6, <1>7, <1>8, <1>9, <1>10, <1>11,
    <1>12, <1>13, <1>14, <1>15, <1>16, <1>17 DEF Monitor!Next, Monitor!Counting

\* No thread moves once main has written its report.
LEMMA ReportedStep ==
    ASSUME MonitorShape, Reported, Monitor!Next
    PROVE  Reported'
<1>1. ASSUME NEW c \in Monitor!Sources, Monitor!Loop(c, "produce") PROVE Reported'
  BY <1>1
     DEF Monitor!Loop, Monitor!Goto, Monitor!snapshot, Monitor!counters, MonitorShape,
         MonitorPcShape, Reported, Monitor!Threads, Monitor!Sources
<1>2. ASSUME NEW c \in Monitor!Sources, Monitor!Produce(c) PROVE Reported'
  BY <1>2
     DEF Monitor!Produce, Monitor!Goto, Monitor!snapshot, Monitor!counters, MonitorShape,
         MonitorPcShape, Reported, Monitor!Threads, Monitor!Sources
<1>3. ASSUME NEW c \in Monitor!Sources, Monitor!ProduceNoMore(c) PROVE Reported'
  BY <1>3
     DEF Monitor!ProduceNoMore, Monitor!Goto, Monitor!snapshot, Monitor!counters, MonitorShape,
         MonitorPcShape, Reported, Monitor!Threads, Monitor!Sources
<1>4. ASSUME NEW c \in Monitor!Sources, Monitor!AddTotal(c) PROVE Reported'
  BY <1>4
     DEF Monitor!AddTotal, Monitor!Goto, Monitor!snapshot, Monitor!counters, MonitorShape,
         MonitorPcShape, Reported, Monitor!Threads, Monitor!Sources
<1>5. ASSUME NEW c \in Monitor!Sources, Monitor!AddRecent(c) PROVE Reported'
  BY <1>5
     DEF Monitor!AddRecent, Monitor!Goto, Monitor!snapshot, Monitor!counters, MonitorShape,
         MonitorPcShape, Reported, Monitor!Threads, Monitor!Sources
<1>6. CASE Monitor!StoreX
  BY <1>6
     DEF Monitor!StoreX, Monitor!Goto, Monitor!snapshot, Monitor!counters, MonitorShape,
         MonitorPcShape, Reported, Monitor!Threads, Monitor!Sources
<1>7. CASE Monitor!StoreY
  BY <1>7
     DEF Monitor!StoreY, Monitor!Goto, Monitor!snapshot, Monitor!counters, MonitorShape,
         MonitorPcShape, Reported, Monitor!Threads, Monitor!Sources
<1>8. CASE Monitor!Loop("logger", "load_x")
  BY <1>8
     DEF Monitor!Loop, Monitor!Goto, Monitor!snapshot, Monitor!counters, MonitorShape,
         MonitorPcShape, Reported, Monitor!Threads, Monitor!Sources
<1>9. CASE Monitor!LoadX
  BY <1>9
     DEF Monitor!LoadX, Monitor!Goto, Monitor!snapshot, Monitor!counters, MonitorShape,
         MonitorPcShape, Reported, Monitor!Threads, Monitor!Sources
<1>10. CASE Monitor!LoadY
  BY <1>10
     DEF Monitor!LoadY, Monitor!Goto, Monitor!snapshot, Monitor!counters, MonitorShape,
         MonitorPcShape, Reported, Monitor!Threads, Monitor!Sources
<1>11. CASE Monitor!Log
  BY <1>11
     DEF Monitor!Log, Monitor!Goto, Monitor!snapshot, Monitor!counters, MonitorShape,
         MonitorPcShape, Reported, Monitor!Threads, Monitor!Sources
<1>12. CASE Monitor!Loop("watchdog", "sleep")
  BY <1>12
     DEF Monitor!Loop, Monitor!Goto, Monitor!snapshot, Monitor!counters, MonitorShape,
         MonitorPcShape, Reported, Monitor!Threads, Monitor!Sources
<1>13. CASE Monitor!Wake
  BY <1>13
     DEF Monitor!Wake, Monitor!Goto, Monitor!snapshot, Monitor!counters, MonitorShape,
         MonitorPcShape, Reported, Monitor!Threads, Monitor!Sources
<1>14. CASE Monitor!Exchange
  BY <1>14
     DEF Monitor!Exchange, Monitor!Goto, Monitor!snapshot, Monitor!counters, MonitorShape,
         MonitorPcShape, Reported, Monitor!Threads, Monitor!Sources
<1>15. CASE Monitor!Checked
  BY <1>15
     DEF Monitor!Checked, Monitor!Goto, Monitor!snapshot, Monitor!counters, MonitorShape,
         MonitorPcShape, Reported, Monitor!Threads, Monitor!Sources
<1>16. CASE Monitor!Sigint
  BY <1>16
     DEF Monitor!Sigint, Monitor!snapshot, Monitor!counters, MonitorShape, MonitorPcShape,
         Reported, Monitor!Threads, Monitor!Sources
<1>17. CASE Monitor!Report
  BY <1>17
     DEF Monitor!Report, Monitor!snapshot, Monitor!counters, MonitorShape, MonitorPcShape,
         Reported, Monitor!Threads, Monitor!Sources
<1>19. QED
  BY <1>1, <1>2, <1>3, <1>4, <1>5, <1>6, <1>7, <1>8, <1>9, <1>10, <1>11,
    <1>12, <1>13, <1>14, <1>15, <1>16, <1>17 DEF Monitor!Next, Monitor!Counting

\* The initial state satisfies the inductive invariant.
LEMMA MonitorInit == Monitor!Init => MonitorInv
<1> SUFFICES ASSUME Monitor!Init PROVE MonitorInv
  OBVIOUS
<1>1. MonitorShape
  BY RobotAssumption
     DEF Monitor!Init, MonitorShape, MonitorPcShape, Monitor!Zero, Monitor!Threads,
         Monitor!Sources
<1>2. MutexHeld /\ WholeStates
  BY DEF Monitor!Init, MutexHeld, WholeStates, Monitor!Zero, Monitor!Threads, Monitor!Sources
<1>3. Counts
  BY DEF Monitor!Init, Counts, Uncounted, Halfway, Monitor!Zero, Monitor!Threads
<1>4. Reported
  BY DEF Monitor!Init, Reported
<1>5. QED
  BY <1>1, <1>2, <1>3, <1>4 DEF MonitorInv

\* IInv holds in every reachable state.
LEMMA MonitorInvHolds == Spec => []MonitorInv
<1>1. Init => MonitorInv
  BY MonitorInit DEF Init
<1>2. MonitorInv /\ [Next]_vars => MonitorInv'
  <2>1. ASSUME MonitorInv, Monitor!Next PROVE MonitorInv'
    BY <2>1, MonitorShapeStep, MonitorMutexStep, WholeStatesStep, CountsStep, ReportedStep
       DEF MonitorInv
  <2>2. ASSUME MonitorInv, UNCHANGED monitor PROVE MonitorInv'
    BY <2>2
       DEF monitor, MonitorInv, MonitorShape, MonitorPcShape, MutexHeld, WholeStates, Counts,
           Uncounted, Halfway, Reported
  <2>3. QED
    BY <2>1, <2>2 DEF Next, vars, RunLevel1, RunMonitor, RunServer, RunIpc
<1>3. QED
  BY <1>1, <1>2, PTL DEF Spec

\* The counters stay within the bound on updates.
LEMMA MonitorType == MonitorInv => Monitor!TypeOK
<1> SUFFICES ASSUME MonitorInv PROVE Monitor!TypeOK
  OBVIOUS
<1>1. MonitorShape /\ MutexHeld /\ WholeStates /\ Counts /\ Reported
  BY DEF MonitorInv
<1>2. ASSUME NEW s \in Monitor!Sources
      PROVE  /\ total[s] \in 0 .. MaxUpdates /\ recent[s] \in 0 .. MaxUpdates
             /\ seen[s] \in 0 .. MaxUpdates
  <2>1. /\ made[s] \in 0 .. MaxUpdates /\ total[s] \in Nat /\ recent[s] \in Nat
        /\ seen[s] \in Nat
    BY <1>1 DEF MonitorShape
  <2>2. made[s] = total[s] + Uncounted(s) /\ total[s] = seen[s] + recent[s] + Halfway(s)
    BY <1>1 DEF Counts
  <2>3. Uncounted(s) \in {0, 1} /\ Halfway(s) \in {0, 1}
    BY DEF Uncounted, Halfway
  <2>4. QED
    BY <2>1, <2>2, <2>3, RobotAssumption
<1>3. /\ total \in [Monitor!Sources -> 0 .. MaxUpdates]
         /\ recent \in [Monitor!Sources -> 0 .. MaxUpdates]
      /\ seen \in [Monitor!Sources -> 0 .. MaxUpdates]
         /\ made \in [Monitor!Sources -> 0 .. MaxUpdates]
  BY <1>1, <1>2 DEF MonitorShape
<1>4. report \in [Monitor!Sources -> 0 .. MaxUpdates]
  <2>1. Monitor!Zero \in [Monitor!Sources -> 0 .. MaxUpdates]
    BY RobotAssumption DEF Monitor!Zero
  <2>2. QED
    BY <1>1, <1>3, <2>1 DEF Reported, MonitorShape
<1>5. /\ current_robot_state \in [x : 0 .. MaxUpdates, y : 0 .. MaxUpdates]
      /\ state \in [x : 0 .. MaxUpdates, y : 0 .. MaxUpdates]
      /\ logged \in [x : 0 .. MaxUpdates, y : 0 .. MaxUpdates]
  <2>1. made["state"] \in 0 .. MaxUpdates
    BY <1>1 DEF MonitorShape, Monitor!Sources
  <2>2. /\ current_robot_state.x \in 0 .. MaxUpdates /\ current_robot_state.y \in 0 .. MaxUpdates
        /\ logged.x \in 0 .. MaxUpdates /\ logged.y \in 0 .. MaxUpdates
        /\ state.x \in 0 .. MaxUpdates /\ state.y \in 0 .. MaxUpdates
    BY <1>1, <2>1, RobotAssumption DEF MonitorShape, WholeStates
  <2>3. QED
    BY <1>1, <2>2 DEF MonitorShape
<1>6. next \in 1 .. Len(Monitor!Order) + 1
  <2>1. Len(Monitor!Order) = 3
    BY DEF Monitor!Order
  <2>2. QED
    BY <1>1, <2>1 DEF MonitorShape
<1>7. QED
  BY <1>1, <1>3, <1>4, <1>5, <1>6 DEF Monitor!TypeOK, MonitorShape, MutexHeld

\* NoTornState of RobotMonitor.tla: the logger of program3.c, which copies x
\* and y under state_mutex, logs states the robot was in.
THEOREM NoTornStateHolds == Spec => []NoTornState
<1>1. MonitorInv => NoTornState
  BY MonitorType DEF MonitorInv, WholeStates, NoTornState, Monitor!NoTornState
<1>2. QED
  BY MonitorInvHolds, <1>1, PTL

\* NothingLost of RobotMonitor.tla: the watchdog's exchanges lose no update,
\* and the report of main counts all of them.
THEOREM NothingLostHolds == Spec => []NothingLost
<1>1. MonitorInv => NothingLost
  <2> SUFFICES ASSUME MonitorInv PROVE NothingLost
    OBVIOUS
  <2>1. MonitorShape /\ Counts /\ Reported
    BY DEF MonitorInv
  <2>2. ASSUME mpc3 = "done" PROVE report = made /\ total = made
    <3>1. \A s \in Monitor!Sources : pc3[s] = "done" /\ total[s] \in Nat
      BY <2>1, <2>2 DEF Reported, MonitorShape, Monitor!Threads
    <3>2. \A s \in Monitor!Sources : made[s] = total[s] + 0
      BY <2>1, <3>1 DEF Counts, Uncounted
    <3>3. total = made
      BY <2>1, <3>1, <3>2 DEF MonitorShape
    <3>4. QED
      BY <2>1, <2>2, <3>3 DEF Reported
  <2>3. QED
    BY <2>1, <2>2 DEF NothingLost, Monitor!NothingLost, Counts, Halfway
<1>2. QED
  BY MonitorInvHolds, <1>1, PTL

-----------------------------------------------------------------------------
(***************************************************************************)
(* Sums over finite sets.                                                  *)
(*                                                                         *)
(* A fact about every finite set is proved from a smallest subset for      *)
(* which it fails, which the natural numbers as cardinalities provide.     *)
(***************************************************************************)
\* The element MapThenSumSet takes from a set.
First(s) == CHOOSE x \in s : TRUE

\* g adds up f over each set of D, taking the first element of the rest each time.
AddsUp(g, f, D) ==
    g = [s \in D |-> IF s = {} THEN 0 ELSE f[First(s)] + g[s \ {First(s)}]]
\* A function that does so for every subset of S, and the sum over S as
\* MapThenSumSet of the community modules makes it.
SumIter(f, S) == CHOOSE g : AddsUp(g, f, SUBSET S)
Total(f, S) == Server!MapThenSumSet(LAMBDA c : f[c], S)

\* The sum is defined by recursion over the subsets of S.
LEMMA TotalIs == ASSUME NEW f, NEW S PROVE Total(f, S) = SumIter(f, S)[S]
BY DEF Total, SumIter, AddsUp, Server!MapThenSumSet, Server!MapThenFoldSet, First

\* A non-empty set of natural numbers has a least element.
LEMMA LeastOf ==
    ASSUME NEW T \in SUBSET Nat, T # {}
    PROVE  \E x \in T : \A y \in T : x <= y
<1>1. PICK x \in T : \A y \in T : <<y, x>> \notin OpToRel(<, Nat)
  BY NatLessThanWellFounded, WFMin
<1>2. \A y \in T : ~(y < x)
  BY <1>1 DEF OpToRel
<1>3. QED
  BY <1>2

\* A non-empty set of subsets of a finite set has a minimal one.
LEMMA MinimalSubset ==
    ASSUME NEW S, IsFiniteSet(S), NEW T \in SUBSET SUBSET S, T # {}
    PROVE  \E x \in T : \A y \in T : y \subseteq x => y = x
<1>1. IsWellFoundedOn(StrictSubsetOrdering(S), SUBSET S)
  BY FS_StrictSubsetOrderingWellFounded, FS_FiniteSubsetsOfFinite
<1>2. PICK x \in T : \A y \in T : <<y, x>> \notin StrictSubsetOrdering(S)
  BY <1>1, WFMin
<1>3. QED
  BY <1>2 DEF StrictSubsetOrdering

\* A set that is not empty has a first element.
LEMMA FirstOf == ASSUME NEW s, s # {} PROVE First(s) \in s
BY DEF First

\* There is a function that adds up: were there a set for which there is none,
\* there would be a smallest, and its rest would have one.
LEMMA SumExists ==
    ASSUME NEW S, IsFiniteSet(S), NEW f
    PROVE  AddsUp(SumIter(f, S), f, SUBSET S)
<1> DEFINE D(n) == {s \in SUBSET S : Cardinality(s) <= n}
           Bad == {n \in Nat : ~\E g : AddsUp(g, f, D(n))}
<1>0. \A s \in SUBSET S : IsFiniteSet(s) /\ Cardinality(s) \in Nat
        /\ Cardinality(s) <= Cardinality(S)
  BY FS_Subset, FS_CardinalityType
<1>1. Bad = {}
  <2>1. SUFFICES ASSUME Bad # {} PROVE FALSE
    OBVIOUS
  <2>2. PICK n \in Bad : \A m \in Bad : n <= m
    BY <2>1, LeastOf
  <2>3. CASE n = 0
    <3>1. D(0) = {{}}
      BY <1>0, FS_EmptySet
    <3>2. AddsUp([s \in {{}} |-> 0], f, {{}})
      BY DEF AddsUp
    <3>3. QED
      BY <2>2, <2>3, <3>1, <3>2
  <2>4. CASE n # 0
    <3>1. n - 1 \in Nat /\ n - 1 \notin Bad
      <4>1. n \in Nat
        BY <2>2
      <4> HIDE DEF Bad
      <4>2. QED
        BY <2>2, <2>4, <4>1
    <3>2. PICK h : AddsUp(h, f, D(n - 1))
      BY <3>1
    <3> DEFINE g == [s \in D(n) |-> IF s = {} THEN 0 ELSE f[First(s)] + h[s \ {First(s)}]]
    <3>3. ASSUME NEW s \in D(n), s # {}
          PROVE  s \ {First(s)} \in D(n - 1) /\ s \ {First(s)} \in D(n)
      <4>1. First(s) \in s /\ IsFiniteSet(s) /\ Cardinality(s) \in Nat
        BY <1>0, <3>3, FirstOf
      <4>2. Cardinality(s \ {First(s)}) = Cardinality(s) - 1
        BY <4>1, FS_RemoveElement
      <4>3. QED
        BY <4>1, <4>2, <3>1
    <3>4. \A t \in D(n - 1) : t \in D(n) /\ h[t] = g[t]
      <4>1. \A t \in D(n - 1) : t \in D(n)
        BY <3>1, <1>0
      <4>2. h = [s \in D(n - 1) |-> IF s = {} THEN 0 ELSE f[First(s)] + h[s \ {First(s)}]]
        BY <3>2 DEF AddsUp
      <4> HIDE DEF D
      <4>3. \A t \in D(n - 1) : h[t] = IF t = {} THEN 0 ELSE f[First(t)] + h[t \ {First(t)}]
        BY <4>2
      <4>4. QED
        BY <4>1, <4>3
    <3>5. \A s \in D(n) : s # {} => h[s \ {First(s)}] = g[s \ {First(s)}]
      BY <3>3, <3>4
    <3>6. AddsUp(g, f, D(n))
      <4> HIDE DEF D
      <4>1. g = [s \in D(n) |-> IF s = {} THEN 0 ELSE f[First(s)] + g[s \ {First(s)}]]
        BY <3>5
      <4>2. QED
        BY <4>1 DEF AddsUp
    <3>7. QED
      BY <2>2, <3>6
  <2>5. QED
    BY <2>3, <2>4
<1>2. D(Cardinality(S)) = SUBSET S /\ Cardinality(S) \in Nat
  BY <1>0, FS_CardinalityType
<1>3. \E g : AddsUp(g, f, SUBSET S)
  BY <1>1, <1>2
<1>4. QED
  BY <1>3 DEF SumIter

\* SumIter is a number for every subset, and unfolds by one element.
LEMMA SumStep ==
    ASSUME NEW S, IsFiniteSet(S), NEW f \in [S -> Int]
    PROVE  /\ SumIter(f, S) \in [SUBSET S -> Int]
           /\ SumIter(f, S)[{}] = 0
           /\ \A s \in SUBSET S : s # {} =>
                SumIter(f, S)[s] = f[First(s)] + SumIter(f, S)[s \ {First(s)}]
<1> DEFINE g == SumIter(f, S)
<1>1. g = [s \in SUBSET S |-> IF s = {} THEN 0 ELSE f[First(s)] + g[s \ {First(s)}]]
  BY SumExists DEF AddsUp
<1> HIDE DEF g
<1>2. g[{}] = 0 /\ \A s \in SUBSET S : s # {} => g[s] = f[First(s)] + g[s \ {First(s)}]
  BY <1>1
<1>3. \A s \in SUBSET S : g[s] \in Int
  <2>1. SUFFICES ASSUME NEW t \in SUBSET S, g[t] \notin Int PROVE FALSE
    OBVIOUS
  <2> DEFINE Bad == {s \in SUBSET S : g[s] \notin Int}
  <2>2. PICK s \in Bad : \A r \in Bad : r \subseteq s => r = s
    <3>1. Bad \in SUBSET SUBSET S /\ Bad # {}
      BY <2>1
    <3> HIDE DEF Bad
    <3>2. QED
      BY <3>1, MinimalSubset
  <2>3. s # {}
    <3>1. g[s] \notin Int
      BY <2>2
    <3>2. s = {} => g[s] = 0
      BY <1>2
    <3>3. 0 \in Int
      OBVIOUS
    <3>4. QED
      BY <3>1, <3>2, <3>3, Zenon
  <2>4. First(s) \in s
    BY <2>3, FirstOf
  <2>5. s \ {First(s)} \in SUBSET S /\ s \ {First(s)} # s
    BY <2>2, <2>4
  <2>6. g[s \ {First(s)}] \in Int
    BY <2>2, <2>5
  <2>7. g[s] \in Int
    BY <1>2, <2>2, <2>3, <2>4, <2>6
  <2>8. QED
    BY <2>2, <2>7
<1>4. g \in [SUBSET S -> Int]
  BY <1>1, <1>3
<1>5. QED
  BY <1>2, <1>4 DEF g

\* The order does not matter.
LEMMA SumAny ==
    ASSUME NEW S, IsFiniteSet(S), NEW f \in [S -> Int], NEW t \in SUBSET S, NEW y \in t
    PROVE  SumIter(f, S)[t] = f[y] + SumIter(f, S)[t \ {y}]
<1> DEFINE g == SumIter(f, S)
           Bad == {s \in SUBSET S : \E x \in s : g[s] # f[x] + g[s \ {x}]}
<1>0. g \in [SUBSET S -> Int] /\ \A s \in SUBSET S : s # {}
        => g[s] = f[First(s)] + g[s \ {First(s)}]
  BY SumStep
<1> HIDE DEF g
<1>1. SUFFICES ASSUME t \in Bad PROVE FALSE
  BY DEF g
<1>2. PICK s \in Bad : \A r \in Bad : r \subseteq s => r = s
  <2>1. Bad \in SUBSET SUBSET S /\ Bad # {}
    BY <1>1
  <2> HIDE DEF Bad
  <2>2. QED
    BY <2>1, MinimalSubset
<1>3. PICK x \in s : g[s] # f[x] + g[s \ {x}]
  BY <1>2
<1> DEFINE z == First(s)
<1>4. s \in SUBSET S /\ z \in s /\ g[s] = f[z] + g[s \ {z}]
  BY <1>0, <1>2, <1>3, FirstOf
<1> HIDE DEF z
<1>5. x # z
  BY <1>3, <1>4
<1>6. \A r \in SUBSET S : r \subseteq s /\ r # s => \A v \in r : g[r] = f[v] + g[r \ {v}]
  BY <1>2
<1>7. g[s \ {z}] = f[x] + g[(s \ {z}) \ {x}]
  <2>1. s \ {z} \in SUBSET S /\ s \ {z} # s /\ x \in s \ {z}
    BY <1>3, <1>4, <1>5
  <2>2. QED
    BY <1>6, <2>1
<1>8. g[s \ {x}] = f[z] + g[(s \ {z}) \ {x}]
  <2>1. s \ {x} \in SUBSET S /\ s \ {x} # s /\ z \in s \ {x}
    BY <1>3, <1>4, <1>5
  <2>2. (s \ {x}) \ {z} = (s \ {z}) \ {x}
    OBVIOUS
  <2>3. g[s \ {x}] = f[z] + g[(s \ {x}) \ {z}]
    BY <1>6, <2>1
  <2>4. QED
    BY <2>2, <2>3
<1>9. f[x] \in Int /\ f[z] \in Int /\ g[(s \ {z}) \ {x}] \in Int
  BY <1>0, <1>3, <1>4
<1>10. QED
  BY <1>3, <1>4, <1>7, <1>8, <1>9

\* Sums over a set do not depend on what the functions are elsewhere.
LEMMA SumAgrees ==
    ASSUME NEW S, IsFiniteSet(S), NEW A \in SUBSET S, NEW f \in [S -> Int], NEW h \in [A -> Int],
           \A x \in A : h[x] = f[x]
    PROVE  SumIter(h, A)[A] = SumIter(f, S)[A]
<1> DEFINE g == SumIter(f, S)
           k == SumIter(h, A)
           Bad == {s \in SUBSET A : k[s] # g[s]}
<1>0. IsFiniteSet(A)
  BY FS_Subset
<1>1. g[{}] = 0 /\ \A s \in SUBSET S : s # {} => g[s] = f[First(s)] + g[s \ {First(s)}]
  BY SumStep
<1>2. k[{}] = 0 /\ \A s \in SUBSET A : s # {} => k[s] = h[First(s)] + k[s \ {First(s)}]
  BY <1>0, SumStep
<1> HIDE DEF g, k
<1>3. SUFFICES ASSUME A \in Bad PROVE FALSE
  BY DEF g, k
<1>4. PICK s \in Bad : \A r \in Bad : r \subseteq s => r = s
  <2>1. Bad \in SUBSET SUBSET A /\ Bad # {}
    BY <1>3
  <2> HIDE DEF Bad
  <2>2. QED
    BY <1>0, <2>1, MinimalSubset
<1>5. s # {} /\ s \in SUBSET A /\ s \in SUBSET S /\ k[s] # g[s]
  BY <1>1, <1>2, <1>4
<1>6. First(s) \in s
  BY <1>5, FirstOf
<1>7. k[s \ {First(s)}] = g[s \ {First(s)}]
  BY <1>4, <1>5, <1>6
<1>8. h[First(s)] = f[First(s)]
  BY <1>5, <1>6
<1>9. QED
  BY <1>1, <1>2, <1>5, <1>7, <1>8

\* A sum of integers is an integer.
LEMMA TotalType ==
    ASSUME NEW A, IsFiniteSet(A), NEW f \in [A -> Int]
    PROVE  Total(f, A) \in Int
<1>1. SumIter(f, A) \in [SUBSET A -> Int]
  BY SumStep
<1>2. SumIter(f, A)[A] \in Int
  BY <1>1
<1>3. QED
  BY <1>2, TotalIs

\* The sum over nothing is 0.
LEMMA TotalOfNone == ASSUME NEW f \in [{} -> Int] PROVE Total(f, {}) = 0
BY TotalIs, SumStep, FS_EmptySet

\* One more element adds its number.
LEMMA TotalWithOneMore ==
    ASSUME NEW A, IsFiniteSet(A), NEW f \in [A -> Int], NEW c, c \notin A,
           NEW g \in [A \cup {c} -> Int], \A x \in A : g[x] = f[x]
    PROVE  Total(g, A \cup {c}) = Total(f, A) + g[c]
<1> DEFINE B == A \cup {c}
<1>1. IsFiniteSet(B) /\ B \ {c} = A /\ A \in SUBSET B
  BY FS_AddElement
<1>2. SumIter(g, B)[B] = g[c] + SumIter(g, B)[B \ {c}]
  BY <1>1, SumAny
<1>3. SumIter(f, A)[A] = SumIter(g, B)[A]
  BY <1>1, SumAgrees
<1>4. Total(f, A) \in Int /\ g[c] \in Int
  BY TotalType
<1>5. Total(g, B) = SumIter(g, B)[B] /\ Total(f, A) = SumIter(f, A)[A]
  BY TotalIs
<1>6. SumIter(g, B)[B \ {c}] = SumIter(g, B)[A]
  BY <1>1
<1>7. Total(g, B) = g[c] + Total(f, A)
  BY <1>2, <1>3, <1>5, <1>6, Zenon
<1>8. QED
  BY <1>4, <1>7

-----------------------------------------------------------------------------
(***************************************************************************)
(* Lab 7, CounterServer.                                                   *)
(*                                                                         *)
(* The clients counted are those with an answer and the one about to get   *)
(* it: the counter is the sum of one number per client counted, modulo the *)
(* width of an int, because wrapping may be done before or after adding.   *)
(***************************************************************************)
\* The server has accepted a connection and not closed it.
Serving == {"recv", "recv_wait", "count", "send", "close"}

\* Every variable has its type; the counter is an int.
ServerShape ==
    /\ spc \in Serving \cup {"test", "accept", "accept_wait", "cleanup", "exited"}
    /\ keep_running \in BOOLEAN /\ late \in BOOLEAN
    /\ request_counter \in Server!Int_ /\ task \in Server!Int_
    /\ client_fd \in Clients \cup {None} /\ sent \subseteq Clients /\ pending \in Seq(Clients)
    /\ number \in [Clients -> Values] /\ answer \in [Clients -> Server!Int_ \cup {None}]
    /\ cpc \in [Clients -> {"connect", "request", "reply", "done", "failed", "left"}]

\* One connection at most is served, and every other is pending once or gone.
Connections ==
    /\ spc \in Serving => client_fd \in Clients
    /\ open = IF spc \in Serving THEN {client_fd} ELSE {}
    /\ \A i, j \in 1 .. Len(pending) : pending[i] = pending[j] => i = j
    /\ open \cap Server!ToSet(pending) = {}
    /\ spc = "exited" => pending = <<>>
    /\ \A c \in Clients : cpc[c] \in {"connect", "failed"} => Server!Gone(c)

\* Who is answered has sent its request and is answered once.
Answers ==
    /\ \A c \in Server!ToSet(pending) : answer[c] = None
    /\ spc \in Serving \ {"close"} => answer[client_fd] = None
    /\ \A c \in Clients : answer[c] # None => c \in sent
    /\ spc \in {"count", "send"} => client_fd \in sent
    /\ spc = "count" => task \in Server!Parsed(client_fd)
    /\ \A c \in Clients : cpc[c] \in {"connect", "request"} => c \notin sent
    /\ \A c \in Clients : cpc[c] = "failed" => answer[c] = None

\* The clients whose request has been counted.
AnsweredNow == {c \in Clients : answer[c] # None \/ (spc = "send" /\ client_fd = c)}

\* The counter is the sum of one number for each of them.
Counted ==
    \E f \in [AnsweredNow -> Int] :
        /\ \A c \in AnsweredNow : f[c] \in Server!Parsed(c)
        /\ request_counter = Server!Wrap(Total(f, AnsweredNow))

\* The invariant of the server.
CounterInv == ServerShape /\ Connections /\ Answers /\ Counted

\* What % and \div are.
LEMMA DivMod ==
    ASSUME NEW N \in Nat \ {0}, NEW x \in Int
    PROVE  /\ x % N \in 0 .. N - 1 /\ x \div N \in Int
           /\ x = N * (x \div N) + (x % N)
OBVIOUS

\* Division has one remainder.
LEMMA OneRemainder ==
    ASSUME NEW N \in Nat \ {0}, NEW a \in Int, NEW b \in Int, NEW r \in 0 .. N - 1,
           NEW s \in 0 .. N - 1,
           N * a + r = N * b + s
    PROVE  r = s
<1>1. CASE a = b
  BY <1>1
<1>2. CASE a > b
  <2>1. PICK d \in Nat : a = b + 1 + d
    <3>1. a - b - 1 \in Nat /\ a = b + 1 + (a - b - 1)
      BY <1>2
    <3>2. QED
      BY <3>1
  <2>2. N * a = N * b + N + N * d
    BY <2>1
  <2>3. N * d >= 0 /\ N * d \in Int /\ N * b \in Int
    BY <2>1
  <2>4. QED
    BY <2>2, <2>3
<1>3. CASE a < b
  <2>1. PICK d \in Nat : b = a + 1 + d
    <3>1. b - a - 1 \in Nat /\ b = a + 1 + (b - a - 1)
      BY <1>3
    <3>2. QED
      BY <3>1
  <2>2. N * b = N * a + N + N * d
    BY <2>1
  <2>3. N * d >= 0 /\ N * d \in Int /\ N * a \in Int
    BY <2>1
  <2>4. QED
    BY <2>2, <2>3
<1>4. QED
  BY <1>1, <1>2, <1>3

\* A remainder may be taken before or after adding.
LEMMA ModAdds ==
    ASSUME NEW N \in Nat \ {0}, NEW x \in Int, NEW j \in Int
    PROVE  ((x % N) + j) % N = (x + j) % N
<1> DEFINE y == (x % N) + j
<1>1. x % N \in Int /\ x \div N \in Int /\ x = N * (x \div N) + (x % N)
  BY DivMod
<1>2. y \in Int /\ x + j \in Int
  BY <1>1
<1>3. y % N \in 0 .. N - 1 /\ y \div N \in Int /\ y = N * (y \div N) + (y % N)
  BY <1>2, DivMod
<1>4. (x + j) % N \in 0 .. N - 1 /\ (x + j) \div N \in Int
        /\ x + j = N * ((x + j) \div N) + ((x + j) % N)
  BY <1>2, DivMod
<1>5. ASSUME NEW q \in Int, NEW r \in Int, NEW q1 \in Int, NEW r1 \in 0 .. N - 1, NEW q2 \in Int,
             NEW r2 \in 0 .. N - 1,
             x = N * q + r, r + j = N * q1 + r1, x + j = N * q2 + r2
      PROVE  r1 = r2
  <2>1. N * (q + q1) + r1 = N * q2 + r2
    <3>1. N * (q + q1) = N * q + N * q1
      OBVIOUS
    <3>2. N * q \in Int /\ N * q1 \in Int /\ N * q2 \in Int
      OBVIOUS
    <3>3. QED
      BY <1>5, <3>1, <3>2
  <2>2. QED
    BY <2>1, OneRemainder
<1>6. QED
  BY <1>1, <1>3, <1>4, <1>5

\* A wrapped number is an int.
LEMMA WrapType == ASSUME NEW i \in Int PROVE Server!Wrap(i) \in -Half .. Half - 1
<1>1. 2 * Half \in Nat \ {0} /\ i + Half \in Int
  BY BoundsAssumption
<1>2. (i + Half) % (2 * Half) \in 0 .. 2 * Half - 1
  BY <1>1, DivMod
<1>3. QED
  BY <1>2, BoundsAssumption DEF Server!Wrap

\* Wrapping may be done before or after adding.
LEMMA WrapAdds ==
    ASSUME NEW i \in Int, NEW j \in Int
    PROVE  Server!Wrap(Server!Wrap(i) + j) = Server!Wrap(i + j)
<1> DEFINE N == 2 * Half
           m == (i + Half) % N
<1>1. N \in Nat \ {0} /\ i + Half \in Int
  BY BoundsAssumption
<1>2. m \in Int
  BY <1>1, DivMod
<1>3. (m + j) % N = ((i + Half) + j) % N
  BY <1>1, ModAdds
<1>4. Server!Wrap(i) + j + Half = m + j /\ i + j + Half = (i + Half) + j
  BY <1>2, BoundsAssumption DEF Server!Wrap
<1>5. Server!Wrap(Server!Wrap(i) + j) = ((m + j) % N) - Half
        /\ Server!Wrap(i + j) = (((i + Half) + j) % N) - Half
  BY <1>4 DEF Server!Wrap
<1>6. QED
  BY <1>3, <1>5

\* Adding to a wrapped counter is adding to what was wrapped.
LEMMA CountsOn ==
    ASSUME NEW i \in Int, NEW j \in Int, NEW x, x = Server!Wrap(i)
    PROVE  Server!Wrap(x + j) = Server!Wrap(i + j)
BY WrapAdds

\* An element of a sequence is in its set.
LEMMA MemberAt ==
    ASSUME NEW t \in Seq(Clients), NEW j \in 1 .. Len(t)
    PROVE  t[j] \in Server!ToSet(t)
BY DEF Server!ToSet

\* What is in a queue of connections after one more, and in its rest.
LEMMA PendingFacts ==
    ASSUME NEW s \in Seq(Clients)
    PROVE  /\ \A c \in Clients : Server!ToSet(Append(s, c)) = Server!ToSet(s) \cup {c}
           /\ Server!ToSet(s) \subseteq Clients /\ Server!ToSet(<<>>) = {}
           /\ s # <<>> => /\ Head(s) \in Server!ToSet(s) /\ Tail(s) \in Seq(Clients)
                          /\ Server!ToSet(s) = Server!ToSet(Tail(s)) \cup {Head(s)}
<1>1. Server!ToSet(s) \subseteq Clients /\ Server!ToSet(<<>>) = {}
  BY DEF Server!ToSet
<1>2. ASSUME NEW c \in Clients PROVE Server!ToSet(Append(s, c)) = Server!ToSet(s) \cup {c}
  <2>1. Server!ToSet(Append(s, c)) \subseteq Server!ToSet(s) \cup {c}
    BY DEF Server!ToSet
  <2>2. \A i \in 1 .. Len(s) : Append(s, c)[i] = s[i] /\ i \in 1 .. Len(Append(s, c))
    OBVIOUS
  <2>3. Append(s, c)[Len(s) + 1] = c /\ Len(s) + 1 \in 1 .. Len(Append(s, c))
    OBVIOUS
  <2>4. Server!ToSet(s) \cup {c} \subseteq Server!ToSet(Append(s, c))
    BY <2>2, <2>3 DEF Server!ToSet
  <2>5. QED
    BY <2>1, <2>4
<1>3. ASSUME s # <<>>
      PROVE  /\ Head(s) \in Server!ToSet(s) /\ Tail(s) \in Seq(Clients)
             /\ Server!ToSet(s) = Server!ToSet(Tail(s)) \cup {Head(s)}
  <2>1. /\ Tail(s) \in Seq(Clients) /\ Len(Tail(s)) = Len(s) - 1 /\ Len(s) >= 1 /\ Head(s) = s[1]
        /\ Len(s) \in Nat
    BY <1>3
  <2>2. \A i \in 1 .. Len(Tail(s)) : Tail(s)[i] = s[i + 1]
    BY <1>3
  <2>3. Server!ToSet(Tail(s)) \cup {Head(s)} \subseteq Server!ToSet(s)
    BY <2>1, <2>2 DEF Server!ToSet
  <2>4. ASSUME NEW i \in 1 .. Len(s) PROVE s[i] = Head(s) \/ s[i] \in Server!ToSet(Tail(s))
    <3>1. CASE i = 1
      BY <2>1, <3>1
    <3>2. CASE i # 1
      <4>1. i - 1 \in 1 .. Len(Tail(s)) /\ Tail(s)[i - 1] = s[i]
        BY <2>1, <2>2, <3>2
      <4>2. Tail(s)[i - 1] \in Server!ToSet(Tail(s))
        BY <2>1, <4>1, MemberAt
      <4>3. QED
        BY <4>1, <4>2
    <3>3. QED
      BY <3>1, <3>2
  <2>5. Server!ToSet(s) \subseteq Server!ToSet(Tail(s)) \cup {Head(s)}
    BY <2>4 DEF Server!ToSet
  <2>6. Head(s) \in Server!ToSet(s)
    BY <2>3
  <2>7. QED
    BY <2>1, <2>3, <2>5, <2>6
<1>4. QED
  BY <1>1, <1>2, <1>3

\* The first of a queue without repetition is not in its rest.
LEMMA Remaining ==
    ASSUME NEW s \in Seq(Clients), s # <<>>,
           \A i, j \in 1 .. Len(s) : s[i] = s[j] => i = j
    PROVE  /\ Head(s) \notin Server!ToSet(Tail(s))
           /\ \A i, j \in 1 .. Len(Tail(s)) : Tail(s)[i] = Tail(s)[j] => i = j
BY DEF Server!ToSet

\* A queue without repetition stays so when a new client is appended.
LEMMA OneMorePending ==
    ASSUME NEW s \in Seq(Clients), NEW c \in Clients, c \notin Server!ToSet(s),
           \A i, j \in 1 .. Len(s) : s[i] = s[j] => i = j
    PROVE  \A i, j \in 1 .. Len(Append(s, c)) : Append(s, c)[i] = Append(s, c)[j] => i = j
BY DEF Server!ToSet

\* What may be parsed is an int: leading digits are no larger than the number.
LEMMA ParsedType ==
    ASSUME NEW c \in Clients, number \in [Clients -> Values]
    PROVE  Server!Parsed(c) \subseteq Server!Int_
<1>1. number[c] \in Server!Int_
  BY ValuesAssumption DEF Server!Int_
<1>2. \A n \in Nat, p \in Server!Tens : n \div p \in 0 .. n
  BY DEF Server!Tens
<1>3. \A v \in Server!Int_, p \in Server!Tens : Server!Leading(v, p) \in Server!Int_
  <2>1. SUFFICES ASSUME NEW v \in Server!Int_, NEW p \in Server!Tens
                 PROVE  Server!Leading(v, p) \in Server!Int_
    OBVIOUS
  <2>2. CASE v < 0
    <3>1. (-v) \div p \in 0 .. -v
      BY <1>2, <2>2, BoundsAssumption DEF Server!Int_
    <3>2. QED
      BY <2>2, <3>1, BoundsAssumption DEF Server!Int_, Server!Leading
  <2>3. CASE ~(v < 0)
    <3>1. v \div p \in 0 .. v
      BY <1>2, <2>3, BoundsAssumption DEF Server!Int_
    <3>2. QED
      BY <2>3, <3>1, BoundsAssumption DEF Server!Int_, Server!Leading
  <2>4. QED
    BY <2>2, <2>3
<1>4. 0 \in Server!Int_
  BY BoundsAssumption DEF Server!Int_
<1>5. QED
  BY <1>1, <1>3, <1>4 DEF Server!Parsed

\* Every step keeps the types.
LEMMA ServerShapeStep ==
    ASSUME ServerShape, Connections, Server!Next
    PROVE  ServerShape'
<1> USE DEF ServerShape, Server!Serve, Serving, Server!network, Server!running, Server!server
<1>1. CASE Server!Test \/ Server!AcceptBlocks \/ Server!RecvPartOfKeyword \/ Server!RecvBlocks
           \/ Server!RecvEnd \/ Server!Close
  BY <1>1
     DEF Server!Test, Server!AcceptBlocks, Server!RecvPartOfKeyword, Server!RecvBlocks,
         Server!RecvEnd, Server!Close
<1>2. CASE Server!Accept
  BY <1>2, PendingFacts DEF Server!Accept
<1>3. CASE Server!Recv
  BY <1>3, ParsedType DEF Server!Recv, Connections
<1>4. CASE Server!Count
  <2>1. request_counter' = Server!Wrap(request_counter + task) /\ request_counter + task \in Int
    BY <1>4 DEF Server!Count, Server!Int_
  <2>2. request_counter' \in Server!Int_
    BY <2>1, WrapType DEF Server!Int_
  <2>3. QED
    BY <1>4, <2>2 DEF Server!Count
<1>5. CASE Server!Send
  BY <1>5 DEF Server!Send
<1>6. CASE Server!Cleanup
  BY <1>6 DEF Server!Cleanup
<1>7. CASE Server!HandleSigint
  <2>1. late' \in BOOLEAN
    BY <1>7, Zenon DEF Server!HandleSigint
  <2>2. QED
    BY <1>7, <2>1 DEF Server!HandleSigint
<1>8. ASSUME NEW c \in Clients, Server!ClientStep(c) \/ Server!Leave(c) PROVE ServerShape'
  <2>1. CASE Server!Connect(c)
    BY <2>1 DEF Server!Connect, Server!Goto
  <2>2. CASE Server!Request(c) \/ Server!Reply(c) \/ Server!Leave(c)
    BY <2>2 DEF Server!Request, Server!Reply, Server!Leave, Server!Goto
  <2>3. QED
    BY <1>8, <2>1, <2>2 DEF Server!ClientStep
<1>9. QED
  BY <1>1, <1>2, <1>3, <1>4, <1>5, <1>6, <1>7, <1>8 DEF Server!Next, Server!ServerStep

\* Steps of the server that leave the pending connections and the clients.
LEMMA ConnectionsStep ==
    ASSUME ServerShape, Connections, Server!Next
    PROVE  Connections'
<1> USE DEF Server!Serve, Serving, Server!network, Server!running, Server!server
<1>0. None \notin Clients
  BY ValuesAssumption
<1>p. Server!ToSet(pending) \subseteq Clients
  BY PendingFacts DEF ServerShape
<1>1. ASSUME UNCHANGED <<pending, cpc, open, client_fd>>, spc \in Serving <=> spc' \in Serving,
             spc' # "exited"
      PROVE  Connections'
  BY <1>1 DEF Connections, Server!Gone
<1>2. CASE Server!Test \/ Server!AcceptBlocks \/ Server!Recv \/ Server!RecvPartOfKeyword
           \/ Server!RecvBlocks \/ Server!RecvEnd \/ Server!Count \/ Server!Send
  BY <1>1, <1>2
     DEF Server!Test, Server!AcceptBlocks, Server!Recv, Server!RecvPartOfKeyword,
         Server!RecvBlocks, Server!RecvEnd, Server!Count, Server!Send
<1>3. CASE Server!Accept
  <2> DEFINE c == Head(pending)
  <2>1. /\ Server!ToSet(pending) = Server!ToSet(pending') \cup {c}
           /\ c \notin Server!ToSet(pending')
        /\ \A i, j \in 1 .. Len(pending') : pending'[i] = pending'[j] => i = j
    <3>1. /\ pending \in Seq(Clients) /\ pending # <<>> /\ pending' = Tail(pending)
          /\ \A i, j \in 1 .. Len(pending) : pending[i] = pending[j] => i = j
      BY <1>3 DEF Server!Accept, ServerShape, Connections
    <3>2. Server!ToSet(pending) = Server!ToSet(Tail(pending)) \cup {c}
      BY <3>1, PendingFacts
    <3>3. /\ c \notin Server!ToSet(Tail(pending))
          /\ \A i, j \in 1 .. Len(Tail(pending)) : Tail(pending)[i] = Tail(pending)[j] => i = j
      BY <3>1, Remaining
    <3>4. QED
      BY <3>1, <3>2, <3>3
  <2>2. open = {} /\ open' = {c} /\ client_fd' = c /\ c \in Clients /\ spc' = "recv" /\ cpc' = cpc
    BY <1>3, <1>p, <2>1 DEF Server!Accept, Connections
  <2>3. \A d \in Clients : Server!Gone(d) => Server!Gone(d)'
    BY <2>1, <2>2 DEF Server!Gone
  <2>4. QED
    BY <2>1, <2>2, <2>3 DEF Connections
<1>4. CASE Server!Close
  <2>1. open' = {} /\ spc' = "test" /\ UNCHANGED <<pending, cpc>>
    BY <1>4 DEF Server!Close, Connections
  <2>2. \A d \in Clients : Server!Gone(d) => Server!Gone(d)'
    BY <2>1 DEF Server!Gone
  <2>3. QED
    BY <2>1, <2>2 DEF Connections
<1>5. CASE Server!Cleanup
  <2>1. open' = {} /\ spc' = "exited" /\ pending' = <<>> /\ cpc' = cpc
          /\ Server!ToSet(pending') = {}
    BY <1>5 DEF Server!Cleanup, Server!ToSet
  <2>2. \A d \in Clients : Server!Gone(d)'
    BY <2>1 DEF Server!Gone
  <2>3. QED
    BY <2>1, <2>2 DEF Connections
<1>6. CASE Server!HandleSigint
  <2>1. (spc \in Serving <=> spc' \in Serving) /\ spc' # "exited"
    BY <1>6 DEF Server!HandleSigint, ServerShape
  <2>2. QED
    BY <1>1, <1>6, <2>1 DEF Server!HandleSigint
<1>7. ASSUME NEW c \in Clients, Server!Request(c) \/ Server!Reply(c) \/ Server!Leave(c)
      PROVE  Connections'
  <2>1. UNCHANGED <<pending, open, client_fd, spc>>
    BY <1>7 DEF Server!Request, Server!Reply, Server!Leave
  <2>2. \A d \in Clients : cpc'[d] \in {"connect", "failed"} => cpc[d] \in {"connect", "failed"}
          \/ Server!Gone(d)
    BY <1>7 DEF Server!Request, Server!Reply, Server!Leave, Server!Goto, ServerShape
  <2>3. QED
    BY <2>1, <2>2 DEF Connections, Server!Gone
<1>8. ASSUME NEW c \in Clients, Server!Connect(c) PROVE Connections'
  <2>1. UNCHANGED <<open, client_fd, spc>> /\ Server!Gone(c)
          /\ \A d \in Clients : d # c => cpc'[d] = cpc[d]
    BY <1>8 DEF Server!Connect, Server!Goto, Connections, ServerShape
  <2>2. CASE spc = "exited"
    BY <1>8, <2>1, <2>2 DEF Server!Connect, Server!Goto, Connections, Server!Gone, ServerShape
  <2>3. CASE spc # "exited"
    <3>1. pending' = Append(pending, c) /\ cpc'[c] = "request"
            /\ Server!ToSet(pending') = Server!ToSet(pending) \cup {c}
      BY <1>8, <2>3, PendingFacts DEF Server!Connect, Server!Goto, ServerShape
    <3>2. \A i, j \in 1 .. Len(pending') : pending'[i] = pending'[j] => i = j
      BY <2>1, <3>1, OneMorePending DEF Server!Gone, Connections, ServerShape
    <3>3. open' \cap Server!ToSet(pending') = {}
      BY <2>1, <3>1 DEF Connections, Server!Gone
    <3>4. \A d \in Clients : d # c /\ Server!Gone(d) => Server!Gone(d)'
      BY <2>1, <3>1 DEF Server!Gone
    <3>5. QED
      BY <2>1, <2>3, <3>1, <3>2, <3>3, <3>4 DEF Connections
  <2>4. QED
    BY <2>2, <2>3
<1>9. QED
  BY <1>2, <1>3, <1>4, <1>5, <1>6, <1>7, <1>8
     DEF Server!Next, Server!ServerStep, Server!ClientStep

\* Every step keeps answers with the requests that were sent.
LEMMA AnswersStep ==
    ASSUME ServerShape, Connections, Answers, Server!Next
    PROVE  Answers'
<1> USE DEF Server!Serve, Serving, Server!network, Server!running, Server!server
<1>p. Server!ToSet(pending) \subseteq Clients
  BY PendingFacts DEF ServerShape
<1>v. number' = number => \A c : Server!Parsed(c)' = Server!Parsed(c)
  BY DEF Server!Parsed
<1>1. CASE Server!Test \/ Server!AcceptBlocks \/ Server!RecvPartOfKeyword \/ Server!RecvBlocks
           \/ Server!RecvEnd \/ Server!Count \/ Server!Close
  BY <1>1
     DEF Server!Test, Server!AcceptBlocks, Server!RecvPartOfKeyword, Server!RecvBlocks,
         Server!RecvEnd, Server!Count, Server!Close, Answers
<1>2. CASE Server!Recv
  BY <1>2, <1>v DEF Server!Recv, Answers
<1>3. CASE Server!Accept
  <2>1. Server!ToSet(pending) = Server!ToSet(pending') \cup {Head(pending)}
    BY <1>3, PendingFacts DEF Server!Accept, ServerShape
  <2>2. QED
    BY <1>3, <2>1 DEF Server!Accept, Answers
<1>4. CASE Server!Send
  <2>1. client_fd \in Clients /\ client_fd \in sent /\ client_fd \notin Server!ToSet(pending)
    BY <1>4 DEF Server!Send, Connections, Answers
  <2>2. cpc[client_fd] # "failed"
    BY <1>4, <2>1 DEF Server!Send, Connections, Server!Gone
  <2>3. \A d \in Clients : d # client_fd => answer'[d] = answer[d]
    BY <1>4 DEF Server!Send, ServerShape
  <2>4. QED
    BY <1>4, <1>p, <2>1, <2>2, <2>3 DEF Server!Send, Answers
<1>5. CASE Server!Cleanup
  BY <1>5, PendingFacts DEF Server!Cleanup, Answers, Server!ToSet
<1>6. CASE Server!HandleSigint
  BY <1>6, <1>v DEF Server!HandleSigint, Answers
<1>7. ASSUME NEW c \in Clients, Server!Connect(c) PROVE Answers'
  <2>1. \A d \in Clients : d # c => cpc'[d] = cpc[d]
    BY <1>7 DEF Server!Connect, Server!Goto, ServerShape
  <2>2. cpc[c] = "connect" /\ cpc'[c] \in {"request", "failed"} /\ c \notin sent
          /\ answer[c] = None
    BY <1>7 DEF Server!Connect, Server!Goto, Answers, ServerShape
  <2>3. Server!ToSet(pending') \subseteq Server!ToSet(pending) \cup {c}
    <3>1. CASE spc = "exited"
      BY <1>7, <3>1 DEF Server!Connect
    <3>2. CASE spc # "exited"
      <4>1. pending' = Append(pending, c) /\ pending \in Seq(Clients)
        BY <1>7, <3>2 DEF Server!Connect, ServerShape
      <4>2. QED
        BY <4>1, PendingFacts
    <3>3. QED
      BY <3>1, <3>2
  <2>4. UNCHANGED <<Server!server, number, sent, answer>>
    BY <1>7 DEF Server!Connect
  <2>5. QED
    BY <2>1, <2>2, <2>3, <2>4, <1>v DEF Answers
<1>8. ASSUME NEW c \in Clients, Server!Request(c) PROVE Answers'
  <2>1. \A d \in Clients : d # c => cpc'[d] = cpc[d]
    BY <1>8 DEF Server!Request, Server!Goto, ServerShape
  <2>2. /\ cpc[c] = "request" /\ answer[c] = None /\ cpc'[c] \in {"failed", "reply"}
        /\ sent \subseteq sent' /\ sent' \subseteq sent \cup {c}
    BY <1>8 DEF Server!Request, Server!Goto, Answers, ServerShape
  <2>3. UNCHANGED <<Server!server, number, pending, answer>>
    BY <1>8 DEF Server!Request
  <2>4. QED
    BY <2>1, <2>2, <2>3, <1>v DEF Answers
<1>9. ASSUME NEW c \in Clients, Server!Reply(c) \/ Server!Leave(c) PROVE Answers'
  <2>1. \A d \in Clients : d # c => cpc'[d] = cpc[d]
    BY <1>9 DEF Server!Reply, Server!Leave, Server!Goto, ServerShape
  <2>2. cpc'[c] \in {"done", "failed", "left"} /\ (cpc'[c] = "failed" => answer[c] = None)
    BY <1>9 DEF Server!Reply, Server!Leave, Server!Goto, ServerShape
  <2>3. UNCHANGED <<Server!server, number, pending, sent, answer>>
    BY <1>9 DEF Server!Reply, Server!Leave
  <2>4. QED
    BY <2>1, <2>2, <2>3, <1>v DEF Answers
<1>10. QED
  BY <1>1, <1>2, <1>3, <1>4, <1>5, <1>6, <1>7, <1>8, <1>9
     DEF Server!Next, Server!ServerStep, Server!ClientStep

\* Count adds the number of the client it is about to answer; no other step
\* changes the counter or the clients it has counted.
LEMMA CountedStep ==
    ASSUME ServerShape, Connections, Answers, Counted, Server!Next
    PROVE  Counted'
<1> USE DEF Server!Serve, Serving, Server!network, Server!running, Server!server
<1>v. number' = number => \A c : Server!Parsed(c)' = Server!Parsed(c)
  BY DEF Server!Parsed
<1>1. ASSUME AnsweredNow' = AnsweredNow, UNCHANGED <<request_counter, number>> PROVE Counted'
  BY <1>1, <1>v DEF Counted
<1>2. CASE Server!Count
  <2> DEFINE c == client_fd
  <2>1. c \in Clients /\ answer[c] = None /\ spc = "count" /\ spc' = "send"
          /\ task \in Server!Parsed(c)
    BY <1>2 DEF Server!Count, Connections, Answers
  <2>2. AnsweredNow = {d \in Clients : answer[d] # None} /\ c \notin AnsweredNow
    BY <2>1 DEF AnsweredNow
  <2>3. AnsweredNow' = AnsweredNow \cup {c}
    BY <1>2, <2>1, <2>2 DEF AnsweredNow, Server!Count
  <2>4. IsFiniteSet(AnsweredNow)
    <3>1. AnsweredNow \in SUBSET Clients
      BY DEF AnsweredNow
    <3>2. QED
      BY <3>1, ClientsAssumption, FS_Subset
  <2>5. PICK f \in [AnsweredNow -> Int] : /\ \A d \in AnsweredNow : f[d] \in Server!Parsed(d)
                                 /\ request_counter = Server!Wrap(Total(f, AnsweredNow))
    BY DEF Counted
  <2> DEFINE g == [d \in AnsweredNow \cup {c} |-> IF d = c THEN task ELSE f[d]]
  <2>6. task \in Int
    BY DEF ServerShape, Server!Int_
  <2> HIDE DEF c
  <2>7. /\ g \in [AnsweredNow \cup {c} -> Int] /\ g[c] = task
           /\ \A d \in AnsweredNow : g[d] = f[d]
    BY <2>2, <2>6
  <2> HIDE DEF g
  <2>8. Total(g, AnsweredNow \cup {c}) = Total(f, AnsweredNow) + task
          /\ Total(f, AnsweredNow) \in Int
    <3>1. Total(g, AnsweredNow \cup {c}) = Total(f, AnsweredNow) + g[c]
      BY <2>2, <2>4, <2>7, TotalWithOneMore
    <3>2. QED
      BY <2>4, <2>7, <3>1, TotalType
  <2>9. request_counter' = Server!Wrap(Total(g, AnsweredNow \cup {c}))
    <3>1. request_counter' = Server!Wrap(request_counter + task)
      BY <1>2 DEF Server!Count
    <3>2. Server!Wrap(request_counter + task) = Server!Wrap(Total(f, AnsweredNow) + task)
      BY <2>6, <2>8, <2>5, CountsOn
    <3>3. QED
      BY <2>8, <3>1, <3>2
  <2>10. \A d \in AnsweredNow \cup {c} : g[d] \in Server!Parsed(d)'
    <3>1. number' = number
      BY <1>2 DEF Server!Count
    <3>2. QED
      BY <1>v, <2>1, <2>5, <2>7, <3>1 DEF c
  <2>11. QED
    BY <2>3, <2>7, <2>9, <2>10 DEF Counted
<1>3. CASE Server!Send
  <2>1. client_fd \in Clients /\ request_counter # None
    BY <1>3, ValuesAssumption DEF Server!Send, Connections, ServerShape, Server!Int_
  <2>2. AnsweredNow' = AnsweredNow
    BY <1>3, <2>1 DEF Server!Send, AnsweredNow, ServerShape
  <2>3. QED
    BY <1>1, <1>3, <2>2 DEF Server!Send
<1>4. CASE Server!Test \/ Server!Accept \/ Server!AcceptBlocks \/ Server!Recv
           \/ Server!RecvPartOfKeyword \/ Server!RecvBlocks \/ Server!RecvEnd
           \/ Server!Close \/ Server!Cleanup
  <2>1. spc # "send" /\ spc' # "send" /\ UNCHANGED <<answer, request_counter, number>>
    BY <1>4
       DEF Server!Test, Server!Accept, Server!AcceptBlocks, Server!Recv,
           Server!RecvPartOfKeyword, Server!RecvBlocks, Server!RecvEnd, Server!Close,
           Server!Cleanup
  <2>2. AnsweredNow' = AnsweredNow
    BY <2>1 DEF AnsweredNow
  <2>3. QED
    BY <1>1, <2>1, <2>2
<1>5. CASE Server!HandleSigint
  <2>1. (spc' = "send" <=> spc = "send") /\ UNCHANGED <<answer, request_counter, number,
          client_fd>>
    BY <1>5 DEF Server!HandleSigint
  <2>2. AnsweredNow' = AnsweredNow
    BY <2>1 DEF AnsweredNow
  <2>3. QED
    BY <1>1, <2>1, <2>2
<1>6. ASSUME NEW c \in Clients, Server!ClientStep(c) \/ Server!Leave(c) PROVE Counted'
  <2>1. UNCHANGED <<spc, client_fd, answer, request_counter, number>>
    BY <1>6 DEF Server!ClientStep, Server!Connect, Server!Request, Server!Reply, Server!Leave
  <2>2. AnsweredNow' = AnsweredNow
    BY <2>1 DEF AnsweredNow
  <2>3. QED
    BY <1>1, <2>1, <2>2
<1>7. QED
  BY <1>2, <1>3, <1>4, <1>5, <1>6 DEF Server!Next, Server!ServerStep

\* The invariant holds before the server has started.
LEMMA CounterInit == ASSUME Server!Init PROVE CounterInv
<1> USE DEF Server!Init
<1>1. 0 \in Server!Int_ /\ Server!Wrap(0) = 0
  <2>1. 0 + Half = Half /\ Half \in 0 .. 2 * Half - 1
    BY BoundsAssumption
  <2>2. Half % (2 * Half) = Half
    BY <2>1, BoundsAssumption
  <2>3. QED
    BY <2>1, <2>2, BoundsAssumption DEF Server!Int_, Server!Wrap
<1>2. ServerShape
  <2>1. /\ answer \in [Clients -> Server!Int_ \cup {None}] /\ number \in [Clients -> Values]
        /\ cpc \in [Clients -> {"connect", "request", "reply", "done", "failed", "left"}]
    OBVIOUS
  <2>2. pending \in Seq(Clients) /\ sent \subseteq Clients
    OBVIOUS
  <2>3. QED
    BY <1>1, <2>1, <2>2 DEF ServerShape, Serving
<1>3. Connections
  BY PendingFacts DEF Connections, Serving, Server!Gone, Server!ToSet
<1>4. Answers
  BY DEF Answers, Serving, Server!ToSet
<1>5. AnsweredNow = {}
  BY DEF AnsweredNow
<1>6. Counted
  <2> DEFINE f == [c \in {} |-> 0]
  <2>1. f \in [{} -> Int]
    OBVIOUS
  <2>2. Total(f, {}) = 0
    BY <2>1, TotalOfNone
  <2>3. QED
    BY <1>1, <1>5, <2>1, <2>2 DEF Counted
<1>7. QED
  BY <1>2, <1>3, <1>4, <1>6 DEF CounterInv

\* The invariant says nothing of the other programs.
LEMMA CounterStutter == ASSUME CounterInv, UNCHANGED server PROVE CounterInv'
<1> USE DEF server, CounterInv
<1>1. ServerShape' /\ Connections'
  BY DEF ServerShape, Connections, Server!Gone
<1>2. Answers'
  BY DEF Answers, Server!Parsed
<1>3. Counted'
  BY DEF Counted, AnsweredNow, Server!Parsed
<1>4. QED
  BY <1>1, <1>2, <1>3

\* CounterInv holds before anything is launched and for ever.
LEMMA CounterInvHolds == Spec => []CounterInv
<1>1. Init => CounterInv
  BY CounterInit DEF Init
<1>2. CounterInv /\ [Next]_vars => CounterInv'
  <2>1. ASSUME CounterInv, Server!Next PROVE CounterInv'
    BY <2>1, ServerShapeStep, ConnectionsStep, AnswersStep, CountedStep DEF CounterInv
  <2>2. QED
    BY <2>1, CounterStutter DEF Next, vars, RunLevel1, RunMonitor, RunServer, RunIpc
<1>3. QED
  BY <1>1, <1>2, PTL DEF Spec

\* NoDescriptorLeak of CounterServer.tla: every way through the loop of
\* server/main.c closes the connection it accepted.
THEOREM NoDescriptorLeakHolds == Spec => []NoDescriptorLeak
<1>1. CounterInv => NoDescriptorLeak
  BY DEF CounterInv, Connections, NoDescriptorLeak, Server!NoDescriptorLeak, Serving
<1>2. QED
  BY <1>1, CounterInvHolds, PTL

\* AllOrNothing of CounterServer.tla: with signals, departures, cut requests
\* and overflow, the counter of server/main.c is the sum of one number per
\* client answered, and of none for the others.
THEOREM AllOrNothingHolds == Spec => []AllOrNothing
<1>1. CounterInv => AllOrNothing
  <2> SUFFICES ASSUME CounterInv PROVE AllOrNothing
    OBVIOUS
  <2>1. Server!TypeOK
    <3>1. open \cup sent \cup Server!ToSet(pending) \subseteq Clients
      BY PendingFacts DEF CounterInv, ServerShape, Connections
    <3>2. QED
      BY <3>1 DEF CounterInv, ServerShape, Server!TypeOK
  <2>2. PICK f \in [AnsweredNow -> Int] :
            /\ \A c \in AnsweredNow : f[c] \in Server!Parsed(c)
            /\ request_counter = Server!Wrap(Total(f, AnsweredNow))
    BY DEF CounterInv, Counted
  <2>3. f \in [AnsweredNow -> UNION {Server!Parsed(c) : c \in AnsweredNow}]
    BY <2>2
  <2>4. request_counter = Server!Wrap(Server!MapThenSumSet(LAMBDA c : f[c], AnsweredNow))
    BY <2>2 DEF Total
  <2>5. \A c \in Clients : cpc[c] = "failed" => answer[c] = None
    BY DEF CounterInv, Answers
  <2> DEFINE Choices == {h \in [AnsweredNow -> UNION {Server!Parsed(c) : c \in AnsweredNow}] :
                          \A c \in AnsweredNow : h[c] \in Server!Parsed(c)}
  <2>6. \E h \in Choices : request_counter = Server!Wrap(Total(h, AnsweredNow))
    BY <2>2, <2>3
  <2>7. QED
    BY <2>1, <2>5, <2>6 DEF AllOrNothing, Server!AllOrNothing, AnsweredNow, Total
<1>2. QED
  BY <1>1, CounterInvHolds, PTL

-----------------------------------------------------------------------------
(***************************************************************************)
(* Lab 5, across starts and cleanings, IpcObjects.                         *)
(*                                                                         *)
(* Processes that nobody disturbed have all their objects from one         *)
(* generation; objects are as made until the last of the four is opened,   *)
(* and from then on a round moves tokens, tasks and its process together.  *)
(***************************************************************************)
\* The names the cleaner has removed since it started, and the names a process
\* has opened that is at a statement.
Cleaned ==
    CASE cleaner = "mutex" -> {"shm"}
      [] cleaner = "empty" -> {"shm", "mutex"}
      [] cleaner = "full"  -> {"shm", "mutex", "empty"}
      [] OTHER -> {}
OpenedAt(at) ==
    CASE at \in {"off", "shm"} -> {}
      [] at = "mutex" -> {"shm"}
      [] at = "empty" -> {"shm", "mutex"}
      [] at = "full"  -> {"shm", "mutex", "empty"}
      [] OTHER -> Ipc!Names

\* A process has open what its statement says; a mixed one only spoiled objects.
HoldsOpened ==
    /\ \A p \in Ipc!Procs, n \in Ipc!Names : hold[p][n] # 0 <=> n \in OpenedAt(pc[p])
    /\ \A p \in mixed : pc[p] # "off"
    /\ \A p \in mixed, n \in Ipc!Names : hold[p][n] # 0 => <<n, hold[p][n]>> \in spoiled

\* A process that is opening, undisturbed, has what the names lead to.
OpensCurrent ==
    \A p \in Ipc!Procs \ mixed : pc[p] \in {"mutex", "empty", "full"} =>
        /\ cleaner \in {"idle", "shm"}
        /\ \A n \in OpenedAt(pc[p]) : hold[p][n] = path[n]

\* A process that has opened undisturbed has all that the names lead to but
\* for those removed since, or nothing of it.
Current(p) == \A n \in Ipc!Names : hold[p][n] = path[n] <=> n \notin Cleaned
Outdated(p) == \A n \in Ipc!Names : hold[p][n] # path[n]
OneGeneration ==
    /\ \A p \in Ipc!Running \ mixed : Current(p) \/ Outdated(p)
    /\ \A p, q \in Ipc!Running \ mixed, n \in Ipc!Names : hold[p][n] = hold[q][n]
       => hold[p] = hold[q]

\* What a removed name leads to was made beside the cleaner.
Remade == \A n \in Cleaned : path[n] = 0 \/ <<n, path[n]>> \in spoiled

\* While some name leads nowhere the objects behind the others are as made.
AsMade ==
    cleaner \in {"idle", "shm"} /\ (\E n \in Ipc!Names : path[n] = 0) =>
        \A n \in Ipc!Names : path[n] # 0 /\ <<n, path[n]>> \notin spoiled =>
            value[n][path[n]] = Ipc!Initially[n]

\* The invariant of the IPC objects.
IpcInv == Ipc!TypeOK /\ HoldsOpened /\ OpensCurrent /\ OneGeneration /\ Remade /\ AsMade
          /\ Ipc!StartsFindBalance

\* There are finitely many processes, and numbers of objects are not 0.
LEMMA NumbersType ==
    /\ IsFiniteSet(Ipc!Procs)
    /\ \A g \in Ipc!Numbers : g \in Nat /\ g # 0
<1>1. IsFiniteSet(Ipc!Procs)
  BY IpcAssumption, FS_Union DEF Ipc!Procs
<1>2. QED
  BY <1>1, FS_CardinalityType DEF Ipc!Numbers

\* Every step keeps the types.
LEMMA IpcTypeStep ==
    ASSUME Ipc!TypeOK, Ipc!Next
    PROVE  Ipc!TypeOK'
<1> USE DEF Ipc!TypeOK, Ipc!Goto, Ipc!Opening, Ipc!Names
<1>f. ASSUME NEW v \in [Ipc!Names -> [Ipc!Numbers -> Int]],
             NEW s \in SUBSET (Ipc!Names \X Ipc!Numbers), Ipc!Free(v, s)
      PROVE  value' \in [Ipc!Names -> [Ipc!Numbers -> Int]]
             /\ spoiled' \in SUBSET (Ipc!Names \X Ipc!Numbers)
  BY <1>f DEF Ipc!Free
<1>a. ASSUME NEW p \in Ipc!Procs, NEW name \in Ipc!Names, NEW d \in Int, Ipc!Add(p, name, d)
      PROVE  value' \in [Ipc!Names -> [Ipc!Numbers -> Int]]
  <2>1. CASE hold[p][name] \in Ipc!Numbers
    BY <1>a, <2>1 DEF Ipc!Add
  <2>2. CASE hold[p][name] \notin Ipc!Numbers
    <3>1. \A h : h \notin Ipc!Numbers => [value EXCEPT ![name][h] = value[name][h] + d] = value
      OBVIOUS
    <3>2. value' = value
      BY <1>a, <2>2, <3>1 DEF Ipc!Add
    <3>3. QED
      BY <3>2
  <2>3. QED
    BY <2>1, <2>2
<1>o. ASSUME NEW p \in Ipc!Procs PROVE Ipc!Objects(p) \subseteq Ipc!Names \X Ipc!Numbers
  BY DEF Ipc!Objects
<1>1. ASSUME NEW p \in Ipc!Procs, Ipc!Start(p) PROVE Ipc!TypeOK'
  BY <1>1 DEF Ipc!Start, Ipc!objects, Ipc!bounds
<1>2. ASSUME NEW p \in Ipc!Procs, NEW name \in Ipc!Names, Ipc!Open(p, name) PROVE Ipc!TypeOK'
  <2>1. path' \in [Ipc!Names -> Ipc!Numbers \cup {0}]
          /\ value' \in [Ipc!Names -> [Ipc!Numbers -> Int]]
    <3>1. CASE path[name] # 0
      BY <1>2, <3>1 DEF Ipc!Open, Ipc!objects
    <3>2. CASE path[name] = 0
      <4>1. PICK g \in Ipc!Numbers : /\ path' = [path EXCEPT ![name] = g]
                                     /\ value' = [value EXCEPT ![name][g] = Ipc!Initially[name]]
        BY <1>2, <3>2 DEF Ipc!Open
      <4>2. Ipc!Initially[name] \in Int
        BY IpcAssumption DEF Ipc!Initially
      <4>3. QED
        BY <4>1, <4>2
    <3>3. QED
      BY <3>1, <3>2
  <2>2. hold' \in [Ipc!Procs -> [Ipc!Names -> Ipc!Numbers \cup {0}]]
    BY <1>2, <2>1 DEF Ipc!Open
  <2>3. pc' \in [Ipc!Procs -> Ipc!Opening \cup {"off", "token", "lock", "buffer", "unlock",
          "give"}]
    BY <1>2 DEF Ipc!Open, Ipc!After
  <2>4. mixed' \subseteq Ipc!Procs /\ UNCHANGED <<cleaner, Ipc!bounds>>
    BY <1>2 DEF Ipc!Open
  <2>5. spoiled' \subseteq Ipc!Names \X Ipc!Numbers
    BY <1>2, <2>2 DEF Ipc!Open, Ipc!Objects
  <2>6. QED
    BY <2>1, <2>2, <2>3, <2>4, <2>5 DEF Ipc!bounds
<1>3. ASSUME NEW p \in Ipc!Procs, Ipc!Take(p) \/ Ipc!Lock(p) \/ Ipc!Buffer(p) \/ Ipc!Unlock(p)
             \/ Ipc!Give(p)
      PROVE  Ipc!TypeOK'
  <2>1. \E name \in Ipc!Names, d \in {1, -1} : Ipc!Add(p, name, d)
    BY <1>3 DEF Ipc!Take, Ipc!Lock, Ipc!Buffer, Ipc!Unlock, Ipc!Give, Ipc!SemWait
  <2>2. value' \in [Ipc!Names -> [Ipc!Numbers -> Int]]
    BY <2>1, <1>a
  <2>3. pc' \in [Ipc!Procs -> Ipc!Opening \cup {"off", "token", "lock", "buffer", "unlock",
          "give"}]
    BY <1>3 DEF Ipc!Take, Ipc!Lock, Ipc!Buffer, Ipc!Unlock, Ipc!Give
  <2>4. Ipc!Round
    BY <1>3 DEF Ipc!Take, Ipc!Lock, Ipc!Buffer, Ipc!Unlock, Ipc!Give
  <2>5. QED
    BY <2>2, <2>3, <2>4 DEF Ipc!Round, Ipc!bounds
<1>4. ASSUME NEW p \in Ipc!Procs, Ipc!Exit(p) PROVE Ipc!TypeOK'
  <2>1. hold' \in [Ipc!Procs -> [Ipc!Names -> Ipc!Numbers \cup {0}]]
    BY <1>4 DEF Ipc!Exit, Ipc!Leave, Ipc!Nothing
  <2>2. QED
    BY <1>4, <1>f, <2>1 DEF Ipc!Exit, Ipc!Leave, Ipc!bounds
<1>5. ASSUME NEW p \in Ipc!Procs, Ipc!Kill(p) PROVE Ipc!TypeOK'
  <2>1. hold' \in [Ipc!Procs -> [Ipc!Names -> Ipc!Numbers \cup {0}]]
    BY <1>5 DEF Ipc!Kill, Ipc!Leave, Ipc!Nothing
  <2>2. value' \in [Ipc!Names -> [Ipc!Numbers -> Int]]
          /\ spoiled' \in SUBSET (Ipc!Names \X Ipc!Numbers)
    BY <1>5, <1>f, <1>o DEF Ipc!Kill
  <2>3. pc' \in [Ipc!Procs -> Ipc!Opening \cup {"off", "token", "lock", "buffer", "unlock",
          "give"}]
    BY <1>5 DEF Ipc!Kill, Ipc!Leave
  <2>4. mixed' \subseteq Ipc!Procs /\ kills' \in 0..MaxKill /\ UNCHANGED <<path, cleaner, cleans>>
    BY <1>5, IpcAssumption DEF Ipc!Kill, Ipc!Leave
  <2>5. QED
    BY <2>1, <2>2, <2>3, <2>4
<1>6. CASE Ipc!CleanerStart
  BY <1>6, IpcAssumption DEF Ipc!CleanerStart, Ipc!objects
<1>7. ASSUME NEW name \in Ipc!Names, Ipc!Unlink(name) PROVE Ipc!TypeOK'
  <2>1. path' \in [Ipc!Names -> Ipc!Numbers \cup {0}]
    BY <1>7 DEF Ipc!Unlink, Ipc!Removed
  <2>2. value' \in [Ipc!Names -> [Ipc!Numbers -> Int]]
          /\ spoiled' \in SUBSET (Ipc!Names \X Ipc!Numbers)
    BY <1>7, <1>f, <1>o DEF Ipc!Unlink, Ipc!HalfOpen
  <2>3. mixed' \subseteq Ipc!Procs
    BY <1>7 DEF Ipc!Unlink, Ipc!HalfOpen
  <2>4. QED
    BY <1>7, <2>1, <2>2, <2>3 DEF Ipc!Unlink, Ipc!bounds, Ipc!After
<1>8. QED
  BY <1>1, <1>2, <1>3, <1>4, <1>5, <1>6, <1>7 DEF Ipc!Next, Ipc!Process

\* What a step leaves of an object that is referenced before and after it.
Kept ==
    \A n \in Ipc!Names, g \in Ipc!Numbers :
        Ipc!Referenced(n, g) /\ Ipc!Referenced(n, g)' =>
            /\ value'[n][g] = value[n][g]
            /\ <<n, g>> \in spoiled => <<n, g>> \in spoiled'

\* The effects of the steps, name by name.
Opens(p, name) ==
    /\ pc[p] = name /\ pc' = [pc EXCEPT ![p] = Ipc!After[name]] /\ cleaner' = cleaner
    /\ SameExcept(hold, hold', Ipc!Procs, p)
    /\ \A n \in Ipc!Names : hold'[p][n] = IF n = name THEN path'[name] ELSE hold[p][n]
    /\ \A n \in Ipc!Names \ {name} : path'[n] = path[n]
    /\ path'[name] # 0
    /\ path[name] # 0 => path'[name] = path[name]
    /\ path[name] = 0 => /\ ~Ipc!Referenced(name, path'[name])
                         /\ value'[name][path'[name]] = Ipc!Initially[name]
    /\ mixed' = IF cleaner \in {"idle", "shm"} THEN mixed ELSE mixed \cup {p}
    /\ p \in mixed' => \A n \in Ipc!Names : hold'[p][n] # 0 => <<n, hold'[p][n]>> \in spoiled'
    /\ Kept

\* What an exit or a kill comes to: p lets go of all it has, and spoils it when
\* it was in a round.
Leaves(p) ==
    /\ pc[p] # "off" /\ pc' = [pc EXCEPT ![p] = "off"]
    /\ SameExcept(hold, hold', Ipc!Procs, p) /\ \A n \in Ipc!Names : hold'[p][n] = 0
    /\ mixed' = mixed \ {p} /\ UNCHANGED <<path, cleaner>>
    /\ pc[p] \in Ipc!Opening \cup {"token"} \/
       \A n \in Ipc!Names, g \in Ipc!Numbers : hold[p][n] = g
         /\ Ipc!Referenced(n, g)' => <<n, g>> \in spoiled'
    /\ Kept

\* What sem_unlink or shm_unlink comes to: the name is free, and who is in the
\* middle of its opens is mixed.
Unlinks(name) ==
    /\ cleaner = name /\ cleaner' = IF name = "full" THEN "idle" ELSE Ipc!After[name]
    /\ path'[name] = 0 /\ \A n \in Ipc!Names \ {name} : path'[n] = path[n]
    /\ UNCHANGED <<hold, pc>> /\ mixed' = mixed \cup Ipc!HalfOpen
    /\ \A p \in Ipc!HalfOpen, n \in Ipc!Names : hold[p][n] # 0 => <<n, hold[p][n]>> \in spoiled'
    /\ Kept

\* A round is five steps of a process that has opened everything.
Rounds(p) == Ipc!Take(p) \/ Ipc!Lock(p) \/ Ipc!Buffer(p) \/ Ipc!Unlock(p) \/ Ipc!Give(p)

\* An open has the effect Opens.
LEMMA OpensEffect ==
    ASSUME Ipc!TypeOK, Ipc!TypeOK', NEW p \in Ipc!Procs, NEW name \in Ipc!Names, Ipc!Open(p, name)
    PROVE  Opens(p, name)
<1> USE DEF Ipc!TypeOK
<1>1. pc[p] = name /\ pc' = [pc EXCEPT ![p] = Ipc!After[name]] /\ cleaner' = cleaner
  BY DEF Ipc!Open, Ipc!Goto
<1>2. hold' = [hold EXCEPT ![p][name] = path'[name]]
  BY DEF Ipc!Open
<1>3. /\ SameExcept(hold, hold', Ipc!Procs, p)
      /\ \A n \in Ipc!Names : hold'[p][n] = IF n = name THEN path'[name] ELSE hold[p][n]
  BY <1>2 DEF SameExcept
<1>4. mixed' = IF cleaner \in {"idle", "shm"} THEN mixed ELSE mixed \cup {p}
  BY DEF Ipc!Open
<1>5. /\ spoiled \subseteq spoiled'
      /\ p \in mixed' => Ipc!Objects(p)' \subseteq spoiled'
  BY DEF Ipc!Open
<1>6. p \in mixed' => \A n \in Ipc!Names : hold'[p][n] # 0 => <<n, hold'[p][n]>> \in spoiled'
  <2>1. SUFFICES ASSUME p \in mixed', NEW n \in Ipc!Names, hold'[p][n] # 0
                 PROVE  <<n, hold'[p][n]>> \in Ipc!Objects(p)'
    BY <1>5
  <2>2. hold'[p][n] \in Ipc!Numbers
    BY <2>1
  <2>3. QED
    BY <2>2 DEF Ipc!Objects
<1>7. CASE path[name] # 0
  <2>1. path' = path /\ value' = value
    BY <1>7 DEF Ipc!Open, Ipc!objects
  <2>2. Kept
    BY <2>1, <1>5 DEF Kept
  <2>3. QED
    BY <1>1, <1>3, <1>4, <1>6, <1>7, <2>1, <2>2 DEF Opens
<1>8. CASE path[name] = 0
  <2>1. PICK g \in Ipc!Numbers : /\ ~Ipc!Referenced(name, g)
                                 /\ path' = [path EXCEPT ![name] = g]
                                 /\ value' = [value EXCEPT ![name][g] = Ipc!Initially[name]]
    BY <1>8 DEF Ipc!Open
  <2>2. path'[name] = g /\ g # 0 /\ \A n \in Ipc!Names \ {name} : path'[n] = path[n]
    BY <2>1, NumbersType
  <2>3. value'[name][g] = Ipc!Initially[name]
    BY <2>1
  <2>4. \A n \in Ipc!Names, h \in Ipc!Numbers : n # name \/ h # g => value'[n][h] = value[n][h]
    BY <2>1
  <2>5. Kept
    BY <2>1, <2>4, <1>5 DEF Kept
  <2>6. QED
    BY <1>1, <1>3, <1>4, <1>6, <1>8, <2>1, <2>2, <2>3, <2>5 DEF Opens
<1>9. QED
  BY <1>7, <1>8

\* Freeing what nobody references keeps what somebody does.
LEMMA FreeKeeps ==
    ASSUME Ipc!TypeOK, NEW s \in SUBSET (Ipc!Names \X Ipc!Numbers), spoiled \subseteq s,
           Ipc!Free(value, s)
    PROVE  /\ Kept
           /\ \A n \in Ipc!Names, g \in Ipc!Numbers : <<n, g>> \in s
              /\ Ipc!Referenced(n, g)' => <<n, g>> \in spoiled'
<1>1. \A n \in Ipc!Names, g \in Ipc!Numbers : <<n, g>> \in s
        /\ Ipc!Referenced(n, g)' => <<n, g>> \in spoiled'
  BY DEF Ipc!Free
<1>2. \A n \in Ipc!Names, g \in Ipc!Numbers : Ipc!Referenced(n, g)' => value'[n][g] = value[n][g]
  BY DEF Ipc!Free
<1>3. QED
  BY <1>1, <1>2 DEF Kept

\* An exit and a kill have the effect Leaves.
LEMMA LeavesEffect ==
    ASSUME Ipc!TypeOK, NEW p \in Ipc!Procs, Ipc!Exit(p) \/ Ipc!Kill(p)
    PROVE  Leaves(p)
<1>1. /\ pc[p] # "off" /\ pc' = [pc EXCEPT ![p] = "off"]
      /\ hold' = [hold EXCEPT ![p] = Ipc!Nothing]
      /\ mixed' = mixed \ {p} /\ UNCHANGED <<path, cleaner>>
  BY DEF Ipc!Exit, Ipc!Kill, Ipc!Leave
<1>2. SameExcept(hold, hold', Ipc!Procs, p) /\ \A n \in Ipc!Names : hold'[p][n] = 0
  BY <1>1 DEF SameExcept, Ipc!TypeOK, Ipc!Nothing
<1>3. CASE Ipc!Free(value, spoiled) /\ pc[p] \in Ipc!Opening \cup {"token"}
  BY <1>1, <1>2, <1>3, FreeKeeps DEF Leaves, Ipc!TypeOK
<1>4. CASE Ipc!Free(value, spoiled \cup Ipc!Objects(p))
  <2>1. spoiled \cup Ipc!Objects(p) \in SUBSET (Ipc!Names \X Ipc!Numbers)
    BY DEF Ipc!TypeOK, Ipc!Objects
  <2>2. \A n \in Ipc!Names, g \in Ipc!Numbers : hold[p][n] = g => <<n, g>> \in Ipc!Objects(p)
    BY DEF Ipc!Objects
  <2>3. Kept /\ \A n \in Ipc!Names, g \in Ipc!Numbers :
              <<n, g>> \in spoiled \cup Ipc!Objects(p)
                /\ Ipc!Referenced(n, g)' => <<n, g>> \in spoiled'
    BY <1>4, <2>1, FreeKeeps
  <2>4. QED
    BY <1>1, <1>2, <2>2, <2>3 DEF Leaves
<1>5. QED
  BY <1>3, <1>4 DEF Ipc!Exit, Ipc!Kill

\* An unlink has the effect Unlinks.
LEMMA UnlinksEffect ==
    ASSUME Ipc!TypeOK, NEW name \in Ipc!Names, Ipc!Unlink(name)
    PROVE  Unlinks(name)
<1> DEFINE s == spoiled \cup UNION {Ipc!Objects(p) : p \in Ipc!HalfOpen}
<1>1. s \in SUBSET (Ipc!Names \X Ipc!Numbers)
  BY DEF Ipc!TypeOK, Ipc!Objects
<1>2. Kept /\ \A n \in Ipc!Names, g \in Ipc!Numbers : <<n, g>> \in s
        /\ Ipc!Referenced(n, g)' => <<n, g>> \in spoiled'
  BY <1>1, FreeKeeps DEF Ipc!Unlink
<1>3. path'[name] = 0 /\ \A n \in Ipc!Names \ {name} : path'[n] = path[n]
  BY DEF Ipc!Unlink, Ipc!Removed, Ipc!TypeOK
<1>4. \A p \in Ipc!HalfOpen, n \in Ipc!Names : hold[p][n] # 0 => <<n, hold[p][n]>> \in spoiled'
  <2>1. SUFFICES ASSUME NEW p \in Ipc!HalfOpen, NEW n \in Ipc!Names, hold[p][n] # 0
                 PROVE  <<n, hold[p][n]>> \in spoiled'
    OBVIOUS
  <2>2. p \in Ipc!Procs /\ hold[p][n] \in Ipc!Numbers /\ hold' = hold
    BY <2>1 DEF Ipc!HalfOpen, Ipc!TypeOK, Ipc!Unlink
  <2>3. <<n, hold[p][n]>> \in Ipc!Objects(p)
    BY <2>2 DEF Ipc!Objects
  <2>4. Ipc!Referenced(n, hold[p][n])'
    BY <2>2 DEF Ipc!Referenced
  <2>5. QED
    BY <1>2, <2>2, <2>3, <2>4
<1>5. QED
  BY <1>2, <1>3, <1>4 DEF Unlinks, Ipc!Unlink

\* The statements of a round, and what a step in it comes to.
RoundAt == {"token", "lock", "buffer", "unlock", "give"}
Moves(p) ==
    /\ pc[p] \in RoundAt /\ pc'[p] \in RoundAt /\ SameExcept(pc, pc', Ipc!Procs, p)
    /\ \A n \in Ipc!Names, g \in Ipc!Numbers : g # hold[p][n] => value'[n][g] = value[n][g]
    /\ UNCHANGED <<path, hold, cleaner, mixed, spoiled>>

\* A step in a round has the effect Moves.
LEMMA MovesEffect ==
    ASSUME Ipc!TypeOK, NEW p \in Ipc!Procs, Rounds(p)
    PROVE  Moves(p)
<1>1. \E name \in Ipc!Names, d \in {1, -1} : Ipc!Add(p, name, d)
  BY DEF Rounds, Ipc!Take, Ipc!Lock, Ipc!Buffer, Ipc!Unlock, Ipc!Give, Ipc!SemWait, Ipc!Names
<1>2. \A n \in Ipc!Names, g \in Ipc!Numbers : g # hold[p][n] => value'[n][g] = value[n][g]
  BY <1>1 DEF Ipc!TypeOK, Ipc!Add
<1>3. /\ pc[p] \in RoundAt /\ pc'[p] \in RoundAt /\ SameExcept(pc, pc', Ipc!Procs, p)
      /\ Ipc!Round
  BY DEF Rounds, Ipc!Take, Ipc!Lock, Ipc!Buffer, Ipc!Unlock, Ipc!Give, Ipc!Goto, Ipc!TypeOK,
         SameExcept, RoundAt
<1>4. QED
  BY <1>2, <1>3 DEF Moves, Ipc!Round

\* A process, or the cleaner, begins.
Starts(p) == /\ pc[p] = "off" /\ pc'[p] = "shm" /\ SameExcept(pc, pc', Ipc!Procs, p)
             /\ UNCHANGED <<path, value, hold, cleaner, mixed, spoiled>>
CleanerStarts == /\ cleaner = "idle" /\ cleaner' = "shm"
                 /\ UNCHANGED <<path, value, hold, pc, mixed, spoiled>>

\* Every step has one of these effects.
LEMMA StepKinds ==
    ASSUME Ipc!TypeOK, Ipc!TypeOK', Ipc!Next
    PROVE  \/ \E p \in Ipc!Procs : Starts(p) \/ Moves(p) \/ Leaves(p)
           \/ \E p \in Ipc!Procs, name \in Ipc!Names : Opens(p, name)
           \/ CleanerStarts
           \/ \E name \in Ipc!Names : Unlinks(name)
<1>1. ASSUME NEW p \in Ipc!Procs, Ipc!Start(p) PROVE Starts(p)
  BY <1>1 DEF Ipc!Start, Starts, Ipc!Goto, SameExcept, Ipc!TypeOK, Ipc!objects
<1>2. ASSUME Ipc!CleanerStart PROVE CleanerStarts
  BY <1>2 DEF Ipc!CleanerStart, CleanerStarts, Ipc!objects
<1>3. QED
  BY <1>1, <1>2, OpensEffect, MovesEffect, LeavesEffect, UnlinksEffect
     DEF Ipc!Next, Ipc!Process, Rounds

\* The order of the four opens.
LEMMA OpenedAfter ==
    ASSUME NEW name \in Ipc!Names
    PROVE  /\ OpenedAt(Ipc!After[name]) = OpenedAt(name) \cup {name} /\ name \notin OpenedAt(name)
           /\ Ipc!After[name] \in {"mutex", "empty", "full", "token"}
           /\ Ipc!After[name] = "token" <=> name = "full"
           /\ name \in {"mutex", "empty", "full"} <=> name # "shm"
           /\ OpenedAt("shm") = {} /\ OpenedAt("off") = {}
           /\ \A at \in RoundAt : OpenedAt(at) = Ipc!Names
           /\ OpenedAt(name) \subseteq Ipc!Names
BY DEF OpenedAt, Ipc!After, Ipc!Names, RoundAt

\* Every step keeps what is held what has been opened.
LEMMA HoldsOpenedStep ==
    ASSUME Ipc!TypeOK, Ipc!TypeOK', HoldsOpened, Ipc!Next
    PROVE  HoldsOpened'
<1> USE DEF SameExcept, Ipc!TypeOK
<1>s. ASSUME NEW q \in mixed, NEW n \in Ipc!Names, hold[q][n] # 0, hold'[q][n] = hold[q][n], Kept
      PROVE  <<n, hold'[q][n]>> \in spoiled'
  <2>1. q \in Ipc!Procs /\ hold[q][n] \in Ipc!Numbers /\ <<n, hold[q][n]>> \in spoiled
    BY <1>s DEF HoldsOpened
  <2>2. Ipc!Referenced(n, hold[q][n]) /\ Ipc!Referenced(n, hold[q][n])'
    BY <1>s, <2>1 DEF Ipc!Referenced
  <2>3. QED
    BY <1>s, <2>1, <2>2 DEF Kept
<1>1. ASSUME NEW p \in Ipc!Procs, Starts(p) PROVE HoldsOpened'
  BY <1>1, OpenedAfter DEF Starts, HoldsOpened, OpenedAt
<1>2. ASSUME NEW p \in Ipc!Procs, Moves(p) PROVE HoldsOpened'
  <2>1. OpenedAt(pc[p]) = Ipc!Names /\ OpenedAt(pc'[p]) = Ipc!Names /\ pc'[p] # "off"
    BY <1>2 DEF Moves, OpenedAt, RoundAt
  <2>2. QED
    BY <1>2, <2>1 DEF Moves, HoldsOpened
<1>3. ASSUME NEW p \in Ipc!Procs, Leaves(p) PROVE HoldsOpened'
  <2>1. OpenedAt(pc'[p]) = {}
    BY <1>3 DEF Leaves, OpenedAt
  <2>2. \A q \in Ipc!Procs, n \in Ipc!Names : hold'[q][n] # 0 <=> n \in OpenedAt(pc'[q])
    <3> TAKE q \in Ipc!Procs, n \in Ipc!Names
    <3>1. CASE q = p
      BY <1>3, <2>1, <3>1 DEF Leaves
    <3>2. CASE q # p
      BY <1>3, <3>2 DEF Leaves, HoldsOpened
    <3>3. QED
      BY <3>1, <3>2
  <2>3. \A q \in mixed', n \in Ipc!Names : hold'[q][n] # 0 => <<n, hold'[q][n]>> \in spoiled'
    BY <1>3, <1>s DEF Leaves
  <2>4. \A q \in mixed' : pc'[q] # "off"
    BY <1>3 DEF Leaves, HoldsOpened
  <2>5. QED
    BY <2>2, <2>3, <2>4 DEF HoldsOpened
<1>4. ASSUME NEW p \in Ipc!Procs, NEW name \in Ipc!Names, Opens(p, name) PROVE HoldsOpened'
  <2>1. pc'[p] = Ipc!After[name] /\ \A q \in Ipc!Procs \ {p} : pc'[q] = pc[q]
    BY <1>4 DEF Opens
  <2>2. \A q \in Ipc!Procs, n \in Ipc!Names : hold'[q][n] # 0 <=> n \in OpenedAt(pc'[q])
    <3> TAKE q \in Ipc!Procs, n \in Ipc!Names
    <3>1. CASE q = p
      <4>1. hold[p][n] # 0 <=> n \in OpenedAt(name)
        BY <1>4 DEF Opens, HoldsOpened
      <4>2. hold'[p][n] # 0 <=> (n = name \/ hold[p][n] # 0)
        BY <1>4 DEF Opens
      <4>3. OpenedAt(pc'[p]) = OpenedAt(name) \cup {name}
        BY <2>1, OpenedAfter
      <4>4. QED
        BY <3>1, <4>1, <4>2, <4>3
    <3>2. CASE q # p
      BY <1>4, <2>1, <3>2 DEF Opens, HoldsOpened
    <3>3. QED
      BY <3>1, <3>2
  <2>3. \A q \in mixed', n \in Ipc!Names : hold'[q][n] # 0 => <<n, hold'[q][n]>> \in spoiled'
    BY <1>4, <1>s DEF Opens
  <2>4. \A q \in mixed' : pc'[q] # "off"
    BY <1>4, <2>1, OpenedAfter DEF Opens, HoldsOpened
  <2>5. QED
    BY <2>2, <2>3, <2>4 DEF HoldsOpened
<1>5. CASE CleanerStarts
  BY <1>5 DEF CleanerStarts, HoldsOpened
<1>6. ASSUME NEW name \in Ipc!Names, Unlinks(name) PROVE HoldsOpened'
  <2>1. \A q \in mixed', n \in Ipc!Names : hold'[q][n] # 0 => <<n, hold'[q][n]>> \in spoiled'
    BY <1>6, <1>s DEF Unlinks
  <2>2. \A q \in mixed' : pc'[q] # "off"
    BY <1>6 DEF Unlinks, HoldsOpened, Ipc!HalfOpen, Ipc!Opening
  <2>3. \A q \in Ipc!Procs, n \in Ipc!Names : hold'[q][n] # 0 <=> n \in OpenedAt(pc'[q])
    BY <1>6 DEF Unlinks, HoldsOpened
  <2>4. QED
    BY <2>1, <2>2, <2>3 DEF HoldsOpened
<1>7. QED
  BY <1>1, <1>2, <1>3, <1>4, <1>5, <1>6, StepKinds

\* Every step keeps the opened objects of who is opening current.
LEMMA OpensCurrentStep ==
    ASSUME Ipc!TypeOK, Ipc!TypeOK', HoldsOpened, OpensCurrent, Ipc!Next
    PROVE  OpensCurrent'
<1> USE DEF SameExcept, Ipc!TypeOK
<1> SUFFICES ASSUME NEW q \in Ipc!Procs, q \notin mixed', pc'[q] \in {"mutex", "empty", "full"}
             PROVE  /\ cleaner' \in {"idle", "shm"}
                    /\ \A n \in OpenedAt(pc'[q]) : hold'[q][n] = path'[n]
  BY DEF OpensCurrent
<1>0. \A at : OpenedAt(at) \subseteq Ipc!Names
  BY DEF OpenedAt, Ipc!Names
<1>1. ASSUME NEW p \in Ipc!Procs, Starts(p)
      PROVE  q # p /\ UNCHANGED <<cleaner, path, hold, mixed>>
  BY <1>1 DEF Starts
<1>2. ASSUME NEW p \in Ipc!Procs, Moves(p) PROVE q # p /\ UNCHANGED <<cleaner, path, hold, mixed>>
  BY <1>2 DEF Moves, RoundAt
<1>3. ASSUME NEW p \in Ipc!Procs, Leaves(p)
      PROVE  q # p /\ UNCHANGED <<cleaner, path>> /\ q \notin mixed
  BY <1>3 DEF Leaves
<1>4. CASE UNCHANGED <<cleaner, path>> /\ q \notin mixed /\ pc'[q] = pc[q] /\ hold'[q] = hold[q]
  BY <1>4 DEF OpensCurrent
<1>5. ASSUME NEW p \in Ipc!Procs, NEW name \in Ipc!Names, Opens(p, name)
      PROVE  /\ cleaner' \in {"idle", "shm"}
             /\ \A n \in OpenedAt(pc'[q]) : hold'[q][n] = path'[n]
  <2>1. CASE q = p
    <3>1. cleaner' \in {"idle", "shm"} /\ q \notin mixed /\ pc[q] = name
      BY <1>5, <2>1 DEF Opens
    <3>2. OpenedAt(pc'[q]) = OpenedAt(name) \cup {name}
      BY <1>5, <2>1, OpenedAfter DEF Opens
    <3>3. ASSUME NEW n \in OpenedAt(name) PROVE hold'[q][n] = path'[n]
      <4>1. n # name /\ name # "shm" /\ n \in Ipc!Names
        BY <3>3, OpenedAfter
      <4>2. name \in {"mutex", "empty", "full"}
        BY <4>1, OpenedAfter
      <4>3. hold[q][n] = path[n]
        BY <3>1, <3>3, <4>2 DEF OpensCurrent
      <4>4. QED
        BY <1>5, <2>1, <4>1, <4>3 DEF Opens
    <3>4. hold'[q][name] = path'[name]
      BY <1>5, <2>1 DEF Opens
    <3>5. QED
      BY <3>1, <3>2, <3>3, <3>4
  <2>2. CASE q # p
    <3>1. cleaner' = cleaner /\ q \notin mixed /\ pc'[q] = pc[q] /\ hold'[q] = hold[q]
      BY <1>5, <2>2 DEF Opens
    <3>2. ASSUME NEW n \in OpenedAt(pc[q]) PROVE hold'[q][n] = path'[n]
      <4>1. hold[q][n] = path[n] /\ hold[q][n] # 0 /\ n \in Ipc!Names
        BY <3>1, <3>2, <1>0 DEF OpensCurrent, HoldsOpened
      <4>2. path'[n] = path[n]
        BY <1>5, <4>1 DEF Opens
      <4>3. QED
        BY <3>1, <4>1, <4>2
    <3>3. QED
      BY <3>1, <3>2 DEF OpensCurrent
  <2>3. QED
    BY <2>1, <2>2
<1>6. CASE CleanerStarts
  BY <1>6 DEF CleanerStarts, OpensCurrent
<1>7. ASSUME NEW name \in Ipc!Names, Unlinks(name) PROVE FALSE
  <2>1. pc[q] \in {"mutex", "empty", "full"} /\ q \notin Ipc!HalfOpen
    BY <1>7 DEF Unlinks
  <2>2. "shm" \in OpenedAt(pc[q])
    BY <2>1 DEF OpenedAt
  <2>3. hold[q]["shm"] # 0
    BY <2>2 DEF HoldsOpened, Ipc!Names
  <2>4. hold[q] # Ipc!Nothing
    BY <2>3 DEF Ipc!Nothing, Ipc!Names
  <2>5. QED
    BY <2>1, <2>4 DEF Ipc!HalfOpen, Ipc!Opening
<1>8. QED
  <2>1. ASSUME NEW p \in Ipc!Procs, Starts(p) \/ Moves(p) \/ Leaves(p)
        PROVE  pc'[q] = pc[q] /\ hold'[q] = hold[q]
    <3>1. q # p
      BY <1>1, <1>2, <1>3, <2>1
    <3>2. QED
      BY <2>1, <3>1 DEF Starts, Moves, Leaves
  <2>2. QED
    BY <1>1, <1>2, <1>3, <1>4, <1>5, <1>6, <1>7, <2>1, StepKinds

\* Something has been removed only while the cleaner is between two names.
LEMMA CleanedSoFar ==
    ASSUME Ipc!TypeOK
    PROVE  Cleaned \subseteq Ipc!Names /\ (cleaner \in {"idle", "shm"} <=> Cleaned = {})
BY DEF Ipc!TypeOK, Cleaned, Ipc!Names

\* One unlink removes one name, and the last one ends the cleaning.
LEMMA CleanedMore ==
    ASSUME Ipc!TypeOK, NEW name \in Ipc!Names, Unlinks(name)
    PROVE  /\ name \notin Cleaned
           /\ name # "full" => Cleaned' = Cleaned \cup {name} /\ cleaner' \notin {"idle", "shm"}
           /\ name = "full" => /\ Cleaned = Ipc!Names \ {"full"} /\ Cleaned' = {}
                               /\ cleaner' = "idle"
BY DEF Ipc!TypeOK, Cleaned, Ipc!Names, Unlinks, Ipc!After

\* Every step keeps undisturbed processes in one generation of objects.
LEMMA OneGenerationStep ==
    ASSUME Ipc!TypeOK, Ipc!TypeOK', HoldsOpened, OpensCurrent, OneGeneration, Ipc!Next
    PROVE  OneGeneration'
<1> USE DEF SameExcept, Ipc!TypeOK
<1>r. Ipc!Running = {q \in Ipc!Procs : pc[q] \in RoundAt}
        /\ Ipc!Running' = {q \in Ipc!Procs : pc'[q] \in RoundAt}
  BY DEF Ipc!Running, RoundAt, Ipc!Opening
<1>k. \A q \in Ipc!Running : \A n \in Ipc!Names : hold[q][n] # 0
  BY <1>r, OpenedAfter DEF HoldsOpened
<1>1. ASSUME Ipc!Running' \ mixed' \subseteq Ipc!Running \ mixed, hold' = hold
             \/ \A q \in Ipc!Running' : hold'[q] = hold[q],
             path' = path, Cleaned' = Cleaned
      PROVE  OneGeneration'
  <2>1. \A q \in Ipc!Running' : hold'[q] = hold[q]
    BY <1>1
  <2>2. ASSUME NEW q \in Ipc!Running' \ mixed' PROVE Current(q)' \/ Outdated(q)'
    <3>1. Current(q) \/ Outdated(q)
      BY <1>1 DEF OneGeneration
    <3>2. QED
      BY <1>1, <2>1, <3>1 DEF Current, Outdated
  <2>3. ASSUME NEW p \in Ipc!Running' \ mixed', NEW q \in Ipc!Running' \ mixed',
               NEW n \in Ipc!Names,
               hold'[p][n] = hold'[q][n]
        PROVE  hold'[p] = hold'[q]
    <3>1. hold'[p] = hold[p] /\ hold'[q] = hold[q] /\ p \in Ipc!Running \ mixed
            /\ q \in Ipc!Running \ mixed
      BY <1>1, <2>1, <2>3
    <3>2. QED
      BY <2>3, <3>1 DEF OneGeneration
  <2>4. QED
    BY <2>2, <2>3 DEF OneGeneration
<1>2. ASSUME NEW p \in Ipc!Procs, Starts(p) PROVE OneGeneration'
  BY <1>2, <1>1, <1>r DEF Starts, Cleaned, RoundAt
<1>3. ASSUME NEW p \in Ipc!Procs, Moves(p) PROVE OneGeneration'
  BY <1>3, <1>1, <1>r DEF Moves, Cleaned
<1>4. ASSUME NEW p \in Ipc!Procs, Leaves(p) PROVE OneGeneration'
  <2>1. p \notin Ipc!Running' /\ \A q \in Ipc!Running' : q \in Ipc!Running /\ hold'[q] = hold[q]
    BY <1>4, <1>r DEF Leaves, RoundAt
  <2>2. Ipc!Running' \ mixed' \subseteq Ipc!Running \ mixed
    BY <1>4, <2>1 DEF Leaves
  <2>3. path' = path /\ Cleaned' = Cleaned
    BY <1>4 DEF Leaves, Cleaned
  <2>4. QED
    BY <1>1, <2>1, <2>2, <2>3
<1>5. CASE CleanerStarts
  <2>1. Cleaned' = Cleaned
    BY <1>5 DEF CleanerStarts, Cleaned
  <2>2. QED
    BY <1>5, <1>1, <1>r, <2>1 DEF CleanerStarts
<1>6. ASSUME NEW name \in Ipc!Names, Unlinks(name) PROVE OneGeneration'
  <2>1. hold' = hold /\ Ipc!Running' = Ipc!Running /\ mixed \subseteq mixed'
    BY <1>6, <1>r DEF Unlinks
  <2>2. ASSUME NEW q \in Ipc!Running' \ mixed' PROVE Current(q)' \/ Outdated(q)'
    <3>1. q \in Ipc!Running \ mixed /\ hold'[q] = hold[q] /\ \A n \in Ipc!Names : hold[q][n] # 0
      BY <2>1, <1>k
    <3>2. path'[name] = 0 /\ \A n \in Ipc!Names \ {name} : path'[n] = path[n]
      BY <1>6 DEF Unlinks
    <3>3. CASE Outdated(q)
      <4>1. Outdated(q)'
        BY <3>1, <3>2, <3>3 DEF Outdated
      <4>2. QED
        BY <4>1
    <3>4. CASE Current(q) /\ name # "full"
      <4>1. Cleaned' = Cleaned \cup {name}
        BY <1>6, <3>4, CleanedMore
      <4>2. Current(q)'
        BY <3>1, <3>2, <3>4, <4>1 DEF Current
      <4>3. QED
        BY <4>2
    <3>5. CASE Current(q) /\ name = "full"
      <4>1. Cleaned = Ipc!Names \ {"full"}
        BY <1>6, <3>5, CleanedMore
      <4>2. Outdated(q)'
        BY <3>1, <3>2, <3>5, <4>1 DEF Current, Outdated
      <4>3. QED
        BY <4>2
    <3>6. QED
      BY <3>1, <3>3, <3>4, <3>5 DEF OneGeneration
  <2>3. QED
    BY <2>1, <2>2 DEF OneGeneration
<1>7. ASSUME NEW p \in Ipc!Procs, NEW name \in Ipc!Names, Opens(p, name) PROVE OneGeneration'
  <2>1. \A q \in Ipc!Running' \ mixed' : q # p => q \in Ipc!Running \ mixed /\ hold'[q] = hold[q]
    BY <1>7, <1>r DEF Opens
  <2>2. p \in Ipc!Running' \ mixed' => Cleaned' = {}
          /\ \A n \in Ipc!Names : hold'[p][n] = path'[n]
    <3>1. SUFFICES ASSUME p \in Ipc!Running' \ mixed'
                   PROVE  Cleaned' = {} /\ \A n \in Ipc!Names : hold'[p][n] = path'[n]
      OBVIOUS
    <3>2. name = "full" /\ pc[p] = "full" /\ p \notin mixed /\ cleaner' = cleaner
      <4>1. pc'[p] = Ipc!After[name] /\ pc'[p] \in RoundAt
        BY <1>7, <3>1, <1>r DEF Opens
      <4>2. name = "full"
        BY <4>1, OpenedAfter DEF RoundAt
      <4>3. QED
        BY <1>7, <3>1, <4>2 DEF Opens
    <3>3. cleaner \in {"idle", "shm"} /\ \A n \in OpenedAt("full") : hold[p][n] = path[n]
      BY <3>2 DEF OpensCurrent
    <3>4. Cleaned' = {}
      BY <3>2, <3>3 DEF Cleaned
    <3>5. Ipc!Names \ {"full"} \subseteq OpenedAt("full")
      BY DEF Ipc!Names, OpenedAt
    <3>6. \A n \in Ipc!Names : hold'[p][n] = path'[n]
      BY <1>7, <3>2, <3>3, <3>5 DEF Opens
    <3>7. QED
      BY <3>4, <3>6
  <2>3. ASSUME NEW q \in Ipc!Running' \ mixed', q # p PROVE Current(q)' \/ Outdated(q)'
    <3>1. Current(q) \/ Outdated(q)
      BY <2>1, <2>3 DEF OneGeneration
    <3>2. q \in Ipc!Procs /\ hold'[q] = hold[q] /\ \A n \in Ipc!Names : hold[q][n] # 0
      BY <1>k, <2>1, <2>3, <1>r
    <3>3. path[name] = 0 => path'[name] # hold[q][name]
      BY <1>7, <3>2 DEF Opens, Ipc!Referenced
    <3>4. Cleaned' = Cleaned
      BY <1>7 DEF Opens, Cleaned
    <3>5. \A n \in Ipc!Names : path'[n] = hold[q][n] <=> path[n] = hold[q][n]
      BY <1>7, <3>2, <3>3 DEF Opens
    <3>6. QED
      BY <3>1, <3>2, <3>4, <3>5 DEF Current, Outdated
  <2>4. \A q \in Ipc!Running' \ mixed' : Current(q)' \/ Outdated(q)'
    BY <2>2, <2>3 DEF Current
  <2>5. ASSUME NEW q \in Ipc!Running' \ mixed', NEW n \in Ipc!Names, hold'[p][n] = hold'[q][n],
               p \in Ipc!Running' \ mixed'
        PROVE  hold'[p] = hold'[q]
    <3>1. Cleaned' = {} /\ \A m \in Ipc!Names : hold'[p][m] = path'[m]
      BY <2>2, <2>5
    <3>2. Current(q)'
      BY <2>4, <2>5, <3>1 DEF Outdated
    <3>3. \A m \in Ipc!Names : hold'[p][m] = hold'[q][m]
      BY <3>1, <3>2 DEF Current
    <3>4. q \in Ipc!Procs
      BY <2>5, <1>r
    <3>5. QED
      BY <3>3, <3>4
  <2>6. ASSUME NEW q \in Ipc!Running' \ mixed', NEW r \in Ipc!Running' \ mixed', q # p, r # p,
               NEW n \in Ipc!Names, hold'[r][n] = hold'[q][n]
        PROVE  hold'[r] = hold'[q]
    <3>1. hold'[r] = hold[r] /\ hold'[q] = hold[q] /\ r \in Ipc!Running \ mixed
            /\ q \in Ipc!Running \ mixed
      BY <2>1, <2>6
    <3>2. QED
      BY <2>6, <3>1 DEF OneGeneration
  <2>7. ASSUME NEW r \in Ipc!Running' \ mixed', NEW q \in Ipc!Running' \ mixed',
               NEW n \in Ipc!Names, hold'[r][n] = hold'[q][n]
        PROVE  hold'[r] = hold'[q]
    <3>1. CASE r = p
      BY <2>5, <2>7, <3>1
    <3>2. CASE q = p
      BY <2>5, <2>7, <3>2
    <3>3. CASE r # p /\ q # p
      BY <2>6, <2>7, <3>3
    <3>4. QED
      BY <3>1, <3>2, <3>3
  <2>8. QED
    BY <2>4, <2>7 DEF OneGeneration
<1>8. QED
  BY <1>2, <1>3, <1>4, <1>5, <1>6, <1>7, StepKinds

\* A referenced object that is not spoiled after a step was not before, and
\* holds the same.
LEMMA StillGood ==
    ASSUME Kept, NEW n \in Ipc!Names, NEW g \in Ipc!Numbers, Ipc!Referenced(n, g),
           Ipc!Referenced(n, g)',
           <<n, g>> \notin spoiled'
    PROVE  <<n, g>> \notin spoiled /\ value'[n][g] = value[n][g]
BY DEF Kept

\* A name removed is gone or has been made by a process that is spoiled.
LEMMA RemadeStep ==
    ASSUME Ipc!TypeOK, Ipc!TypeOK', Remade, Ipc!Next
    PROVE  Remade'
<1> USE DEF SameExcept, Ipc!TypeOK
<1>c. Cleaned \subseteq Ipc!Names
  BY CleanedSoFar
<1>1. ASSUME NEW n \in Cleaned, path'[n] = path[n], Kept
      PROVE  path'[n] = 0 \/ <<n, path'[n]>> \in spoiled'
  <2>1. SUFFICES ASSUME path'[n] # 0 PROVE <<n, path'[n]>> \in spoiled'
    OBVIOUS
  <2>2. n \in Ipc!Names /\ path[n] \in Ipc!Numbers /\ <<n, path[n]>> \in spoiled
    BY <1>1, <1>c, <2>1 DEF Remade
  <2>3. Ipc!Referenced(n, path[n]) /\ Ipc!Referenced(n, path[n])'
    BY <1>1 DEF Ipc!Referenced
  <2>4. QED
    BY <1>1, <2>2, <2>3 DEF Kept
<1>2. ASSUME NEW p \in Ipc!Procs, Starts(p) \/ Moves(p) PROVE Remade'
  BY <1>2 DEF Starts, Moves, Remade, Cleaned
<1>3. ASSUME NEW p \in Ipc!Procs, Leaves(p) PROVE Remade'
  <2>1. Cleaned' = Cleaned /\ path' = path /\ Kept
    BY <1>3 DEF Leaves, Cleaned
  <2>2. QED
    BY <1>1, <2>1 DEF Remade
<1>4. ASSUME NEW p \in Ipc!Procs, NEW name \in Ipc!Names, Opens(p, name) PROVE Remade'
  <2>1. Cleaned' = Cleaned /\ Kept
    BY <1>4 DEF Opens, Cleaned
  <2>2. SUFFICES ASSUME NEW n \in Cleaned PROVE path'[n] = 0 \/ <<n, path'[n]>> \in spoiled'
    BY <2>1 DEF Remade
  <2>3. CASE path'[n] = path[n]
    BY <1>1, <2>1, <2>3
  <2>4. CASE path'[n] # path[n]
    <3>1. n = name /\ p \in mixed'
      BY <1>4, <1>c, <2>4, CleanedSoFar DEF Opens
    <3>2. hold'[p][n] = path'[n]
      BY <1>4, <3>1 DEF Opens
    <3>3. QED
      BY <1>4, <3>1, <3>2 DEF Opens
  <2>5. QED
    BY <2>3, <2>4
<1>5. CASE CleanerStarts
  BY <1>5 DEF CleanerStarts, Remade, Cleaned
<1>6. ASSUME NEW name \in Ipc!Names, Unlinks(name) PROVE Remade'
  <2>1. SUFFICES ASSUME NEW n \in Cleaned' PROVE path'[n] = 0 \/ <<n, path'[n]>> \in spoiled'
    BY DEF Remade
  <2>2. n = name \/ (n # name /\ n \in Cleaned)
    BY <1>6, <2>1, CleanedMore
  <2>3. CASE n = name
    BY <1>6, <2>3 DEF Unlinks
  <2>4. CASE n # name /\ n \in Cleaned
    BY <1>6, <1>1, <1>c, <2>4 DEF Unlinks
  <2>5. QED
    BY <2>2, <2>3, <2>4
<1>7. QED
  BY <1>2, <1>3, <1>4, <1>5, <1>6, StepKinds

\* Objects are as made while there is a name without one.
LEMMA AsMadeStep ==
    ASSUME Ipc!TypeOK, Ipc!TypeOK', HoldsOpened, OneGeneration, Remade, AsMade, Ipc!Next
    PROVE  AsMade'
<1> USE DEF SameExcept, Ipc!TypeOK
<1> SUFFICES ASSUME cleaner' \in {"idle", "shm"}, NEW m \in Ipc!Names, path'[m] = 0,
                    NEW n \in Ipc!Names, path'[n] # 0, <<n, path'[n]>> \notin spoiled'
             PROVE  value'[n][path'[n]] = Ipc!Initially[n]
  BY DEF AsMade
<1>1. ASSUME cleaner \in {"idle", "shm"}, path[m] = 0, path'[n] = path[n],
             <<n, path[n]>> \notin spoiled, value'[n][path[n]] = value[n][path[n]]
      PROVE  value'[n][path'[n]] = Ipc!Initially[n]
  BY <1>1 DEF AsMade
<1>2. ASSUME Kept, path'[n] = path[n]
      PROVE  <<n, path[n]>> \notin spoiled /\ value'[n][path[n]] = value[n][path[n]]
  BY <1>2, StillGood DEF Ipc!Referenced
<1>3. ASSUME NEW p \in Ipc!Procs, Starts(p) PROVE value'[n][path'[n]] = Ipc!Initially[n]
  BY <1>3, <1>1 DEF Starts
<1>4. ASSUME NEW p \in Ipc!Procs, Moves(p) PROVE value'[n][path'[n]] = Ipc!Initially[n]
  <2>1. /\ path' = path /\ hold' = hold /\ cleaner' = cleaner /\ spoiled' = spoiled
        /\ p \in Ipc!Running /\ \A l \in Ipc!Names : hold[p][l] # 0
    BY <1>4, OpenedAfter DEF Moves, HoldsOpened, Ipc!Running, RoundAt, Ipc!Opening
  <2>2. path[n] # hold[p][n]
    <3>1. SUFFICES ASSUME path[n] = hold[p][n] PROVE FALSE
      OBVIOUS
    <3>2. p \notin mixed
      BY <2>1, <3>1 DEF HoldsOpened
    <3>3. Current(p)
      BY <2>1, <3>1, <3>2 DEF OneGeneration, Outdated
    <3>4. Cleaned = {}
      BY <2>1, CleanedSoFar
    <3>5. QED
      BY <2>1, <3>3, <3>4 DEF Current
  <2>3. value'[n][path[n]] = value[n][path[n]]
    BY <1>4, <2>1, <2>2 DEF Moves
  <2>4. QED
    BY <1>1, <2>1, <2>3
<1>5. ASSUME NEW p \in Ipc!Procs, Leaves(p) PROVE value'[n][path'[n]] = Ipc!Initially[n]
  BY <1>5, <1>1, <1>2 DEF Leaves
<1>6. CASE CleanerStarts
  BY <1>6, <1>1 DEF CleanerStarts
<1>7. ASSUME NEW p \in Ipc!Procs, NEW name \in Ipc!Names, Opens(p, name)
      PROVE  value'[n][path'[n]] = Ipc!Initially[n]
  <2>1. m # name /\ path[m] = 0 /\ cleaner' = cleaner
    BY <1>7 DEF Opens
  <2>2. CASE path'[n] = path[n]
    BY <1>7, <1>1, <1>2, <2>1, <2>2 DEF Opens
  <2>3. CASE path'[n] # path[n]
    BY <1>7, <2>3 DEF Opens
  <2>4. QED
    BY <2>2, <2>3
<1>8. ASSUME NEW name \in Ipc!Names, Unlinks(name) PROVE FALSE
  <2>1. name = "full" /\ Cleaned = Ipc!Names \ {"full"}
    BY <1>8, CleanedMore
  <2>2. n # "full" /\ path'[n] = path[n]
    BY <1>8, <2>1 DEF Unlinks
  <2>3. <<n, path[n]>> \in spoiled
    BY <2>1, <2>2 DEF Remade
  <2>4. QED
    BY <1>8, <1>2, <2>2, <2>3 DEF Unlinks
<1>9. QED
  BY <1>3, <1>4, <1>5, <1>6, <1>7, <1>8, StepKinds

\* o is the objects behind the names or those of a process; none of them is
\* missing or spoiled; and the users of o at some places, counted.
InUse(o) == o = path \/ \E p \in Ipc!Running : o = hold[p]
Good(o) == \A n \in Ipc!Names : o[n] # 0 /\ <<n, o[n]>> \notin spoiled
AtPlaces(o, S, places) == Cardinality({p \in Ipc!Users(o) \cap S : pc[p] \in places})
InRound == {"lock", "buffer", "unlock", "give"}

\* Balanced with its counts named.
BalancedAt(o) ==
    /\ value["mutex"][o["mutex"]] + AtPlaces(o, Ipc!Procs, {"buffer", "unlock"}) = 1
    /\ value["shm"][o["shm"]] = value["full"][o["full"]]
       + AtPlaces(o, Producers, {"unlock", "give"})
                                + AtPlaces(o, Consumers, {"lock", "buffer"})
    /\ value["empty"][o["empty"]] + value["full"][o["full"]] + AtPlaces(o, Ipc!Procs, InRound) = K

\* Cardinality of the instance is Cardinality.
LEMMA SameCardinality == ASSUME NEW S PROVE Ipc!Cardinality(S) = Cardinality(S)
BY Zenon DEF Cardinality, Ipc!Cardinality

\* BalancedAt is Balanced.
LEMMA BalancedIs == ASSUME NEW o PROVE Ipc!Balanced(o) = BalancedAt(o)
BY SameCardinality DEF Ipc!Balanced, BalancedAt, AtPlaces, InRound

\* A process shares all its objects with o or none.
LEMMA Apart ==
    ASSUME Ipc!TypeOK, HoldsOpened, OneGeneration, Remade,
           NEW o, InUse(o), Good(o), NEW p \in Ipc!Running, hold[p] # o, NEW n \in Ipc!Names
    PROVE  hold[p][n] # o[n]
<1>1. SUFFICES ASSUME hold[p][n] = o[n] PROVE hold[p] = o
  OBVIOUS
<1>2. p \in Ipc!Procs /\ p \notin mixed
  BY <1>1 DEF HoldsOpened, Good, Ipc!Running
<1>3. ASSUME NEW q \in Ipc!Running, o = hold[q] PROVE hold[p] = o
  <2>1. q \notin mixed
    BY <1>3 DEF HoldsOpened, Good, Ipc!Names
  <2>2. QED
    BY <1>1, <1>2, <1>3, <2>1 DEF OneGeneration
<1>4. CASE o = path
  <2>1. Cleaned = {}
    BY <1>4, CleanedSoFar DEF Remade, Good
  <2>2. Current(p)
    BY <1>1, <1>2, <1>4 DEF OneGeneration, Outdated
  <2>3. \A m \in Ipc!Names : hold[p][m] = path[m]
    BY <2>1, <2>2 DEF Current
  <2>4. QED
    BY <1>2, <1>4, <2>3 DEF Ipc!TypeOK
<1>5. QED
  BY <1>3, <1>4 DEF InUse

\* Who uses an object in a round, and where, settles the numbers.
LEMMA SameUsers ==
    ASSUME NEW o,
           \A q \in Ipc!Procs : hold'[q] = o /\ pc'[q] \in InRound <=> hold[q] = o
             /\ pc[q] \in InRound,
           \A q \in Ipc!Procs : hold[q] = o /\ pc[q] \in InRound => pc'[q] = pc[q],
           NEW S, NEW places \in SUBSET InRound
    PROVE  AtPlaces(o, S, places)' = AtPlaces(o, S, places)
<1>1. InRound \cap Ipc!Opening = {}
  BY DEF InRound, Ipc!Opening
<1>2. {q \in Ipc!Users(o) \cap S : pc[q] \in places}'
        = {q \in Ipc!Users(o) \cap S : pc[q] \in places}
  BY <1>1 DEF Ipc!Users
<1>3. QED
  BY <1>2 DEF AtPlaces

\* A step that leaves the objects of o and its users in a round alone keeps
\* their balance.
LEMMA BalanceKept ==
    ASSUME NEW o, Ipc!Balanced(o),
           \A n \in Ipc!Names : value'[n][o[n]] = value[n][o[n]],
           \A q \in Ipc!Procs : hold'[q] = o /\ pc'[q] \in InRound <=> hold[q] = o
             /\ pc[q] \in InRound,
           \A q \in Ipc!Procs : hold[q] = o /\ pc[q] \in InRound => pc'[q] = pc[q]
    PROVE  Ipc!Balanced(o)'
<1>1. \A S, places : places \in SUBSET InRound => AtPlaces(o, S, places)' = AtPlaces(o, S, places)
  BY SameUsers
<1>2. /\ {"buffer", "unlock"} \in SUBSET InRound /\ {"unlock", "give"} \in SUBSET InRound
      /\ {"lock", "buffer"} \in SUBSET InRound /\ InRound \in SUBSET InRound
  BY DEF InRound
<1>3. /\ AtPlaces(o, Ipc!Procs, {"buffer", "unlock"})'
         = AtPlaces(o, Ipc!Procs, {"buffer", "unlock"})
      /\ AtPlaces(o, Producers, {"unlock", "give"})' = AtPlaces(o, Producers, {"unlock", "give"})
      /\ AtPlaces(o, Consumers, {"lock", "buffer"})' = AtPlaces(o, Consumers, {"lock", "buffer"})
      /\ AtPlaces(o, Ipc!Procs, InRound)' = AtPlaces(o, Ipc!Procs, InRound)
  BY <1>1, <1>2
<1>4. BalancedAt(o)
  BY BalancedIs
<1>5. BalancedAt(o)'
  BY <1>3, <1>4 DEF BalancedAt, Ipc!Names
<1>6. Ipc!Balanced(o)' = BalancedAt(o)'
  BY SameCardinality DEF Ipc!Balanced, BalancedAt, AtPlaces, InRound
<1>7. QED
  BY <1>5, <1>6

\* A step of a round moves one of the users of its objects.
LEMMA RoundMoves ==
    ASSUME Ipc!TypeOK, NEW p \in Ipc!Procs, Moves(p), NEW o, hold[p] = o, NEW S, NEW places
    PROVE  /\ AtPlaces(o, S, places) \in Nat
           /\ AtPlaces(o, S, places)' =
                 IF p \in S THEN AtPlaces(o, S, places) + One(pc'[p], places) - One(pc[p], places)
                 ELSE AtPlaces(o, S, places)
<1> DEFINE P == Ipc!Users(o) \cap S
<1>1. IsFiniteSet(P) /\ (p \in P <=> p \in S)
  <2>1. P \in SUBSET Ipc!Procs
    BY DEF Ipc!Users
  <2>2. IsFiniteSet(P)
    BY <2>1, NumbersType, FS_Subset
  <2>3. QED
    BY <2>2 DEF Ipc!Users, Moves, RoundAt, Ipc!Opening
<1>2. Ipc!Users(o)' = Ipc!Users(o)
  BY DEF Ipc!Users, Moves, SameExcept, RoundAt, Ipc!Opening
<1>3. AtPlaces(o, S, places) = NumAt(pc, P, places)
  BY DEF AtPlaces, NumAt
<1>4. AtPlaces(o, S, places)' = NumAt(pc', P, places)
  BY <1>2 DEF AtPlaces, NumAt
<1>5. NumAt(pc, P, places) \in Nat
  BY <1>1, NumberType
<1>6. CASE p \in S
  <2>1. SameExcept(pc, pc', P, p)
    BY DEF Moves, SameExcept, Ipc!Users
  <2>2. NumAt(pc', P, places) = NumAt(pc, P, places) + One(pc'[p], places) - One(pc[p], places)
    BY <1>1, <1>6, <2>1, NumberAfterMove
  <2>3. QED
    BY <1>3, <1>4, <1>5, <1>6, <2>2
<1>7. CASE p \notin S
  <2>1. \A q \in P : pc'[q] = pc[q]
    BY <1>7 DEF Moves, SameExcept, Ipc!Users
  <2>2. NumAt(pc', P, places) = NumAt(pc, P, places)
    BY <2>1, NumberUnmoved
  <2>3. QED
    BY <1>3, <1>4, <1>5, <1>7, <2>2
<1>8. QED
  BY <1>6, <1>7

\* What adding does to the objects a process holds.
LEMMA AddsTo ==
    ASSUME Ipc!TypeOK, NEW p \in Ipc!Procs, NEW name \in Ipc!Names, NEW d \in {1, -1},
           Ipc!Add(p, name, d),
           \A n \in Ipc!Names : hold[p][n] # 0
    PROVE  \A n \in Ipc!Names : /\ value[n][hold[p][n]] \in Int
                                /\ value'[n][hold[p][n]]
                                   = value[n][hold[p][n]] + (IF n = name THEN d ELSE 0)
BY DEF Ipc!TypeOK, Ipc!Add

\* A step of a round moves a task or a token and the process together.
LEMMA RoundBalance ==
    ASSUME Ipc!TypeOK, NEW p \in Ipc!Procs, Rounds(p), \A n \in Ipc!Names : hold[p][n] # 0,
           NEW o, hold[p] = o, Ipc!Balanced(o)
    PROVE  Ipc!Balanced(o)'
<1> DEFINE v(n) == value[n][o[n]]
           w(n) == value'[n][o[n]]
           M == AtPlaces(o, Ipc!Procs, {"buffer", "unlock"})
           R == AtPlaces(o, Producers, {"unlock", "give"})
           C == AtPlaces(o, Consumers, {"lock", "buffer"})
           A == AtPlaces(o, Ipc!Procs, InRound)
<1>m. Moves(p) /\ o = hold[p]
  BY MovesEffect
<1>1. \A name \in Ipc!Names, d \in {1, -1} : Ipc!Add(p, name, d) =>
        \A n \in Ipc!Names : v(n) \in Int /\ w(n) = v(n) + (IF n = name THEN d ELSE 0)
  BY AddsTo
<1>2. /\ M \in Nat /\ M' = M + One(pc'[p], {"buffer", "unlock"}) - One(pc[p], {"buffer",
         "unlock"})
      /\ R \in Nat /\ R' = IF p \in Producers
                           THEN R + One(pc'[p], {"unlock", "give"}) - One(pc[p], {"unlock",
                             "give"}) ELSE R
      /\ C \in Nat /\ C' = IF p \in Consumers
                           THEN C + One(pc'[p], {"lock", "buffer"}) - One(pc[p], {"lock",
                             "buffer"}) ELSE C
      /\ A \in Nat /\ A' = A + One(pc'[p], InRound) - One(pc[p], InRound)
  <2>1. M \in Nat /\ M' = M + One(pc'[p], {"buffer", "unlock"}) - One(pc[p], {"buffer", "unlock"})
    BY <1>m, RoundMoves
  <2>2. R \in Nat /\ R' = IF p \in Producers
                        THEN R + One(pc'[p], {"unlock", "give"}) - One(pc[p], {"unlock", "give"})
                          ELSE R
    BY <1>m, RoundMoves
  <2>3. C \in Nat /\ C' = IF p \in Consumers
                        THEN C + One(pc'[p], {"lock", "buffer"}) - One(pc[p], {"lock", "buffer"})
                          ELSE C
    BY <1>m, RoundMoves
  <2>4. A \in Nat /\ A' = A + One(pc'[p], InRound) - One(pc[p], InRound)
    BY <1>m, RoundMoves
  <2>5. QED
    BY <2>1, <2>2, <2>3, <2>4
<1>3. /\ v("mutex") + M = 1 /\ v("shm") = v("full") + R + C /\ v("empty") + v("full") + A = K
  BY BalancedIs DEF BalancedAt
<1>4. (p \in Producers /\ p \notin Consumers) \/ (p \in Consumers /\ p \notin Producers)
  BY IpcAssumption DEF Ipc!Procs
<1>n. \A name \in {"shm", "mutex", "empty", "full"} : name \in Ipc!Names
  BY DEF Ipc!Names
<1>k. K \in Nat
  BY IpcAssumption
<1>5. w("mutex") + M' = 1 /\ w("shm") = w("full") + R' + C' /\ w("empty") + w("full") + A' = K
  <2>1. CASE Ipc!Take(p)
    <3>1. pc[p] = "token" /\ pc'[p] = "lock" /\ Ipc!Add(p, IF p \in Producers THEN "empty"
            ELSE "full", -1)
      BY <2>1 DEF Ipc!Take, Ipc!Goto, Ipc!SemWait, Ipc!TypeOK
    <3>2. M' = M /\ R' = R /\ C' = (IF p \in Consumers THEN C + 1 ELSE C) /\ A' = A + 1
      BY <1>2, <3>1 DEF One, InRound
    <3>3. \A n \in {"shm", "mutex", "empty", "full"} :
             v(n) \in Int /\ w(n) = v(n) + (IF n = (IF p \in Producers THEN "empty"
               ELSE "full") THEN -1 ELSE 0)
      BY <1>1, <1>n, <3>1
    <3>4. QED
      BY <1>2, <1>3, <1>4, <1>k, <3>2, <3>3
  <2>2. CASE Ipc!Lock(p)
    <3>1. pc[p] = "lock" /\ pc'[p] = "buffer" /\ Ipc!Add(p, "mutex", -1)
      BY <2>2 DEF Ipc!Lock, Ipc!Goto, Ipc!SemWait, Ipc!TypeOK
    <3>2. M' = M + 1 /\ R' = R /\ C' = C /\ A' = A
      BY <1>2, <3>1 DEF One, InRound
    <3>3. \A n \in {"shm", "mutex", "empty", "full"} :
             v(n) \in Int /\ w(n) = v(n) + (IF n = "mutex" THEN -1 ELSE 0)
      BY <1>1, <1>n, <3>1
    <3>4. QED
      BY <1>2, <1>3, <1>k, <3>2, <3>3
  <2>3. CASE Ipc!Buffer(p)
    <3>1. pc[p] = "buffer" /\ pc'[p] = "unlock" /\ Ipc!Add(p, "shm", IF p \in Producers THEN 1
            ELSE -1)
      BY <2>3 DEF Ipc!Buffer, Ipc!Goto, Ipc!TypeOK
    <3>2. /\ M' = M /\ R' = (IF p \in Producers THEN R + 1 ELSE R)
          /\ C' = (IF p \in Consumers THEN C - 1 ELSE C) /\ A' = A
      BY <1>2, <3>1 DEF One, InRound
    <3>3. \A n \in {"shm", "mutex", "empty", "full"} :
             v(n) \in Int /\ w(n) = v(n) + (IF n = "shm" THEN (IF p \in Producers THEN 1 ELSE -1)
               ELSE 0)
      BY <1>1, <1>n, <3>1
    <3>4. QED
      BY <1>2, <1>3, <1>4, <1>k, <3>2, <3>3
  <2>4. CASE Ipc!Unlock(p)
    <3>1. pc[p] = "unlock" /\ pc'[p] = "give" /\ Ipc!Add(p, "mutex", 1)
      BY <2>4 DEF Ipc!Unlock, Ipc!Goto, Ipc!TypeOK
    <3>2. M' = M - 1 /\ R' = R /\ C' = C /\ A' = A
      BY <1>2, <3>1 DEF One, InRound
    <3>3. \A n \in {"shm", "mutex", "empty", "full"} :
             v(n) \in Int /\ w(n) = v(n) + (IF n = "mutex" THEN 1 ELSE 0)
      BY <1>1, <1>n, <3>1
    <3>4. QED
      BY <1>2, <1>3, <1>k, <3>2, <3>3
  <2>5. CASE Ipc!Give(p)
    <3>1. pc[p] = "give" /\ pc'[p] = "token" /\ Ipc!Add(p, IF p \in Producers THEN "full"
            ELSE "empty", 1)
      BY <2>5 DEF Ipc!Give, Ipc!Goto, Ipc!TypeOK
    <3>2. /\ M' = M /\ R' = (IF p \in Producers THEN R - 1 ELSE R) /\ C' = C /\ A' = A - 1
      BY <1>2, <3>1 DEF One, InRound
    <3>3. \A n \in {"shm", "mutex", "empty", "full"} :
             v(n) \in Int /\ w(n) = v(n) + (IF n = (IF p \in Producers THEN "full"
               ELSE "empty") THEN 1 ELSE 0)
      BY <1>1, <1>n, <3>1
    <3>4. QED
      BY <1>2, <1>3, <1>4, <1>k, <3>2, <3>3
  <2>6. QED
    BY <2>1, <2>2, <2>3, <2>4, <2>5 DEF Rounds
<1>6. BalancedAt(o)'
  BY <1>5 DEF BalancedAt
<1>7. Ipc!Balanced(o)' = BalancedAt(o)'
  BY SameCardinality DEF Ipc!Balanced, BalancedAt, AtPlaces, InRound
<1>8. QED
  BY <1>6, <1>7

\* A step keeps the balance of objects that were in use before it.
LEMMA OldBalance ==
    ASSUME Ipc!TypeOK, Ipc!TypeOK', HoldsOpened, OneGeneration, Remade, Ipc!Next,
           NEW o, InUse(o), InUse(o)', Good(o)', Ipc!Balanced(o)
    PROVE  Ipc!Balanced(o)'
<1> USE DEF SameExcept, Ipc!TypeOK
<1>1. \A n \in Ipc!Names : Ipc!Referenced(n, o[n]) /\ Ipc!Referenced(n, o[n])'
        /\ o[n] \in Ipc!Numbers
  <2>1. \A n \in Ipc!Names : Ipc!Referenced(n, o[n])
    BY DEF InUse, Ipc!Referenced, Ipc!Running
  <2>2. \A n \in Ipc!Names : Ipc!Referenced(n, o[n])'
    BY DEF InUse, Ipc!Referenced, Ipc!Running
  <2>3. \A n \in Ipc!Names : o[n] # 0
    BY DEF Good
  <2>4. \A n \in Ipc!Names : o[n] \in Ipc!Numbers
    BY <2>3 DEF InUse, Ipc!Running
  <2>5. QED
    BY <2>1, <2>2, <2>4
<1>2. ASSUME Kept PROVE Good(o) /\ \A n \in Ipc!Names : value'[n][o[n]] = value[n][o[n]]
  BY <1>1, <1>2, StillGood DEF Good
<1>3. ASSUME NEW p \in Ipc!Procs, Starts(p) PROVE Ipc!Balanced(o)'
  <2>1. \A q \in Ipc!Procs : hold'[q] = o /\ pc'[q] \in InRound <=> hold[q] = o
          /\ pc[q] \in InRound
    BY <1>3 DEF Starts, InRound
  <2>2. \A q \in Ipc!Procs : hold[q] = o /\ pc[q] \in InRound => pc'[q] = pc[q]
    BY <1>3 DEF Starts, InRound
  <2>3. \A n \in Ipc!Names : value'[n][o[n]] = value[n][o[n]]
    BY <1>3 DEF Starts
  <2>4. QED
    BY <2>1, <2>2, <2>3, BalanceKept
<1>4. ASSUME NEW p \in Ipc!Procs, Rounds(p) PROVE Ipc!Balanced(o)'
  <2>1. Moves(p)
    BY <1>4, MovesEffect
  <2>2. p \in Ipc!Running /\ \A n \in Ipc!Names : hold[p][n] # 0
    BY <2>1, OpenedAfter DEF Moves, HoldsOpened, Ipc!Running, RoundAt, Ipc!Opening
  <2>3. CASE hold[p] = o
    BY <1>4, <2>2, <2>3, RoundBalance
  <2>4. CASE hold[p] # o
    <3>1. Good(o)
      BY <2>1 DEF Moves, Good
    <3>2. \A n \in Ipc!Names : hold[p][n] # o[n]
      BY <2>2, <2>4, <3>1, Apart
    <3>3. \A n \in Ipc!Names : value'[n][o[n]] = value[n][o[n]]
      BY <1>1, <2>1, <3>2 DEF Moves
    <3>4. \A q \in Ipc!Procs : hold'[q] = o /\ pc'[q] \in InRound <=> hold[q] = o
            /\ pc[q] \in InRound
      BY <2>1, <2>4 DEF Moves
    <3>5. ASSUME NEW q \in Ipc!Procs, q # p PROVE pc'[q] = pc[q]
      BY <2>1, <3>5 DEF Moves
    <3>6. QED
      BY <2>4, <3>3, <3>4, <3>5, BalanceKept
  <2>5. QED
    BY <2>3, <2>4
<1>5. ASSUME NEW p \in Ipc!Procs, Leaves(p) PROVE Ipc!Balanced(o)'
  <2>1. Good(o) /\ \A n \in Ipc!Names : value'[n][o[n]] = value[n][o[n]]
    BY <1>5, <1>2 DEF Leaves
  <2>2. ~(hold[p] = o /\ pc[p] \in InRound)
    <3>1. SUFFICES ASSUME hold[p] = o, pc[p] \in InRound PROVE FALSE
      OBVIOUS
    <3>2. <<"shm", o["shm"]>> \in spoiled'
      BY <1>1, <1>5, <3>1 DEF Leaves, InRound, Ipc!Opening, Ipc!Names
    <3>3. QED
      BY <3>2 DEF Good, Ipc!Names
  <2>3. hold'[p] # o /\ \A q \in Ipc!Procs : q # p => hold'[q] = hold[q] /\ pc'[q] = pc[q]
    <3>1. hold'[p]["shm"] = 0 /\ o["shm"] # 0
      BY <1>5 DEF Leaves, Ipc!Names, Good
    <3>2. QED
      BY <1>5, <3>1 DEF Leaves
  <2>4. QED
    BY <2>1, <2>2, <2>3, BalanceKept
<1>6. ASSUME NEW p \in Ipc!Procs, NEW name \in Ipc!Names, Opens(p, name) PROVE Ipc!Balanced(o)'
  <2>1. Good(o) /\ \A n \in Ipc!Names : value'[n][o[n]] = value[n][o[n]]
    BY <1>6, <1>2 DEF Opens
  <2>2. pc[p] \notin InRound /\ pc'[p] \notin InRound
    <3>1. pc[p] = name /\ pc'[p] \in {"mutex", "empty", "full", "token"}
      BY <1>6, OpenedAfter DEF Opens
    <3>2. QED
      BY <3>1 DEF InRound, Ipc!Names
  <2>3. \A q \in Ipc!Procs : q # p => hold'[q] = hold[q] /\ pc'[q] = pc[q]
    BY <1>6 DEF Opens
  <2>4. QED
    BY <2>1, <2>2, <2>3, BalanceKept
<1>7. ASSUME UNCHANGED <<hold, pc>>, Kept \/ value' = value PROVE Ipc!Balanced(o)'
  <2>1. \A n \in Ipc!Names : value'[n][o[n]] = value[n][o[n]]
    BY <1>7, <1>2
  <2>2. QED
    BY <1>7, <2>1, BalanceKept
<1>8. QED
  <2>1. \/ \E p \in Ipc!Procs : Starts(p) \/ Rounds(p) \/ Leaves(p)
        \/ \E p \in Ipc!Procs, name \in Ipc!Names : Opens(p, name)
        \/ UNCHANGED <<hold, pc>> /\ (Kept \/ value' = value)
    <3>1. ASSUME NEW p \in Ipc!Procs, Ipc!Start(p) PROVE Starts(p)
      BY <3>1 DEF Ipc!Start, Starts, Ipc!Goto, Ipc!objects
    <3>2. CASE Ipc!CleanerStart
      BY <3>2 DEF Ipc!CleanerStart, Ipc!objects
    <3>3. ASSUME NEW name \in Ipc!Names, Ipc!Unlink(name) PROVE UNCHANGED <<hold, pc>> /\ Kept
      BY <3>3, UnlinksEffect DEF Unlinks
    <3>4. QED
      BY <3>1, <3>2, <3>3, OpensEffect, LeavesEffect DEF Ipc!Next, Ipc!Process, Rounds
  <2>2. QED
    BY <1>3, <1>4, <1>5, <1>6, <1>7, <2>1

\* Only an open brings four good objects into use.
LEMMA NewInUse ==
    ASSUME Ipc!TypeOK, Ipc!TypeOK', Ipc!Next, NEW o, ~InUse(o), InUse(o)', Good(o)'
    PROVE  \E p \in Ipc!Procs, name \in Ipc!Names : Opens(p, name)
<1> USE DEF SameExcept, Ipc!TypeOK
<1>r. Ipc!Running = {q \in Ipc!Procs : pc[q] \in RoundAt}
        /\ Ipc!Running' = {q \in Ipc!Procs : pc'[q] \in RoundAt}
  BY DEF Ipc!Running, RoundAt, Ipc!Opening
<1>1. ASSUME path' = path, \A q \in Ipc!Running' : q \in Ipc!Running /\ hold'[q] = hold[q]
      PROVE  FALSE
  BY <1>1 DEF InUse
<1>2. ASSUME NEW p \in Ipc!Procs, Starts(p) \/ Moves(p) \/ Leaves(p) PROVE FALSE
  <2>1. path' = path /\ \A q \in Ipc!Running' : q \in Ipc!Running /\ hold'[q] = hold[q]
    BY <1>2, <1>r DEF Starts, Moves, Leaves, RoundAt
  <2>2. QED
    BY <1>1, <2>1
<1>3. CASE CleanerStarts
  BY <1>1, <1>3, <1>r DEF CleanerStarts
<1>4. ASSUME NEW name \in Ipc!Names, Unlinks(name) PROVE FALSE
  <2>1. o # path'
    BY <1>4 DEF Unlinks, Good
  <2>2. Ipc!Running' = Ipc!Running /\ hold' = hold
    BY <1>4, <1>r DEF Unlinks
  <2>3. QED
    BY <2>1, <2>2 DEF InUse
<1>5. QED
  BY <1>2, <1>3, <1>4, StepKinds

\* Four objects are in balance when the last of them is opened: they are as
\* made, and nobody is in a round with them.
LEMMA NewBalance ==
    ASSUME Ipc!TypeOK, Ipc!TypeOK', HoldsOpened, HoldsOpened', OpensCurrent, OneGeneration',
           AsMade,
           Ipc!Next, NEW o, ~InUse(o), InUse(o)', Good(o)'
    PROVE  Ipc!Balanced(o)'
<1> USE DEF SameExcept, Ipc!TypeOK
<1>1. PICK p \in Ipc!Procs, name \in Ipc!Names : Opens(p, name)
  BY NewInUse
<1>r. Ipc!Running' = {q \in Ipc!Procs : pc'[q] \in RoundAt}
        /\ Ipc!Running = {q \in Ipc!Procs : pc[q] \in RoundAt}
  BY DEF Ipc!Running, RoundAt, Ipc!Opening
<1>m. p \notin mixed'
  <2>1. SUFFICES ASSUME p \in mixed' PROVE FALSE
    OBVIOUS
  <2>2. \A n \in Ipc!Names : hold'[p][n] # 0 => <<n, hold'[p][n]>> \in spoiled'
    BY <1>1, <2>1 DEF Opens
  <2>3. hold'[p][name] = path'[name] /\ path'[name] # 0
    BY <1>1 DEF Opens
  <2>4. o # path' /\ o # hold'[p]
    BY <2>2, <2>3 DEF Good
  <2>5. ASSUME NEW q \in Ipc!Running', q # p PROVE q \in Ipc!Running /\ hold'[q] = hold[q]
    BY <1>1, <1>r, <2>5 DEF Opens
  <2>6. QED
    BY <2>4, <2>5 DEF InUse
<1>2. o = path'
  <2>1. ASSUME p \in Ipc!Running', o = hold'[p] PROVE o = path'
    <3>1. pc'[p] = Ipc!After[name] /\ pc'[p] \in RoundAt
      BY <1>1, <2>1, <1>r DEF Opens
    <3>2. name = "full"
      BY <3>1, OpenedAfter DEF RoundAt
    <3>3. pc[p] = "full" /\ p \notin mixed
      BY <1>1, <1>m, <3>2 DEF Opens
    <3>4. \A n \in OpenedAt("full") : hold[p][n] = path[n]
      BY <3>3 DEF OpensCurrent
    <3>5. Ipc!Names \ {"full"} \subseteq OpenedAt("full")
      BY DEF Ipc!Names, OpenedAt
    <3>6. \A n \in Ipc!Names : hold'[p][n] = path'[n]
      BY <1>1, <3>2, <3>4, <3>5 DEF Opens
    <3>7. QED
      BY <2>1, <3>6
  <2>2. ASSUME NEW q \in Ipc!Running', q # p PROVE q \in Ipc!Running /\ hold'[q] = hold[q]
    BY <1>1, <1>r, <2>2 DEF Opens
  <2>3. QED
    BY <2>1, <2>2 DEF InUse
<1>3. path[name] = 0
  <2>1. SUFFICES ASSUME path[name] # 0 PROVE FALSE
    OBVIOUS
  <2>2. \A n \in Ipc!Names : path'[n] = path[n]
    BY <1>1, <2>1 DEF Opens
  <2>3. path' = path
    BY <2>2
  <2>4. QED
    BY <1>2, <2>3 DEF InUse
<1>4. cleaner \in {"idle", "shm"}
  BY <1>1, <1>m DEF Opens
<1>5. \A n \in Ipc!Names : value'[n][o[n]] = Ipc!Initially[n]
  <2> TAKE n \in Ipc!Names
  <2>1. CASE n = name
    BY <1>1, <1>2, <1>3, <2>1 DEF Opens
  <2>2. CASE n # name
    <3>1. path'[n] = path[n] /\ o[n] = path[n] /\ path[n] \in Ipc!Numbers
            /\ <<n, path[n]>> \notin spoiled'
      BY <1>1, <1>2, <2>2 DEF Opens, Good
    <3>2. Ipc!Referenced(n, path[n]) /\ Ipc!Referenced(n, path[n])' /\ Kept
      BY <1>1, <3>1 DEF Ipc!Referenced, Opens
    <3>3. <<n, path[n]>> \notin spoiled /\ value'[n][path[n]] = value[n][path[n]]
      BY <3>1, <3>2, StillGood
    <3>4. value[n][path[n]] = Ipc!Initially[n]
      BY <1>3, <1>4, <3>1, <3>3, NumbersType DEF AsMade
    <3>5. QED
      BY <3>1, <3>3, <3>4
  <2>3. QED
    BY <2>1, <2>2
<1>6. \A q \in Ipc!Procs : hold'[q] = o => pc'[q] \notin InRound
  <2>1. SUFFICES ASSUME NEW q \in Ipc!Procs, hold'[q] = o, pc'[q] \in InRound PROVE FALSE
    OBVIOUS
  <2>2. CASE q = p
    <3>1. pc'[p] \in {"mutex", "empty", "full", "token"}
      BY <1>1, OpenedAfter DEF Opens
    <3>2. QED
      BY <2>1, <2>2, <3>1 DEF InRound
  <2>3. CASE q # p
    <3>1. hold[q][name] = path'[name]
      BY <1>1, <1>2, <2>1, <2>3 DEF Opens
    <3>2. QED
      BY <1>1, <1>3, <3>1 DEF Opens, Ipc!Referenced
  <2>4. QED
    BY <2>2, <2>3
<1>7. ASSUME NEW S, NEW places \in SUBSET InRound PROVE AtPlaces(o, S, places)' = 0
  <2>1. {q \in Ipc!Users(o) \cap S : pc[q] \in places}' = {}
    BY <1>6 DEF Ipc!Users
  <2>2. QED
    BY <2>1, FS_EmptySet DEF AtPlaces
<1>8. /\ AtPlaces(o, Ipc!Procs, {"buffer", "unlock"})' = 0
         /\ AtPlaces(o, Producers, {"unlock", "give"})' = 0
      /\ AtPlaces(o, Consumers, {"lock", "buffer"})' = 0 /\ AtPlaces(o, Ipc!Procs, InRound)' = 0
  <2>1. /\ {"buffer", "unlock"} \in SUBSET InRound /\ {"unlock", "give"} \in SUBSET InRound
        /\ {"lock", "buffer"} \in SUBSET InRound /\ InRound \in SUBSET InRound
    BY DEF InRound
  <2>2. QED
    BY <1>7, <2>1
<1>9. /\ value'["mutex"][o["mutex"]] = 1 /\ value'["shm"][o["shm"]] = 0
      /\ value'["full"][o["full"]] = 0 /\ value'["empty"][o["empty"]] = K
  BY <1>5 DEF Ipc!Names, Ipc!Initially
<1>10. BalancedAt(o)'
  BY <1>8, <1>9, IpcAssumption DEF BalancedAt
<1>11. Ipc!Balanced(o)' = BalancedAt(o)'
  BY SameCardinality DEF Ipc!Balanced, BalancedAt, AtPlaces, InRound
<1>12. QED
  BY <1>10, <1>11

\* Objects that are good after a step were good before.
LEMMA GoodBefore ==
    ASSUME Ipc!TypeOK, Ipc!TypeOK', Ipc!Next, NEW o, InUse(o), InUse(o)', Good(o)'
    PROVE  Good(o)
<1>1. Kept \/ spoiled' = spoiled
  BY StepKinds DEF Starts, Moves, Leaves, Opens, CleanerStarts, Unlinks
<1>2. \A n \in Ipc!Names : Ipc!Referenced(n, o[n]) /\ Ipc!Referenced(n, o[n])'
  BY DEF InUse, Ipc!Referenced, Ipc!Running
<1>3. \A n \in Ipc!Names : o[n] # 0 /\ <<n, o[n]>> \notin spoiled'
  BY DEF Good
<1>4. \A n \in Ipc!Names : o[n] \in Ipc!Numbers
  <2>1. CASE o = path
    BY <1>3, <2>1 DEF Ipc!TypeOK
  <2>2. ASSUME NEW p \in Ipc!Running, o = hold[p] PROVE \A n \in Ipc!Names : o[n] \in Ipc!Numbers
    <3>1. o \in [Ipc!Names -> Ipc!Numbers \cup {0}]
      BY <2>2 DEF Ipc!Running, Ipc!TypeOK
    <3>2. QED
      BY <1>3, <3>1
  <2>3. QED
    BY <2>1, <2>2 DEF InUse
<1>5. QED
  BY <1>1, <1>2, <1>3, <1>4, StillGood DEF Good

\* StartsFindBalance in terms of these.
LEMMA BalanceForm ==
    Ipc!StartsFindBalance <=> \A o : InUse(o) /\ Good(o) => Ipc!Balanced(o)
BY DEF Ipc!StartsFindBalance, InUse, Good

\* Every step keeps the good objects in use in balance.
LEMMA StartsFindBalanceStep ==
    ASSUME Ipc!TypeOK, Ipc!TypeOK', HoldsOpened, HoldsOpened', OpensCurrent, OneGeneration,
           OneGeneration',
           Remade, AsMade, Ipc!StartsFindBalance, Ipc!Next
    PROVE  Ipc!StartsFindBalance'
<1>1. SUFFICES ASSUME NEW o, InUse(o)', Good(o)' PROVE Ipc!Balanced(o)'
  BY DEF Ipc!StartsFindBalance, InUse, Good
<1>2. CASE ~InUse(o)
  BY <1>1, <1>2, NewBalance
<1>3. CASE InUse(o)
  <2>1. Good(o)
    BY <1>1, <1>3, GoodBefore
  <2>2. Ipc!Balanced(o)
    BY <1>3, <2>1, BalanceForm
  <2>3. QED
    BY <1>1, <1>3, <2>2, OldBalance
<1>4. QED
  BY <1>2, <1>3

\* The invariant holds before anything is there.
LEMMA IpcInitInv ==
    ASSUME Ipc!Init
    PROVE  IpcInv
<1> USE DEF Ipc!Init, Ipc!Nothing
<1>1. Ipc!TypeOK
  BY IpcAssumption DEF Ipc!TypeOK, Ipc!Names, Ipc!Numbers, Ipc!Opening
<1>2. HoldsOpened
  BY DEF HoldsOpened, OpenedAt
<1>3. OpensCurrent
  BY DEF OpensCurrent
<1>r. Ipc!Running = {}
  BY DEF Ipc!Running
<1>4. OneGeneration
  BY <1>r DEF OneGeneration
<1>5. Remade
  BY CleanedSoFar, <1>1 DEF Remade
<1>6. AsMade
  BY DEF AsMade
<1>7. Ipc!StartsFindBalance
  BY <1>r DEF Ipc!StartsFindBalance, Ipc!Names
<1>8. QED
  BY <1>1, <1>2, <1>3, <1>4, <1>5, <1>6, <1>7 DEF IpcInv

\* The invariant says nothing of the other programs.
LEMMA IpcStutter ==
    ASSUME IpcInv, UNCHANGED ipc
    PROVE  IpcInv'
<1> USE DEF ipc
<1>1. Ipc!TypeOK'
  BY DEF IpcInv, Ipc!TypeOK
<1>2. HoldsOpened'
  BY DEF IpcInv, HoldsOpened
<1>3. OpensCurrent'
  BY DEF IpcInv, OpensCurrent
<1>4. OneGeneration'
  BY DEF IpcInv, OneGeneration, Ipc!Running, Current, Outdated, Cleaned
<1>5. Remade'
  BY DEF IpcInv, Remade, Cleaned
<1>6. AsMade'
  BY DEF IpcInv, AsMade
<1>7. Ipc!StartsFindBalance'
  <2>1. SUFFICES ASSUME NEW o, InUse(o)', Good(o)' PROVE Ipc!Balanced(o)'
    BY DEF Ipc!StartsFindBalance, InUse, Good
  <2>2. InUse(o) /\ Good(o)
    BY <2>1 DEF InUse, Good, Ipc!Running
  <2>3. Ipc!Balanced(o)
    BY <2>2, BalanceForm DEF IpcInv
  <2>4. QED
    BY <2>3, BalanceKept
<1>8. QED
  BY <1>1, <1>2, <1>3, <1>4, <1>5, <1>6, <1>7 DEF IpcInv

\* IpcInv holds before anything is launched and for ever.
LEMMA IpcInvHolds == Spec => []IpcInv
<1>1. Init => IpcInv
  BY IpcInitInv DEF Init
<1>2. IpcInv /\ [Next]_vars => IpcInv'
  <2>1. ASSUME IpcInv, Ipc!Next PROVE IpcInv'
    <3>1. /\ Ipc!TypeOK /\ HoldsOpened /\ OpensCurrent /\ OneGeneration /\ Remade /\ AsMade
          /\ Ipc!StartsFindBalance
      BY <2>1 DEF IpcInv
    <3>2. Ipc!TypeOK'
      BY <2>1, <3>1, IpcTypeStep
    <3>3. HoldsOpened' /\ OpensCurrent' /\ OneGeneration' /\ Remade' /\ AsMade'
      BY <2>1, <3>1, <3>2, HoldsOpenedStep, OpensCurrentStep, OneGenerationStep, RemadeStep,
         AsMadeStep
    <3>4. Ipc!StartsFindBalance'
      BY <2>1, <3>1, <3>2, <3>3, StartsFindBalanceStep
    <3>5. QED
      BY <3>2, <3>3, <3>4 DEF IpcInv
  <2>2. QED
    BY <2>1, IpcStutter DEF Next, vars, RunLevel1, RunMonitor, RunServer, RunIpc
<1>3. QED
  BY <1>1, <1>2, PTL DEF Spec

\* AllOrNone of IpcObjects.tla: undisturbed processes, which open the four names
\* one after the other (producer.c:99-101), share all four objects or none.
THEOREM AllOrNoneHolds == Spec => []AllOrNone
<1>1. IpcInv => AllOrNone
  BY DEF IpcInv, OneGeneration, AllOrNone, Ipc!AllOrNone
<1>2. QED
  BY <1>1, IpcInvHolds, PTL

\* StartsFindBalance of IpcObjects.tla: whoever starts (consumer.c:12-23) finds
\* semaphores that account for the tasks and for the processes in a round.
THEOREM StartsFindBalanceHolds == Spec => []StartsFindBalance
<1>1. IpcInv => StartsFindBalance
  BY DEF IpcInv, StartsFindBalance
<1>2. QED
  BY <1>1, IpcInvHolds, PTL
=============================================================================
