----------------------------- MODULE TaskQueue -----------------------------
(***************************************************************************)
(* What the Lab 5 buffers promise their users, with every operation        *)
(* atomic: at most K tasks wait, in two FIFO classes; a consumer gets the  *)
(* oldest PRIORITY task, or the oldest NORMAL task when no PRIORITY task   *)
(* waits; aging moves the oldest NORMAL task behind the PRIORITY tasks.    *)
(* No task is lost, duplicated or delivered twice.  TaskSystem (zad2 and   *)
(* zad3) and BoundedBuffer (zad1, where no task is PRIORITY) implement it. *)
(***************************************************************************)
EXTENDS Naturals, Sequences

CONSTANTS K,      \* capacity, both classes together
          Tasks   \* every task that can be created

VARIABLES priority,   \* waiting PRIORITY tasks, oldest first
          normal,     \* waiting NORMAL tasks, oldest first
          delivered   \* tasks some consumer has taken

vars == <<priority, normal, delivered>>

Elements(s) == {s[j] : j \in DOMAIN s}

Init == priority = <<>> /\ normal = <<>> /\ delivered = {}

Put(t) ==
    /\ Len(priority) + Len(normal) < K
    /\ t \notin Elements(priority) \cup Elements(normal) \cup delivered
    /\ \/ priority' = Append(priority, t) /\ normal' = normal
       \/ normal' = Append(normal, t) /\ priority' = priority
    /\ delivered' = delivered

Get ==
    \/ /\ priority # <<>>
       /\ priority' = Tail(priority) /\ normal' = normal
       /\ delivered' = delivered \cup {Head(priority)}
    \/ /\ priority = <<>> /\ normal # <<>>
       /\ normal' = Tail(normal) /\ priority' = priority
       /\ delivered' = delivered \cup {Head(normal)}

Age ==
    /\ normal # <<>>
    /\ priority' = Append(priority, Head(normal))
    /\ normal' = Tail(normal)
    /\ delivered' = delivered

Next == (\E t \in Tasks : Put(t)) \/ Get \/ Age

Spec == Init /\ [][Next]_vars
=============================================================================
