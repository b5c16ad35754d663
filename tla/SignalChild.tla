---------------------------- MODULE SignalChild ----------------------------
(***************************************************************************)
(* Lab 2: a process that treats SIGUSR1 as its mode says.  In exercise 1   *)
(* the mode is an argument; in exercises 2 and 3 a parent forks the        *)
(* process and hands it the mode with SIGUSR2 one second later.  In        *)
(* exercise 3 the treatment may come from a library loaded at run time.    *)
(***************************************************************************)
EXTENDS Integers

VARIABLES mode,            \* the argument of the user
          variant,         \* which program runs
          parent, child,   \* where the two processes are
          i,               \* the loop of the child
          disposition, masked, pending,   \* SIGUSR1 in the child
          received_mode,   \* "0" until the handler of SIGUSR2 has run
          usr2,            \* SIGUSR2: "none", "sent", "handled"
          ended,           \* how the child ended
          handled,         \* history: SIGUSR1s the custom handler has seen
          missed           \* history: SIGUSR2 came between the test and pause

usr1 == <<disposition, masked, pending, handled>>
launch == <<mode, variant>>
vars == <<launch, parent, child, i, usr1, received_mode, usr2, ended, missed>>

Modes == {"default", "mask", "ignore", "handle"}
Variants == {"alone", "forked", "dynamic"}   \* exercise 1, exercises 2 and 3, USE_DYNAMIC

Init ==
    /\ mode = "none" /\ variant = "none" /\ parent = "off" /\ child = "none" /\ i = 0
    /\ disposition = "default" /\ masked = FALSE /\ pending = FALSE /\ handled = 0
    /\ received_mode = "0" /\ usr2 = "none" /\ ended = "no" /\ missed = FALSE

\* Every way out of the child.
Exit(how) == child' = "ended" /\ ended' = how

(***************************************************************************)
(* parse_input and, in exercises 2 and 3, the parent.                      *)
(***************************************************************************)
Launch ==
    /\ parent = "off"
    /\ mode' \in Modes /\ variant' \in Variants
    /\ IF variant' = "alone" THEN parent' = "none" /\ child' = "setup"
                             ELSE parent' = "fork" /\ UNCHANGED child
    /\ UNCHANGED <<i, usr1, received_mode, usr2, ended, missed>>

Fork ==
    /\ parent = "fork"
    /\ \/ parent' = "sleep" /\ child' = "exec"
       \/ parent' = "failed" /\ UNCHANGED child
    /\ UNCHANGED <<launch, i, usr1, received_mode, usr2, ended, missed>>

\* sleep(1) promises nothing about where the child is, which may have ended
\* and wait as a zombie; sigqueue may fail for want of room.
Sigqueue ==
    /\ parent = "sleep" /\ parent' = "wait" /\ usr2' = "sent"
    /\ UNCHANGED <<launch, child, i, usr1, received_mode, ended, missed>>

\* Mutant: the parent gives up without killing the child.
SigqueueFailsNoKill ==
    /\ parent = "sleep" /\ parent' = "failed"
    /\ UNCHANGED <<launch, child, ended, i, usr1, received_mode, usr2, missed>>

SigqueueFails ==
    /\ parent = "sleep" /\ parent' = "failed"
    /\ IF child = "ended" THEN UNCHANGED <<child, ended>> ELSE Exit("SIGKILL")
    /\ UNCHANGED <<launch, i, usr1, received_mode, usr2, missed>>

Wait ==
    /\ parent = "wait" /\ child = "ended" /\ parent' = "done"
    /\ UNCHANGED <<launch, child, i, usr1, received_mode, usr2, ended, missed>>

(***************************************************************************)
(* SIGUSR1 in the child: sig_default, sig_mask, sig_ignore, sig_handle.    *)
(***************************************************************************)
Apply(m) ==
    /\ disposition' = IF m = "mask" THEN disposition ELSE m
    /\ masked' = (masked \/ m = "mask")
    /\ UNCHANGED <<pending, handled>>

\* What an unblocked SIGUSR1 does; the last conjunct of whoever delivers it.
Deliver ==
    /\ handled' = IF disposition = "handle" THEN handled + 1 ELSE handled
    /\ IF disposition = "default" THEN Exit("SIGUSR1") ELSE UNCHANGED <<child, ended>>

(***************************************************************************)
(* SIGUSR2 reaches the child: its default action until the handler is      *)
(* installed, then usr2_handler, after which pause returns.                *)
(***************************************************************************)
\* Mutant: the handler applies the mode itself, as an earlier version did:
\* the mask is the one from before the handler when it returns.
HandleUsr2Applies ==
    /\ usr2 = "sent" /\ usr2' = "handled" /\ child \notin {"exec", "install", "ended"}
    /\ received_mode' = mode
    /\ disposition' = IF mode = "mask" THEN disposition ELSE mode
    /\ child' = IF child = "tested" THEN child ELSE "loop"
    /\ missed' = (child = "tested")
    /\ UNCHANGED <<launch, parent, i, masked, pending, handled, ended>>

HandleUsr2 ==
    /\ usr2 = "sent" /\ usr2' = "handled" /\ child \notin {"exec", "install", "ended"}
    /\ received_mode' = mode
    /\ child' = IF child = "pause" THEN "test" ELSE child
    /\ missed' = (child = "tested")
    /\ UNCHANGED <<launch, parent, i, usr1, ended>>

DieOfUsr2 ==
    /\ usr2 = "sent" /\ usr2' = "handled" /\ child \in {"exec", "install"}
    /\ Exit("SIGUSR2")
    /\ UNCHANGED <<launch, parent, i, usr1, received_mode, missed>>

(***************************************************************************)
(* The child up to its loop.                                               *)
(***************************************************************************)
Exec ==
    /\ child = "exec"
    /\ \/ child' = "install" /\ UNCHANGED ended
       \/ Exit("failure")
    /\ UNCHANGED <<launch, parent, i, usr1, received_mode, usr2, missed>>

Install ==
    /\ child = "install" /\ child' = "test"
    /\ UNCHANGED <<launch, parent, i, usr1, received_mode, usr2, ended, missed>>

Test ==
    /\ child = "test"
    /\ child' = IF received_mode = "0" THEN "tested" ELSE "setup"
    /\ UNCHANGED <<launch, parent, i, usr1, received_mode, usr2, ended, missed>>

Pause ==
    /\ child = "tested" /\ child' = "pause"
    /\ UNCHANGED <<launch, parent, i, usr1, received_mode, usr2, ended, missed>>

\* mode_setup, always outside a handler.
Setup ==
    /\ child = "setup" /\ child' = "loop"
    /\ Apply(IF variant = "alone" THEN mode ELSE received_mode)
    /\ UNCHANGED <<launch, parent, i, received_mode, usr2, ended, missed>>

\* dlopen or dlsym finds nothing.
SetupFails ==
    /\ variant = "dynamic" /\ child = "setup"
    /\ Exit("failure")
    /\ UNCHANGED <<launch, parent, i, usr1, received_mode, usr2, missed>>

(***************************************************************************)
(* One round of the loop each: raise at 5 and 15; sigpending, and          *)
(* sig_unblock when SIGUSR1 waits, at 10; only sleep otherwise.            *)
(***************************************************************************)
Round == child = "loop" /\ i < 20 /\ i' = i + 1
Others == UNCHANGED <<launch, parent, received_mode, usr2, missed>>

Count ==
    /\ Round /\ i' \notin {5, 10, 15}
    /\ UNCHANGED <<usr1, child, ended>> /\ Others

Raise ==
    /\ Round /\ i' \in {5, 15}
    /\ IF masked THEN pending' = TRUE /\ UNCHANGED <<handled, child, ended>>
                  ELSE Deliver /\ UNCHANGED pending
    /\ UNCHANGED <<disposition, masked>> /\ Others

Unblock ==
    /\ Round /\ i' = 10
    /\ IF pending THEN Deliver /\ masked' = FALSE /\ pending' = FALSE
                  ELSE UNCHANGED <<handled, child, ended, masked, pending>>
    /\ UNCHANGED disposition /\ Others

Finish ==
    /\ child = "loop" /\ i = 20
    /\ Exit("normal")
    /\ UNCHANGED <<i, usr1>> /\ Others

ParentStep == Fork \/ Sigqueue \/ SigqueueFails \/ Wait
Usr2 == HandleUsr2 \/ DieOfUsr2
ChildStep == Exec \/ Install \/ Test \/ Pause \/ Setup \/ SetupFails \/ Count \/ Raise \/ Unblock \/ Finish
Next == Launch \/ ParentStep \/ Usr2 \/ ChildStep

\* The user is not obliged to launch anything; as long as a launched process
\* can go on or a sent signal be delivered, something happens.
Progress == ParentStep \/ Usr2 \/ ChildStep
Fairness == WF_vars(Progress)
Spec == Init /\ [][Next]_vars /\ Fairness

----------------------------------------------------------------------------
\* Every variable has its declared type.
TypeOK ==
    /\ mode \in Modes \cup {"none"} /\ variant \in Variants \cup {"none"}
    /\ parent \in {"off", "none", "fork", "sleep", "wait", "done", "failed"}
    /\ child \in {"none", "exec", "install", "test", "tested", "pause", "setup", "loop", "ended"}
    /\ i \in 0..20 /\ handled \in 0..2 /\ {masked, pending, missed} \subseteq BOOLEAN
    /\ disposition \in Modes \ {"mask"} /\ received_mode \in Modes \cup {"0"}
    /\ usr2 \in {"none", "sent", "handled"}
    /\ ended \in {"no", "normal", "failure", "SIGUSR1", "SIGUSR2", "SIGKILL"}

\* The number of SIGUSR1s a process that ends in round k of its loop has
\* handled, and how it ends, as test.sh expects of the four modes.
Expected(m) ==
    CASE m = "default" -> [ended |-> "SIGUSR1", i |-> 5,  handled |-> 0]
      [] m = "mask"    -> [ended |-> "SIGUSR1", i |-> 10, handled |-> 0]
      [] m = "ignore"  -> [ended |-> "normal",  i |-> 20, handled |-> 0]
      [] m = "handle"  -> [ended |-> "normal",  i |-> 20, handled |-> 2]

\* A process that gets as far as its loop ends where and as its mode says:
\* killed by the first raise, killed only when the masked signal is unblocked
\* (the mask set after SIGUSR2 is still there), or not at all; and a parent
\* that ends without an error has seen it end (main.c:42, child.c:36-62).
OutcomeFollowsMode ==
    /\ TypeOK
    /\ ended \in {"SIGUSR1", "normal"} => [ended |-> ended, i |-> i, handled |-> handled] = Expected(mode)
    /\ i > 0 /\ child = "ended" /\ ended # "SIGKILL" => ended \in {"SIGUSR1", "normal"}
    /\ parent = "done" => child = "ended"

\* Everything ends: exercise 1 by itself, and in the others the parent and the
\* child it has made, whatever becomes of either, unless SIGUSR2 was handled between the test
\* of received_mode and pause (child.c:30-31).
ProgramEnds ==
    /\ (child = "setup" ~> child = "ended")
    /\ (parent = "fork" ~> (parent \in {"done", "failed"} /\ child \in {"none", "ended"}) \/ missed)
============================================================================
