----------------------------- MODULE AtomicDisk -----------------------------
(***************************************************************************)
(* What the logging layer promises its users (the comment at the top of    *)
(* xv6/log.c): file-system operations bracketed by begin_op and end_op     *)
(* become durable in groups, only when no operation is active, and a crash *)
(* goes back to the last group.  There is no log here.                     *)
(***************************************************************************)
CONSTANTS Proc, Block, Val

VARIABLES durable,    \* what a reboot finds on the disk
          current,    \* what the running system reads
          active      \* the processes inside an operation

vars == <<durable, current, active>>

Init ==
  /\ durable \in [Block -> Val]
  /\ current = durable
  /\ active = {}

Begin(p) == active' = active \union {p} /\ UNCHANGED <<durable, current>>

Write(p, b, v) ==
  /\ p \in active
  /\ current' = [current EXCEPT ![b] = v]
  /\ UNCHANGED <<durable, active>>

End(p) == active' = active \ {p} /\ UNCHANGED <<durable, current>>

Commit == active = {} /\ durable' = current /\ UNCHANGED <<current, active>>

Crash == current' = durable /\ active' = {} /\ UNCHANGED durable

Next ==
  \/ \E p \in Proc : Begin(p) \/ End(p) \/ \E b \in Block, v \in Val : Write(p, b, v)
  \/ Commit \/ Crash

Spec == Init /\ [][Next]_vars
=============================================================================
