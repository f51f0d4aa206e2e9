----------------------------- MODULE ByteStream -----------------------------
(***************************************************************************)
(* What a pipe promises: the bytes written come out once, in order.        *)
(***************************************************************************)
EXTENDS Naturals, Sequences

CONSTANTS Byte, PIPESIZE

VARIABLES q,      \* bytes written and not yet read
          out     \* what the last read returned

vars == <<q, out>>

Init == q = <<>> /\ out = <<>>

Write == \E b \in Byte : Len(q) < PIPESIZE /\ q' = Append(q, b) /\ UNCHANGED out

Read == \E k \in 0..Len(q) : out' = SubSeq(q, 1, k) /\ q' = SubSeq(q, k + 1, Len(q))

Next == Write \/ Read

Spec == Init /\ [][Next]_vars
=============================================================================
