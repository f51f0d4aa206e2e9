----------------------------- MODULE WordQueue -----------------------------
(***************************************************************************)
(* A bounded first-in first-out queue of words: what the shared memory of  *)
(* lab-05/wordheap.c really is to the processes that use it.               *)
(***************************************************************************)
EXTENDS Sequences, Naturals

CONSTANTS Word, ITEMS

VARIABLES q,       \* the words, oldest first
          out      \* the last word recovered

vars == <<q, out>>

Init == q = <<>> /\ out = "none"

Add(w) == Len(q) < ITEMS /\ q' = Append(q, w) /\ UNCHANGED out

Remove == q # <<>> /\ out' = Head(q) /\ q' = Tail(q)

Next == Remove \/ \E w \in Word : Add(w)

Spec == Init /\ [][Next]_vars
=============================================================================
