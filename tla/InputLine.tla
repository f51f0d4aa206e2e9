----------------------------- MODULE InputLine ------------------------------
(***************************************************************************)
(* What the console's input promises: a line that is being edited and what *)
(* is ready to be read, together at most N characters.                     *)
(***************************************************************************)
EXTENDS Naturals, Sequences

CONSTANTS N, Char, Newline, Eof

VARIABLES line, ready

Init == line = <<>> /\ ready = <<>>

\* A character ends the line when it is a newline or ^D, or the last that fits.
Type(c) ==
  LET typed == Append(line, c) IN
  /\ Len(ready) + Len(line) < N
  /\ IF c \in {Newline, Eof} \/ Len(ready) + Len(typed) = N
       THEN ready' = ready \o typed /\ line' = <<>>
       ELSE line' = typed /\ UNCHANGED ready

Erase ==
  /\ line # <<>>
  /\ line' = SubSeq(line, 1, Len(line) - 1)
  /\ UNCHANGED ready

Kill == line' = <<>> /\ UNCHANGED ready

Take == ready # <<>> /\ ready' = Tail(ready) /\ UNCHANGED line

Next == (\E c \in Char : Type(c)) \/ Erase \/ Kill \/ Take

Spec == Init /\ [][Next]_<<line, ready>>
=============================================================================
