------------------------------ MODULE Console -------------------------------
(***************************************************************************)
(* The console: xv6/console.c.  The input ring is edited by consoleintr,   *)
(* called by the keyboard and serial interrupts, and emptied by processes  *)
(* in consoleread; everything is echoed to the screen.  Both run under     *)
(* cons.lock, which a reader keeps until it sleeps or returns.             *)
(***************************************************************************)
EXTENDS Integers, Sequences

CONSTANTS Reader, NoReader,
          INPUT_BUF,
          UINT,           \* 2^32: the indices wrap there
          Char, Newline, Eof,
          Sizes,          \* sizes of reads
          ROWS, COLS      \* 25 and 80: the screen

VARIABLES buf, r, w, e,   \* input
          lock,           \* which reader has cons.lock
          rd,             \* readers: pc, n and target, killed
          pos,            \* cursor position
          fault           \* "pos under/overflow", or a store beside the screen

input == <<buf, r, w, e>>
vars == <<input, lock, rd, pos, fault>>

Idle == [pc |-> "idle", n |-> 0, target |-> 0, killed |-> FALSE]

Init ==
  /\ buf = [i \in 0..INPUT_BUF - 1 |-> Newline]
  /\ r = 0 /\ w = 0 /\ e = 0
  /\ lock = NoReader
  /\ rd = [p \in Reader |-> Idle]
  /\ pos = 0
  /\ fault = FALSE

At(i) == buf[i % INPUT_BUF]
Add(i, n) == (i + n) % UINT
Sub(i, n) == (i - n + UINT) % UINT

\* cgaputc: the cursor moves, and the screen scrolls when it reaches the last row.
Moved(c, at) == IF c = "newline" THEN at + COLS - (at % COLS) ELSE at + 1

Scrolled(at) == IF at \div COLS >= ROWS - 1 THEN at - COLS ELSE at

consputc(c) ==
  /\ pos' = Scrolled(Moved(c, pos))
  /\ fault' = (fault \/ Moved(c, pos) \notin 0..ROWS * COLS \/ pos' >= ROWS * COLS)

\* n times BACKSPACE.
Erased(n) == pos' = (IF n > pos THEN 0 ELSE pos - n) /\ UNCHANGED fault

(***************************************************************************)
(* consoleintr, for one character                                          *)
(***************************************************************************)
\* wakeup(&input.r)
Wakeup == rd' = [p \in Reader |-> IF rd[p].pc = "asleep" THEN [rd[p] EXCEPT !.pc = "woken"] ELSE rd[p]]

\* Mutant: a full ring is not made ready.
TypedFullSilent(c) ==
  LET ends == c \in {Newline, Eof} IN
  /\ lock = NoReader
  /\ Sub(e, r) < INPUT_BUF
  /\ buf' = [buf EXCEPT ![e % INPUT_BUF] = c]
  /\ e' = Add(e, 1)
  /\ consputc(IF c = Newline THEN "newline" ELSE "char")
  /\ IF ends THEN w' = e' /\ Wakeup ELSE UNCHANGED <<w, rd>>
  /\ UNCHANGED <<r, lock>>

Typed(c) ==
  LET ends == c \in {Newline, Eof} \/ Add(e, 1) = Add(r, INPUT_BUF) IN
  /\ lock = NoReader
  /\ Sub(e, r) < INPUT_BUF
  /\ buf' = [buf EXCEPT ![e % INPUT_BUF] = c]
  /\ e' = Add(e, 1)
  /\ consputc(IF c = Newline THEN "newline" ELSE "char")
  /\ IF ends THEN w' = e' /\ Wakeup ELSE UNCHANGED <<w, rd>>
  /\ UNCHANGED <<r, lock>>

\* ^H takes one character of the line back, ^U all of it.
Backspace ==
  /\ lock = NoReader /\ e # w
  /\ e' = Sub(e, 1)
  /\ Erased(1)
  /\ UNCHANGED <<buf, r, w, lock, rd>>

\* Mutant: ^U goes on into what is ready.
KillAll ==
  LET stop == CHOOSE k \in 0..Sub(e, w) :
                /\ k = Sub(e, w) \/ At(Sub(e, k + 1)) = Newline
                /\ \A j \in 0..k - 1 : At(Sub(e, j + 1)) # Newline
  IN
  /\ lock = NoReader /\ e # w
  /\ e' = r
  /\ Erased(stop)
  /\ UNCHANGED <<buf, r, w, lock, rd>>

KillLine ==
  LET stop == CHOOSE k \in 0..Sub(e, w) :
                /\ k = Sub(e, w) \/ At(Sub(e, k + 1)) = Newline
                /\ \A j \in 0..k - 1 : At(Sub(e, j + 1)) # Newline
  IN
  /\ lock = NoReader /\ e # w
  /\ e' = Sub(e, stop)
  /\ Erased(stop)
  /\ UNCHANGED <<buf, r, w, lock, rd>>

(***************************************************************************)
(* consoleread and consolewrite                                            *)
(***************************************************************************)
Read(p, n) ==
  /\ rd[p].pc = "idle" /\ lock = NoReader
  /\ lock' = p
  /\ rd' = [rd EXCEPT ![p] = [@ EXCEPT !.pc = "read", !.n = n, !.target = n]]
  /\ UNCHANGED <<input, pos, fault>>

\* Nothing to read: sleep, or give up when killed.
ReadWait(p) ==
  /\ rd[p].pc = "read" /\ rd[p].n > 0 /\ r = w
  /\ lock' = NoReader
  /\ rd' = [rd EXCEPT ![p] = IF @.killed THEN Idle ELSE [@ EXCEPT !.pc = "asleep"]]
  /\ UNCHANGED <<input, pos, fault>>

Woken(p) ==
  /\ rd[p].pc = "woken" /\ lock = NoReader
  /\ lock' = p
  /\ rd' = [rd EXCEPT ![p].pc = "read"]
  /\ UNCHANGED <<input, pos, fault>>

\* ^D ends the read, and stays for the next one unless it came first.
ReadEof(p) ==
  /\ rd[p].pc = "read" /\ rd[p].n > 0 /\ r # w /\ At(r) = Eof
  /\ r' = IF rd[p].n < rd[p].target THEN r ELSE Add(r, 1)
  /\ lock' = NoReader
  /\ rd' = [rd EXCEPT ![p] = Idle]
  /\ UNCHANGED <<buf, w, e, pos, fault>>

ReadChar(p) ==
  LET last == At(r) = Newline \/ rd[p].n = 1 IN
  /\ rd[p].pc = "read" /\ rd[p].n > 0 /\ r # w /\ At(r) # Eof
  /\ r' = Add(r, 1)
  /\ lock' = IF last THEN NoReader ELSE p
  /\ rd' = [rd EXCEPT ![p] = IF last THEN Idle ELSE [@ EXCEPT !.n = @ - 1]]
  /\ UNCHANGED <<buf, w, e, pos, fault>>

\* kill wakes a process that sleeps.
Kill(p) ==
  /\ rd[p].pc # "idle" /\ ~rd[p].killed
  /\ rd' = [rd EXCEPT ![p] = [@ EXCEPT !.killed = TRUE, !.pc = IF @ = "asleep" THEN "woken" ELSE @]]
  /\ UNCHANGED <<input, lock, pos, fault>>

\* consolewrite and cprintf of one character.
Write(c) ==
  /\ lock = NoReader
  /\ consputc(c)
  /\ UNCHANGED <<input, lock, rd>>

Next ==
  \/ \E c \in Char : Typed(c)
  \/ Backspace \/ KillLine
  \/ \E p \in Reader :
       \/ \E n \in Sizes : Read(p, n)
       \/ ReadWait(p) \/ Woken(p) \/ ReadEof(p) \/ ReadChar(p) \/ Kill(p)
  \/ \E c \in {"newline", "char"} : Write(c)

Spec == Init /\ [][Next]_vars
-----------------------------------------------------------------------------
Slice(i, j) == [k \in 1..Sub(j, i) |-> At(Add(i, k - 1))]

Line == INSTANCE InputLine WITH N <- INPUT_BUF, line <- Slice(w, e), ready <- Slice(r, w)

\* The cursor never leaves the screen and nothing is stored beside it.
CursorOnScreen == pos < (ROWS - 1) * COLS /\ ~fault

\* No process sleeps for input that is there, and a full ring can always be
\* read: no more can be typed into it.  What is typed is echoed on the screen.
NoMissedInput ==
  /\ CursorOnScreen
  /\ \A p \in Reader : rd[p].pc = "asleep" => r = w
  /\ Sub(e, r) = INPUT_BUF => w = e

\* console.c:256-257: a ^D is used up only by a read that returns nothing.
EofAlone == r' # r /\ At(r) = Eof => \A p \in Reader : rd[p].pc = "read" => rd[p].n = rd[p].target

\* Through every wrap of the indices the ring is a line being edited and
\* characters ready to be read (InputLine), and its readers keep to EofAlone.
ImplementsInputLine == Line!Spec /\ [][EofAlone]_vars
=============================================================================
