------------------------------ MODULE LabShell ------------------------------
(***************************************************************************)
(* The shell of the second lab: lab-02/sh.c.  It has words, redirections   *)
(* and pipes only: & ; ( ) are characters of words like any other, so "a"  *)
(* stands for them too.  Words are copied out of the line (mkcopy); here a *)
(* copy is known by where its word is in the line.                         *)
(***************************************************************************)
EXTENDS Integers, Sequences

CONSTANTS MAXARGS,
          MaxLine     \* characters fgets reads

VARIABLES line,       \* buf of main
          child,      \* none, panic, exit, or exec
          fd,         \* the files on descriptors 0, 1 and 2 of the child
          missing     \* do the files to read from not exist

vars == <<line, child, fd, missing>>

symbols == {"<", "|", ">"}
closed == <<>>
terminal == [n \in 0..2 |-> <<0, 0>>]

-----------------------------------------------------------------------------
Char(s, i) == IF i \in DOMAIN s THEN s[i] ELSE "nul"

\* The first position from i on that has none of these characters.
Skip(s, i, chars) == CHOOSE j \in i..Len(s) + 1 :
  Char(s, j) \notin chars /\ \A k \in i..j - 1 : s[k] \in chars

TokenEnd(s, q) ==
  IF Char(s, q) = "nul" THEN q ELSE IF Char(s, q) \in symbols THEN q + 1 ELSE Skip(s, q, {"a"})

Token(s, q, eq) == [tok |-> Char(s, q), q |-> q, eq |-> eq, ps |-> Skip(s, eq, {" "})]
TokenAt(s, q) == Token(s, q, TokenEnd(s, q))

gettoken(s, i) == TokenAt(s, Skip(s, i, {" "}))

peek(s, i, toks) == Char(s, Skip(s, i, {" "})) \in toks

mkcopy(t) == <<t.q, t.eq>>

execcmd(argv) == [type |-> "EXEC", argv |-> argv]
redircmd(subcmd, file, type) ==
  [type |-> "REDIR", cmd |-> subcmd, file |-> file, fd |-> IF type = "<" THEN 0 ELSE 1]
pipecmd(left, right) == [type |-> "PIPE", left |-> left, right |-> right]

\* A parser ends the child with exit(-1), or returns its position and the
\* words and redirections it has.
Exit == [ok |-> FALSE]
At(i, argv, redirs) == [ok |-> TRUE, ps |-> i, argv |-> argv, redirs |-> redirs]

RECURSIVE parseredirs(_, _)
Redirection(s, p, op, file) ==
  IF file.tok # "a" THEN Exit
  ELSE parseredirs(s, At(file.ps, p.argv, Append(p.redirs, [file |-> mkcopy(file), type |-> op.tok])))

parseredirs(s, p) ==
  IF peek(s, p.ps, {"<", ">"})
    THEN Redirection(s, p, gettoken(s, p.ps), gettoken(s, gettoken(s, p.ps).ps))
    ELSE p

\* The loop of parseexec, from after the redirections that come first.
RECURSIVE Arguments(_, _)

Argument(s, p, t) ==
  IF t.tok # "a" \/ Len(p.argv) + 1 >= MAXARGS THEN Exit
  ELSE Arguments(s, parseredirs(s, At(t.ps, Append(p.argv, mkcopy(t)), p.redirs)))

Arguments(s, p) ==
  IF ~p.ok \/ peek(s, p.ps, {"|", "nul"}) THEN p ELSE Argument(s, p, gettoken(s, p.ps))

\* Each redirection is put around the command read so far.
RECURSIVE Wrapped(_, _)
Wrapped(cmd, redirs) ==
  IF redirs = <<>> THEN cmd
  ELSE Wrapped(redircmd(cmd, Head(redirs).file, Head(redirs).type), Tail(redirs))

ExecEnd(p) == IF p.ok THEN [ok |-> TRUE, ps |-> p.ps, cmd |-> Wrapped(execcmd(p.argv), p.redirs)] ELSE Exit

parseexec(s, i) == ExecEnd(Arguments(s, parseredirs(s, At(i, <<>>, <<>>))))

Piped(left, right) == IF right.ok THEN [right EXCEPT !.cmd = pipecmd(left.cmd, @)] ELSE Exit

RECURSIVE parsepipe(_, _)
PipeEnd(s, left) ==
  IF left.ok /\ peek(s, left.ps, {"|"}) THEN Piped(left, parsepipe(s, gettoken(s, left.ps).ps)) ELSE left

parsepipe(s, i) == PipeEnd(s, parseexec(s, i))

parseline(s, i) == parsepipe(s, i)

\* Nothing but white space may be left over.
Whole(s, p) == IF p.ok /\ Skip(s, p.ps, {" "}) > Len(s) THEN p ELSE Exit

parsecmd(s) == Whole(s, parseline(s, 1))

\* open takes the lowest descriptor that is closed, and may fail: the code
\* does not look at its result.
Opened(f, file, ok) ==
  LET free == {n \in DOMAIN f : f[n] = closed} IN
  IF ok /\ free # {} THEN [f EXCEPT ![CHOOSE n \in free : \A m \in free : n <= m] = file] ELSE f

\* What becomes of the child: of a pipe only the left side runs.
RECURSIVE runcmd(_, _, _)
runcmd(cmd, f, gone) ==
  CASE cmd.type = "EXEC" -> [child |-> IF cmd.argv = <<>> THEN "exit" ELSE "exec", fd |-> f]
    [] cmd.type = "REDIR" ->
         runcmd(cmd.cmd, Opened([f EXCEPT ![cmd.fd] = closed], cmd.file, cmd.fd = 1 \/ ~gone), gone)
    [] cmd.type = "PIPE" -> runcmd(cmd.left, f, gone)

(***************************************************************************)
(* main                                                                    *)
(***************************************************************************)
Init == line = <<>> /\ child = "none" /\ fd = terminal /\ missing = FALSE

\* getcmd, a character at a time.
getcmd(c) ==
  /\ child = "none" /\ Len(line) < MaxLine
  /\ line' = Append(line, c)
  /\ UNCHANGED <<child, fd, missing>>

\* The child, from its command: its end and its descriptors.
Child(p, gone) == IF p.ok THEN runcmd(p.cmd, fd, gone) ELSE [child |-> "panic", fd |-> fd]
Ends(c) == child' = c.child /\ fd' = c.fd

Run(gone) ==
  /\ child = "none" /\ line # <<>>
  /\ missing' = gone
  /\ Ends(Child(parsecmd(line), gone))
  /\ UNCHANGED line

\* fork1 returns -1 when fork fails: the parent goes on, waits for nobody
\* and reads the next line.
fork1Fails ==
  /\ child = "none" /\ line # <<>>
  /\ line' = <<>>
  /\ UNCHANGED <<child, fd, missing>>

\* The parent's wait, then the next line.
Wait ==
  /\ child # "none"
  /\ line' = <<>> /\ child' = "none" /\ fd' = terminal /\ missing' = FALSE

Next ==
  \/ \E c \in symbols \union {"a", " "} : getcmd(c)
  \/ \E gone \in BOOLEAN : Run(gone)
  \/ fork1Fails \/ Wait

Spec == Init /\ [][Next]_vars
-----------------------------------------------------------------------------
\* The shell of xv6 was to run commands with the code of this one
\* (lab-02/README.md, Ejercicio 3): but for >>, which only xv6/sh.c has, both
\* refuse the same lines and give a command the same arguments and files.
Xv6 == INSTANCE Shell

RECURSIVE Argv(_)
Argv(cmd) ==
  CASE cmd.type = "EXEC" -> cmd.argv [] cmd.type = "REDIR" -> Argv(cmd.cmd) [] OTHER -> Argv(cmd.left)

Appends == \E k \in 1..Len(line) - 1 : line[k] = ">" /\ line[k + 1] = ">"

Agrees(lab, xv6) ==
  /\ child = "panic" <=> ~xv6.ok
  /\ xv6.ok => /\ [child |-> child, fd |-> fd] = Xv6!runcmd(xv6.cmd, terminal, missing)
               /\ Argv(lab.cmd) = Argv(xv6.cmd)

=============================================================================
