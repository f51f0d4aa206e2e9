------------------------------- MODULE Shell --------------------------------
(***************************************************************************)
(* The shell: xv6/sh.c.  A line is a sequence of characters, "a" standing  *)
(* for every character of a word and " " for white space; a position after *)
(* its end reads as NUL.  A parser returns where it stopped and what it    *)
(* read, or that it called panic.                                          *)
(***************************************************************************)
EXTENDS Integers, Sequences, FiniteSets, SequencesExt

CONSTANTS MAXARGS,
          MaxLine     \* characters gets reads

VARIABLES line,       \* buf of main
          child,      \* what became of the child: none, panic, exit, or what it executes
          fd,         \* the files on descriptors 0, 1 and 2 of the child
          missing     \* do the files to read from not exist

vars == <<line, child, fd, missing>>

symbols == {"<", "|", ">", "&", ";", "(", ")"}
Character == symbols \union {"a", " "}
console == <<0, 0>>    \* a file is known by where its name is in the line
closed == <<>>

-----------------------------------------------------------------------------
(***************************************************************************)
(* Tokens                                                                  *)
(***************************************************************************)
At(s, i) == IF i <= Len(s) THEN s[i] ELSE "nul"

\* The first position from i on without these characters.
SkipWhile(s, i, chars) == CHOOSE j \in i..Len(s) + 1 :
  At(s, j) \notin chars /\ \A k \in i..j - 1 : s[k] \in chars

Blanks(s, i) == SkipWhile(s, i, {" "})

peek(s, i, toks) == At(s, Blanks(s, i)) \in toks

\* The token that begins at q: its kind, where it ends, and where the next is.
TokenEnd(s, q) ==
  IF At(s, q) = "nul" THEN q
  ELSE IF At(s, q) = ">" /\ At(s, q + 1) = ">" THEN q + 2
  ELSE IF At(s, q) \in symbols THEN q + 1 ELSE SkipWhile(s, q, {"a"})

Token(s, q, eq) ==
  [tok |-> IF At(s, q) = ">" /\ eq = q + 2 THEN "+" ELSE At(s, q), q |-> q, eq |-> eq, next |-> Blanks(s, eq)]

TokenAt(s, q) == Token(s, q, TokenEnd(s, q))

gettoken(s, i) == TokenAt(s, Blanks(s, i))

(***************************************************************************)
(* Commands                                                                *)
(***************************************************************************)
execcmd(argv) == [type |-> "EXEC", argv |-> argv]
redircmd(sub, file, n) == [type |-> "REDIR", cmd |-> sub, file |-> file, fd |-> n]
pipecmd(l, r) == [type |-> "PIPE", left |-> l, right |-> r]
listcmd(l, r) == [type |-> "LIST", left |-> l, right |-> r]
backcmd(sub) == [type |-> "BACK", cmd |-> sub]

Panic == [ok |-> FALSE]
Parsed(i, cmd) == [ok |-> TRUE, at |-> i, cmd |-> cmd]

\* The redirections at i, added to those in rs.
RECURSIVE parseredirs(_, _, _)
Redirection(s, op, file, rs) ==
  IF file.tok # "a" THEN Panic
  ELSE parseredirs(s, file.next,
         Append(rs, [file |-> <<file.q, file.eq>>, fd |-> IF op.tok = "<" THEN 0 ELSE 1]))

parseredirs(s, i, rs) ==
  IF peek(s, i, {"<", ">"})
    THEN Redirection(s, gettoken(s, i), gettoken(s, gettoken(s, i).next), rs)
    ELSE Parsed(i, rs)

\* They end up around the command, the first one innermost.
RECURSIVE Around(_, _)
Around(cmd, rs) == IF rs = <<>> THEN cmd ELSE Around(redircmd(cmd, Head(rs).file, Head(rs).fd), Tail(rs))

\* The loop of parseexec: argv so far, and the redirections so far with where
\* they end.
RECURSIVE Arguments(_, _, _)
Argument(s, argv, rs, t) ==
  IF t.tok # "a" \/ Len(argv) + 1 >= MAXARGS THEN Panic
  ELSE Arguments(s, Append(argv, <<t.q, t.eq>>), parseredirs(s, t.next, rs.cmd))

Arguments(s, argv, rs) ==
  IF ~rs.ok THEN Panic
  ELSE IF peek(s, rs.at, {"|", ")", "&", ";", "nul"}) THEN Parsed(rs.at, Around(execcmd(argv), rs.cmd))
  ELSE Argument(s, argv, rs, gettoken(s, rs.at))

Block(cmd, rs) == IF rs.ok THEN Parsed(rs.at, Around(cmd, rs.cmd)) ELSE Panic

\* Mutant: the closing parenthesis is not asked for.
BlockEndOpen(s, inner) ==
  IF inner.ok THEN Block(inner.cmd, parseredirs(s, gettoken(s, inner.at).next, <<>>)) ELSE Panic

BlockEnd(s, inner) ==
  IF inner.ok /\ peek(s, inner.at, {")"})
    THEN Block(inner.cmd, parseredirs(s, gettoken(s, inner.at).next, <<>>))
    ELSE Panic

RECURSIVE parseline(_, _)
parseblock(s, i) == BlockEnd(s, parseline(s, gettoken(s, i).next))

parseexec(s, i) ==
  IF peek(s, i, {"("}) THEN parseblock(s, i) ELSE Arguments(s, <<>>, parseredirs(s, i, <<>>))

\* What is read after a command, if it goes on.
Piped(left, right) == IF right.ok THEN Parsed(right.at, pipecmd(left.cmd, right.cmd)) ELSE Panic
Listed(left, right) == IF right.ok THEN Parsed(right.at, listcmd(left.cmd, right.cmd)) ELSE Panic

RECURSIVE parsepipe(_, _)
PipeEnd(s, left) ==
  IF left.ok /\ peek(s, left.at, {"|"}) THEN Piped(left, parsepipe(s, gettoken(s, left.at).next)) ELSE left

parsepipe(s, i) == PipeEnd(s, parseexec(s, i))

\* Every & puts what was read so far in the background.
RECURSIVE Backs(_, _)
Backs(s, p) ==
  IF p.ok /\ peek(s, p.at, {"&"}) THEN Backs(s, Parsed(gettoken(s, p.at).next, backcmd(p.cmd))) ELSE p

LineEnd(s, left) ==
  IF left.ok /\ peek(s, left.at, {";"}) THEN Listed(left, parseline(s, gettoken(s, left.at).next)) ELSE left

parseline(s, i) == LineEnd(s, Backs(s, parsepipe(s, i)))

\* Nothing but white space may be left over.
Whole(s, p) == IF p.ok /\ Blanks(s, p.at) > Len(s) THEN p ELSE Panic

parsecmd(s) == Whole(s, parseline(s, 1))

\* Where nulterminate stores a NUL: after every argument and file name.
RECURSIVE nulterminate(_)
nulterminate(c) ==
  CASE c.type = "EXEC" -> {c.argv[k][2] : k \in DOMAIN c.argv}
    [] c.type = "REDIR" -> nulterminate(c.cmd) \union {c.file[2]}
    [] c.type = "BACK" -> nulterminate(c.cmd)
    [] OTHER -> nulterminate(c.left) \union nulterminate(c.right)

(***************************************************************************)
(* runcmd in the child: of a list, a pipe and a background command only    *)
(* the first command runs.                                                 *)
(***************************************************************************)
Open(f, file, ok) ==
  LET free == {n \in DOMAIN f : f[n] = closed} IN
  IF ~ok \/ free = {} THEN f ELSE [f EXCEPT ![CHOOSE n \in free : \A m \in free : n <= m] = file]

\* Mutant: the descriptor is not closed before the file is opened.
RECURSIVE runcmdOpen(_, _, _)
runcmdOpen(c, f, gone) ==
  CASE c.type = "EXEC" -> [child |-> IF c.argv = <<>> THEN "exit" ELSE "exec", fd |-> f]
    [] c.type = "REDIR" -> runcmdOpen(c.cmd, Open(f, c.file, c.fd = 1 \/ ~gone), gone)
    [] c.type = "BACK" -> runcmdOpen(c.cmd, f, gone)
    [] OTHER -> runcmdOpen(c.left, f, gone)

RECURSIVE runcmd(_, _, _)
runcmd(c, f, gone) ==
  CASE c.type = "EXEC" -> [child |-> IF c.argv = <<>> THEN "exit" ELSE "exec", fd |-> f]
    [] c.type = "REDIR" -> runcmd(c.cmd, Open([f EXCEPT ![c.fd] = closed], c.file, c.fd = 1 \/ ~gone), gone)
    [] c.type = "BACK" -> runcmd(c.cmd, f, gone)
    [] OTHER -> runcmd(c.left, f, gone)

(***************************************************************************)
(* main                                                                    *)
(***************************************************************************)
Init ==
  /\ line = <<>>
  /\ child = "none"
  /\ fd = [n \in 0..2 |-> console]
  /\ missing = FALSE

Type(c) ==
  /\ child = "none" /\ Len(line) < MaxLine
  /\ line' = Append(line, c)
  /\ UNCHANGED <<child, fd, missing>>

\* The child, from its command: its end and its descriptors.
Child(p, gone) == IF p.ok THEN runcmd(p.cmd, fd, gone) ELSE [child |-> "panic", fd |-> fd]
Ends(c) == child' = c.child /\ fd' = c.fd

\* fork1 and runcmd(parsecmd(buf)).
Run(gone) ==
  /\ child = "none" /\ line # <<>>
  /\ missing' = gone
  /\ Ends(Child(parsecmd(line), gone))
  /\ UNCHANGED line

\* wait, and the next prompt.
Wait ==
  /\ child # "none"
  /\ line' = <<>> /\ child' = "none" /\ missing' = FALSE
  /\ fd' = [n \in 0..2 |-> console]

Next == (\E c \in Character : Type(c)) \/ (\E gone \in BOOLEAN : Run(gone)) \/ Wait

Spec == Init /\ [][Next]_vars
-----------------------------------------------------------------------------
\* The kinds of the tokens of the line from i on.
RECURSIVE Kinds(_, _)
Kinds(s, i) ==
  LET t == gettoken(s, i) IN IF t.tok = "nul" THEN <<>> ELSE <<t.tok>> \o Kinds(s, t.next)

\* The grammar of the shell's language, as sets of splits.
Part(t, i, j) == SubSeq(t, i, j)

RECURSIVE IsWords(_, _)
IsWords(t, n) ==
  \/ t = <<>>
  \/ t # <<>> /\ t[1] = "a" /\ n + 1 < MAXARGS /\ IsWords(Tail(t), n + 1)
  \/ Len(t) >= 2 /\ t[1] \in {"<", ">", "+"} /\ t[2] = "a" /\ IsWords(Part(t, 3, Len(t)), n)

IsRedirs(t) == Len(t) % 2 = 0 /\ \A k \in DOMAIN t : IF k % 2 = 0 THEN t[k] = "a" ELSE t[k] \in {"<", ">", "+"}

RECURSIVE IsLine(_)
IsExec(t) ==
  \/ IsWords(t, 0)
  \/ \E k \in DOMAIN t : t[1] = "(" /\ t[k] = ")" /\ IsLine(Part(t, 2, k - 1)) /\ IsRedirs(Part(t, k + 1, Len(t)))

RECURSIVE IsPipe(_)
IsPipe(t) ==
  IsExec(t) \/ \E k \in DOMAIN t : t[k] = "|" /\ IsExec(Part(t, 1, k - 1)) /\ IsPipe(Part(t, k + 1, Len(t)))

RECURSIVE IsJob(_)
IsJob(t) == IsPipe(t) \/ (t # <<>> /\ Last(t) = "&" /\ IsJob(Front(t)))

IsLine(t) ==
  IsJob(t) \/ \E k \in DOMAIN t : t[k] = ";" /\ IsJob(Part(t, 1, k - 1)) /\ IsLine(Part(t, k + 1, Len(t)))

\* The recursive descent accepts exactly the lines of the grammar, though it
\* never goes back.
AcceptsGrammar == child # "none" => (child # "panic" <=> IsLine(Kinds(line, 1)))

\* The words of a command, left to right, as the tree holds them.
RECURSIVE Words(_)
Words(c) ==
  CASE c.type = "EXEC" -> c.argv
    [] c.type = "REDIR" -> Append(Words(c.cmd), c.file)
    [] c.type = "BACK" -> Words(c.cmd)
    [] OTHER -> Words(c.left) \o Words(c.right)

WordsOf(s) ==
  {w \in (1..Len(s)) \X (2..Len(s) + 1) :
     /\ w[1] < w[2] /\ \A k \in w[1]..w[2] - 1 : s[k] = "a"
     /\ At(s, w[2]) # "a" /\ (w[1] = 1 \/ s[w[1] - 1] # "a")}

\* Every word of an accepted line is in the tree once, and nulterminate ends
\* it where it ends, without a NUL inside any word.
WordsTerminated ==
  child \in {"exit", "exec"} =>
    LET c == parsecmd(line).cmd
        ws == Words(c)
    IN
    /\ {ws[k] : k \in DOMAIN ws} = WordsOf(line) /\ Len(ws) = Cardinality(WordsOf(line))
    /\ \A w \in WordsOf(line) : w[2] \in nulterminate(c) /\ nulterminate(c) \intersect (w[1]..w[2] - 1) = {}

\* The first simple command of the line and what is around it.
RECURSIVE Redirs(_)
Redirs(c) ==
  CASE c.type = "EXEC" -> <<>>
    [] c.type = "REDIR" -> Append(Redirs(c.cmd), [file |-> c.file, fd |-> c.fd])
    [] c.type = "BACK" -> Redirs(c.cmd)
    [] OTHER -> Redirs(c.left)

\* The child gets its words and, when the files exist, the first file written
\* for each of 0 and 1, the console where none was, and 2 is left alone.
RunsAsWritten ==
  WordsTerminated /\ (child \in {"exit", "exec"} /\ ~missing =>
    LET rs == Redirs(parsecmd(line).cmd)
        for(n) == {k \in DOMAIN rs : rs[k].fd = n}
    IN
    /\ fd[2] = console
    /\ \A n \in 0..1 :
         fd[n] = IF for(n) = {} THEN console ELSE rs[CHOOSE k \in for(n) : \A j \in for(n) : k <= j].file)
=============================================================================
