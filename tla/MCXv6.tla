------------------------------- MODULE MCXv6 -------------------------------
\* Parts of xv6 that do not share state in the model, checked in one run: program
\* says which one a behaviour is of, and the variables of the others stay as they
\* start. The spin locks keep the names of their module.
EXTENDS Spinlock

CONSTANTS
  NPAGES, NPROC, PGSIZE, NKTAB, NPDE, NPTE,                              \* Memory
  Reader, NoReader, INPUT_BUF, UINT, Char, Newline, Eof, Sizes, ROWS, COLS, \* Console
  SIZEOF, NALLOC, Limit, Bytes, Gaps,                                    \* Umalloc
  MAXARGS, MaxLine                                                       \* Shell
VARIABLES
  program,
  free, state, kstack, sz, vm, th, stopped,
  buf, r, w, e, lock, rd, pos, fault,
  freep, ptr, size, brk, taken, gaps, failed,
  line, child, fd, missing

Images == {<<1, 2>>, <<3>>}
ArgSizes == {1, 3}
Growth == {1, 2, -1, -2}

M == INSTANCE Memory WITH panicked <- stopped
C == INSTANCE Console
U == INSTANCE Umalloc
S == INSTANCE Shell

locks == vars
memory == <<free, state, kstack, sz, vm, th, stopped>>
console == <<buf, r, w, e, lock, rd, pos, fault>>
heap == <<freep, ptr, size, brk, taken, gaps, failed>>
shell == <<line, child, fd, missing>>

XInit ==
  /\ program \in {"locks", "memory", "console", "heap", "shell"}
  /\ Init /\ M!Init /\ C!Init /\ U!Init /\ S!Init

XNext ==
  /\ UNCHANGED program
  /\ \/ program = "locks" /\ Next /\ UNCHANGED <<memory, console, heap, shell>>
     \/ program = "memory" /\ M!Next /\ UNCHANGED <<locks, console, heap, shell>>
     \/ program = "console" /\ C!Next /\ UNCHANGED <<locks, memory, heap, shell>>
     \/ program = "heap" /\ U!Next /\ UNCHANGED <<locks, memory, console, shell>>
     \/ program = "shell" /\ S!Next /\ UNCHANGED <<locks, memory, console, heap>>

XSpec == XInit /\ [][XNext]_<<program, locks, memory, console, heap, shell>>
-----------------------------------------------------------------------------
\* Memory: every page kinit gave the allocator is on the free list or has one
\* owner, also after a call that failed half way (kalloc.c, vm.c, exec.c).
PagesOwned == program = "memory" => M!PagesOwned

\* Memory: outside fork, exec, sbrk and wait a process has exactly the pages that
\* proc->sz says, and so mappages and copyuvm never panic.
SizeMapped == program = "memory" => M!SizeMapped

\* Console: no process sleeps in consoleread while there is a line for it, a full
\* ring is always ready to be read, and cgaputc stays on the screen.
NoMissedInput == program = "console" => C!NoMissedInput

\* Console: through every wrap of r, w and e the ring is a line being edited and
\* the characters ready to be read, and a ^D is used up only by a read that
\* returns nothing (console.c:256).
ImplementsInputLine == C!ImplementsInputLine

\* Umalloc: an address of the heap is in one block of the program, in one block of
\* the list of malloc and free, or the program's own, and the list is in address
\* order with neighbours joined.
HeapTiled == program = "heap" => U!HeapTiled


\* Shell: parsecmd accepts exactly the lines of the grammar.
AcceptsGrammar == program = "shell" => S!AcceptsGrammar

\* Shell: the child gets every word, ended by nulterminate where it ends, and the
\* first file written for each descriptor.
RunsAsWritten == program = "shell" => S!RunsAsWritten
=============================================================================
