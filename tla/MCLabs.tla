------------------------------ MODULE MCLabs ------------------------------
\* The programs of the labs and mkfs, which share nothing, checked in one run:
\* program says which one a behaviour is of, and the variables of the others stay
\* as they start. The bounded buffer keeps the names of its module.
EXTENDS BoundedBuffer

CONSTANTS
  MAX_THREAD, NumThreads, NumExecs,                            \* UThread
  Writers, Readers, Printers, Creators, Deleters, Word, ITEMS, MaxObj, \* WordHeap
  Pid, NUM_PAGES, NUM_FRAMES, NUM_STORAGE_PAGES, Algorithm,    \* PagingSim
  BSIZE, NDIRECT, NINDIRECT, NMETA, FSSIZE, NINODES,           \* Mkfs
  MAXARGS, MaxLine                                             \* LabShell

ASSUME UThreadAssumption ==
  /\ MAX_THREAD \in Nat \ {0}
  /\ NumThreads \subseteq 0..(MAX_THREAD - 1)     \* thread_create does not check
  /\ NumExecs \subseteq Nat

ASSUME HeapAssumption == ITEMS \in Nat \ {0} /\ MaxObj \in Nat \ {0}

ASSUME SimAssumption ==
  /\ NUM_PAGES \in Nat \ {0} /\ NUM_FRAMES \in Nat \ {0} /\ NUM_STORAGE_PAGES \in Nat \ {0}
  /\ Algorithm \subseteq {"f", "l"}

VARIABLES
  program,
  state, current_thread, ultimo_indice, numthreads, numexecs, turn, created, at,
  free, count, locked, places, words, heap, name, made, next, obj, out, disturbed,
  algorithm, table, physical_memory, secondary_storage, fifo_queue, fifo_front,
  fifo_rear, lru_stack, lru_top, stopped, loaded,
  freeinode, freeblock, din, sect, bitmap, done,
  line, child, fd, missing

U == INSTANCE UThread WITH i <- turn
W == INSTANCE WordHeap WITH items <- count, mutex <- locked, full <- places,
                            empty <- words, pc <- next
P == INSTANCE PagingSim
M == INSTANCE Mkfs
S == INSTANCE LabShell

buffer == vars
threads == <<state, current_thread, ultimo_indice, numthreads, numexecs, turn, created, at>>
stack == <<free, count, locked, places, words, heap, name, made, next, obj, out, disturbed>>
sim == <<algorithm, table, physical_memory, secondary_storage, fifo_queue, fifo_front,
         fifo_rear, lru_stack, lru_top, stopped, loaded>>
image == <<freeinode, freeblock, din, sect, bitmap, done>>
shell == <<line, child, fd, missing>>

LInit ==
  /\ program \in {"buffer", "uthread", "words", "paging", "mkfs", "shell"}
  /\ Init /\ U!Init /\ W!Init /\ P!Init /\ M!Init /\ S!Init
  /\ program # "uthread" => numthreads = 0 /\ numexecs = 0
  /\ program # "paging" => algorithm = "f"

Elsewhere == UNCHANGED <<program, threads, stack, sim, image, shell>>
ProducerRuns == program = "buffer" /\ Producer /\ Elsewhere
ConsumerRuns == program = "buffer" /\ Consumer /\ Elsewhere
UThreadRuns == program = "uthread" /\ U!Next /\ UNCHANGED <<program, buffer, stack, sim, image, shell>>

LNext ==
  \/ ProducerRuns \/ ConsumerRuns
  \/ program = "buffer" /\ Joined /\ Elsewhere
  \/ UThreadRuns
  \/ program = "words" /\ W!Next /\ UNCHANGED <<program, buffer, threads, sim, image, shell>>
  \/ program = "paging" /\ P!Next /\ UNCHANGED <<program, buffer, threads, stack, image, shell>>
  \/ program = "mkfs" /\ M!Next /\ UNCHANGED <<program, buffer, threads, stack, sim, shell>>
  \/ program = "shell" /\ S!Next /\ UNCHANGED <<program, buffer, threads, stack, sim, image>>

all == <<program, buffer, threads, stack, sim, image, shell>>
\* The fairness of each program is the one its module states.
LSpec ==
  /\ LInit /\ [][LNext]_all
  /\ SF_all(ProducerRuns) /\ SF_all(ConsumerRuns)
  /\ WF_all(UThreadRuns)
-----------------------------------------------------------------------------
\* BoundedBuffer: no order of the waits blocks the two threads for ever.
BufferEnds == program = "buffer" => BothEnd

\* UThread: of two threads that have not ended, neither is more than one round of
\* thread_schedule ahead.
FairTurns == program = "uthread" => U!FairTurns

\* UThread: uthread ends, and by then every thread has.
ThreadsEnd == program = "uthread" => U!AllEnd



\* PagingSim: the page tables, the frames and the swap slots say the same.
TablesAgree == program = "paging" => P!TablesAgree


\* Mkfs: what bmap will find at each offset of a file is what iappend put
\* there, each block handed out is referred to once, and the bitmap has them.
ReadsBack == program = "mkfs" => M!ReadsBack

=============================================================================
