----------------------------- MODULE PagingSim -----------------------------
(***************************************************************************)
(* The paging simulator of lab-07/sim.c: one access (pid, page) per step,  *)
(* with the page tables, the frames, the swap slots and the two            *)
(* replacement structures of the program.                                  *)
(***************************************************************************)
EXTENDS Integers, Sequences, FiniteSetsExt, SequencesExt

CONSTANTS Pid, NUM_PAGES, NUM_FRAMES, NUM_STORAGE_PAGES,
          Algorithm          \* the options the program is run with: {"f", "l"}

Page == Pid \X (0..(NUM_PAGES - 1))
None == <<-1, -1>>
Frames == 0..(NUM_FRAMES - 1)
Storage == 0..(NUM_STORAGE_PAGES - 1)

VARIABLES
  algorithm,
  table,                              \* processes[].page_table[]
  physical_memory, secondary_storage,
  fifo_queue, fifo_front, fifo_rear,
  lru_stack, lru_top,
  stopped,                            \* exit(1): no swap slot
  loaded                              \* auxiliary: the pages in memory, by time of
                                      \* their last load
memory == <<table, physical_memory, secondary_storage>>
order == <<fifo_queue, fifo_front, fifo_rear, lru_stack, lru_top>>
vars == <<algorithm, memory, order, stopped, loaded>>

\* initialize
Init ==
  /\ algorithm \in Algorithm
  /\ table = [p \in Page |-> [frame_number |-> -1, in_memory |-> FALSE, in_storage |-> -1]]
  /\ physical_memory = [f \in Frames |-> None]
  /\ secondary_storage = [s \in Storage |-> None]
  /\ fifo_queue = [f \in Frames |-> -1] /\ fifo_front = 0 /\ fifo_rear = 0
  /\ lru_stack = [f \in Frames |-> -1] /\ lru_top = -1
  /\ stopped = FALSE
  /\ loaded = <<>>

-----------------------------------------------------------------------------
FirstOr(S) == IF S = {} THEN -1 ELSE Min(S)
find_free_frame == FirstOr({f \in Frames : physical_memory[f] = None})
find_free_storage == FirstOr({s \in Storage : secondary_storage[s] = None})

InFrame(f) == [frame_number |-> f, in_memory |-> TRUE, in_storage |-> -1]
InSlot(s) == [frame_number |-> -1, in_memory |-> FALSE, in_storage |-> s]

\* The page is in memory: the early return.
Hit(p) ==
  /\ table[p].in_memory
  /\ UNCHANGED <<algorithm, memory, order, stopped, loaded>>

Arrived(p, gone) == loaded' = Append(Remove(loaded, gone), p)

\* The end of fifo_replace, and allocate_page with -f.
Enqueue(f) ==
  /\ fifo_queue' = [fifo_queue EXCEPT ![fifo_rear] = f]
  /\ fifo_rear' = (fifo_rear + 1) % NUM_FRAMES

\* allocate_page with a free frame.
Fill(p) ==
  LET f == find_free_frame IN
  /\ ~table[p].in_memory /\ f # -1
  /\ physical_memory' = [physical_memory EXCEPT ![f] = p]
  /\ table' = [table EXCEPT ![p] = InFrame(f)]
  /\ IF algorithm = "f"
     THEN Enqueue(f) /\ UNCHANGED <<lru_stack, lru_top>>
     ELSE /\ lru_stack' = [lru_stack EXCEPT ![lru_top + 1] = f]
          /\ lru_top' = lru_top + 1
          /\ UNCHANGED <<fifo_queue, fifo_rear>>
  /\ Arrived(p, None)
  /\ UNCHANGED <<algorithm, secondary_storage, fifo_front, stopped>>

\* The frame fifo_replace or lru_replace takes.
frame_to_replace == IF algorithm = "f" THEN fifo_queue[fifo_front] ELSE lru_stack[0]

\* Mutant: the evicted page keeps its frame.
EvictHalf(f, s, p) ==
  /\ secondary_storage' = [secondary_storage EXCEPT ![s] = physical_memory[f]]
  /\ table' = [table EXCEPT ![p] = InFrame(f)]
  /\ physical_memory' = [physical_memory EXCEPT ![f] = p]

\* Page p takes frame f, whose page goes to slot s: the middle of both functions.
Evict(f, s, p) ==
  /\ secondary_storage' = [secondary_storage EXCEPT ![s] = physical_memory[f]]
  /\ table' = [table EXCEPT ![physical_memory[f]] = InSlot(s), ![p] = InFrame(f)]
  /\ physical_memory' = [physical_memory EXCEPT ![f] = p]

\* fifo_replace
fifo_replace(p) ==
  /\ algorithm = "f" /\ find_free_storage # -1
  /\ Evict(frame_to_replace, find_free_storage, p)
  /\ fifo_front' = (fifo_front + 1) % NUM_FRAMES
  /\ Enqueue(frame_to_replace)
  /\ UNCHANGED <<lru_stack, lru_top>>


\* lru_replace: the stack is shifted down, and the frame pushed.
lru_replace(p) ==
  /\ algorithm = "l" /\ find_free_storage # -1
  /\ Evict(frame_to_replace, find_free_storage, p)
  /\ lru_stack' = [f \in Frames |-> IF f = lru_top THEN frame_to_replace
                                    ELSE IF f < lru_top THEN lru_stack[f + 1] ELSE lru_stack[f]]
  /\ UNCHANGED <<lru_top, fifo_queue, fifo_front, fifo_rear>>

Replace(p) ==
  /\ ~table[p].in_memory /\ find_free_frame = -1
  /\ fifo_replace(p) \/ lru_replace(p)
  /\ Arrived(p, physical_memory[frame_to_replace])
  /\ UNCHANGED <<algorithm, stopped>>

\* No slot: exit(1).  What the replacement structures hold then is never read.
NoSpace(p) ==
  /\ ~table[p].in_memory /\ find_free_frame = -1 /\ find_free_storage = -1
  /\ stopped' = TRUE
  /\ UNCHANGED <<algorithm, memory, order, loaded>>

allocate_page(p) == ~stopped /\ (Hit(p) \/ Fill(p) \/ Replace(p) \/ NoSpace(p))

Next == \E p \in Page : allocate_page(p)

Spec == Init /\ [][Next]_vars

-----------------------------------------------------------------------------
\* The variables of sim.c are within the tables they index.
TypeOK ==
  /\ table \in [Page -> [frame_number : Frames \union {-1}, in_memory : BOOLEAN,
                         in_storage : Storage \union {-1}]]
  /\ physical_memory \in [Frames -> Page \union {None}]
  /\ secondary_storage \in [Storage -> Page \union {None}]
  /\ fifo_queue \in [Frames -> Frames \union {-1}]
  /\ fifo_front \in Frames /\ fifo_rear \in Frames
  /\ lru_stack \in [Frames -> Frames \union {-1}] /\ lru_top \in Frames \union {-1}

\* The page tables and the frames say the same, and a page that left memory is
\* found in the slot its entry names (allocate_page, fifo_replace, lru_replace).
TablesAgree ==
  TypeOK /\ \A p \in Page :
    /\ table[p].in_memory <=> \E f \in Frames : physical_memory[f] = p
    /\ table[p].in_memory => physical_memory[table[p].frame_number] = p
    /\ table[p].in_storage # -1 => ~table[p].in_memory /\ secondary_storage[table[p].in_storage] = p
    /\ (\E s \in Storage : secondary_storage[s] = p) => table[p].in_memory \/ table[p].in_storage # -1


=============================================================================
