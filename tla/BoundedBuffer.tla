--------------------------- MODULE BoundedBuffer ---------------------------
(***************************************************************************)
(* The producer and the consumer of lab-05/buf.c: two semaphores count the *)
(* empty and the full places, a mutex protects the buffer.  Each call of   *)
(* the thread library is one step.                                         *)
(***************************************************************************)
EXTENDS Integers

CONSTANTS size, items      \* the arguments of the program

ASSUME BufferAssumption == size \in Nat \ {0} /\ items \in Nat \ {0}

Place == 0..(size - 1)
Item == 0..(items - 1)

VARIABLES
  buf, empty, full,        \* struct buffer: contents and semaphores
  mutex,                   \* the thread that holds it
  pc,                      \* the next library call of each thread
  i,                       \* the loop counter of each thread
  reader_results

vars == <<buf, empty, full, mutex, pc, i, reader_results>>
Threads == {"producer", "consumer"}
Garbage == -1              \* what malloc leaves in memory

Init ==
  /\ buf = [k \in Place |-> Garbage]
  /\ empty = size /\ full = 0
  /\ mutex = "none"
  /\ pc = [t \in Threads |-> "sem_wait"]
  /\ i = [t \in Threads |-> 0]
  /\ reader_results = [k \in Item |-> Garbage]

-----------------------------------------------------------------------------
Goto(t, l) == pc' = [pc EXCEPT ![t] = l]

\* The head of the for loop: another item, or pthread_exit.
Loop(t) ==
  /\ i' = [i EXCEPT ![t] = @ + 1]
  /\ Goto(t, IF i[t] + 1 < items THEN "sem_wait" ELSE "exit")

Lock(t) ==
  /\ pc[t] = "lock" /\ mutex = "none"
  /\ mutex' = t
  /\ Goto(t, "access")
  /\ UNCHANGED <<buf, empty, full, i, reader_results>>

Unlock(t) ==
  /\ pc[t] = "unlock"
  /\ mutex' = "none"
  /\ Goto(t, "sem_post")
  /\ UNCHANGED <<buf, empty, full, i, reader_results>>

WaitEmpty ==
  /\ pc["producer"] = "sem_wait" /\ empty > 0
  /\ empty' = empty - 1
  /\ Goto("producer", "lock")
  /\ UNCHANGED <<buf, full, mutex, i, reader_results>>

Put ==
  /\ pc["producer"] = "access"
  /\ buf' = [buf EXCEPT ![i["producer"] % size] = i["producer"]]
  /\ Goto("producer", "unlock")
  /\ UNCHANGED <<empty, full, mutex, i, reader_results>>

PostFull ==
  /\ pc["producer"] = "sem_post"
  /\ full' = full + 1
  /\ Loop("producer")
  /\ UNCHANGED <<buf, empty, mutex, reader_results>>

\* Mutant: the consumer polls for a second item before it takes the first.
WaitFullMore ==
  /\ pc["consumer"] = "sem_wait"
  /\ IF full > 1
     THEN full' = full - 1 /\ Goto("consumer", "lock")
     ELSE UNCHANGED <<full, pc>>
  /\ UNCHANGED <<buf, empty, mutex, i, reader_results>>

WaitFull ==
  /\ pc["consumer"] = "sem_wait" /\ full > 0
  /\ full' = full - 1
  /\ Goto("consumer", "lock")
  /\ UNCHANGED <<buf, empty, mutex, i, reader_results>>

Get ==
  /\ pc["consumer"] = "access"
  /\ reader_results' = [reader_results EXCEPT ![i["consumer"]] = buf[i["consumer"] % size]]
  /\ Goto("consumer", "unlock")
  /\ UNCHANGED <<buf, empty, full, mutex, i>>

\* Mutant: the consumer gives the place back to the wrong semaphore.
PostEmptyWrong ==
  /\ pc["consumer"] = "sem_post"
  /\ full' = full + 1
  /\ Loop("consumer")
  /\ UNCHANGED <<buf, empty, mutex, reader_results>>

PostEmpty ==
  /\ pc["consumer"] = "sem_post"
  /\ empty' = empty + 1
  /\ Loop("consumer")
  /\ UNCHANGED <<buf, full, mutex, reader_results>>

Producer == WaitEmpty \/ Lock("producer") \/ Put \/ Unlock("producer") \/ PostFull
Consumer == WaitFull \/ Lock("consumer") \/ Get \/ Unlock("consumer") \/ PostEmpty

\* Both threads have ended and main has joined them.
Joined == (\A t \in Threads : pc[t] = "exit") /\ UNCHANGED vars

Next == Producer \/ Consumer \/ Joined

Spec == Init /\ [][Next]_vars
\* The system schedules both threads, and a mutex that is released again and
\* again is not withheld from one of them for ever.
FairSpec == Spec /\ SF_vars(Producer) /\ SF_vars(Consumer)

-----------------------------------------------------------------------------
Location == {"sem_wait", "lock", "access", "unlock", "sem_post", "exit"}

\* The buffer, the semaphores and the loop counters have their C types.
TypeOK ==
  /\ buf \in [Place -> Int]
  /\ empty \in 0..size /\ full \in 0..size
  /\ mutex \in Threads \union {"none"}
  /\ pc \in [Threads -> Location]
  /\ i \in [Threads -> 0..items]
  /\ reader_results \in [Item -> Int]

\* Items produced (stored in the buffer) and consumed (copied out) so far.
produced == i["producer"] + (IF pc["producer"] \in {"unlock", "sem_post"} THEN 1 ELSE 0)
consumed == i["consumer"] + (IF pc["consumer"] \in {"unlock", "sem_post"} THEN 1 ELSE 0)

\* The consumer reads every item, once, in the order of production: nothing is
\* read before it is stored and nothing is overwritten before it is read.
InOrder == \A k \in Item : k < consumed => reader_results[k] = k

\* The buffer holds exactly the items stored and not yet consumed, in the places
\* that the two semaphores do not hand out.
Holds == \A k \in Item : consumed <= k /\ k < produced => buf[k % size] = k

\* Both threads end: no order of the waits blocks them for ever.
BothEnd == <>(\A t \in Threads : pc[t] = "exit")

(***************************************************************************)
(* The inductive invariant behind InOrder.                                 *)
(***************************************************************************)
Inside(t) == pc[t] \in {"access", "unlock"}
Waited(t) == pc[t] \in {"lock", "access", "unlock", "sem_post"}

\* The mutex is held by the thread that is inside.
MutexHeld == \A t \in Threads : Inside(t) <=> mutex = t

\* A thread is in its loop while there are items left.
Looping == \A t \in Threads : pc[t] = "exit" <=> i[t] = items

\* The semaphores account for every place of the buffer.
Counted ==
  /\ empty = size - (i["producer"] - i["consumer"]) - (IF Waited("producer") THEN 1 ELSE 0)
  /\ full = i["producer"] - i["consumer"] - (IF Waited("consumer") THEN 1 ELSE 0)

BufferInv == TypeOK /\ MutexHeld /\ Looping /\ Counted /\ Holds /\ InOrder

=============================================================================
