------------------------------ MODULE WordHeap ------------------------------
(***************************************************************************)
(* The shared "pila de palabras" of lab-05/wordheap.c: processes run the   *)
(* program with -c, -w, -r, -p and -d on one name.  Each call of the       *)
(* semaphore, mutex and shared-memory libraries is one step; a name may    *)
(* be deleted and created again while processes still use the old object.  *)
(***************************************************************************)
EXTENDS Integers, Sequences, FiniteSets

CONSTANTS Writers, Readers,    \* processes that run -w, and -r
          Printers,            \* -p
          Creators, Deleters,  \* -c, -d
          Word,
          ITEMS,
          MaxObj               \* bound on the shared-memory objects ever created

Proc == Writers \union Readers \union Printers \union Creators \union Deleters
Obj == 1..MaxObj
Slots == 0..(ITEMS - 1)

VARIABLES
  \* the fields of struct wordstack in each object
  free, items, mutex, full, empty, heap,
  name, made,          \* the object the name refers to (0: none), objects created
  pc, obj,             \* per process: the next call, the object it has mapped
  out,                 \* auxiliary: the last word recovered from each object
  disturbed            \* auxiliary: objects used before -c was done, or made twice

shm == <<free, items, mutex, full, empty, heap>>
vars == <<shm, name, made, pc, obj, out, disturbed>>

\* A new object is all zeros, as ftruncate leaves it.
Init ==
  /\ free = [o \in Obj |-> 0] /\ items = [o \in Obj |-> 0]
  /\ mutex = [o \in Obj |-> FALSE]
  /\ full = [o \in Obj |-> 0]
  /\ empty = [o \in Obj |-> 0]
  /\ heap = [o \in Obj |-> [s \in Slots |-> "none"]]
  /\ name = 0 /\ made = 0
  /\ pc = [p \in Proc |-> "idle"]
  /\ obj = [p \in Proc |-> 0]
  /\ out = [o \in Obj |-> "none"]
  /\ disturbed = {}

-----------------------------------------------------------------------------
Goto(p, l) == pc' = [pc EXCEPT ![p] = l]
Creating(o) == \E p \in Proc : obj[p] = o /\ pc[p] \in {"init_mutex", "init_full", "init_empty"}

\* Bound: an object that was initialised while in use, or a second time, has its
\* mutex and semaphores reset under whoever is inside; it is followed no further.
Usable(p) == obj[p] \notin disturbed

\* shm_open, ftruncate, mmap of an existing object.
Open(p) ==
  /\ p \in Writers \union Readers \union Printers
  /\ pc[p] = "idle" /\ name # 0 /\ name \notin disturbed
  /\ obj' = [obj EXCEPT ![p] = name]
  /\ Goto(p, "lock")
  /\ disturbed' = IF Creating(name) THEN disturbed \union {name} ELSE disturbed
  /\ UNCHANGED <<shm, name, made, out>>

Lock(p) ==
  /\ pc[p] = "lock" /\ ~mutex[obj[p]]
  /\ mutex' = [mutex EXCEPT ![obj[p]] = TRUE]
  /\ Goto(p, IF p \in Writers THEN "wait_full" ELSE IF p \in Readers THEN "wait_empty" ELSE "print")
  /\ UNCHANGED <<free, items, full, empty, heap, name, made, obj, out, disturbed>>

\* sem_wait, with the mutex held.
WaitFull(p) ==
  /\ pc[p] = "wait_full" /\ full[obj[p]] > 0
  /\ full' = [full EXCEPT ![obj[p]] = @ - 1]
  /\ Goto(p, "push")
  /\ UNCHANGED <<free, items, mutex, empty, heap, name, made, obj, out, disturbed>>


WaitEmpty(p) ==
  /\ pc[p] = "wait_empty" /\ empty[obj[p]] > 0
  /\ empty' = [empty EXCEPT ![obj[p]] = @ - 1]
  /\ Goto(p, "pop")
  /\ UNCHANGED <<free, items, mutex, full, heap, name, made, obj, out, disturbed>>

\* agregar_palabra between sem_wait and unlock.
Push(p) ==
  /\ pc[p] = "push"
  /\ LET o == obj[p] IN
       /\ \E w \in Word : heap' = [heap EXCEPT ![o][free[o]] = w]
       /\ free' = [free EXCEPT ![o] = (@ + 1) % ITEMS]
       /\ items' = [items EXCEPT ![o] = @ + 1]
  /\ Goto(p, "unlock")
  /\ UNCHANGED <<mutex, full, empty, name, made, obj, out, disturbed>>


\* The place recuperar_palabra reads.
Oldest(o) == (free[o] + ITEMS - items[o]) % ITEMS

\* recuperar_palabra between sem_wait and unlock.
Pop(p) ==
  /\ pc[p] = "pop"
  /\ LET o == obj[p] IN
       /\ out' = [out EXCEPT ![o] = heap[o][Oldest(o)]]
       /\ items' = [items EXCEPT ![o] = @ - 1]
  /\ Goto(p, "unlock")
  /\ UNCHANGED <<free, mutex, full, empty, heap, name, made, obj, disturbed>>

Unlock(p) ==
  /\ pc[p] \in {"unlock", "print"}
  /\ mutex' = [mutex EXCEPT ![obj[p]] = FALSE]
  /\ Goto(p, IF p \in Printers THEN "idle" ELSE "post")
  /\ obj' = IF p \in Printers THEN [obj EXCEPT ![p] = 0] ELSE obj
  /\ UNCHANGED <<free, items, full, empty, heap, name, made, out, disturbed>>

\* sem_post, munmap, close.
Post(p) ==
  /\ pc[p] = "post"
  /\ IF p \in Writers THEN empty' = [empty EXCEPT ![obj[p]] = @ + 1] /\ UNCHANGED full
                      ELSE full' = [full EXCEPT ![obj[p]] = @ + 1] /\ UNCHANGED empty
  /\ obj' = [obj EXCEPT ![p] = 0]
  /\ Goto(p, "idle")
  /\ UNCHANGED <<free, items, mutex, heap, name, made, out, disturbed>>

(***************************************************************************)
(* -c: O_CREAT without O_EXCL takes an existing object as it is; then the  *)
(* three initialisations.  -d: the name goes, the object stays mapped.     *)
(***************************************************************************)
CreateOpen(p) ==
  /\ p \in Creators /\ pc[p] = "idle"
  /\ IF name # 0
     THEN UNCHANGED <<name, made>> /\ disturbed' = disturbed \union {name}
     ELSE /\ made < MaxObj
          /\ made' = made + 1 /\ name' = made + 1
          /\ UNCHANGED disturbed
  /\ obj' = [obj EXCEPT ![p] = name']
  /\ Goto(p, "init_mutex")
  /\ UNCHANGED <<shm, out>>

InitMutex(p) ==
  /\ pc[p] = "init_mutex"
  /\ mutex' = [mutex EXCEPT ![obj[p]] = FALSE]
  /\ Goto(p, "init_full")
  /\ UNCHANGED <<free, items, full, empty, heap, name, made, obj, out, disturbed>>

InitFull(p) ==
  /\ pc[p] = "init_full"
  /\ full' = [full EXCEPT ![obj[p]] = ITEMS]
  /\ Goto(p, "init_empty")
  /\ UNCHANGED <<free, items, mutex, empty, heap, name, made, obj, out, disturbed>>

InitEmpty(p) ==
  /\ pc[p] = "init_empty"
  /\ empty' = [empty EXCEPT ![obj[p]] = 0]
  /\ obj' = [obj EXCEPT ![p] = 0]
  /\ Goto(p, "idle")
  /\ UNCHANGED <<free, items, mutex, full, heap, name, made, out, disturbed>>

Delete(p) ==
  /\ p \in Deleters /\ pc[p] = "idle" /\ name # 0
  /\ name' = 0
  /\ UNCHANGED <<shm, made, pc, obj, out, disturbed>>

Inside(p) ==
  /\ Usable(p)
  /\ Lock(p) \/ WaitFull(p) \/ WaitEmpty(p) \/ Push(p) \/ Pop(p) \/ Unlock(p) \/ Post(p)
Create(p) == CreateOpen(p) \/ InitMutex(p) \/ InitFull(p) \/ InitEmpty(p)

Next == \E p \in Proc : Open(p) \/ Inside(p) \/ Create(p) \/ Delete(p)

Spec == Init /\ [][Next]_vars

-----------------------------------------------------------------------------
On(o, ls) == {p \in Proc : obj[p] = o /\ pc[p] \in ls}

\* Such an object is a bounded queue of its words, oldest first: no word is lost,
\* overwritten or recovered twice, by any number of processes.
Words(o) == [k \in 1..items[o] |-> heap[o][(free[o] + ITEMS - items[o] + k - 1) % ITEMS]]
Queue(o) == INSTANCE WordQueue WITH q <- Words(o), out <- out[o]

\* A process waits for a semaphore that nobody is about to post.
Stuck(o) ==
  \/ empty[o] = 0 /\ On(o, {"wait_empty"}) # {} /\ Writers \intersect On(o, {"post"}) = {}
  \/ full[o] = 0 /\ On(o, {"wait_full"}) # {} /\ Readers \intersect On(o, {"post"}) = {}


=============================================================================
