----------------------------- MODULE ProcProofs -----------------------------
(***************************************************************************)
(* Proofs about the process table: its types, that no kernel stack is      *)
(* shared or used after it was freed, that the checks of sched never fail, *)
(* and that no exit, kill or tick is missed by a process that waits for    *)
(* it, for any number of slots, CPUs, pids and any use of the calls.       *)
(***************************************************************************)
EXTENDS ProcSteps

\* A step that moves a running thread to a place outside sched, and touches no
\* process state, stack or CPU, keeps what relates them.
LEMMA Moves ==
  ASSUME StackInv, NEW c \in CPU, NEW p \in Slot, NEW m \in Location,
         cproc[c] = p, pc[p] \notin InSched, m \notin InSched \union {"dead"},
         pc' = [pc EXCEPT ![p] = m], UNCHANGED <<state, kstack, cproc>>,
         \A d \in CPU : intr'[d] = IF d = c THEN "no" ELSE intr[d]
  PROVE  StacksInUse' /\ Interrupted' /\ ThreadStates' /\ SchedOnCpu' /\ HasStack' /\ OnCpu'
<1>1. state[p] = "RUNNING" /\ \A d \in CPU : cproc[d] = p => d = c
  BY Executing
<1>2. StacksInUse' /\ HasStack'
  BY DEF StackInv, StacksInUse, HasStack
<1>3. ThreadStates'
  BY <1>1 DEF StackInv, TypeOK, ThreadStates
<1>4. SchedOnCpu'
  BY DEF StackInv, TypeOK, SchedOnCpu
<1>5. OnCpu'
  BY <1>1 DEF StackInv, TypeOK, OnCpu
<1>6. Interrupted'
  BY <1>1 DEF StackInv, TypeOK, Interrupted
<1> QED
  BY <1>2, <1>3, <1>4, <1>5, <1>6

-----------------------------------------------------------------------------
\* allocproc makes an UNUSED slot the EMBRYO of this fork alone.
LEMMA AllocProcKeeps == ASSUME NEW c \in CPU, NEW p \in Slot, AllocProc(c, p) PROVE Kept
<1> SUFFICES ASSUME StackInv PROVE StackInv'
  BY DEF Kept
<1>p. cproc[c] = p /\ intr[c] = "no" /\ pc[p] \notin InSched
  BY DEF AllocProc, At, InSched
<1>e. /\ p # Null /\ state[p] = "RUNNING" /\ \A d \in CPU : cproc[d] = p => d = c
      /\ pc[p] \in WithLock => lock = c
  BY <1>p, Executing
<1>n. Unused # {} => First(Unused) \in Slot /\ state[First(Unused)] = "UNUSED"
  BY FirstIn DEF Unused
<1>1. TypeOK'
  BY ProcAssumption, <1>p, <1>e, <1>n DEF StackInv, TypeOK, AllocProc, ForkReturn, table, cpus, At, Goto, Location, Preemptible, Ops, Null, ProcState
<1>2. StacksInUse'
  BY <1>p, <1>e, <1>n DEF StackInv, StacksInUse, AllocProc, ForkReturn, table, cpus, TypeOK, HasStack, OnCpu
<1>3. OnlyInitPanics'
  BY DEF StackInv, OnlyInitPanics, AllocProc, ForkReturn, table, cpus
<1>4. LocksHeld'
  BY ProcAssumption, <1>p, <1>e, <1>n DEF StackInv, LocksHeld, AllocProc, ForkReturn, table, cpus, At, Goto, TypeOK, WithLock, InSched, Resumable, WithTickslock, Null
<1>5. Interrupted'
  BY <1>p, <1>e, <1>n DEF StackInv, Interrupted, AllocProc, ForkReturn, table, cpus, At, Goto, TypeOK
<1>6. ThreadStates'
  BY <1>p, <1>e, <1>n DEF StackInv, ThreadStates, AllocProc, ForkReturn, table, cpus, At, Goto, TypeOK, InSched, Resumable
<1>7. SchedOnCpu'
  BY <1>p, <1>e, <1>n DEF StackInv, SchedOnCpu, AllocProc, ForkReturn, table, cpus, At, Goto, TypeOK, InSched
<1>8. HasStack'
  BY <1>p, <1>e, <1>n DEF StackInv, HasStack, AllocProc, ForkReturn, table, cpus, At, Goto, TypeOK, Live
<1>9. OnCpu'
  BY <1>p, <1>e, <1>n DEF StackInv, OnCpu, AllocProc, ForkReturn, table, cpus, At, Goto, TypeOK, InSched, ThreadStates
<1>10. Embryos'
  BY <1>p, <1>e, <1>n DEF StackInv, Embryos, AllocProc, ForkReturn, table, cpus, At, Goto, TypeOK, Under, InFork, ThreadStates, Null
<1> QED
  BY <1>1, <1>2, <1>3, <1>4, <1>5, <1>6, <1>7, <1>8, <1>9, <1>10 DEF StackInv

\* The kernel stack goes to a slot no other thread uses.
LEMMA AllocStackKeeps == ASSUME NEW c \in CPU, NEW p \in Slot, AllocStack(c, p) PROVE Kept
<1> SUFFICES ASSUME StackInv PROVE StackInv'
  BY DEF Kept
<1>p. cproc[c] = p /\ intr[c] = "no" /\ pc[p] \notin InSched
  BY DEF AllocStack, At, InSched
<1>e. /\ p # Null /\ state[p] = "RUNNING" /\ \A d \in CPU : cproc[d] = p => d = c
      /\ pc[p] \in WithLock => lock = c
  BY <1>p, Executing
<1>n. np[p] \in Slot /\ state[np[p]] = "EMBRYO" /\ pc[np[p]] \in {"dead", "forkret"}
  BY DEF StackInv, Embryos, ThreadStates, InFork, Under, AllocStack, At
<1>f. \A q \in Slot : InFork(q) /\ np[q] = np[p] => q = p
  BY DEF StackInv, Embryos, InFork, Under, AllocStack, At
<1>c. np[p] # p /\ \A d \in CPU : cproc[d] # np[p]
  BY <1>e, <1>n DEF StackInv, OnCpu, InSched, Slot, Null
<1>1. TypeOK'
  BY ProcAssumption, <1>p, <1>e, <1>n, <1>c DEF StackInv, TypeOK, AllocStack, table, cpus, At, Goto, Location, Preemptible, Ops, Null, ProcState
<1>2. StacksInUse'
  BY <1>p, <1>e, <1>n, <1>c DEF StackInv, StacksInUse, AllocStack, table, cpus, TypeOK, HasStack, OnCpu
<1>3. OnlyInitPanics'
  BY DEF StackInv, OnlyInitPanics, AllocStack, table, cpus
<1>4. LocksHeld'
  BY ProcAssumption, <1>p, <1>e, <1>n, <1>c DEF StackInv, LocksHeld, AllocStack, table, cpus, At, Goto, TypeOK, WithLock, InSched, Resumable, WithTickslock, Null
<1>5. Interrupted'
  BY <1>p, <1>e, <1>n, <1>c DEF StackInv, Interrupted, AllocStack, table, cpus, At, Goto, TypeOK
<1>6. ThreadStates'
  BY <1>p, <1>e, <1>n, <1>c DEF StackInv, ThreadStates, AllocStack, table, cpus, At, Goto, TypeOK, InSched, Resumable
<1>7. SchedOnCpu'
  BY <1>p, <1>e, <1>n, <1>c DEF StackInv, SchedOnCpu, AllocStack, table, cpus, At, Goto, TypeOK, InSched
<1>8. HasStack'
  BY <1>p, <1>e, <1>n, <1>c DEF StackInv, HasStack, AllocStack, table, cpus, At, Goto, TypeOK, Live
<1>9. OnCpu'
  BY <1>p, <1>e, <1>n, <1>c DEF StackInv, OnCpu, AllocStack, table, cpus, At, Goto, TypeOK, InSched, ThreadStates
<1>10. Embryos'
  <2>1. \A q \in Slot \ {p} : InFork(q)' => InFork(q) /\ Under(q)' = Under(q) /\ np'[q] = np[q]
    BY <1>n, <1>c DEF StackInv, TypeOK, InFork, Under, AllocStack, At, Goto
  <2>2. Under(p)' = "copyuvm" /\ np'[p] = np[p] /\ kstack'[np[p]] /\ pc'[np[p]] = "forkret" /\ state' = state
    BY <1>n, <1>c DEF StackInv, TypeOK, Under, AllocStack
  <2>3. \A q \in Slot : q # np[p] /\ state[q] = "EMBRYO" => state'[q] = "EMBRYO" /\ kstack'[q] = kstack[q] /\ pc'[q] = pc[q]
    BY <1>e, <1>n DEF StackInv, TypeOK, AllocStack, Goto, ForkReturn
  <2> QED
    BY <1>n, <1>f, <2>1, <2>2, <2>3 DEF StackInv, Embryos, InFork
<1> QED
  BY <1>1, <1>2, <1>3, <1>4, <1>5, <1>6, <1>7, <1>8, <1>9, <1>10 DEF StackInv

\* Without memory the slot becomes UNUSED again, though without the lock.
LEMMA AllocStackFailsKeeps == ASSUME NEW c \in CPU, NEW p \in Slot, AllocStackFails(c, p) PROVE Kept
<1> SUFFICES ASSUME StackInv PROVE StackInv'
  BY DEF Kept
<1>p. cproc[c] = p /\ intr[c] = "no" /\ pc[p] \notin InSched
  BY DEF AllocStackFails, At, InSched
<1>e. /\ p # Null /\ state[p] = "RUNNING" /\ \A d \in CPU : cproc[d] = p => d = c
      /\ pc[p] \in WithLock => lock = c
  BY <1>p, Executing
<1>n. np[p] \in Slot /\ state[np[p]] = "EMBRYO" /\ pc[np[p]] \in {"dead", "forkret"}
  BY DEF StackInv, Embryos, ThreadStates, InFork, Under, AllocStackFails, At
<1>f. \A q \in Slot : InFork(q) /\ np[q] = np[p] => q = p
  BY DEF StackInv, Embryos, InFork, Under, AllocStackFails, At
<1>c. np[p] # p /\ \A d \in CPU : cproc[d] # np[p]
  BY <1>e, <1>n DEF StackInv, OnCpu, InSched, Slot, Null
<1>1. TypeOK'
  BY ProcAssumption, <1>p, <1>e, <1>n, <1>c DEF StackInv, TypeOK, AllocStackFails, ForkReturn, table, cpus, At, Goto, Location, Preemptible, Ops, Null, ProcState
<1>2. StacksInUse'
  BY <1>p, <1>e, <1>n, <1>c DEF StackInv, StacksInUse, AllocStackFails, ForkReturn, table, cpus, TypeOK, HasStack, OnCpu
<1>3. OnlyInitPanics'
  BY DEF StackInv, OnlyInitPanics, AllocStackFails, ForkReturn, table, cpus
<1>4. LocksHeld'
  BY ProcAssumption, <1>p, <1>e, <1>n, <1>c DEF StackInv, LocksHeld, AllocStackFails, ForkReturn, table, cpus, At, Goto, TypeOK, WithLock, InSched, Resumable, WithTickslock, Null
<1>5. Interrupted'
  BY <1>p, <1>e, <1>n, <1>c DEF StackInv, Interrupted, AllocStackFails, ForkReturn, table, cpus, At, Goto, TypeOK
<1>6. ThreadStates'
  BY <1>p, <1>e, <1>n, <1>c DEF StackInv, ThreadStates, AllocStackFails, ForkReturn, table, cpus, At, Goto, TypeOK, InSched, Resumable
<1>7. SchedOnCpu'
  BY <1>p, <1>e, <1>n, <1>c DEF StackInv, SchedOnCpu, AllocStackFails, ForkReturn, table, cpus, At, Goto, TypeOK, InSched
<1>8. HasStack'
  BY <1>p, <1>e, <1>n, <1>c DEF StackInv, HasStack, AllocStackFails, ForkReturn, table, cpus, At, Goto, TypeOK, Live
<1>9. OnCpu'
  <2> SUFFICES ASSUME NEW d \in CPU, cproc[d] # Null
               PROVE  state'[cproc[d]] = "RUNNING" \/ pc'[cproc[d]] \in InSched
    BY DEF OnCpu, AllocStackFails, cpus
  <2>1. cproc[d] \in Slot /\ cproc[d] # np[p]
    BY <1>c DEF StackInv, TypeOK
  <2>2. state'[cproc[d]] = state[cproc[d]] /\ (cproc[d] # p => pc'[cproc[d]] = pc[cproc[d]])
    BY <1>n, <2>1 DEF StackInv, TypeOK, AllocStackFails, ForkReturn, Goto
  <2> QED
    BY <1>e, <2>1, <2>2 DEF StackInv, OnCpu
<1>10. Embryos'
  <2>1. \A q \in Slot \ {p} : InFork(q)' => InFork(q) /\ Under(q)' = Under(q) /\ np'[q] = np[q]
    BY <1>n, <1>c DEF StackInv, TypeOK, InFork, Under, AllocStackFails, At, Goto, ForkReturn
  <2>2. ~InFork(p)'
    BY DEF StackInv, TypeOK, InFork, Under, AllocStackFails, Goto, ForkReturn
  <2>3. \A q \in Slot : q # np[p] /\ state[q] = "EMBRYO" => state'[q] = "EMBRYO" /\ kstack'[q] = kstack[q] /\ pc'[q] = pc[q]
    BY <1>e, <1>n DEF StackInv, TypeOK, AllocStackFails, Goto, ForkReturn
  <2> SUFFICES ASSUME NEW q \in Slot, InFork(q)'
               PROVE  /\ np'[q] \in Slot /\ state'[np'[q]] = "EMBRYO"
                      /\ Under(q)' # "kalloc" => kstack'[np'[q]] /\ pc'[np'[q]] = "forkret"
                      /\ \A r \in Slot : InFork(r)' /\ np'[r] = np'[q] => r = q
    BY DEF Embryos
  <2>4. q # p /\ InFork(q) /\ np'[q] = np[q] /\ Under(q)' = Under(q)
    BY <2>1, <2>2
  <2>5. np[q] # np[p]
    BY <1>n, <1>f, <2>4 DEF StackInv, Embryos
  <2>6. np[q] \in Slot /\ state[np[q]] = "EMBRYO" /\ (Under(q) # "kalloc" => kstack[np[q]] /\ pc[np[q]] = "forkret")
    BY <2>4 DEF StackInv, Embryos
  <2>7. \A r \in Slot : InFork(r)' /\ np'[r] = np'[q] => r = q
    BY <2>1, <2>2, <2>4 DEF StackInv, Embryos
  <2> QED
    BY <2>3, <2>4, <2>5, <2>6, <2>7
<1> QED
  BY <1>1, <1>2, <1>3, <1>4, <1>5, <1>6, <1>7, <1>8, <1>9, <1>10 DEF StackInv

\* fork sets the parent of its embryo.
LEMMA CopyUvmKeeps == ASSUME NEW c \in CPU, NEW p \in Slot, CopyUvm(c, p) PROVE Kept
<1> SUFFICES ASSUME StackInv PROVE StackInv'
  BY DEF Kept
<1>p. cproc[c] = p /\ intr[c] = "no" /\ pc[p] \notin InSched
  BY DEF CopyUvm, At, InSched
<1>e. /\ p # Null /\ state[p] = "RUNNING" /\ \A d \in CPU : cproc[d] = p => d = c
      /\ pc[p] \in WithLock => lock = c
  BY <1>p, Executing
<1>1. TypeOK'
  BY ProcAssumption DEF StackInv, TypeOK, CopyUvm, At, Goto, table, cpus, Location, Preemptible, Ops
<1>2. OnlyInitPanics'
  BY DEF StackInv, OnlyInitPanics, CopyUvm
<1>3. StacksInUse' /\ Interrupted' /\ ThreadStates' /\ SchedOnCpu' /\ HasStack' /\ OnCpu'
  BY <1>p, Moves DEF StackInv, TypeOK, CopyUvm, Goto, table, cpus, InSched, Location, Preemptible, Ops
<1>4. LocksHeld'
  BY ProcAssumption, <1>p, <1>e DEF StackInv, TypeOK, LocksHeld, CopyUvm, At, Goto, table, cpus, WithLock, InSched, Resumable, WithTickslock
<1>5. Embryos'
  <2>1. \A q \in Slot : InFork(q)' => InFork(q) /\ (Under(q)' # "kalloc" => Under(q) # "kalloc")
    BY DEF StackInv, TypeOK, InFork, Under, CopyUvm, At, Goto
  <2>2. state' = state /\ kstack' = kstack /\ np' = np
    BY DEF CopyUvm
  <2>3. \A q \in Slot : state[q] = "EMBRYO" => pc'[q] = pc[q]
    BY <1>e DEF StackInv, TypeOK, CopyUvm, Goto
  <2> QED
    BY <2>1, <2>2, <2>3 DEF StackInv, Embryos
<1> QED
  BY <1>1, <1>2, <1>3, <1>4, <1>5 DEF StackInv

\* Without memory stack and slot are given back; no CPU is on that stack.
LEMMA CopyUvmFailsKeeps == ASSUME NEW c \in CPU, NEW p \in Slot, CopyUvmFails(c, p) PROVE Kept
<1> SUFFICES ASSUME StackInv PROVE StackInv'
  BY DEF Kept
<1>p. cproc[c] = p /\ intr[c] = "no" /\ pc[p] \notin InSched
  BY DEF CopyUvmFails, At, InSched
<1>e. /\ p # Null /\ state[p] = "RUNNING" /\ \A d \in CPU : cproc[d] = p => d = c
      /\ pc[p] \in WithLock => lock = c
  BY <1>p, Executing
<1>n. np[p] \in Slot /\ state[np[p]] = "EMBRYO" /\ pc[np[p]] \in {"dead", "forkret"} /\ kstack[np[p]] /\ pc[np[p]] = "forkret"
  BY DEF StackInv, Embryos, ThreadStates, InFork, Under, CopyUvmFails, At
<1>f. \A q \in Slot : InFork(q) /\ np[q] = np[p] => q = p
  BY DEF StackInv, Embryos, InFork, Under, CopyUvmFails, At
<1>c. np[p] # p /\ \A d \in CPU : cproc[d] # np[p]
  BY <1>e, <1>n DEF StackInv, OnCpu, InSched, Slot, Null
<1>1. TypeOK'
  BY ProcAssumption, <1>p, <1>e, <1>n, <1>c DEF StackInv, TypeOK, CopyUvmFails, ForkReturn, table, cpus, At, Goto, Location, Preemptible, Ops, Null, ProcState
<1>2. StacksInUse'
  BY <1>p, <1>e, <1>n, <1>c DEF StackInv, StacksInUse, CopyUvmFails, ForkReturn, table, cpus, TypeOK, HasStack, OnCpu
<1>3. OnlyInitPanics'
  BY DEF StackInv, OnlyInitPanics, CopyUvmFails, ForkReturn, table, cpus
<1>4. LocksHeld'
  BY ProcAssumption, <1>p, <1>e, <1>n, <1>c DEF StackInv, LocksHeld, CopyUvmFails, ForkReturn, table, cpus, At, Goto, TypeOK, WithLock, InSched, Resumable, WithTickslock, Null
<1>5. Interrupted'
  BY <1>p, <1>e, <1>n, <1>c DEF StackInv, Interrupted, CopyUvmFails, ForkReturn, table, cpus, At, Goto, TypeOK
<1>6. ThreadStates'
  BY <1>p, <1>e, <1>n, <1>c DEF StackInv, ThreadStates, CopyUvmFails, ForkReturn, table, cpus, At, Goto, TypeOK, InSched, Resumable
<1>7. SchedOnCpu'
  BY <1>p, <1>e, <1>n, <1>c DEF StackInv, SchedOnCpu, CopyUvmFails, ForkReturn, table, cpus, At, Goto, TypeOK, InSched
<1>8. HasStack'
  BY <1>p, <1>e, <1>n, <1>c DEF StackInv, HasStack, CopyUvmFails, ForkReturn, table, cpus, At, Goto, TypeOK, Live
<1>9. OnCpu'
  <2> SUFFICES ASSUME NEW d \in CPU, cproc[d] # Null
               PROVE  state'[cproc[d]] = "RUNNING" \/ pc'[cproc[d]] \in InSched
    BY DEF OnCpu, CopyUvmFails, cpus
  <2>1. cproc[d] \in Slot /\ cproc[d] # np[p]
    BY <1>c DEF StackInv, TypeOK
  <2>2. state'[cproc[d]] = state[cproc[d]] /\ (cproc[d] # p => pc'[cproc[d]] = pc[cproc[d]])
    BY <1>n, <2>1 DEF StackInv, TypeOK, CopyUvmFails, ForkReturn, Goto
  <2> QED
    BY <1>e, <2>1, <2>2 DEF StackInv, OnCpu
<1>10. Embryos'
  <2>1. \A q \in Slot \ {p} : InFork(q)' => InFork(q) /\ Under(q)' = Under(q) /\ np'[q] = np[q]
    BY <1>n, <1>c DEF StackInv, TypeOK, InFork, Under, CopyUvmFails, At, Goto, ForkReturn
  <2>2. ~InFork(p)'
    BY DEF StackInv, TypeOK, InFork, Under, CopyUvmFails, Goto, ForkReturn
  <2>3. \A q \in Slot : q # np[p] /\ state[q] = "EMBRYO" => state'[q] = "EMBRYO" /\ kstack'[q] = kstack[q] /\ pc'[q] = pc[q]
    BY <1>e, <1>n DEF StackInv, TypeOK, CopyUvmFails, Goto, ForkReturn
  <2> SUFFICES ASSUME NEW q \in Slot, InFork(q)'
               PROVE  /\ np'[q] \in Slot /\ state'[np'[q]] = "EMBRYO"
                      /\ Under(q)' # "kalloc" => kstack'[np'[q]] /\ pc'[np'[q]] = "forkret"
                      /\ \A r \in Slot : InFork(r)' /\ np'[r] = np'[q] => r = q
    BY DEF Embryos
  <2>4. q # p /\ InFork(q) /\ np'[q] = np[q] /\ Under(q)' = Under(q)
    BY <2>1, <2>2
  <2>5. np[q] # np[p]
    BY <1>n, <1>f, <2>4 DEF StackInv, Embryos
  <2>6. np[q] \in Slot /\ state[np[q]] = "EMBRYO" /\ (Under(q) # "kalloc" => kstack[np[q]] /\ pc[np[q]] = "forkret")
    BY <2>4 DEF StackInv, Embryos
  <2>7. \A r \in Slot : InFork(r)' /\ np'[r] = np'[q] => r = q
    BY <2>1, <2>2, <2>4 DEF StackInv, Embryos
  <2> QED
    BY <2>3, <2>4, <2>5, <2>6, <2>7
<1> QED
  BY <1>1, <1>2, <1>3, <1>4, <1>5, <1>6, <1>7, <1>8, <1>9, <1>10 DEF StackInv

\* The embryo becomes RUNNABLE with a stack that starts at forkret.
LEMMA ForkReadyKeeps == ASSUME NEW c \in CPU, NEW p \in Slot, ForkReady(c, p) PROVE Kept
<1> SUFFICES ASSUME StackInv PROVE StackInv'
  BY DEF Kept
<1>p. cproc[c] = p /\ intr[c] = "no" /\ pc[p] \notin InSched
  BY DEF ForkReady, At, InSched
<1>e. /\ p # Null /\ state[p] = "RUNNING" /\ \A d \in CPU : cproc[d] = p => d = c
      /\ pc[p] \in WithLock => lock = c
  BY <1>p, Executing
<1>n. np[p] \in Slot /\ state[np[p]] = "EMBRYO" /\ pc[np[p]] \in {"dead", "forkret"} /\ kstack[np[p]] /\ pc[np[p]] = "forkret"
  BY DEF StackInv, Embryos, ThreadStates, InFork, Under, ForkReady, At
<1>f. \A q \in Slot : InFork(q) /\ np[q] = np[p] => q = p
  BY DEF StackInv, Embryos, InFork, Under, ForkReady, At
<1>c. np[p] # p /\ \A d \in CPU : cproc[d] # np[p]
  BY <1>e, <1>n DEF StackInv, OnCpu, InSched, Slot, Null
<1>1. TypeOK'
  BY ProcAssumption, <1>p, <1>e, <1>n, <1>c DEF StackInv, TypeOK, ForkReady, ForkReturn, table, cpus, At, Goto, Location, Preemptible, Ops, Null, ProcState
<1>2. StacksInUse'
  BY <1>p, <1>e, <1>n, <1>c DEF StackInv, StacksInUse, ForkReady, ForkReturn, table, cpus, TypeOK, HasStack, OnCpu
<1>3. OnlyInitPanics'
  BY DEF StackInv, OnlyInitPanics, ForkReady, ForkReturn, table, cpus
<1>4. LocksHeld'
  BY ProcAssumption, <1>p, <1>e, <1>n, <1>c DEF StackInv, LocksHeld, ForkReady, ForkReturn, table, cpus, At, Goto, TypeOK, WithLock, InSched, Resumable, WithTickslock, Null
<1>5. Interrupted'
  BY <1>p, <1>e, <1>n, <1>c DEF StackInv, Interrupted, ForkReady, ForkReturn, table, cpus, At, Goto, TypeOK
<1>6. ThreadStates'
  BY <1>p, <1>e, <1>n, <1>c DEF StackInv, ThreadStates, ForkReady, ForkReturn, table, cpus, At, Goto, TypeOK, InSched, Resumable
<1>7. SchedOnCpu'
  BY <1>p, <1>e, <1>n, <1>c DEF StackInv, SchedOnCpu, ForkReady, ForkReturn, table, cpus, At, Goto, TypeOK, InSched
<1>8. HasStack'
  BY <1>p, <1>e, <1>n, <1>c DEF StackInv, HasStack, ForkReady, ForkReturn, table, cpus, At, Goto, TypeOK, Live
<1>9. OnCpu'
  <2> SUFFICES ASSUME NEW d \in CPU, cproc[d] # Null
               PROVE  state'[cproc[d]] = "RUNNING" \/ pc'[cproc[d]] \in InSched
    BY DEF OnCpu, ForkReady, cpus
  <2>1. cproc[d] \in Slot /\ cproc[d] # np[p]
    BY <1>c DEF StackInv, TypeOK
  <2>2. state'[cproc[d]] = state[cproc[d]] /\ (cproc[d] # p => pc'[cproc[d]] = pc[cproc[d]])
    BY <1>n, <2>1 DEF StackInv, TypeOK, ForkReady, ForkReturn, Goto
  <2> QED
    BY <1>e, <2>1, <2>2 DEF StackInv, OnCpu
<1>10. Embryos'
  <2>1. \A q \in Slot \ {p} : InFork(q)' => InFork(q) /\ Under(q)' = Under(q) /\ np'[q] = np[q]
    BY <1>n, <1>c DEF StackInv, TypeOK, InFork, Under, ForkReady, At, Goto, ForkReturn
  <2>2. ~InFork(p)'
    BY DEF StackInv, TypeOK, InFork, Under, ForkReady, Goto, ForkReturn
  <2>3. \A q \in Slot : q # np[p] /\ state[q] = "EMBRYO" => state'[q] = "EMBRYO" /\ kstack'[q] = kstack[q] /\ pc'[q] = pc[q]
    BY <1>e, <1>n DEF StackInv, TypeOK, ForkReady, Goto, ForkReturn
  <2> SUFFICES ASSUME NEW q \in Slot, InFork(q)'
               PROVE  /\ np'[q] \in Slot /\ state'[np'[q]] = "EMBRYO"
                      /\ Under(q)' # "kalloc" => kstack'[np'[q]] /\ pc'[np'[q]] = "forkret"
                      /\ \A r \in Slot : InFork(r)' /\ np'[r] = np'[q] => r = q
    BY DEF Embryos
  <2>4. q # p /\ InFork(q) /\ np'[q] = np[q] /\ Under(q)' = Under(q)
    BY <2>1, <2>2
  <2>5. np[q] # np[p]
    BY <1>n, <1>f, <2>4 DEF StackInv, Embryos
  <2>6. np[q] \in Slot /\ state[np[q]] = "EMBRYO" /\ (Under(q) # "kalloc" => kstack[np[q]] /\ pc[np[q]] = "forkret")
    BY <2>4 DEF StackInv, Embryos
  <2>7. \A r \in Slot : InFork(r)' /\ np'[r] = np'[q] => r = q
    BY <2>1, <2>2, <2>4 DEF StackInv, Embryos
  <2> QED
    BY <2>3, <2>4, <2>5, <2>6, <2>7
<1> QED
  BY <1>1, <1>2, <1>3, <1>4, <1>5, <1>6, <1>7, <1>8, <1>9, <1>10 DEF StackInv

\* wait frees the stack of a ZOMBIE that no CPU is on any more.
LEMMA ReapKeeps == ASSUME NEW c \in CPU, NEW p \in Slot, Reap(c, p) PROVE Kept
<1> SUFFICES ASSUME StackInv PROVE StackInv'
  BY DEF Kept
<1>p. cproc[c] = p /\ intr[c] = "no" /\ pc[p] \notin InSched
  BY DEF Reap, At, InSched
<1>e. /\ p # Null /\ state[p] = "RUNNING" /\ \A d \in CPU : cproc[d] = p => d = c
      /\ pc[p] \in WithLock => lock = c
  BY <1>p, Executing
<1> DEFINE z == First(ZombieChildren(p))
<1>z. z \in Slot /\ state[z] = "ZOMBIE"
  BY FirstIn DEF ZombieChildren, Children, Reap
<1>t. /\ shpid' = IF p = initproc /\ pid[z] \in {shpid, -1} THEN 0 ELSE shpid
      /\ kstack' = [kstack EXCEPT ![z] = FALSE] /\ state' = [state EXCEPT ![z] = "UNUSED"]
      /\ pid' = [pid EXCEPT ![z] = 0] /\ parent' = [parent EXCEPT ![z] = Null]
      /\ killed' = [killed EXCEPT ![z] = FALSE]
      /\ lock' = NoCpu /\ pc' = [pc EXCEPT ![p] = "sysret"] /\ pc[p] = "waitscan"
      /\ UNCHANGED <<chan, nextpid, tickslock, cproc, scan, intr, back, np, elapsed, panicked>>
  BY DEF Reap, WaitReturns, Goto, At, cpus
<1> HIDE DEF z
<1>l. lock = c
  BY <1>e, <1>t DEF WithLock
<1>c. z # p /\ \A d \in CPU : cproc[d] # z
  BY <1>e, <1>p, <1>z, <1>l DEF StackInv, OnCpu, LocksHeld, WithLock, Slot, Null
<1>d. pc[z] = "dead"
  BY <1>c, <1>z DEF StackInv, ThreadStates, SchedOnCpu, InSched
<1>1. TypeOK'
  BY <1>z, <1>t DEF StackInv, TypeOK, Location, Preemptible, Ops, Null, ProcState
<1>2. StacksInUse'
  BY <1>p, <1>e, <1>z, <1>t, <1>l, <1>c, <1>d DEF StackInv, StacksInUse, TypeOK, HasStack, OnCpu
<1>3. OnlyInitPanics'
  BY <1>t DEF StackInv, OnlyInitPanics
<1>4. LocksHeld'
  BY ProcAssumption, <1>p, <1>e, <1>t, <1>l DEF StackInv, LocksHeld, TypeOK, WithLock, InSched, Resumable, WithTickslock, Null
<1>5. Interrupted'
  BY <1>p, <1>e, <1>z, <1>t, <1>l, <1>c, <1>d DEF StackInv, Interrupted, TypeOK
<1>6. ThreadStates'
  BY <1>p, <1>e, <1>z, <1>t, <1>l, <1>c, <1>d DEF StackInv, ThreadStates, TypeOK, InSched, Resumable
<1>7. SchedOnCpu'
  BY <1>p, <1>e, <1>z, <1>t, <1>l, <1>c, <1>d DEF StackInv, SchedOnCpu, TypeOK, InSched
<1>8. HasStack'
  BY <1>p, <1>e, <1>z, <1>t, <1>l, <1>c, <1>d DEF StackInv, HasStack, TypeOK, Live
<1>9. OnCpu'
  BY <1>p, <1>e, <1>z, <1>t, <1>l, <1>c, <1>d DEF StackInv, OnCpu, TypeOK, InSched, ThreadStates
<1>10. Embryos'
  <2>1. \A q \in Slot : InFork(q)' => InFork(q) /\ Under(q)' = Under(q) /\ np'[q] = np[q]
    BY <1>t DEF StackInv, TypeOK, InFork, Under
  <2>2. \A q \in Slot : state[q] = "EMBRYO" => state'[q] = "EMBRYO" /\ kstack'[q] = kstack[q] /\ pc'[q] = pc[q]
    BY <1>p, <1>e, <1>z, <1>t, <1>l, <1>c, <1>d DEF StackInv, TypeOK
  <2> QED
    BY <2>1, <2>2, EmbryosKept
<1> QED
  BY <1>1, <1>2, <1>3, <1>4, <1>5, <1>6, <1>7, <1>8, <1>9, <1>10 DEF StackInv

\* yield releases the lock when it is run again.
LEMMA YieldResumeKeeps == ASSUME NEW c \in CPU, NEW p \in Slot, YieldResume(c, p) PROVE Kept
<1> SUFFICES ASSUME StackInv PROVE StackInv'
  BY DEF Kept
<1>p. cproc[c] = p /\ intr[c] = "no" /\ pc[p] \notin InSched
  BY DEF YieldResume, At, InSched
<1>e. /\ p # Null /\ state[p] = "RUNNING" /\ \A d \in CPU : cproc[d] = p => d = c
      /\ pc[p] \in WithLock => lock = c
  BY <1>p, Executing
<1>1. TypeOK'
  BY ProcAssumption DEF StackInv, TypeOK, YieldResume, At, Goto, table, cpus, Location, Preemptible, Ops
<1>2. OnlyInitPanics'
  BY DEF StackInv, OnlyInitPanics, YieldResume
<1>3. StacksInUse' /\ Interrupted' /\ ThreadStates' /\ SchedOnCpu' /\ HasStack' /\ OnCpu'
  BY <1>p, Moves DEF StackInv, TypeOK, YieldResume, Goto, table, cpus, InSched, Location, Preemptible, Ops
<1>4. LocksHeld'
  BY ProcAssumption, <1>p, <1>e DEF StackInv, TypeOK, LocksHeld, YieldResume, At, Goto, table, cpus, WithLock, InSched, Resumable, WithTickslock
<1>5. Embryos'
  <2>1. \A q \in Slot : InFork(q)' => InFork(q) /\ Under(q)' = Under(q) /\ np'[q] = np[q]
    BY DEF StackInv, TypeOK, InFork, Under, YieldResume, At, Goto
  <2>2. \A q \in Slot : state[q] = "EMBRYO" => state'[q] = "EMBRYO" /\ kstack'[q] = kstack[q] /\ pc'[q] = pc[q]
    BY <1>e DEF StackInv, TypeOK, YieldResume, Goto, table
  <2> QED
    BY <2>1, <2>2, EmbryosKept
<1> QED
  BY <1>1, <1>2, <1>3, <1>4, <1>5 DEF StackInv

\* The end of a timer interrupt returns to where it struck.
LEMMA TrapReturnKeeps == ASSUME NEW c \in CPU, NEW p \in Slot, TrapReturn(c, p) PROVE Kept
<1> SUFFICES ASSUME StackInv PROVE StackInv'
  BY DEF Kept
<1>p. cproc[c] = p /\ intr[c] = "no" /\ pc[p] = "trapret" /\ pc[p] \notin InSched
  BY DEF TrapReturn, At, InSched
<1>e. p # Null /\ state[p] = "RUNNING" /\ \A d \in CPU : cproc[d] = p => d = c
  BY <1>p, Executing
<1> DEFINE m == IF killed[p] /\ back[p] = "user" THEN "exit" ELSE back[p]
<1>m. pc' = [pc EXCEPT ![p] = m] /\ (m = back[p] \/ m = "exit") /\ m \in Preemptible
  BY DEF StackInv, TypeOK, TrapReturn, Goto, Preemptible, Ops
<1> HIDE DEF m
<1>n. m \in Location /\ m \notin InSched \union {"dead", "yield", "yielding", "yielded", "trapret"}
  BY <1>m DEF Location, Preemptible, Ops, InSched
<1>o. m \notin WithLock \union WithTickslock
  BY <1>m DEF Preemptible, Ops, WithLock, WithTickslock, InSched, Resumable
<1>1. TypeOK'
  BY <1>m, <1>n DEF StackInv, TypeOK, TrapReturn, table, cpus, Preemptible
<1>2. OnlyInitPanics'
  BY DEF StackInv, OnlyInitPanics, TrapReturn
<1>3. StacksInUse' /\ Interrupted' /\ ThreadStates' /\ SchedOnCpu' /\ HasStack' /\ OnCpu'
  BY <1>p, <1>m, <1>n, Moves DEF StackInv, TypeOK, TrapReturn, table, cpus
<1>4. LocksHeld'
  BY <1>p, <1>e, <1>m, <1>o DEF StackInv, TypeOK, LocksHeld, TrapReturn, cpus, WithTickslock
<1>5. Embryos'
  <2>1. \A q \in Slot : InFork(q)' => InFork(q) /\ Under(q)' = Under(q) /\ np'[q] = np[q]
    BY <1>p, <1>m, <1>n DEF StackInv, TypeOK, InFork, Under, TrapReturn
  <2>2. \A q \in Slot : state[q] = "EMBRYO" => state'[q] = "EMBRYO" /\ kstack'[q] = kstack[q] /\ pc'[q] = pc[q]
    BY <1>e, <1>m DEF StackInv, TypeOK, TrapReturn, table
  <2> QED
    BY <2>1, <2>2, EmbryosKept
<1> QED
  BY <1>1, <1>2, <1>3, <1>4, <1>5 DEF StackInv

\* The handler goes on to exit or yield; on an idle CPU it just returns.
LEMMA AfterInterruptKeeps == ASSUME NEW c \in CPU, AfterInterrupt(c) PROVE Kept
<1> SUFFICES ASSUME StackInv PROVE StackInv'
  BY DEF Kept
<1>a. CASE cproc[c] = Null
  <2>1. UNCHANGED <<state, kstack, cproc, pc, back, np, lock, tickslock, scan, panicked>> /\ intr' = [intr EXCEPT ![c] = "no"]
    BY <1>a DEF AfterInterrupt, table
  <2>2. TypeOK' /\ OnlyInitPanics'
    BY <1>a, <2>1 DEF StackInv, TypeOK, OnlyInitPanics, AfterInterrupt, table
  <2>3. LocksHeld' /\ Interrupted'
    <3>1. intr[c] = "return" /\ \A d \in CPU : intr'[d] = (IF d = c THEN "no" ELSE intr[d])
      BY <2>1 DEF StackInv, TypeOK, AfterInterrupt
    <3>2. LocksHeld'
      BY <2>1, <3>1 DEF StackInv, LocksHeld
    <3>3. Interrupted'
      BY <2>1, <3>1 DEF StackInv, Interrupted
    <3> QED BY <3>2, <3>3
  <2> QED
    BY <2>1, <2>2, <2>3, Idles DEF StackInv
<1>b. CASE cproc[c] # Null
  <2> DEFINE p == cproc[c]
  <2>p. p \in Slot /\ intr[c] = "return" /\ lock # c
    BY <1>b DEF StackInv, TypeOK, LocksHeld, AfterInterrupt
  <2>q. pc[p] \in Preemptible /\ pc[p] \notin WithTickslock \union InSched \union Trapped
    BY <1>b, <2>p DEF StackInv, Interrupted, Preemptible, Ops, WithTickslock, InSched, Trapped
  <2> HIDE DEF p
  <2>e. p # Null /\ state[p] = "RUNNING" /\ \A d \in CPU : cproc[d] = p => d = c
    BY <2>p, <2>q, Executing DEF p
  <2>m. PICK m \in {"exit", "yield"} : pc' = [pc EXCEPT ![p] = m]
    BY <1>b DEF AfterInterrupt, Goto, p
  <2>n. back' = IF m = "yield" THEN [back EXCEPT ![p] = pc[p]] ELSE back
    BY <1>b, <2>m, <2>p DEF AfterInterrupt, Goto, p, StackInv, TypeOK
  <2>1. TypeOK' /\ OnlyInitPanics'
    <3>1. back' \in [Slot -> Preemptible]
      BY <1>b, <2>q DEF StackInv, TypeOK, AfterInterrupt, p
    <3> QED
      BY <2>m, <2>p, <3>1 DEF StackInv, TypeOK, OnlyInitPanics, AfterInterrupt, table, Location, Preemptible, Ops
  <2>2. StacksInUse' /\ Interrupted' /\ ThreadStates' /\ SchedOnCpu' /\ HasStack' /\ OnCpu'
    BY <2>p, <2>q, <2>m, Moves DEF StackInv, TypeOK, AfterInterrupt, table, p, Location, Preemptible, Ops, InSched
  <2>3. LocksHeld'
    <3>1. UNCHANGED <<cproc, scan, lock, tickslock>> /\ \A d \in CPU : intr'[d] = (IF d = c THEN "no" ELSE intr[d])
      BY DEF StackInv, TypeOK, AfterInterrupt
    <3>2. m \notin WithLock \union WithTickslock
      BY DEF WithLock, InSched, Resumable, WithTickslock
    <3>3. \A q \in Slot : /\ pc'[q] \in WithLock => pc[q] \in WithLock
                          /\ pc'[q] \in WithTickslock <=> pc[q] \in WithTickslock
      BY <2>p, <2>q, <2>m, <3>2 DEF StackInv, TypeOK
    <3>4. \A d \in CPU : cproc[d] # Null => cproc[d] \in Slot
      BY DEF StackInv, TypeOK
    <3> SUFFICES ASSUME NEW d \in CPU
                 PROVE  /\ cproc[d] = Null /\ scan[d] # 0 => lock = d
                        /\ cproc[d] # Null /\ pc'[cproc[d]] \in WithLock => lock = d
                        /\ intr'[d] # "no" => lock # d
                        /\ tickslock = d <=> \/ intr'[d] = "wakeup"
                                             \/ cproc[d] # Null /\ pc'[cproc[d]] \in WithTickslock
      BY <3>1 DEF LocksHeld
    <3>5. /\ cproc[d] = Null /\ scan[d] # 0 => lock = d
          /\ cproc[d] # Null /\ pc'[cproc[d]] \in WithLock => lock = d
      BY <3>3, <3>4 DEF StackInv, LocksHeld
    <3>6. intr'[d] # "no" => lock # d
      BY <3>1 DEF StackInv, LocksHeld
    <3>7. intr'[d] = "wakeup" <=> intr[d] = "wakeup"
      BY <2>p, <3>1
    <3>8. tickslock = d <=> \/ intr'[d] = "wakeup"
                            \/ cproc[d] # Null /\ pc'[cproc[d]] \in WithTickslock
      BY <3>3, <3>4, <3>7 DEF StackInv, LocksHeld
    <3> QED BY <3>5, <3>6, <3>8
  <2>4. Embryos'
    <3>1. \A q \in Slot : InFork(q)' => InFork(q) /\ Under(q)' = Under(q) /\ np'[q] = np[q]
      BY <2>p, <2>m, <2>n, <2>q DEF StackInv, TypeOK, InFork, Under, Trapped, AfterInterrupt
    <3>2. \A q \in Slot : state[q] = "EMBRYO" => state'[q] = "EMBRYO" /\ kstack'[q] = kstack[q] /\ pc'[q] = pc[q]
      BY <2>e, <2>m DEF StackInv, TypeOK, AfterInterrupt, table
    <3> QED
      BY <3>1, <3>2, EmbryosKept
  <2> QED
    BY <2>1, <2>2, <2>3, <2>4 DEF StackInv
<1> QED
  BY <1>a, <1>b DEF StackInv

\* swtch leaves a stack under ptable.lock, and none of the checks of sched fails.
LEMMA SchedKeeps == ASSUME NEW c \in CPU, NEW p \in Slot, Sched(c, p) PROVE Kept
<1> SUFFICES ASSUME StackInv PROVE StackInv'
  BY DEF Kept
<1>q. cproc[c] = p /\ p # Null /\ pc[p] \in InSched
  BY DEF Sched, InSched, Slot, Null
<1>p. cproc[c] = p /\ p # Null /\ pc[p] \in InSched /\ lock = c /\ intr[c] = "no" /\ state[p] # "RUNNING"
  BY <1>q DEF StackInv, LocksHeld, ThreadStates, WithLock
<1>u. \A d \in CPU : cproc[d] = p => d = c
  BY <1>p DEF StackInv, StacksInUse
<1>t. tickslock # c
  BY <1>p DEF StackInv, LocksHeld, InSched, WithTickslock
<1>m. PICK m \in {"yielded", "waited", "slept", "dead"} :
        /\ pc' = [pc EXCEPT ![p] = m]
        /\ m = "dead" <=> pc[p] = "exiting"
        /\ m = "yielded" <=> pc[p] = "yielding"
  BY DEF Sched, Goto, AfterSched
<1>1. OnlyInitPanics' /\ panicked' = "no"
  BY <1>p, <1>t DEF OnlyInitPanics, SchedPanic, Sched
<1>2. TypeOK'
  BY <1>1, <1>m DEF StackInv, TypeOK, Sched, table, Location, Panic
<1>3. StacksInUse' /\ HasStack'
  BY DEF StackInv, TypeOK, StacksInUse, HasStack, Sched, table
<1>4. LocksHeld'
  BY <1>p, <1>u, <1>t, <1>m DEF StackInv, TypeOK, LocksHeld, Sched, table
<1>5. ThreadStates'
  BY <1>p, <1>m DEF StackInv, TypeOK, ThreadStates, Sched, table, InSched, Resumable
<1>6. SchedOnCpu'
  <2>1. ASSUME NEW q \in Slot, pc'[q] \in InSched PROVE \E d \in CPU : cproc'[d] = q
    <3>1. q # p /\ pc[q] \in InSched
      BY <1>m, <2>1 DEF StackInv, TypeOK, InSched
    <3>2. PICK d \in CPU : cproc[d] = q
      BY <3>1 DEF StackInv, SchedOnCpu
    <3> QED
      BY <1>p, <3>1, <3>2 DEF StackInv, TypeOK, Sched
  <2> QED
    BY <2>1 DEF SchedOnCpu
<1>7. OnCpu' /\ Interrupted'
  BY <1>p, <1>u, <1>m DEF StackInv, TypeOK, OnCpu, Interrupted, Sched, table
<1>8. Embryos'
  <2>1. \A q \in Slot : InFork(q)' => InFork(q) /\ Under(q)' = Under(q) /\ np'[q] = np[q]
    BY <1>p, <1>m DEF StackInv, TypeOK, InFork, Under, InSched, Sched
  <2>2. \A q \in Slot : state[q] = "EMBRYO" => state'[q] = "EMBRYO" /\ kstack'[q] = kstack[q] /\ pc'[q] = pc[q]
    BY <1>p, <1>m DEF StackInv, TypeOK, ThreadStates, Sched, table, InSched
  <2> QED
    BY <2>1, <2>2, EmbryosKept
<1> QED
  BY <1>1, <1>2, <1>3, <1>4, <1>5, <1>6, <1>7, <1>8 DEF StackInv

-----------------------------------------------------------------------------
\* The table userinit leaves satisfies the invariant.
LEMMA InitEstablishes == Init => StackInv
<1> SUFFICES ASSUME Init PROVE StackInv
  OBVIOUS
<1>1. initproc \in Slot /\ 1 \in Nat /\ 0 \in 0..(NPROC + 1)
  BY ProcAssumption DEF initproc, Slot
<1>2. TypeOK
  BY <1>1, ProcAssumption DEF Init, TypeOK, ProcState, Location, Preemptible, Panic, Null
<1>3. StacksInUse /\ OnlyInitPanics /\ OnCpu /\ Interrupted
  BY DEF Init, StacksInUse, OnlyInitPanics, OnCpu, Interrupted
<1>4. LocksHeld
  BY ProcAssumption DEF Init, LocksHeld
<1>5. ThreadStates /\ SchedOnCpu /\ HasStack
  BY DEF Init, ThreadStates, SchedOnCpu, HasStack, InSched, Resumable, Live
<1>6. Embryos
  BY DEF Init, Embryos, InFork, Under
<1> QED
  BY <1>2, <1>3, <1>4, <1>5, <1>6 DEF StackInv

\* Every step of the kernel preserves the invariant.
LEMMA NextKeeps == StackInv /\ [Next]_vars => StackInv'
<1>1. ASSUME UNCHANGED vars PROVE Kept
  <2> SUFFICES ASSUME StackInv PROVE StackInv'
    BY DEF Kept
  <2>1. TypeOK' /\ OnlyInitPanics' /\ LocksHeld' /\ Interrupted'
    BY <1>1 DEF StackInv, TypeOK, OnlyInitPanics, LocksHeld, Interrupted, vars, table, cpus
  <2> QED
    BY <1>1, <2>1, Idles DEF StackInv, vars, table, cpus
<1>2. ASSUME NEW c \in CPU, NEW p \in Slot, Syscall(c, p) PROVE Kept
  BY <1>2, SyscallKeeps
<1>3. ASSUME NEW c \in CPU, NEW p \in Slot, CallStep(c, p) PROVE Kept
  <2>1. CASE SyscallReturn(c, p) \/ ForkRet(c, p)
    BY <2>1, SyscallReturnKeeps, ForkRetKeeps
  <2>2. CASE AllocProc(c, p) \/ AllocStack(c, p) \/ AllocStackFails(c, p)
    BY <2>2, AllocProcKeeps, AllocStackKeeps, AllocStackFailsKeeps
  <2>3. CASE CopyUvm(c, p) \/ CopyUvmFails(c, p) \/ ForkReady(c, p)
    BY <2>3, CopyUvmKeeps, CopyUvmFailsKeeps, ForkReadyKeeps
  <2>4. CASE Exit(c, p) \/ InitExits(c, p) \/ Kill(c, p)
    BY <2>4, ExitKeeps, InitExitsKeeps, KillKeeps
  <2>5. CASE WaitEnter(c, p) \/ Reap(c, p) \/ WaitFails(c, p) \/ WaitSleep(c, p) \/ WaitResume(c, p)
    BY <2>5, WaitEnterKeeps, ReapKeeps, WaitFailsKeeps, WaitSleepKeeps, WaitResumeKeeps
  <2>6. CASE SleepEnter(c, p) \/ SleepDone(c, p) \/ SleepCall(c, p) \/ SleepTicks(c, p)
    BY <2>6, SleepEnterKeeps, SleepDoneKeeps, SleepCallKeeps, SleepTicksKeeps
  <2>7. CASE SleepResume(c, p) \/ SleepReacquire(c, p)
    BY <2>7, SleepResumeKeeps, SleepReacquireKeeps
  <2>8. CASE ReadParent(c, p) \/ ReadPpid(c, p)
    BY <2>8, ReadParentKeeps, ReadPpidKeeps
  <2> QED
    BY <1>3, <2>1, <2>2, <2>3, <2>4, <2>5, <2>6, <2>7, <2>8 DEF CallStep
<1>4. ASSUME NEW c \in CPU, NEW p \in Slot, SwitchStep(c, p) PROVE Kept
  BY <1>4, SchedKeeps, YieldKeeps, YieldResumeKeeps, TrapReturnKeeps DEF SwitchStep
<1>5. ASSUME NEW c \in CPU, SchedulerStep(c) PROVE Kept
  BY <1>5, SchedulerAcquireKeeps, SchedulerRunKeeps, SchedulerReleaseKeeps DEF SchedulerStep
<1>6. ASSUME NEW c \in CPU, Interrupt(c) \/ HandlerStep(c) PROVE Kept
  BY <1>6, InterruptKeeps, TickCountKeeps, TickWakeupKeeps, AfterInterruptKeeps DEF HandlerStep
<1>7. [Next]_vars => Kept
  BY <1>1, <1>2, <1>3, <1>4, <1>5, <1>6 DEF Next, Running, Halted
<1> QED
  BY <1>7 DEF Kept

\* The invariant holds in every reachable state.
THEOREM StackInvariant == Spec => []StackInv
BY InitEstablishes, NextKeeps, PTL DEF Spec

\* The process table, the locks, the CPUs and the thread locals keep the types
\* of their C declarations, whatever the size of the machine.
THEOREM TypeCorrect == Spec => []TypeOK
<1>1. StackInv => TypeOK
  BY DEF StackInv
<1> QED
  BY <1>1, StackInvariant, PTL

\* No two CPUs run on one kernel stack and none runs on a freed one: the
\* hand-over of ptable.lock through swtch protects the stack that exit, sleep
\* and yield are leaving.
THEOREM StacksSafe == Spec => []StacksInUse
<1>1. StackInv => StacksInUse
  BY DEF StackInv
<1> QED
  BY <1>1, StackInvariant, PTL

\* The checks of sched ("sched ptable.lock", "sched locks", "sched running")
\* never fail; init exiting is the only panic.
THEOREM SchedNeverPanics == Spec => []OnlyInitPanics
<1>1. StackInv => OnlyInitPanics
  BY DEF StackInv
<1> QED
  BY <1>1, StackInvariant, PTL

-----------------------------------------------------------------------------
(***************************************************************************)
(* No exit, kill or tick is missed by a sleeper: the steps of exit, of the *)
(* switch and of the timer, and all steps together.                        *)
(***************************************************************************)
\* exit hands its children to init before it is a zombie, and wakes its parent, and init
\* for a zombie child, while it holds ptable.lock.
LEMMA ExitKeepsWaits == ASSUME NEW c \in CPU, NEW p \in Slot, Exit(c, p) PROVE KeepsWaits
<1> SUFFICES ASSUME StackInv, WaitInv PROVE WaitInv'
  BY DEF KeepsWaits
<1>1. /\ cproc[c] = p /\ pc[p] = "exit" /\ p # initproc
      /\ UNCHANGED <<chan, killed, cproc, elapsed, intr, back, np>>
      /\ pc' = [pc EXCEPT ![p] = "exiting"] /\ state' = ExitStates(p)
      /\ parent' = [q \in Slot |-> IF parent[q] = p THEN initproc ELSE parent[q]]
  BY DEF Exit, Goto, At, cpus
<1>2. state[p] = "RUNNING" /\ p # Null /\ initproc \in Slot /\ initproc # Null
  BY ProcAssumption, <1>1, Executing DEF InSched, initproc, Slot, Null
<1>3. /\ pc'[p] = "exiting" /\ \A q \in Slot : q # p => pc'[q] = pc[q]
      /\ \A q \in Slot : parent'[q] = IF parent[q] = p THEN initproc ELSE parent[q]
  BY <1>1 DEF StackInv, TypeOK
<1>4. /\ parent[p] # Null /\ parent[p] # p /\ parent[p] \in Slot
  BY <1>1, <1>2 DEF StackInv, TypeOK, WaitInv, FamilyInv, Family, ParentsLive, Live
<1>5. /\ state'[p] = "ZOMBIE"
      /\ \A q \in Slot : q # p =>
           /\ state'[q] = state[q] \/ (state[q] = "SLEEPING" /\ state'[q] = "RUNNABLE")
           /\ state'[q] = "SLEEPING" => /\ chan[q] # parent[p]
                                        /\ chan[q] = initproc => ZombieChildren(p) = {}
  BY <1>1 DEF ExitStates, wakeup1, ZombieChildren
<1>6. ParentsLive'
  <2>1. \A q \in Slot : q # p /\ state[q] \in Live => state'[q] \in Live
    BY <1>5 DEF Live
  <2>2. ASSUME NEW q \in Slot, parent'[q] # Null PROVE state'[parent'[q]] \in Live
    <3>1. CASE parent[q] = p
      BY <1>1, <1>2, <1>3, <2>1, <3>1 DEF WaitInv, FamilyInv, Family
    <3>2. CASE parent[q] # p
      BY <1>3, <2>1, <2>2, <3>2 DEF StackInv, TypeOK, WaitInv, FamilyInv, ParentsLive
    <3> QED  BY <3>1, <3>2
  <2>3. ASSUME NEW q \in Slot, q # initproc, state'[q] \in Live \union {"ZOMBIE"} PROVE parent'[q] # Null
    <3>1. state[q] \in Live \union {"ZOMBIE"}
      BY <1>2, <1>5, <2>3 DEF Live
    <3> QED  BY <1>2, <1>3, <2>3, <3>1 DEF WaitInv, FamilyInv, ParentsLive
  <2> QED  BY <2>2, <2>3 DEF ParentsLive
<1>7. NoMissedExit'
  <2> SUFFICES ASSUME NEW q \in Slot, state'[q] = "SLEEPING", chan'[q] = q
               PROVE  Children(q)' # {} /\ ZombieChildren(q)' = {} /\ ~killed'[q]
    BY DEF NoMissedExit
  <2>1. /\ q # p /\ q # parent[p] /\ (q = initproc => ZombieChildren(p) = {})
        /\ state[q] = "SLEEPING" /\ chan[q] = q
    BY <1>1, <1>5
  <2>2. Children(q) # {} /\ ZombieChildren(q) = {} /\ ~killed[q]
    BY <2>1 DEF WaitInv, FamilyInv, NoMissedExit
  <2>3. Children(q) \subseteq Children(q)'
    BY <1>3, <2>1 DEF Children
  <2>4. ASSUME NEW r \in Slot, parent'[r] = q PROVE state'[r] # "ZOMBIE"
    <3>1. r # p
      BY <1>3, <1>4, <2>1, <2>4
    <3>2. state[r] # "ZOMBIE"
      BY <1>3, <2>1, <2>2, <2>4 DEF ZombieChildren, Children
    <3> QED  BY <1>5, <3>1, <3>2
  <2> QED  BY <1>1, <2>2, <2>3, <2>4 DEF ZombieChildren, Children
<1>8. Family'
  <2>1. state[initproc] \in Live /\ parent[initproc] = Null /\ \A q \in Slot : parent[q] # q
    BY DEF WaitInv, FamilyInv, Family
  <2>2. state'[initproc] \in Live
    BY <1>1, <1>2, <1>5, <2>1 DEF Live
  <2>3. parent'[initproc] = Null
    BY <1>2, <1>3, <2>1
  <2>4. ASSUME NEW q \in Slot PROVE parent'[q] # q
    BY <1>2, <1>3, <2>1
  <2> QED  BY <2>2, <2>3, <2>4 DEF Family
<1>9. Adopted'
  <2>1. ASSUME NEW q \in Slot, InFork(q)'
        PROVE  q # p /\ InFork(q) /\ Under(q)' = Under(q) /\ np[q] \in Slot
    <3>1. q # p /\ InFork(q) /\ Under(q)' = Under(q)
      BY <1>1, <1>3, <2>1 DEF InFork, Under
    <3> QED  BY <3>1 DEF StackInv, Embryos
  <2>2. ASSUME NEW q \in Slot, InFork(q)'
        PROVE  parent'[np[q]] = IF Under(q)' = "ready" THEN q ELSE Null
    <3>1. InFork(q) /\ Under(q)' = Under(q) /\ np[q] \in Slot /\ q # p
      BY <2>2, <2>1
    <3>2. parent[np[q]] = IF Under(q) = "ready" THEN q ELSE Null
      BY <3>1 DEF WaitInv, FamilyInv, Adopted
    <3> QED  BY <1>2, <1>3, <3>1, <3>2
  <2>3. \A q \in Slot : state'[q] = "UNUSED" => parent'[q] = Null
    BY <1>2, <1>3, <1>5 DEF WaitInv, FamilyInv, Adopted
  <2> QED  BY <1>1, <2>2, <2>3 DEF Adopted
<1>10. TicksStay /\ ChecksStay
  BY <1>1, <1>3, <1>5 DEF TicksStay, ChecksStay, WithTickslock
<1> QED  BY <1>6, <1>7, <1>8, <1>9, <1>10, TickFrame DEF WaitInv, FamilyInv

\* wait frees a zombie that is its own child, and nobody's parent.
LEMMA ReapKeepsWaits == ASSUME NEW c \in CPU, NEW p \in Slot, Reap(c, p) PROVE KeepsWaits
<1> SUFFICES ASSUME StackInv, WaitInv PROVE WaitInv'
  BY DEF KeepsWaits
<1>1. PICK z \in ZombieChildren(p) : z = First(ZombieChildren(p))
  <2>1. ZombieChildren(p) \subseteq Slot /\ ZombieChildren(p) # {}
    BY DEF Reap, ZombieChildren, Children
  <2> QED  BY <2>1, FirstIn
<1>2. /\ cproc[c] = p /\ pc[p] = "waitscan"
      /\ UNCHANGED <<chan, cproc, elapsed, intr, back, np>>
      /\ pc' = [pc EXCEPT ![p] = "sysret"] /\ state' = [state EXCEPT ![z] = "UNUSED"]
      /\ parent' = [parent EXCEPT ![z] = Null] /\ killed' = [killed EXCEPT ![z] = FALSE]
  BY <1>1 DEF Reap, Goto, At, cpus
<1>3. z \in Slot /\ state[z] = "ZOMBIE" /\ parent[z] = p
  BY <1>1 DEF ZombieChildren, Children
<1>4. state[p] = "RUNNING" /\ p # Null /\ z # p
  BY <1>2, <1>3, Executing DEF InSched
<1>5. /\ pc'[p] = "sysret" /\ \A q \in Slot : q # p => pc'[q] = pc[q]
      /\ state'[z] = "UNUSED" /\ parent'[z] = Null
      /\ \A q \in Slot : q # z => state'[q] = state[q] /\ parent'[q] = parent[q] /\ killed'[q] = killed[q]
  BY <1>2, <1>3 DEF StackInv, TypeOK
<1>6. \A q \in Slot : parent[q] # z
  BY <1>3, <1>4 DEF WaitInv, FamilyInv, ParentsLive, Live, Slot, Null
<1>7. ParentsLive'
  <2>1. \A q \in Slot : parent'[q] # Null => parent'[q] = parent[q] /\ parent[q] \in Slot
    BY <1>5 DEF StackInv, TypeOK
  <2>2. ASSUME NEW q \in Slot, parent'[q] # Null PROVE state'[parent'[q]] \in Live
    <3>1. parent'[q] = parent[q] /\ parent[q] \in Slot /\ parent[q] # z
      BY <1>6, <2>1, <2>2
    <3>2. state[parent[q]] \in Live
      BY <2>2, <3>1 DEF WaitInv, FamilyInv, ParentsLive
    <3> QED  BY <1>5, <3>1, <3>2
  <2>3. \A q \in Slot : q # initproc /\ state'[q] \in Live \union {"ZOMBIE"} => parent'[q] # Null
    BY <1>5 DEF WaitInv, FamilyInv, ParentsLive, Live
  <2> QED  BY <2>2, <2>3 DEF ParentsLive
<1>8. NoMissedExit'
  <2> SUFFICES ASSUME NEW q \in Slot, state'[q] = "SLEEPING", chan'[q] = q
               PROVE  Children(q)' # {} /\ ZombieChildren(q)' = {} /\ ~killed'[q]
    BY DEF NoMissedExit
  <2>1. q # p /\ q # z /\ state[q] = "SLEEPING" /\ chan[q] = q /\ q # Null
    BY <1>2, <1>4, <1>5 DEF Slot, Null
  <2>2. Children(q) # {} /\ ZombieChildren(q) = {} /\ ~killed[q]
    BY <2>1 DEF WaitInv, FamilyInv, NoMissedExit
  <2>3. Children(q)' = Children(q)
    BY <1>3, <1>5, <2>1 DEF Children
  <2>4. z \notin Children(q)
    BY <1>3, <2>1 DEF Children
  <2>5. ZombieChildren(q)' = {}
    BY <1>5, <2>2, <2>3, <2>4 DEF ZombieChildren, Children
  <2> QED  BY <1>5, <2>1, <2>2, <2>3, <2>5
<1>9. Family'
  <2>1. initproc \in Slot /\ initproc # z
    BY ProcAssumption, <1>3 DEF initproc, Slot, WaitInv, FamilyInv, Family, Live
  <2>2. z # Null
    BY <1>3 DEF Slot, Null
  <2> QED  BY <1>5, <2>1, <2>2 DEF WaitInv, FamilyInv, Family
<1>10. Adopted'
  <2>1. ASSUME NEW q \in Slot, InFork(q)'
        PROVE  InFork(q) /\ Under(q)' = Under(q) /\ np[q] \in Slot /\ np[q] # z
    <3>1. InFork(q) /\ Under(q)' = Under(q)
      BY <1>2, <1>5, <2>1 DEF InFork, Under
    <3> QED  BY <1>3, <3>1 DEF StackInv, Embryos
  <2>2. ASSUME NEW q \in Slot, InFork(q)'
        PROVE  parent'[np[q]] = IF Under(q)' = "ready" THEN q ELSE Null
    <3>1. InFork(q) /\ Under(q)' = Under(q) /\ np[q] \in Slot /\ np[q] # z
      BY <2>2, <2>1
    <3>2. parent[np[q]] = IF Under(q) = "ready" THEN q ELSE Null
      BY <3>1 DEF WaitInv, FamilyInv, Adopted
    <3> QED  BY <1>5, <3>1, <3>2
  <2>3. \A q \in Slot : state'[q] = "UNUSED" => parent'[q] = Null
    BY <1>5 DEF WaitInv, FamilyInv, Adopted
  <2> QED  BY <1>2, <2>2, <2>3 DEF Adopted
<1>11. TicksStay /\ ChecksStay
  BY <1>2, <1>5 DEF TicksStay, ChecksStay, WithTickslock
<1> QED  BY <1>7, <1>8, <1>9, <1>10, <1>11, TickFrame DEF WaitInv, FamilyInv

\* sched leaves the CPU: a thread there holds no tickslock.
LEMMA SchedKeepsWaits == ASSUME NEW c \in CPU, NEW p \in Slot, Sched(c, p) PROVE KeepsWaits
<1> SUFFICES ASSUME StackInv, WaitInv PROVE WaitInv'
  BY DEF KeepsWaits
<1>1. /\ cproc[c] = p /\ pc[p] \in InSched /\ cproc' = [cproc EXCEPT ![c] = Null]
      /\ UNCHANGED <<state, parent, chan, killed, intr, back, np, elapsed>>
      /\ pc' = [pc EXCEPT ![p] = AfterSched(pc[p])]
  BY DEF Sched, Goto, table, InSched
<1>2. /\ AfterSched(pc[p]) \in {"yielded", "waited", "slept", "dead"}
      /\ AfterSched(pc[p]) = "yielded" <=> pc[p] = "yielding"
  BY <1>1 DEF AfterSched, InSched
<1>3. /\ pc'[p] = AfterSched(pc[p]) /\ \A q \in Slot : q # p => pc'[q] = pc[q]
      /\ \A d \in CPU : cproc[d] # p => cproc'[d] = cproc[d]
  BY <1>1 DEF StackInv, TypeOK
<1>4. FamilyStays
  <2>1. Under(p)' = Under(p) \/ ~InFork(p)'
    BY <1>1, <1>2, <1>3 DEF InFork, Under
  <2>2. \A q \in Slot : q # p => Under(q)' = Under(q)
    BY <1>1, <1>3 DEF Under
  <2> QED  BY <1>1, <2>1, <2>2 DEF FamilyStays, InFork
<1>5. TicksStay
  BY <1>1 DEF TicksStay
<1>6. ChecksStay
  BY <1>1, <1>2, <1>3 DEF ChecksStay, WithTickslock
<1> QED  BY <1>4, <1>5, <1>6, FamilyFrame, TickFrame DEF WaitInv

\* The scheduler takes a RUNNABLE process, which stays one that can wait.
LEMMA SchedulerRunKeepsWaits == ASSUME NEW c \in CPU, SchedulerRun(c) PROVE KeepsWaits
<1> SUFFICES ASSUME StackInv, WaitInv PROVE WaitInv'
  BY DEF KeepsWaits
<1>1. PICK p \in Ahead(c) : p = First(Ahead(c))
  <2>1. Ahead(c) \subseteq Slot /\ Ahead(c) # {}
    BY DEF SchedulerRun, Ahead
  <2> QED  BY <2>1, FirstIn
<1>2. p \in Slot /\ state[p] = "RUNNABLE"
  BY <1>1 DEF Ahead
<1>3. /\ cproc[c] = Null /\ cproc' = [cproc EXCEPT ![c] = p] /\ state' = [state EXCEPT ![p] = "RUNNING"]
      /\ UNCHANGED <<parent, chan, killed, intr, pc, back, np, elapsed>>
  BY <1>1 DEF SchedulerRun
<1>4. /\ state'[p] = "RUNNING" /\ \A q \in Slot : q # p => state'[q] = state[q]
      /\ \A q \in Slot, d \in CPU : cproc[d] = q => cproc'[d] = q
  BY <1>2, <1>3 DEF StackInv, TypeOK, Slot, Null
<1>5. FamilyStays
  BY <1>2, <1>3, <1>4 DEF FamilyStays, Live, InFork, Under
<1>6. TicksStay /\ ChecksStay
  BY <1>3, <1>4 DEF TicksStay, ChecksStay
<1> QED  BY <1>5, <1>6, FamilyFrame, TickFrame DEF WaitInv

\* The steps that touch neither a process nor a thread.
LEMMA IdleKeepsWaits ==
  ASSUME UNCHANGED <<state, parent, chan, killed, cproc, pc, back, np, elapsed>>,
         \A d \in CPU : intr[d] = "wakeup" => intr'[d] = "wakeup"
  PROVE  KeepsWaits
<1>1. FamilyStays
  BY DEF FamilyStays, InFork, Under
<1>2. TicksStay /\ ChecksStay
  BY DEF TicksStay, ChecksStay
<1> QED  BY <1>1, <1>2, FamilyFrame, TickFrame DEF KeepsWaits, WaitInv

\* A tick comes when nobody is between the check and the sleep: tickslock is free.
LEMMA TickCountKeepsWaits == ASSUME NEW c \in CPU, TickCount(c) PROVE KeepsWaits
<1> SUFFICES ASSUME StackInv, WaitInv PROVE WaitInv'
  BY DEF KeepsWaits
<1>1. /\ tickslock = NoCpu /\ intr' = [intr EXCEPT ![c] = "wakeup"]
      /\ UNCHANGED <<state, parent, chan, killed, cproc, pc, back, np>>
  BY DEF TickCount, table
<1>2. intr'[c] = "wakeup"
  BY <1>1 DEF StackInv, TypeOK
<1>3. FamilyStays
  BY <1>1 DEF FamilyStays, InFork, Under
<1>4. \A q \in Slot : pc[q] \notin WithTickslock
  <2> SUFFICES ASSUME NEW q \in Slot, pc[q] \in WithTickslock PROVE FALSE
    OBVIOUS
  <2>1. PICK d \in CPU : cproc[d] = q
    BY DEF WaitInv, TickInv, TickChecked
  <2>2. q # Null
    BY DEF Slot, Null
  <2>3. tickslock = d
    BY <2>1, <2>2 DEF StackInv, LocksHeld
  <2> QED  BY ProcAssumption, <1>1, <2>3
<1>5. NoMissedTick' /\ TickChecked'
  BY <1>1, <1>2, <1>4 DEF NoMissedTick, TickChecked, WithTickslock
<1> QED  BY <1>3, <1>5, FamilyFrame DEF WaitInv, TickInv

\* wakeup(&ticks) leaves nobody asleep there.
LEMMA TickWakeupKeepsWaits == ASSUME NEW c \in CPU, TickWakeup(c) PROVE KeepsWaits
<1> SUFFICES ASSUME StackInv, WaitInv PROVE WaitInv'
  BY DEF KeepsWaits
<1>1. state' = wakeup1(state, Ticks) /\ UNCHANGED <<parent, chan, killed, cproc, pc, back, np, elapsed>>
  BY DEF TickWakeup
<1>2. \A q \in Slot : /\ state'[q] = state[q] \/ (state[q] = "SLEEPING" /\ state'[q] = "RUNNABLE")
                      /\ state'[q] = "SLEEPING" => chan[q] # Ticks
  BY <1>1 DEF wakeup1
<1>3. FamilyStays
  BY <1>1, <1>2 DEF FamilyStays, InFork, Under, Live
<1>4. NoMissedTick'
  BY <1>1, <1>2 DEF NoMissedTick
<1>5. TickChecked'
  BY <1>1 DEF WaitInv, TickInv, TickChecked
<1> QED  BY <1>3, <1>4, <1>5, FamilyFrame DEF WaitInv, TickInv

\* At boot init is the only process, and nobody sleeps.
LEMMA InitWaits == Init => WaitInv
<1> SUFFICES ASSUME Init PROVE WaitInv
  OBVIOUS
<1>1. /\ \A q \in Slot : parent[q] = Null /\ state[q] \in {"RUNNABLE", "UNUSED"} /\ pc[q] \in {"forkret", "dead"}
      /\ state[initproc] = "RUNNABLE" /\ initproc \in Slot
      /\ \A q \in Slot : q # initproc => state[q] = "UNUSED"
  BY ProcAssumption DEF Init, initproc, Slot
<1>2. \A q \in Slot : q # Null
  BY DEF Slot, Null
<1>3. FamilyInv
  BY <1>1, <1>2 DEF FamilyInv, ParentsLive, NoMissedExit, Family, Adopted, InFork, Under, Live
<1>4. TickInv
  BY <1>1 DEF TickInv, NoMissedTick, TickChecked, WithTickslock
<1> QED  BY <1>3, <1>4 DEF WaitInv

\* Every step of the kernel keeps the invariant.
LEMMA WaitStep == StackInv /\ WaitInv /\ [Next]_vars => WaitInv'
<1> SUFFICES ASSUME [Next]_vars PROVE KeepsWaits
  BY DEF KeepsWaits
<1>1. CASE UNCHANGED vars
  BY <1>1, IdleKeepsWaits DEF vars, table, cpus
<1>2. ASSUME NEW c \in CPU, NEW p \in Slot, Syscall(c, p) \/ CallStep(c, p) \/ SwitchStep(c, p)
      PROVE  KeepsWaits
  <2>1. CASE InitExits(c, p)
    BY <2>1, IdleKeepsWaits DEF InitExits, table, cpus
  <2> QED
    BY <1>2, <2>1, CallsKeepWaits, SleepsKeepWaits, TrapsKeepWaits, YieldKeepsWaits, KillKeepsWaits,
       WaitSleepKeepsWaits, SleepTicksKeepsWaits, AllocProcKeepsWaits, AllocStackKeepsWaits,
       ForkEndsKeepWaits, CopyUvmKeepsWaits, ExitKeepsWaits, ReapKeepsWaits, SchedKeepsWaits, Zenon
       DEF CallStep, SwitchStep
<1>3. ASSUME NEW c \in CPU, SchedulerStep(c) \/ Interrupt(c) \/ HandlerStep(c)
      PROVE  KeepsWaits
  <2>1. CASE SchedulerAcquire(c) \/ SchedulerRelease(c)
    BY <2>1, IdleKeepsWaits DEF SchedulerAcquire, SchedulerRelease, table
  <2>2. CASE Interrupt(c)
    <3>1. StackInv => \A d \in CPU : intr[d] = "wakeup" => intr'[d] = "wakeup"
      BY <2>2 DEF Interrupt, StackInv, TypeOK
    <3>2. UNCHANGED <<state, parent, chan, killed, cproc, pc, back, np, elapsed>>
      BY <2>2 DEF Interrupt, table
    <3> QED  BY <3>1, <3>2, IdleKeepsWaits DEF KeepsWaits
  <2> QED
    BY <1>3, <2>1, <2>2, SchedulerRunKeepsWaits, TickCountKeepsWaits, TickWakeupKeepsWaits,
       AfterInterruptKeepsWaits, Zenon DEF SchedulerStep, HandlerStep
<1> QED
  BY <1>1, <1>2, <1>3, Zenon DEF Next, Running, Halted

-----------------------------------------------------------------------------
\* The two invariants together are inductive.
THEOREM WaitInvariant == Spec => [](StackInv /\ WaitInv)
BY InitWaits, WaitStep, StackInvariant, PTL DEF Spec

\* Every process but init has a parent that can still wait for it, for any number
\* of slots and CPUs: exit reparents before it becomes ZOMBIE, and fork sets the
\* parent before the child can be seen by exit.
THEOREM ParentsLiveHolds == Spec => []ParentsLive
<1>1. WaitInv => ParentsLive
  BY DEF WaitInv, FamilyInv
<1> QED
  BY <1>1, WaitInvariant, PTL

\* Nobody sleeps in wait past the exit of a child, without a child, or killed:
\* the scan of wait and its sleep are under one hold of ptable.lock.
THEOREM NoMissedExitHolds == Spec => []NoMissedExit
<1>1. WaitInv => NoMissedExit
  BY DEF WaitInv, FamilyInv
<1> QED
  BY <1>1, WaitInvariant, PTL

\* Nobody sleeps in sys_sleep past its tick, unless the wakeup is on its way:
\* tickslock is held from the check until sleep has taken ptable.lock.
THEOREM NoMissedTickHolds == Spec => []NoMissedTick
<1>1. WaitInv => NoMissedTick
  BY DEF WaitInv, TickInv
<1> QED
  BY <1>1, WaitInvariant, PTL

=============================================================================
