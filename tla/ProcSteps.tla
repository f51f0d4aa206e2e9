----------------------------- MODULE ProcSteps ------------------------------
(***************************************************************************)
(* Lemmas for ProcProofs: what a scan of ptable finds, what steps of the   *)
(* kernel have in common, and the preservation of StackInv and of WaitInv  *)
(* by the steps that fit a common form.                                    *)
(***************************************************************************)
EXTENDS Proc, WellFoundedInduction, TLAPS

-----------------------------------------------------------------------------
(***************************************************************************)
(* A scan of ptable finds a slot of the set it looks for.                  *)
(***************************************************************************)
Lt == {ss \in Nat \X Nat : ss[1] < ss[2]}

\* The order of the table's slots is well founded.
LEMMA LtWellFounded == IsWellFoundedOn(Lt, Nat)
BY NatLessThanWellFounded DEF Lt, OpToRel

\* The first slot of a non-empty set of slots, as the loops over ptable find
\* it, is one of the set.
LEMMA FirstIn == ASSUME NEW S \in SUBSET Slot, S # {} PROVE First(S) \in S
<1>1. S \subseteq Nat
  BY DEF Slot
<1>2. PICK p \in S : \A q \in S : ~ (<<q, p>> \in Lt)
  BY <1>1, LtWellFounded, WFMin
<1>3. ASSUME NEW q \in S PROVE p <= q
  <2>1. p \in Nat /\ q \in Nat
    BY <1>1
  <2>2. q < p => <<q, p>> \in Lt
    BY <2>1 DEF Lt
  <2>3. QED
    BY <1>2, <2>1, <2>2
<1>4. QED
  BY <1>3 DEF First

-----------------------------------------------------------------------------
(***************************************************************************)
(* What the steps have in common.                                          *)
(***************************************************************************)
\* A process that executes outside sched is RUNNING, on that CPU alone, and
\* its CPU holds ptable.lock where the code says so.
LEMMA Executing ==
  ASSUME StackInv, NEW c \in CPU, NEW p \in Slot, cproc[c] = p, pc[p] \notin InSched
  PROVE  /\ p # Null /\ state[p] = "RUNNING"
         /\ \A d \in CPU : cproc[d] = p => d = c
         /\ pc[p] \in WithLock => lock = c
<1>1. p # Null
  BY DEF Slot, Null
<1> QED
  BY <1>1 DEF StackInv, OnCpu, StacksInUse, LocksHeld

\* A step that starts no fork, and leaves the slots being filled alone, keeps
\* the embryos.
LEMMA EmbryosKept ==
  ASSUME StackInv,
         \A q \in Slot : InFork(q)' => InFork(q) /\ Under(q)' = Under(q) /\ np'[q] = np[q],
         \A q \in Slot : state[q] = "EMBRYO" =>
            state'[q] = "EMBRYO" /\ kstack'[q] = kstack[q] /\ pc'[q] = pc[q]
  PROVE  Embryos'
BY DEF StackInv, Embryos

\* wakeup1 makes sleepers RUNNABLE and does nothing else.
LEMMA Wakes ==
  ASSUME NEW st \in [Slot -> ProcState], NEW ch
  PROVE  /\ wakeup1(st, ch) \in [Slot -> ProcState]
         /\ \A q \in Slot : wakeup1(st, ch)[q] = st[q]
                            \/ (st[q] = "SLEEPING" /\ wakeup1(st, ch)[q] = "RUNNABLE")
BY DEF wakeup1, ProcState

\* A step that changes no process state, stack, CPU, thread or lock keeps
\* what relates them.
LEMMA Idles ==
  ASSUME StackInv, UNCHANGED <<state, kstack, cproc, pc, back, np>>
  PROVE  StacksInUse' /\ ThreadStates' /\ SchedOnCpu' /\ HasStack' /\ OnCpu' /\ Embryos'
BY DEF StackInv, StacksInUse, ThreadStates, SchedOnCpu, HasStack, OnCpu, Embryos, InFork, Under

\* A step that moves a running thread to a place outside sched and fork, takes
\* or releases the locks as those places demand, and at most wakes sleepers.
Trapped == {"yield", "yielding", "yielded", "trapret"}
Move(c, p, m) ==
  /\ cproc[c] = p /\ intr[c] = "no" /\ pc[p] \notin InSched
  /\ m \in Location \ (InSched \union Trapped \union {"dead", "kalloc", "copyuvm", "ready"})
  /\ pc' = [pc EXCEPT ![p] = m]
  /\ UNCHANGED <<kstack, cproc, scan, intr>>
  /\ \A q \in Slot : state'[q] = state[q] \/ (state[q] = "SLEEPING" /\ state'[q] = "RUNNABLE")
  /\ \A q \in Slot \ {p} : back'[q] = back[q] /\ np'[q] = np[q]
  /\ \/ lock' = lock /\ (m \in WithLock <=> pc[p] \in WithLock)
     \/ lock = NoCpu /\ lock' = c /\ m \in WithLock
     \/ lock' = NoCpu /\ m \notin WithLock /\ pc[p] \in WithLock
  /\ \/ tickslock' = tickslock /\ (m \in WithTickslock <=> pc[p] \in WithTickslock)
     \/ tickslock = NoCpu /\ tickslock' = c /\ m \in WithTickslock
     \/ tickslock' = NoCpu /\ m \notin WithTickslock /\ pc[p] \in WithTickslock

\* Such a step preserves the invariant.
LEMMA MoveKeeps ==
  ASSUME StackInv, TypeOK', OnlyInitPanics', NEW c \in CPU, NEW p \in Slot, NEW m, Move(c, p, m)
  PROVE  StackInv'
<1>1. /\ p # Null /\ state[p] = "RUNNING" /\ \A d \in CPU : cproc[d] = p => d = c
      /\ pc[p] \in WithLock => lock = c
  BY Executing DEF Move
<1>2. pc[p] \in WithTickslock => tickslock = c
  BY <1>1 DEF StackInv, LocksHeld, Move
<1>3. StacksInUse' /\ SchedOnCpu'
  BY DEF StackInv, TypeOK, StacksInUse, SchedOnCpu, Move
<1>4. ThreadStates'
  BY <1>1 DEF StackInv, TypeOK, ThreadStates, Move
<1>5. HasStack'
  BY DEF StackInv, HasStack, Live, Move
<1>6. OnCpu' /\ Interrupted'
  BY <1>1 DEF StackInv, TypeOK, OnCpu, Interrupted, Move
<1>7. LocksHeld'
  BY ProcAssumption, <1>1, <1>2 DEF StackInv, TypeOK, LocksHeld, Move
<1>8. Embryos'
  <2>1. \A q \in Slot : InFork(q)' => InFork(q) /\ Under(q)' = Under(q) /\ np'[q] = np[q]
    BY DEF StackInv, TypeOK, InFork, Under, Trapped, Move
  <2>2. \A q \in Slot : state[q] = "EMBRYO" =>
          state'[q] = "EMBRYO" /\ kstack'[q] = kstack[q] /\ pc'[q] = pc[q]
    BY <1>1 DEF StackInv, TypeOK, Move
  <2> QED
    BY <2>1, <2>2, EmbryosKept
<1> QED
  BY <1>3, <1>4, <1>5, <1>6, <1>7, <1>8 DEF StackInv

\* A step by which a running thread enters sched: it changes its own state,
\* wakes others at most, and keeps ptable.lock.
Leave(c, p, m) ==
  /\ cproc[c] = p /\ intr[c] = "no" /\ pc[p] \notin InSched
  /\ m \in InSched /\ pc' = [pc EXCEPT ![p] = m]
  /\ (m = "yielding" /\ pc[p] = "yield") \/ (m # "yielding" /\ pc[p] \notin Trapped)
  /\ UNCHANGED <<kstack, cproc, scan, intr, back, np>>
  /\ IF m = "exiting" THEN state'[p] = "ZOMBIE" ELSE state'[p] \in {"RUNNABLE", "SLEEPING"}
  /\ \A q \in Slot \ {p} :
       state'[q] = state[q] \/ (state[q] = "SLEEPING" /\ state'[q] = "RUNNABLE")
  /\ lock' = c /\ lock = (IF pc[p] \in WithLock THEN c ELSE NoCpu)
  /\ tickslock' = IF pc[p] \in WithTickslock THEN NoCpu ELSE tickslock

\* Such a step preserves the invariant.
LEMMA LeaveKeeps ==
  ASSUME StackInv, TypeOK', OnlyInitPanics', NEW c \in CPU, NEW p \in Slot, NEW m, Leave(c, p, m)
  PROVE  StackInv'
<1>1. p # Null /\ state[p] = "RUNNING" /\ \A d \in CPU : cproc[d] = p => d = c
  BY Executing DEF Leave
<1>2. pc[p] \in WithTickslock => tickslock = c
  BY <1>1 DEF StackInv, LocksHeld, Leave
<1>3. StacksInUse' /\ SchedOnCpu'
  BY DEF StackInv, TypeOK, StacksInUse, SchedOnCpu, Leave
<1>4. ThreadStates'
  BY <1>1 DEF StackInv, TypeOK, ThreadStates, InSched, Leave
<1>5. HasStack'
  BY <1>1 DEF StackInv, HasStack, Live, Leave
<1>6. OnCpu' /\ Interrupted'
  BY <1>1 DEF StackInv, TypeOK, OnCpu, Interrupted, Leave
<1>7. LocksHeld'
  <2>1. m \in WithLock /\ m \notin WithTickslock
    BY DEF Leave, WithLock, WithTickslock, InSched
  <2> QED
    BY ProcAssumption, <1>1, <1>2, <2>1 DEF StackInv, TypeOK, LocksHeld, Leave
<1>8. Embryos'
  <2>1. \A q \in Slot : InFork(q)' => InFork(q) /\ Under(q)' = Under(q) /\ np'[q] = np[q]
    BY DEF StackInv, TypeOK, InFork, Under, InSched, Trapped, Leave
  <2>2. \A q \in Slot : state[q] = "EMBRYO" =>
          state'[q] = "EMBRYO" /\ kstack'[q] = kstack[q] /\ pc'[q] = pc[q]
    BY <1>1 DEF StackInv, TypeOK, Leave
  <2> QED
    BY <2>1, <2>2, EmbryosKept
<1> QED
  BY <1>3, <1>4, <1>5, <1>6, <1>7, <1>8 DEF StackInv

-----------------------------------------------------------------------------
(***************************************************************************)
(* One lemma per action: it preserves the invariant.                       *)
(***************************************************************************)
Kept == StackInv => StackInv'

\* Entering a system call, with the kill point before it (trap), keeps the invariant.
LEMMA SyscallKeeps == ASSUME NEW c \in CPU, NEW p \in Slot, Syscall(c, p) PROVE Kept
<1> SUFFICES ASSUME StackInv PROVE StackInv'
  BY DEF Kept
<1>m. PICK m \in Ops : pc' = [pc EXCEPT ![p] = m]
  BY ProcAssumption DEF Syscall, Goto, UserCalls, Ops
<1>1. TypeOK' /\ OnlyInitPanics'
  BY <1>m DEF StackInv, TypeOK, OnlyInitPanics, Syscall, table, cpus, Location, Preemptible
<1>2. m \in Location /\ m \notin WithLock \union WithTickslock \union InSched
  BY DEF Ops, Location, Preemptible, WithLock, WithTickslock, InSched, Resumable
<1>3. m \notin Trapped \union {"dead", "kalloc", "copyuvm", "ready"}
  BY DEF Ops, Trapped
<1>4. "user" \notin WithLock \union WithTickslock \union InSched
  BY DEF WithLock, WithTickslock, InSched, Resumable
<1>5. Move(c, p, m)
  BY <1>m, <1>2, <1>3, <1>4 DEF Move, Syscall, At, table, cpus
<1> QED
  BY <1>1, <1>5, MoveKeeps

\* The kill point after the system call (trap) keeps the invariant.
LEMMA SyscallReturnKeeps == ASSUME NEW c \in CPU, NEW p \in Slot, SyscallReturn(c, p) PROVE Kept
<1> SUFFICES ASSUME StackInv PROVE StackInv'
  BY DEF Kept
<1>1. TypeOK' /\ OnlyInitPanics'
  BY ProcAssumption DEF StackInv, TypeOK, OnlyInitPanics, SyscallReturn, At, Goto, table, cpus, Location, Preemptible, Ops
<1>2. Move(c, p, IF killed[p] THEN "exit" ELSE "user")
  BY DEF Move, SyscallReturn, At, Goto, table, cpus, Trapped, Location, Preemptible, Ops, WithLock, WithTickslock, InSched, Resumable
<1> QED
  BY <1>1, <1>2, MoveKeeps

\* A new process releases the lock the scheduler took (forkret).
LEMMA ForkRetKeeps == ASSUME NEW c \in CPU, NEW p \in Slot, ForkRet(c, p) PROVE Kept
<1> SUFFICES ASSUME StackInv PROVE StackInv'
  BY DEF Kept
<1>1. TypeOK' /\ OnlyInitPanics'
  BY ProcAssumption DEF StackInv, TypeOK, OnlyInitPanics, ForkRet, At, Goto, table, cpus, Location, Preemptible, Ops
<1>2. Move(c, p, "user")
  BY DEF Move, ForkRet, At, Goto, table, cpus, Trapped, Location, Preemptible, Ops, WithLock, WithTickslock, InSched, Resumable
<1> QED
  BY <1>1, <1>2, MoveKeeps

\* wait takes ptable.lock outside an interrupt.
LEMMA WaitEnterKeeps == ASSUME NEW c \in CPU, NEW p \in Slot, WaitEnter(c, p) PROVE Kept
<1> SUFFICES ASSUME StackInv PROVE StackInv'
  BY DEF Kept
<1>1. TypeOK' /\ OnlyInitPanics'
  BY ProcAssumption DEF StackInv, TypeOK, OnlyInitPanics, WaitEnter, At, Goto, table, cpus, Location, Preemptible, Ops
<1>2. Move(c, p, "waitscan")
  BY DEF Move, WaitEnter, At, Goto, table, cpus, Trapped, Location, Preemptible, Ops, WithLock, WithTickslock, InSched, Resumable
<1> QED
  BY <1>1, <1>2, MoveKeeps

\* wait returns -1 and releases the lock; no thread changes CPU.
LEMMA WaitFailsKeeps == ASSUME NEW c \in CPU, NEW p \in Slot, WaitFails(c, p) PROVE Kept
<1> SUFFICES ASSUME StackInv PROVE StackInv'
  BY DEF Kept
<1>0. shpid' \in Int
  BY DEF StackInv, TypeOK, WaitFails, WaitReturns
<1>1. TypeOK' /\ OnlyInitPanics'
  BY ProcAssumption, <1>0 DEF StackInv, TypeOK, OnlyInitPanics, WaitFails, At, Goto, table, cpus, Location, Preemptible, Ops
<1>2. Move(c, p, "sysret")
  BY DEF Move, WaitFails, At, Goto, table, cpus, Trapped, Location, Preemptible, Ops, WithLock, WithTickslock, InSched, Resumable
<1> QED
  BY <1>1, <1>2, MoveKeeps

\* Back from the sleep in wait the thread still holds the lock.
LEMMA WaitResumeKeeps == ASSUME NEW c \in CPU, NEW p \in Slot, WaitResume(c, p) PROVE Kept
<1> SUFFICES ASSUME StackInv PROVE StackInv'
  BY DEF Kept
<1>1. TypeOK' /\ OnlyInitPanics'
  BY ProcAssumption DEF StackInv, TypeOK, OnlyInitPanics, WaitResume, At, Goto, table, cpus, Location, Preemptible, Ops, Null
<1>2. Move(c, p, "waitscan")
  BY DEF Move, WaitResume, At, Goto, table, cpus, Trapped, Location, Preemptible, Ops, WithLock, WithTickslock, InSched, Resumable
<1> QED
  BY <1>1, <1>2, MoveKeeps

\* kill makes a sleeper RUNNABLE, which leaves its thread where it sleeps.
LEMMA KillKeeps == ASSUME NEW c \in CPU, NEW p \in Slot, Kill(c, p) PROVE Kept
<1> SUFFICES ASSUME StackInv PROVE StackInv'
  BY DEF Kept
<1>k. /\ state' \in [Slot -> ProcState] /\ killed' \in [Slot -> BOOLEAN]
      /\ \A q \in Slot : state'[q] = state[q] \/ (state[q] = "SLEEPING" /\ state'[q] = "RUNNABLE")
  BY DEF StackInv, TypeOK, Kill, ProcState
<1>t. /\ cproc[c] = p /\ intr[c] = "no" /\ pc[p] = "kill" /\ pc' = [pc EXCEPT ![p] = "sysret"]
      /\ UNCHANGED <<pid, parent, chan, kstack, nextpid, lock, tickslock, cpus, back, np, elapsed, shpid, panicked>>
  BY DEF Kill, At, Goto
<1>1. TypeOK' /\ OnlyInitPanics'
  BY <1>k, <1>t DEF StackInv, TypeOK, OnlyInitPanics, cpus, Location, Preemptible, Ops
<1>2. Move(c, p, "sysret")
  BY <1>k, <1>t DEF Move, cpus, Trapped, Location, Preemptible, WithLock, WithTickslock, InSched, Resumable
<1> QED
  BY <1>1, <1>2, MoveKeeps

\* sys_sleep takes tickslock.
LEMMA SleepEnterKeeps == ASSUME NEW c \in CPU, NEW p \in Slot, SleepEnter(c, p) PROVE Kept
<1> SUFFICES ASSUME StackInv PROVE StackInv'
  BY DEF Kept
<1>1. TypeOK' /\ OnlyInitPanics'
  BY ProcAssumption DEF StackInv, TypeOK, OnlyInitPanics, SleepEnter, At, Goto, table, cpus, Location, Preemptible, Ops
<1>2. Move(c, p, "sleepcheck")
  BY DEF Move, SleepEnter, At, Goto, table, cpus, Trapped, Location, Preemptible, Ops, WithLock, WithTickslock, InSched, Resumable
<1> QED
  BY <1>1, <1>2, MoveKeeps

\* sys_sleep returns and releases tickslock.
LEMMA SleepDoneKeeps == ASSUME NEW c \in CPU, NEW p \in Slot, SleepDone(c, p) PROVE Kept
<1> SUFFICES ASSUME StackInv PROVE StackInv'
  BY DEF Kept
<1>1. TypeOK' /\ OnlyInitPanics'
  BY ProcAssumption DEF StackInv, TypeOK, OnlyInitPanics, SleepDone, At, Goto, table, cpus, Location, Preemptible, Ops
<1>2. Move(c, p, "sysret")
  BY DEF Move, SleepDone, At, Goto, table, cpus, Trapped, Location, Preemptible, Ops, WithLock, WithTickslock, InSched, Resumable
<1> QED
  BY <1>1, <1>2, MoveKeeps

\* The check of sys_sleep fails and tickslock stays held up to sleep().
LEMMA SleepCallKeeps == ASSUME NEW c \in CPU, NEW p \in Slot, SleepCall(c, p) PROVE Kept
<1> SUFFICES ASSUME StackInv PROVE StackInv'
  BY DEF Kept
<1>1. TypeOK' /\ OnlyInitPanics'
  BY ProcAssumption DEF StackInv, TypeOK, OnlyInitPanics, SleepCall, At, Goto, table, cpus, Location, Preemptible, Ops
<1>2. Move(c, p, "sleepcall")
  BY DEF Move, SleepCall, At, Goto, table, cpus, Trapped, Location, Preemptible, Ops, WithLock, WithTickslock, InSched, Resumable
<1> QED
  BY <1>1, <1>2, MoveKeeps

\* sleep() wakes up and releases ptable.lock.
LEMMA SleepResumeKeeps == ASSUME NEW c \in CPU, NEW p \in Slot, SleepResume(c, p) PROVE Kept
<1> SUFFICES ASSUME StackInv PROVE StackInv'
  BY DEF Kept
<1>1. TypeOK' /\ OnlyInitPanics'
  BY ProcAssumption DEF StackInv, TypeOK, OnlyInitPanics, SleepResume, At, Goto, table, cpus, Location, Preemptible, Ops, Null
<1>2. Move(c, p, "reacquire")
  BY DEF Move, SleepResume, At, Goto, table, cpus, Trapped, Location, Preemptible, Ops, WithLock, WithTickslock, InSched, Resumable
<1> QED
  BY <1>1, <1>2, MoveKeeps

\* sleep() takes back the lock it was given.
LEMMA SleepReacquireKeeps == ASSUME NEW c \in CPU, NEW p \in Slot, SleepReacquire(c, p) PROVE Kept
<1> SUFFICES ASSUME StackInv PROVE StackInv'
  BY DEF Kept
<1>1. TypeOK' /\ OnlyInitPanics'
  BY ProcAssumption DEF StackInv, TypeOK, OnlyInitPanics, SleepReacquire, At, Goto, table, cpus, Location, Preemptible, Ops
<1>2. Move(c, p, "sleepcheck")
  BY DEF Move, SleepReacquire, At, Goto, table, cpus, Trapped, Location, Preemptible, Ops, WithLock, WithTickslock, InSched, Resumable
<1> QED
  BY <1>1, <1>2, MoveKeeps

\* sys_getppid reads the parent pointer and changes nothing else.
LEMMA ReadParentKeeps == ASSUME NEW c \in CPU, NEW p \in Slot, ReadParent(c, p) PROVE Kept
<1> SUFFICES ASSUME StackInv PROVE StackInv'
  BY DEF Kept
<1>1. TypeOK' /\ OnlyInitPanics'
  BY ProcAssumption DEF StackInv, TypeOK, OnlyInitPanics, ReadParent, At, Goto, table, cpus, Location, Preemptible, Ops
<1>2. Move(c, p, "readppid")
  BY DEF Move, ReadParent, At, Goto, table, cpus, Trapped, Location, Preemptible, Ops, WithLock, WithTickslock, InSched, Resumable, StackInv, TypeOK
<1> QED
  BY <1>1, <1>2, MoveKeeps

\* sys_getppid reads the pid and changes nothing else.
LEMMA ReadPpidKeeps == ASSUME NEW c \in CPU, NEW p \in Slot, ReadPpid(c, p) PROVE Kept
<1> SUFFICES ASSUME StackInv PROVE StackInv'
  BY DEF Kept
<1>1. TypeOK' /\ OnlyInitPanics'
  BY ProcAssumption DEF StackInv, TypeOK, OnlyInitPanics, ReadPpid, At, Goto, table, cpus, Location, Preemptible, Ops, Null
<1>2. Move(c, p, "sysret")
  BY DEF Move, ReadPpid, At, Goto, table, cpus, Trapped, Location, Preemptible, Ops, WithLock, WithTickslock, InSched, Resumable, StackInv, TypeOK
<1> QED
  BY <1>1, <1>2, MoveKeeps

\* exit becomes ZOMBIE on its own stack, and keeps ptable.lock for the switch.
LEMMA ExitKeeps == ASSUME NEW c \in CPU, NEW p \in Slot, Exit(c, p) PROVE Kept
<1> SUFFICES ASSUME StackInv PROVE StackInv'
  BY DEF Kept
<1>x. /\ ExitStates(p) \in [Slot -> ProcState] /\ ExitStates(p)[p] = "ZOMBIE"
      /\ \A q \in Slot \ {p} :
           ExitStates(p)[q] = state[q] \/ (state[q] = "SLEEPING" /\ ExitStates(p)[q] = "RUNNABLE")
  <2> DEFINE woken == wakeup1(state, parent[p])
             again == IF \E q \in Children(p) : state[q] = "ZOMBIE"
                      THEN wakeup1(woken, initproc) ELSE woken
  <2>1. /\ woken \in [Slot -> ProcState]
        /\ \A q \in Slot : woken[q] = state[q] \/ (state[q] = "SLEEPING" /\ woken[q] = "RUNNABLE")
    BY Wakes DEF StackInv, TypeOK
  <2>2. /\ wakeup1(woken, initproc) \in [Slot -> ProcState]
        /\ \A q \in Slot : wakeup1(woken, initproc)[q] = woken[q]
                      \/ (woken[q] = "SLEEPING" /\ wakeup1(woken, initproc)[q] = "RUNNABLE")
    BY <2>1, Wakes
  <2> HIDE DEF woken
  <2>3. /\ again \in [Slot -> ProcState]
        /\ \A q \in Slot : again[q] = state[q] \/ (state[q] = "SLEEPING" /\ again[q] = "RUNNABLE")
    BY <2>1, <2>2
  <2>4. ExitStates(p) = [again EXCEPT ![p] = "ZOMBIE"]
    BY DEF ExitStates, woken
  <2> HIDE DEF again
  <2>5. "ZOMBIE" \in ProcState
    BY DEF ProcState
  <2>6. ExitStates(p) \in [Slot -> ProcState] /\ ExitStates(p)[p] = "ZOMBIE"
    BY <2>3, <2>4, <2>5
  <2>7. \A q \in Slot \ {p} : ExitStates(p)[q] = again[q]
    BY <2>3, <2>4
  <2> QED
    BY <2>3, <2>6, <2>7
<1>i. initproc \in Slot
  BY ProcAssumption DEF initproc, Slot
<1>1. TypeOK' /\ OnlyInitPanics'
  BY <1>x, <1>i DEF StackInv, TypeOK, OnlyInitPanics, Exit, Goto, cpus, Location
<1>2. Leave(c, p, "exiting")
  BY <1>x DEF Leave, Exit, At, Goto, cpus, Trapped, WithLock, WithTickslock, InSched, Resumable
<1> QED
  BY <1>1, <1>2, LeaveKeeps

\* wait becomes SLEEPING on its own stack, with ptable.lock held.
LEMMA WaitSleepKeeps == ASSUME NEW c \in CPU, NEW p \in Slot, WaitSleep(c, p) PROVE Kept
<1> SUFFICES ASSUME StackInv PROVE StackInv'
  BY DEF Kept
<1>1. TypeOK' /\ OnlyInitPanics'
  BY ProcAssumption DEF StackInv, TypeOK, OnlyInitPanics, WaitSleep, At, Goto, cpus, Location, ProcState
<1>2. pc[p] \in WithLock => lock = c
  BY Executing DEF WaitSleep, At, InSched
<1>3. Leave(c, p, "waiting")
  BY <1>2 DEF StackInv, TypeOK, Leave, WaitSleep, At, Goto, cpus, Trapped, WithLock, WithTickslock, InSched, Resumable
<1> QED
  BY <1>1, <1>3, LeaveKeeps

\* sleep() swaps tickslock for ptable.lock before it becomes SLEEPING.
LEMMA SleepTicksKeeps == ASSUME NEW c \in CPU, NEW p \in Slot, SleepTicks(c, p) PROVE Kept
<1> SUFFICES ASSUME StackInv PROVE StackInv'
  BY DEF Kept
<1>1. TypeOK' /\ OnlyInitPanics'
  BY ProcAssumption DEF StackInv, TypeOK, OnlyInitPanics, SleepTicks, At, Goto, cpus, Location, ProcState
<1>2. pc[p] \in WithLock => lock = c
  BY Executing DEF SleepTicks, At, InSched
<1>3. Leave(c, p, "sleeping")
  BY <1>2 DEF StackInv, TypeOK, Leave, SleepTicks, At, Goto, cpus, Trapped, WithLock, WithTickslock, InSched, Resumable
<1> QED
  BY <1>1, <1>3, LeaveKeeps

\* yield becomes RUNNABLE on its own stack, with ptable.lock held.
LEMMA YieldKeeps == ASSUME NEW c \in CPU, NEW p \in Slot, Yield(c, p) PROVE Kept
<1> SUFFICES ASSUME StackInv PROVE StackInv'
  BY DEF Kept
<1>1. TypeOK' /\ OnlyInitPanics'
  BY ProcAssumption DEF StackInv, TypeOK, OnlyInitPanics, Yield, At, Goto, cpus, Location, ProcState
<1>2. pc[p] \in WithLock => lock = c
  BY Executing DEF Yield, At, InSched
<1>3. Leave(c, p, "yielding")
  BY <1>2 DEF StackInv, TypeOK, Leave, Yield, At, Goto, cpus, Trapped, WithLock, WithTickslock, InSched, Resumable
<1> QED
  BY <1>1, <1>3, LeaveKeeps

\* The exit of init panics and changes no process.
LEMMA InitExitsKeeps == ASSUME NEW c \in CPU, NEW p \in Slot, InitExits(c, p) PROVE Kept
<1> SUFFICES ASSUME StackInv PROVE StackInv'
  BY DEF Kept
<1>1. TypeOK' /\ OnlyInitPanics'
  BY DEF StackInv, TypeOK, OnlyInitPanics, InitExits, table, cpus, Panic
<1>2. LocksHeld' /\ Interrupted'
  BY DEF StackInv, LocksHeld, Interrupted, InitExits, cpus
<1> QED
  BY <1>1, <1>2, Idles DEF StackInv, InitExits, table, cpus

\* A scheduler takes ptable.lock for a scan.
LEMMA SchedulerAcquireKeeps == ASSUME NEW c \in CPU, SchedulerAcquire(c) PROVE Kept
<1> SUFFICES ASSUME StackInv PROVE StackInv'
  BY DEF Kept
<1>1. 1 \in 0..(NPROC + 1)
  BY ProcAssumption
<1>2. TypeOK' /\ OnlyInitPanics'
  BY <1>1 DEF StackInv, TypeOK, OnlyInitPanics, SchedulerAcquire, table
<1>3. LocksHeld' /\ Interrupted'
  BY ProcAssumption DEF StackInv, TypeOK, LocksHeld, Interrupted, SchedulerAcquire
<1> QED
  BY <1>2, <1>3, Idles DEF StackInv, SchedulerAcquire, table

\* A scheduler resumes a RUNNABLE thread, which no other CPU is on.
LEMMA SchedulerRunKeeps == ASSUME NEW c \in CPU, SchedulerRun(c) PROVE Kept
<1> SUFFICES ASSUME StackInv PROVE StackInv'
  BY DEF Kept
<1>l. lock = c /\ cproc[c] = Null
  BY DEF StackInv, LocksHeld, SchedulerRun
<1> DEFINE p == First(Ahead(c))
<1>r. p \in Slot /\ p # Null /\ state[p] = "RUNNABLE"
  BY FirstIn DEF Ahead, SchedulerRun, Slot, Null
<1>t. /\ cproc' = [cproc EXCEPT ![c] = p] /\ state' = [state EXCEPT ![p] = "RUNNING"]
      /\ scan' = [scan EXCEPT ![c] = p + 1]
      /\ UNCHANGED <<pid, parent, chan, killed, kstack, nextpid, lock, tickslock, intr,
                     pc, back, np, elapsed, shpid, panicked>>
  BY DEF SchedulerRun
<1> HIDE DEF p
<1>q. \A d \in CPU : cproc[d] # p
  BY <1>l, <1>r DEF StackInv, LocksHeld, OnCpu, WithLock
<1>s. pc[p] \in Resumable /\ kstack[p]
  BY <1>q, <1>r DEF StackInv, ThreadStates, SchedOnCpu, HasStack, Live
<1>1. TypeOK'
  <2>1. p + 1 \in 0..(NPROC + 1)
    BY <1>r, ProcAssumption DEF Slot
  <2> QED
    BY <1>r, <1>t, <2>1 DEF StackInv, TypeOK, ProcState
<1>2. StacksInUse'
  BY <1>l, <1>q, <1>r, <1>s, <1>t DEF StackInv, TypeOK, StacksInUse
<1>3. OnlyInitPanics' /\ Interrupted'
  BY <1>l, <1>t DEF StackInv, TypeOK, OnlyInitPanics, LocksHeld, Interrupted
<1>4. LocksHeld'
  BY <1>l, <1>q, <1>r, <1>s, <1>t DEF StackInv, TypeOK, LocksHeld, WithTickslock, Resumable
<1>5. ThreadStates'
  BY <1>r, <1>s, <1>t DEF StackInv, TypeOK, ThreadStates, Resumable, InSched
<1>6. SchedOnCpu'
  <2>1. ASSUME NEW q \in Slot, pc'[q] \in InSched PROVE \E d \in CPU : cproc'[d] = q
    <3>1. PICK d \in CPU : cproc[d] = q
      BY <1>t, <2>1 DEF StackInv, SchedOnCpu
    <3>2. d # c
      BY <1>l, <3>1 DEF Slot, Null
    <3> QED
      BY <1>t, <3>1, <3>2 DEF StackInv, TypeOK
  <2> QED
    BY <2>1 DEF SchedOnCpu
<1>7. HasStack'
  BY <1>s, <1>t DEF StackInv, TypeOK, HasStack
<1>8. OnCpu'
  BY <1>r, <1>t DEF StackInv, TypeOK, OnCpu
<1>9. Embryos'
  <2>1. \A q \in Slot : InFork(q)' => InFork(q) /\ Under(q)' = Under(q) /\ np'[q] = np[q]
    BY <1>t DEF InFork, Under
  <2>2. \A q \in Slot : state[q] = "EMBRYO" => state'[q] = "EMBRYO" /\ kstack'[q] = kstack[q] /\ pc'[q] = pc[q]
    BY <1>r, <1>t DEF StackInv, TypeOK
  <2> QED
    BY <2>1, <2>2, EmbryosKept
<1> QED
  BY <1>1, <1>2, <1>3, <1>4, <1>5, <1>6, <1>7, <1>8, <1>9 DEF StackInv

\* A scheduler releases ptable.lock at the end of a scan.
LEMMA SchedulerReleaseKeeps == ASSUME NEW c \in CPU, SchedulerRelease(c) PROVE Kept
<1> SUFFICES ASSUME StackInv PROVE StackInv'
  BY DEF Kept
<1>0. 0 \in 0..(NPROC + 1)
  BY ProcAssumption
<1>1. TypeOK' /\ OnlyInitPanics'
  BY <1>0 DEF StackInv, TypeOK, OnlyInitPanics, SchedulerRelease, table
<1>2. LocksHeld'
  BY ProcAssumption DEF StackInv, TypeOK, LocksHeld, SchedulerRelease, WithTickslock, WithLock, InSched, Resumable
<1>3. Interrupted'
  BY DEF StackInv, TypeOK, LocksHeld, Interrupted, SchedulerRelease
<1> QED
  BY <1>1, <1>2, <1>3, Idles DEF StackInv, SchedulerRelease, table

\* The timer strikes only where the CPU holds no spinlock.
LEMMA InterruptKeeps == ASSUME NEW c \in CPU, Interrupt(c) PROVE Kept
<1> SUFFICES ASSUME StackInv PROVE StackInv'
  BY DEF Kept
<1>d. cproc[c] # Null => pc[cproc[c]] # "dead"
  BY DEF StackInv, TypeOK, OnCpu, ThreadStates, InSched
<1>1. TypeOK' /\ OnlyInitPanics'
  BY ProcAssumption DEF StackInv, TypeOK, OnlyInitPanics, Interrupt, table
<1>2. LocksHeld'
  BY ProcAssumption DEF StackInv, TypeOK, LocksHeld, Interrupt, WithTickslock, WithLock, InSched, Resumable
<1>3. Interrupted'
  BY <1>d DEF StackInv, TypeOK, LocksHeld, Interrupted, Interrupt, Location, WithLock, InSched, Resumable, WithTickslock
<1> QED
  BY <1>1, <1>2, <1>3, Idles DEF StackInv, Interrupt, table

\* The timer handler takes tickslock and counts the tick.
LEMMA TickCountKeeps == ASSUME NEW c \in CPU, TickCount(c) PROVE Kept
<1> SUFFICES ASSUME StackInv PROVE StackInv'
  BY DEF Kept
<1>1. TypeOK' /\ OnlyInitPanics'
  BY ProcAssumption DEF StackInv, TypeOK, OnlyInitPanics, TickCount, table
<1>2. LocksHeld'
  BY ProcAssumption DEF StackInv, TypeOK, LocksHeld, TickCount, WithTickslock, WithLock, InSched, Resumable
<1>3. Interrupted'
  BY DEF StackInv, TypeOK, LocksHeld, Interrupted, TickCount
<1> QED
  BY <1>1, <1>2, <1>3, Idles DEF StackInv, TickCount, table

\* The timer handler wakes the sleepers of &ticks and releases tickslock.
LEMMA TickWakeupKeeps == ASSUME NEW c \in CPU, TickWakeup(c) PROVE Kept
<1> SUFFICES ASSUME StackInv PROVE StackInv'
  BY DEF Kept
<1>x. /\ state' \in [Slot -> ProcState]
      /\ \A q \in Slot : state'[q] = state[q] \/ (state[q] = "SLEEPING" /\ state'[q] = "RUNNABLE")
  BY DEF StackInv, TypeOK, TickWakeup, wakeup1, ProcState
<1>1. TypeOK' /\ OnlyInitPanics'
  BY <1>x DEF StackInv, TypeOK, OnlyInitPanics, TickWakeup
<1>2. StacksInUse' /\ SchedOnCpu'
  BY DEF StackInv, StacksInUse, SchedOnCpu, TickWakeup
<1>3. LocksHeld'
  <2>1. tickslock = c /\ (cproc[c] # Null => pc[cproc[c]] \notin WithTickslock)
    BY DEF StackInv, LocksHeld, Interrupted, TickWakeup, Preemptible, Ops, WithTickslock
  <2> QED
    BY ProcAssumption, <2>1 DEF StackInv, TypeOK, LocksHeld, TickWakeup
<1>4. ThreadStates'
  BY <1>x DEF StackInv, ThreadStates, TickWakeup
<1>5. HasStack'
  BY <1>x DEF StackInv, HasStack, TickWakeup, Live
<1>6. OnCpu'
  BY <1>x DEF StackInv, TypeOK, OnCpu, TickWakeup
<1>8. Interrupted'
  BY DEF StackInv, TypeOK, Interrupted, TickWakeup
<1>7. Embryos'
  <2>1. \A q \in Slot : InFork(q)' => InFork(q) /\ Under(q)' = Under(q) /\ np'[q] = np[q]
    BY DEF InFork, Under, TickWakeup
  <2>2. \A q \in Slot : state[q] = "EMBRYO" => state'[q] = "EMBRYO" /\ kstack'[q] = kstack[q] /\ pc'[q] = pc[q]
    BY <1>x DEF TickWakeup
  <2> QED
    BY <2>1, <2>2, EmbryosKept
<1> QED
  BY <1>1, <1>2, <1>3, <1>4, <1>5, <1>6, <1>7, <1>8 DEF StackInv

-----------------------------------------------------------------------------
(***************************************************************************)
(* The invariants behind ParentsLive, NoMissedExit and NoMissedTick, and   *)
(* the steps of the system calls that preserve them.                       *)
(***************************************************************************)
\* init lives for ever and has no parent; nobody is its own parent.
Family ==
  /\ state[initproc] \in Live /\ parent[initproc] = Null
  /\ \A p \in Slot : parent[p] # p

\* A slot has no parent until fork sets it, and fork has set it when it makes
\* its embryo RUNNABLE.
Adopted ==
  \A p \in Slot :
    /\ state[p] = "UNUSED" => parent[p] = Null
    /\ InFork(p) => parent[np[p]] = IF Under(p) = "ready" THEN p ELSE Null

FamilyInv == ParentsLive /\ NoMissedExit /\ Family /\ Adopted

\* Who holds tickslock is on a CPU, and its tick has not come when it calls sleep.
TickChecked ==
  \A p \in Slot :
    /\ pc[p] \in WithTickslock => \E c \in CPU : cproc[c] = p
    /\ pc[p] = "sleepcall" => ~elapsed[p]

TickInv == NoMissedTick /\ TickChecked

WaitInv == FamilyInv /\ TickInv

\* A step that changes no parent and makes no zombie, and after which who sleeps in
\* wait slept there before or has looked at its children.
FamilyStays ==
  /\ parent' = parent
  /\ \A q \in Slot :
       /\ state[q] \in Live => state'[q] \in Live
       /\ state'[q] = "ZOMBIE" => state[q] = "ZOMBIE"
       /\ state'[q] \in Live /\ state[q] \notin Live => parent[q] # Null
       /\ state'[q] = "UNUSED" /\ state[q] # "UNUSED" => parent[q] = Null
       /\ state'[q] = "SLEEPING" /\ chan'[q] = q =>
            \/ state[q] = "SLEEPING" /\ chan[q] = q /\ killed'[q] = killed[q]
            \/ Children(q) # {} /\ ZombieChildren(q) = {} /\ ~killed'[q]
       /\ InFork(q)' => \/ /\ InFork(q) /\ np'[q] = np[q]
                           /\ Under(q)' = "ready" <=> Under(q) = "ready"
                        \/ Under(q)' # "ready" /\ parent[np'[q]] = Null

\* Such a step keeps the families.
LEMMA FamilyFrame == ASSUME StackInv, FamilyInv, FamilyStays PROVE FamilyInv'
<1>1. parent \in [Slot -> Slot \union {Null}] /\ parent' = parent /\ initproc \in Slot
  BY ProcAssumption DEF StackInv, TypeOK, FamilyStays, initproc, Slot
<1>2. \A q \in Slot : /\ state[q] \in Live => state'[q] \in Live
                      /\ state'[q] = "ZOMBIE" => state[q] = "ZOMBIE"
                      /\ state'[q] \in Live /\ state[q] \notin Live => parent[q] # Null
                      /\ state'[q] = "UNUSED" /\ state[q] # "UNUSED" => parent[q] = Null
  BY DEF FamilyStays
<1>3. ParentsLive'
  BY <1>1, <1>2 DEF FamilyInv, ParentsLive
<1>4. NoMissedExit'
  <2>1. ASSUME NEW q \in Slot, state'[q] = "SLEEPING", chan'[q] = q
        PROVE  Children(q) # {} /\ ZombieChildren(q) = {} /\ ~killed'[q]
    BY <2>1, Zenon DEF FamilyStays, FamilyInv, NoMissedExit
  <2>2. \A q : Children(q)' = Children(q) /\ (ZombieChildren(q) = {} => ZombieChildren(q)' = {})
    BY <1>1, <1>2 DEF Children, ZombieChildren
  <2> QED  BY <2>1, <2>2 DEF NoMissedExit
<1>5. Family'
  BY <1>1, <1>2 DEF FamilyInv, Family
<1>6. Adopted'
  <2>1. ASSUME NEW q \in Slot, InFork(q)'
        PROVE  parent[np'[q]] = IF Under(q)' = "ready" THEN q ELSE Null
    BY <2>1, Zenon DEF FamilyStays, FamilyInv, Adopted
  <2> QED  BY <1>1, <1>2, <2>1 DEF FamilyInv, Adopted
<1> QED  BY <1>3, <1>4, <1>5, <1>6 DEF FamilyInv

\* A step that puts nobody to sleep whose tick has come, and does not end the
\* handler that wakes the sleepers.
TicksStay ==
  /\ \A q \in Slot : state'[q] = "SLEEPING" /\ chan'[q] = Ticks /\ elapsed'[q] =>
                       state[q] = "SLEEPING" /\ chan[q] = Ticks /\ elapsed[q]
  /\ \A d \in CPU : intr[d] = "wakeup" => intr'[d] = "wakeup"

\* A step after which who holds tickslock in sys_sleep is on its CPU and has checked.
ChecksStay ==
  \A q \in Slot :
    /\ pc'[q] \in WithTickslock => \/ \E d \in CPU : cproc'[d] = q
                                   \/ /\ pc[q] \in WithTickslock
                                      /\ \A d \in CPU : cproc[d] = q => cproc'[d] = q
    /\ pc'[q] = "sleepcall" => \/ ~elapsed'[q]
                               \/ pc[q] = "sleepcall" /\ elapsed'[q] = elapsed[q]

\* Such steps keep the sleepers safe.
LEMMA TickFrame == ASSUME TickInv, TicksStay, ChecksStay PROVE TickInv'
<1>1. NoMissedTick'
  BY DEF TickInv, NoMissedTick, TicksStay
<1>2. TickChecked'
  BY DEF TickInv, TickChecked, ChecksStay
<1> QED  BY <1>1, <1>2 DEF TickInv

KeepsWaits == StackInv /\ WaitInv => WaitInv'

\* A step of a running thread that leaves the parents, and at most makes processes
\* RUNNABLE.
Quiet(c, p, m) ==
  /\ cproc[c] = p /\ pc[p] \notin InSched
  /\ pc' = [pc EXCEPT ![p] = m]
  /\ UNCHANGED <<parent, cproc>>
  /\ \A q \in Slot : state'[q] = state[q] \/ (state[q] \in Live /\ state'[q] = "RUNNABLE")
  /\ \A q \in Slot \ {p} :
       /\ back'[q] = back[q] /\ np'[q] = np[q] /\ elapsed'[q] = elapsed[q]
       /\ state'[q] = "SLEEPING" => chan'[q] = chan[q] /\ killed'[q] = killed[q]
  /\ InFork(p)' => InFork(p) /\ Under(p)' = Under(p) /\ np'[p] = np[p]
  /\ m = "sleepcall" => ~elapsed'[p]
  /\ \A d \in CPU : intr[d] = "wakeup" => intr'[d] = "wakeup"

\* Such a step loses no exit and no tick.
LEMMA QuietKeeps == ASSUME NEW c \in CPU, NEW p \in Slot, NEW m, Quiet(c, p, m) PROVE KeepsWaits
<1> SUFFICES ASSUME StackInv, WaitInv PROVE WaitInv'
  BY DEF KeepsWaits
<1>1. state[p] = "RUNNING" /\ cproc[c] = p
  BY Executing DEF Quiet
<1>2. ASSUME NEW q \in Slot, q # p
      PROVE  /\ pc'[q] = pc[q] /\ back'[q] = back[q] /\ np'[q] = np[q] /\ elapsed'[q] = elapsed[q]
             /\ state'[q] = "SLEEPING" => chan'[q] = chan[q] /\ killed'[q] = killed[q]
  BY <1>2 DEF StackInv, TypeOK, Quiet
<1>3. pc'[p] = m
  BY DEF StackInv, TypeOK, Quiet
<1>4. \A q \in Slot : state'[q] = state[q] \/ (state[q] \in Live /\ state'[q] = "RUNNABLE")
  BY DEF Quiet
<1>5. FamilyStays
  <2>1. \A q \in Slot : InFork(q)' => InFork(q) /\ Under(q)' = Under(q) /\ np'[q] = np[q]
    BY <1>2 DEF InFork, Under, Quiet
  <2>2. parent' = parent
    BY DEF Quiet
  <2> QED  BY <1>1, <1>2, <1>4, <2>1, <2>2 DEF FamilyStays, Live
<1>6. /\ cproc' = cproc /\ (m = "sleepcall" => ~elapsed'[p])
      /\ \A d \in CPU : intr[d] = "wakeup" => intr'[d] = "wakeup"
  BY DEF Quiet
<1>7. TicksStay
  BY <1>1, <1>2, <1>4, <1>6 DEF TicksStay
<1>8. ChecksStay
  BY <1>1, <1>2, <1>3, <1>6 DEF ChecksStay
<1> QED  BY <1>5, <1>7, <1>8, FamilyFrame, TickFrame DEF WaitInv

\* The steps of a system call that only move a thread keep the invariant.
LEMMA CallsKeepWaits ==
  ASSUME NEW c \in CPU, NEW p \in Slot,
         \/ Syscall(c, p) \/ SyscallReturn(c, p) \/ ForkRet(c, p)
         \/ WaitEnter(c, p) \/ WaitFails(c, p) \/ ReadParent(c, p) \/ ReadPpid(c, p)
  PROVE  KeepsWaits
<1> SUFFICES ASSUME StackInv PROVE KeepsWaits
  BY DEF KeepsWaits
<1>1. PICK m \in Ops \union {"user", "sysret", "waitscan", "readppid"} : pc' = [pc EXCEPT ![p] = m]
  BY ProcAssumption DEF Syscall, UserCalls, SyscallReturn, ForkRet, WaitEnter, WaitFails,
     ReadParent, ReadPpid, Goto, Ops
<1>2. /\ cproc[c] = p /\ pc[p] \in Ops \union {"user", "sysret", "forkret", "waitscan", "readppid"}
      /\ UNCHANGED <<state, parent, chan, killed, cproc, back, elapsed, intr>>
      /\ \A q \in Slot \ {p} : np'[q] = np[q]
  BY DEF Syscall, SyscallReturn, ForkRet, WaitEnter, WaitFails, ReadParent, ReadPpid, At, table,
     cpus, Ops, StackInv, TypeOK
<1>3. m \notin {"kalloc", "copyuvm", "ready", "sleepcall"} \union Trapped /\ pc[p] \notin InSched
  BY <1>2 DEF Ops, Trapped, InSched
<1>4. Under(p)' = m
  BY <1>1, <1>3 DEF Under, Trapped, StackInv, TypeOK
<1>5. Quiet(c, p, m)
  BY <1>1, <1>2, <1>3, <1>4 DEF Quiet, InFork
<1> QED  BY <1>5, QuietKeeps

\* So do those of sys_sleep: the call of sleep() comes after the check.
LEMMA SleepsKeepWaits ==
  ASSUME NEW c \in CPU, NEW p \in Slot,
         SleepEnter(c, p) \/ SleepDone(c, p) \/ SleepCall(c, p) \/ SleepReacquire(c, p)
  PROVE  KeepsWaits
<1> SUFFICES ASSUME StackInv PROVE KeepsWaits
  BY DEF KeepsWaits
<1>1. PICK m \in {"sleepcheck", "sleepcall", "sysret"} :
        pc' = [pc EXCEPT ![p] = m] /\ (m = "sleepcall" => ~elapsed'[p])
  BY DEF SleepEnter, SleepDone, SleepCall, SleepReacquire, Goto
<1>2. /\ cproc[c] = p /\ pc[p] \in {"sleep", "sleepcheck", "reacquire"}
      /\ UNCHANGED <<state, parent, chan, killed, cproc, back, np, intr>>
      /\ \A q \in Slot \ {p} : elapsed'[q] = elapsed[q]
  BY DEF SleepEnter, SleepDone, SleepCall, SleepReacquire, At, table, cpus, StackInv, TypeOK
<1>3. Under(p)' = m
  BY <1>1 DEF Under, StackInv, TypeOK
<1>4. Quiet(c, p, m)
  BY <1>1, <1>2, <1>3 DEF Quiet, InSched, InFork
<1> QED  BY <1>4, QuietKeeps

\* The end of a timer interrupt keeps the place under it.
LEMMA TrapsKeepWaits ==
  ASSUME NEW c \in CPU, NEW p \in Slot, YieldResume(c, p) \/ TrapReturn(c, p)
  PROVE  KeepsWaits
<1> SUFFICES ASSUME StackInv PROVE KeepsWaits
  BY DEF KeepsWaits
<1>1. /\ cproc[c] = p /\ pc[p] \in {"yielded", "trapret"}
      /\ UNCHANGED <<state, parent, chan, killed, cproc, np, elapsed, intr>>
      /\ \A q \in Slot \ {p} : back'[q] = back[q]
  BY DEF YieldResume, TrapReturn, At, table, cpus, StackInv, TypeOK
<1>2. PICK m \in Preemptible \union {"trapret"} :
        pc' = [pc EXCEPT ![p] = m] /\ (Under(p)' = Under(p) \/ Under(p)' = "exit")
  <2>1. CASE YieldResume(c, p)
    BY <2>1 DEF YieldResume, At, Goto, Under, StackInv, TypeOK
  <2>2. CASE TrapReturn(c, p)
    <3>1. back[p] \in Preemptible /\ "exit" \in Preemptible
      BY DEF StackInv, TypeOK, Preemptible, Ops
    <3>2. PICK m \in Preemptible : pc' = [pc EXCEPT ![p] = m] /\ (m = back[p] \/ m = "exit")
      BY <2>2, <3>1 DEF TrapReturn, Goto
    <3>3. Under(p)' = m /\ Under(p) = back[p]
      BY <2>2, <3>2 DEF Under, TrapReturn, At, Preemptible, Ops, StackInv, TypeOK
    <3> QED  BY <3>2, <3>3
  <2> QED  BY <2>1, <2>2
<1>3. m # "sleepcall"
  BY DEF Preemptible, Ops
<1>4. Quiet(c, p, m)
  BY <1>1, <1>2, <1>3 DEF Quiet, InSched, InFork
<1> QED  BY <1>4, QuietKeeps

\* So does its start, with the kill point of an interrupted program (trap).
LEMMA AfterInterruptKeepsWaits == ASSUME NEW c \in CPU, AfterInterrupt(c) PROVE KeepsWaits
<1> SUFFICES ASSUME StackInv, WaitInv PROVE WaitInv'
  BY DEF KeepsWaits
<1>1. /\ intr[c] = "return" /\ \A d \in CPU : intr[d] = "wakeup" => intr'[d] = "wakeup"
      /\ UNCHANGED <<state, parent, chan, killed, cproc, np, elapsed>>
  BY DEF AfterInterrupt, table, StackInv, TypeOK
<1>2. CASE cproc[c] = Null
  <2>1. pc' = pc /\ back' = back
    BY <1>2 DEF AfterInterrupt
  <2>2. FamilyStays /\ TicksStay /\ ChecksStay
    BY <1>1, <2>1 DEF FamilyStays, TicksStay, ChecksStay, InFork, Under
  <2> QED  BY <2>2, FamilyFrame, TickFrame DEF WaitInv
<1>3. CASE cproc[c] # Null
  <2>1. PICK p \in Slot : p = cproc[c]
    BY <1>3 DEF StackInv, TypeOK
  <2>2. pc[p] \in Preemptible
    BY <1>1, <1>3, <2>1 DEF StackInv, Interrupted
  <2>3. pc[p] \notin InSched /\ pc[p] \notin Trapped
    BY <2>2 DEF Preemptible, Ops, InSched, Trapped
  <2>4. \A q \in Slot \ {p} : back'[q] = back[q]
    BY <1>3, <2>1 DEF AfterInterrupt, StackInv, TypeOK
  <2>5. PICK m \in {"exit", "yield"} :
          pc' = [pc EXCEPT ![p] = m] /\ (Under(p)' = Under(p) \/ Under(p)' = "exit")
    BY <1>3, <2>1, <2>3 DEF AfterInterrupt, Goto, Under, Trapped, StackInv, TypeOK
  <2>6. Quiet(c, p, m)
    BY <1>1, <2>1, <2>3, <2>4, <2>5 DEF Quiet, InFork
  <2> QED  BY <2>6, QuietKeeps DEF KeepsWaits
<1> QED  BY <1>2, <1>3

\* yield keeps the place under it; the return from sleep() ends the sleep.
LEMMA YieldKeepsWaits ==
  ASSUME NEW c \in CPU, NEW p \in Slot, Yield(c, p) \/ WaitResume(c, p) \/ SleepResume(c, p)
  PROVE  KeepsWaits
<1> SUFFICES ASSUME StackInv PROVE KeepsWaits
  BY DEF KeepsWaits
<1>1. /\ cproc[c] = p /\ pc[p] \in {"yield", "waited", "slept"}
      /\ UNCHANGED <<parent, killed, cproc, np, elapsed, intr, back>>
      /\ \A q \in Slot \ {p} : state'[q] = state[q] /\ chan'[q] = chan[q]
      /\ state'[p] = state[p] \/ state'[p] = "RUNNABLE"
  BY DEF Yield, WaitResume, SleepResume, At, cpus, StackInv, TypeOK
<1>2. pc[p] \notin InSched /\ state[p] = "RUNNING"
  <2>1. pc[p] \notin InSched
    BY <1>1 DEF InSched
  <2> QED  BY <1>1, <2>1, Executing
<1>3. PICK m \in {"yielding", "waitscan", "reacquire"} :
        pc' = [pc EXCEPT ![p] = m] /\ (Under(p)' = Under(p) \/ Under(p)' \in {"waitscan", "reacquire"})
  BY DEF Yield, WaitResume, SleepResume, At, Goto, Under, StackInv, TypeOK
<1>4. Quiet(c, p, m)
  BY <1>1, <1>2, <1>3 DEF Quiet, InFork, Live
<1> QED  BY <1>4, QuietKeeps

\* kill makes the process it marks RUNNABLE if it sleeps.
LEMMA KillKeepsWaits == ASSUME NEW c \in CPU, NEW p \in Slot, Kill(c, p) PROVE KeepsWaits
<1> SUFFICES ASSUME StackInv PROVE KeepsWaits
  BY DEF KeepsWaits
<1>1. /\ cproc[c] = p /\ pc[p] = "kill" /\ pc' = [pc EXCEPT ![p] = "sysret"]
      /\ UNCHANGED <<parent, chan, cproc, np, elapsed, intr, back>>
  BY DEF Kill, At, Goto, cpus
<1>2. /\ \A q \in Slot : state'[q] = state[q] \/ (state[q] = "SLEEPING" /\ state'[q] = "RUNNABLE")
      /\ \A q \in Slot : state'[q] = "SLEEPING" => killed'[q] = killed[q]
  BY DEF StackInv, TypeOK, Kill
<1>3. Under(p)' = "sysret"
  BY <1>1 DEF Under, StackInv, TypeOK
<1>4. Quiet(c, p, "sysret")
  BY <1>1, <1>2, <1>3 DEF Quiet, InFork, InSched, Live
<1> QED  BY <1>4, QuietKeeps

\* wait sleeps when its scan has found a child and no zombie, with ptable.lock held.
LEMMA WaitSleepKeepsWaits == ASSUME NEW c \in CPU, NEW p \in Slot, WaitSleep(c, p) PROVE KeepsWaits
<1> SUFFICES ASSUME StackInv, WaitInv PROVE WaitInv'
  BY DEF KeepsWaits
<1>1. /\ cproc[c] = p /\ pc[p] = "waitscan" /\ pc' = [pc EXCEPT ![p] = "waiting"]
      /\ state' = [state EXCEPT ![p] = "SLEEPING"] /\ chan' = [chan EXCEPT ![p] = p]
      /\ UNCHANGED <<parent, killed, cproc, np, elapsed, intr, back>>
      /\ Children(p) # {} /\ ZombieChildren(p) = {} /\ ~killed[p]
  BY DEF WaitSleep, At, Goto, cpus, MustNotWait
<1>2. state[p] = "RUNNING" /\ p # Ticks
  BY ProcAssumption, <1>1, Executing DEF InSched, Slot, Ticks
<1>3. \A q \in Slot : q # p => state'[q] = state[q] /\ chan'[q] = chan[q] /\ pc'[q] = pc[q]
  BY <1>1 DEF StackInv, TypeOK
<1>4. state'[p] = "SLEEPING" /\ chan'[p] = p /\ pc'[p] = "waiting"
  BY <1>1 DEF StackInv, TypeOK
<1>5. FamilyStays
  <2>1. \A q \in Slot : InFork(q)' => InFork(q) /\ Under(q)' = Under(q) /\ np'[q] = np[q]
    BY <1>1, <1>3, <1>4 DEF InFork, Under
  <2> QED  BY <1>1, <1>2, <1>3, <1>4, <2>1 DEF FamilyStays, Live
<1>6. TicksStay /\ ChecksStay
  BY <1>1, <1>2, <1>3, <1>4 DEF TicksStay, ChecksStay, WithTickslock
<1> QED  BY <1>5, <1>6, FamilyFrame, TickFrame DEF WaitInv

\* sleep(&ticks) is called with tickslock held since the check, so no tick came between.
LEMMA SleepTicksKeepsWaits == ASSUME NEW c \in CPU, NEW p \in Slot, SleepTicks(c, p) PROVE KeepsWaits
<1> SUFFICES ASSUME StackInv, WaitInv PROVE WaitInv'
  BY DEF KeepsWaits
<1>1. /\ cproc[c] = p /\ pc[p] = "sleepcall" /\ pc' = [pc EXCEPT ![p] = "sleeping"]
      /\ state' = [state EXCEPT ![p] = "SLEEPING"] /\ chan' = [chan EXCEPT ![p] = Ticks]
      /\ UNCHANGED <<parent, killed, cproc, np, elapsed, intr, back>>
  BY DEF SleepTicks, At, Goto, cpus
<1>2. state[p] = "RUNNING" /\ p # Ticks /\ ~elapsed[p]
  BY ProcAssumption, <1>1, Executing DEF InSched, Slot, Ticks, WaitInv, TickInv, TickChecked
<1>3. \A q \in Slot : q # p => state'[q] = state[q] /\ chan'[q] = chan[q] /\ pc'[q] = pc[q]
  BY <1>1 DEF StackInv, TypeOK
<1>4. state'[p] = "SLEEPING" /\ chan'[p] = Ticks /\ pc'[p] = "sleeping"
  BY <1>1 DEF StackInv, TypeOK
<1>5. FamilyStays
  <2>1. \A q \in Slot : InFork(q)' => InFork(q) /\ Under(q)' = Under(q) /\ np'[q] = np[q]
    BY <1>1, <1>3, <1>4 DEF InFork, Under
  <2> QED  BY <1>1, <1>2, <1>3, <1>4, <2>1 DEF FamilyStays, Live
<1>6. TicksStay /\ ChecksStay
  BY <1>1, <1>2, <1>3, <1>4 DEF TicksStay, ChecksStay, WithTickslock
<1> QED  BY <1>5, <1>6, FamilyFrame, TickFrame DEF WaitInv

\* A step of a thread in fork concerns nobody in sys_sleep.
LEMMA ForkFrame ==
  ASSUME NEW p \in Slot, TickInv,
         pc'[p] \notin WithTickslock, \A q \in Slot \ {p} : pc'[q] = pc[q],
         \A q \in Slot : state'[q] = "SLEEPING" => state[q] = "SLEEPING",
         UNCHANGED <<cproc, intr, chan, elapsed>>
  PROVE  TickInv'
<1>1. TicksStay
  BY DEF TicksStay
<1>2. ChecksStay
  BY DEF ChecksStay, WithTickslock
<1> QED  BY <1>1, <1>2, TickFrame

\* allocproc takes a slot without a parent.
LEMMA AllocProcKeepsWaits == ASSUME NEW c \in CPU, NEW p \in Slot, AllocProc(c, p) PROVE KeepsWaits
<1> SUFFICES ASSUME StackInv, WaitInv PROVE WaitInv'
  BY DEF KeepsWaits
<1>1. /\ cproc[c] = p /\ pc[p] = "fork" /\ pc[p] \notin InSched
      /\ UNCHANGED <<parent, chan, killed, cproc, elapsed, intr, back>>
  BY DEF AllocProc, At, cpus, InSched
<1>2. CASE Unused = {}
  <2>1. /\ pc' = [pc EXCEPT ![p] = "sysret"] /\ np' = [np EXCEPT ![p] = Null] /\ state' = state
    BY <1>2 DEF AllocProc, ForkReturn, Goto
  <2>2. Under(p)' = "sysret" /\ \A q \in Slot \ {p} : np'[q] = np[q]
    BY <2>1 DEF Under, StackInv, TypeOK
  <2>3. Quiet(c, p, "sysret")
    BY <1>1, <2>1, <2>2 DEF Quiet, InFork
  <2> QED  BY <2>3, QuietKeeps DEF KeepsWaits
<1>3. CASE Unused # {}
  <2>1. PICK n \in Slot : n = First(Unused) /\ state[n] = "UNUSED"
    BY <1>3, FirstIn DEF Unused
  <2>2. /\ state' = [state EXCEPT ![n] = "EMBRYO"] /\ np' = [np EXCEPT ![p] = n]
        /\ pc' = [pc EXCEPT ![p] = "kalloc"]
    BY <1>3, <2>1 DEF AllocProc, Goto
  <2>3. /\ n # p /\ parent[n] = Null /\ Under(p)' = "kalloc" /\ np'[p] = n /\ state'[n] = "EMBRYO"
        /\ \A q \in Slot : q # n => state'[q] = state[q]
        /\ \A q \in Slot : q # p => pc'[q] = pc[q] /\ np'[q] = np[q]
        /\ pc'[p] = "kalloc"
    <3>1. state[p] = "RUNNING"
      BY <1>1, Executing
    <3>2. parent[n] = Null
      BY <2>1 DEF WaitInv, FamilyInv, Adopted
    <3> QED  BY <2>1, <2>2, <3>1, <3>2 DEF StackInv, TypeOK, Under
  <2>4. FamilyStays
    <3>1. \A q \in Slot : q # p /\ InFork(q)' => InFork(q) /\ Under(q)' = Under(q) /\ np'[q] = np[q]
      BY <1>1, <2>3 DEF InFork, Under
    <3> QED  BY <1>1, <2>1, <2>3, <3>1 DEF FamilyStays, Live
  <2>5. TickInv'
    BY <1>1, <2>1, <2>3, ForkFrame DEF WaitInv, WithTickslock
  <2> QED  BY <2>4, <2>5, FamilyFrame DEF WaitInv
<1> QED  BY <1>2, <1>3

\* kalloc of the stack leaves the families.
LEMMA AllocStackKeepsWaits == ASSUME NEW c \in CPU, NEW p \in Slot, AllocStack(c, p) PROVE KeepsWaits
<1> SUFFICES ASSUME StackInv, WaitInv PROVE WaitInv'
  BY DEF KeepsWaits
<1>1. /\ cproc[c] = p /\ pc[p] = "kalloc" /\ pc[p] \notin InSched
      /\ UNCHANGED <<state, parent, chan, killed, cproc, elapsed, intr, back, np>>
      /\ pc' = [pc EXCEPT ![p] = "copyuvm", ![np[p]] = "forkret"]
  BY DEF AllocStack, At, cpus, InSched
<1>2. InFork(p) /\ Under(p) = "kalloc"
  BY <1>1 DEF InFork, Under
<1>3. PICK n \in Slot : n = np[p] /\ n # p
  <2>1. state[p] = "RUNNING"
    BY <1>1, <1>2, Executing DEF InSched
  <2>2. np[p] \in Slot /\ state[np[p]] = "EMBRYO"
    BY <1>2 DEF StackInv, Embryos
  <2> QED  BY <2>1, <2>2
<1>4. /\ pc'[p] = "copyuvm" /\ pc'[n] = "forkret"
      /\ \A q \in Slot \ {p, n} : pc'[q] = pc[q]
  BY <1>1, <1>3 DEF StackInv, TypeOK
<1>5. FamilyStays
  <2>1. \A q \in Slot : InFork(q)' => InFork(q) /\ (Under(q)' = "ready" <=> Under(q) = "ready")
    BY <1>1, <1>2, <1>4 DEF InFork, Under
  <2> QED  BY <1>1, <2>1 DEF FamilyStays
<1>6. TickInv'
  <2>1. TicksStay
    BY <1>1 DEF TicksStay
  <2>2. ChecksStay
    BY <1>1, <1>4 DEF ChecksStay, WithTickslock
  <2> QED  BY <2>1, <2>2, TickFrame DEF WaitInv
<1> QED  BY <1>5, <1>6, FamilyFrame DEF WaitInv

\* The steps that end fork: the slot is given back without a parent, or becomes RUNNABLE
\* with one.
LEMMA ForkEndsKeepWaits ==
  ASSUME NEW c \in CPU, NEW p \in Slot,
         AllocStackFails(c, p) \/ CopyUvmFails(c, p) \/ ForkReady(c, p)
  PROVE  KeepsWaits
<1> SUFFICES ASSUME StackInv, WaitInv PROVE WaitInv'
  BY DEF KeepsWaits
<1>1. /\ cproc[c] = p /\ pc[p] \in {"kalloc", "copyuvm", "ready"}
      /\ UNCHANGED <<parent, chan, killed, cproc, elapsed, intr, back>>
      /\ pc' = [pc EXCEPT ![p] = "sysret"] /\ np' = [np EXCEPT ![p] = Null]
      /\ state' = [state EXCEPT ![np[p]] = IF pc[p] = "ready" THEN "RUNNABLE" ELSE "UNUSED"]
  BY DEF AllocStackFails, CopyUvmFails, ForkReady, ForkReturn, Goto, At, cpus
<1>2. InFork(p) /\ Under(p) = pc[p] /\ pc[p] \notin InSched
  BY <1>1 DEF InFork, Under, InSched
<1>3. PICK n \in Slot : n = np[p] /\ n # p /\ state[n] = "EMBRYO"
  <2>1. state[p] = "RUNNING"
    BY <1>1, <1>2, Executing DEF InSched
  <2>2. np[p] \in Slot /\ state[np[p]] = "EMBRYO"
    BY <1>2 DEF StackInv, Embryos
  <2> QED  BY <2>1, <2>2
<1>4. parent[n] = IF pc[p] = "ready" THEN p ELSE Null
  BY <1>2, <1>3 DEF WaitInv, FamilyInv, Adopted
<1>5. /\ pc'[p] = "sysret" /\ \A q \in Slot : q # p => pc'[q] = pc[q] /\ np'[q] = np[q]
      /\ \A q \in Slot : q # n => state'[q] = state[q]
      /\ state'[n] = IF pc[p] = "ready" THEN "RUNNABLE" ELSE "UNUSED"
  BY <1>1, <1>3 DEF StackInv, TypeOK
<1>6. FamilyStays
  <2>1. \A q \in Slot : InFork(q)' => InFork(q) /\ Under(q)' = Under(q) /\ np'[q] = np[q]
    BY <1>1, <1>5 DEF InFork, Under
  <2>2. p # Null
    BY DEF Slot, Null
  <2> QED  BY <1>1, <1>3, <1>4, <1>5, <2>1, <2>2 DEF FamilyStays, Live
<1>7. TickInv'
  BY <1>1, <1>2, <1>3, <1>5, ForkFrame DEF WaitInv, WithTickslock
<1> QED  BY <1>6, <1>7, FamilyFrame DEF WaitInv

\* fork sets the parent of an embryo that had none: nobody loses a child.
LEMMA CopyUvmKeepsWaits == ASSUME NEW c \in CPU, NEW p \in Slot, CopyUvm(c, p) PROVE KeepsWaits
<1> SUFFICES ASSUME StackInv, WaitInv PROVE WaitInv'
  BY DEF KeepsWaits
<1>1. /\ cproc[c] = p /\ pc[p] = "copyuvm"
      /\ UNCHANGED <<state, chan, killed, cproc, elapsed, intr, back, np>>
      /\ pc' = [pc EXCEPT ![p] = "ready"] /\ parent' = [parent EXCEPT ![np[p]] = p]
  BY DEF CopyUvm, Goto, At, cpus
<1>2. InFork(p) /\ Under(p) = "copyuvm" /\ pc[p] \notin InSched
  BY <1>1 DEF InFork, Under, InSched
<1>3. PICK n \in Slot : n = np[p] /\ n # p /\ state[n] = "EMBRYO" /\ parent[n] = Null
  <2>1. state[p] = "RUNNING"
    BY <1>1, <1>2, Executing DEF InSched
  <2>2. np[p] \in Slot /\ state[np[p]] = "EMBRYO"
    BY <1>2 DEF StackInv, Embryos
  <2>3. parent[np[p]] = Null
    BY <1>2 DEF WaitInv, FamilyInv, Adopted
  <2> QED  BY <2>1, <2>2, <2>3
<1>4. /\ pc'[p] = "ready" /\ \A q \in Slot : q # p => pc'[q] = pc[q]
      /\ parent'[n] = p /\ \A q \in Slot : q # n => parent'[q] = parent[q]
  BY <1>1, <1>3 DEF StackInv, TypeOK
<1>5. state[p] = "RUNNING" /\ p # Null
  BY <1>1, <1>2, Executing
<1>6. ParentsLive'
  BY <1>1, <1>4, <1>5 DEF WaitInv, FamilyInv, ParentsLive, Live
<1>7. NoMissedExit'
  <2>1. ASSUME NEW q \in Slot, q # p
        PROVE  Children(q)' = Children(q) /\ ZombieChildren(q)' = ZombieChildren(q)
    <3>1. q # Null
      BY DEF Slot, Null
    <3>2. Children(q)' = Children(q)
      BY <1>3, <1>4, <2>1, <3>1 DEF Children
    <3> QED  BY <1>1, <3>2 DEF ZombieChildren
  <2> QED  BY <1>1, <1>5, <2>1 DEF WaitInv, FamilyInv, NoMissedExit
<1>8. Family'
  <2>1. initproc \in Slot /\ initproc # n
    BY ProcAssumption, <1>3 DEF initproc, Slot, WaitInv, FamilyInv, Family, Live
  <2> QED  BY <1>1, <1>3, <1>4, <2>1 DEF WaitInv, FamilyInv, Family
<1>9. Adopted'
  <2>1. ASSUME NEW q \in Slot, q # p, InFork(q)'
        PROVE  InFork(q) /\ Under(q)' = Under(q) /\ np[q] # n /\ np[q] \in Slot
    <3>1. InFork(q) /\ Under(q)' = Under(q)
      BY <1>1, <1>4, <2>1 DEF InFork, Under
    <3> QED  BY <1>2, <1>3, <2>1, <3>1 DEF StackInv, Embryos
  <2>2. Under(p)' = "ready"
    BY <1>4 DEF Under
  <2>3. ASSUME NEW q \in Slot, q # p, InFork(q)'
        PROVE  parent'[np[q]] = IF Under(q)' = "ready" THEN q ELSE Null
    <3>1. InFork(q) /\ Under(q)' = Under(q) /\ np[q] \in Slot /\ np[q] # n
      BY <2>3, <2>1
    <3>2. parent[np[q]] = IF Under(q) = "ready" THEN q ELSE Null
      BY <3>1 DEF WaitInv, FamilyInv, Adopted
    <3> QED  BY <1>4, <3>1, <3>2
  <2>4. \A q \in Slot : state'[q] = "UNUSED" => parent'[q] = Null
    BY <1>1, <1>3, <1>4 DEF WaitInv, FamilyInv, Adopted
  <2>5. parent'[np'[p]] = p /\ np' = np
    BY <1>1, <1>3, <1>4
  <2> QED  BY <2>2, <2>3, <2>4, <2>5 DEF Adopted
<1>10. TickInv'
  BY <1>1, <1>2, <1>3, <1>4, ForkFrame DEF WaitInv, WithTickslock
<1> QED  BY <1>6, <1>7, <1>8, <1>9, <1>10 DEF WaitInv, FamilyInv

=============================================================================
