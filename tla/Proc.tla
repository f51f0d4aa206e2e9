-------------------------------- MODULE Proc --------------------------------
(***************************************************************************)
(* The xv6 process table (xv6/proc.c): fork, exit, wait, kill, sleep and   *)
(* wakeup, the per-CPU schedulers and the hand-over of ptable.lock through *)
(* swtch, with the timer interrupt and the kill points of xv6/trap.c,      *)
(* sys_sleep and sys_getppid of xv6/sysproc.c and the loop of xv6/init.c.  *)
(*                                                                         *)
(* A step is one stretch of kernel code between two points where another   *)
(* CPU or an interrupt can be seen: a critical section of ptable.lock that *)
(* does not switch stacks is one step; one that does is split at swtch.    *)
(***************************************************************************)
EXTENDS Integers, FiniteSets

CONSTANTS NPROC,      \* size of ptable.proc
          CPU,        \* the processors
          cpu0,       \* the one whose timer advances ticks
          NoCpu,      \* "no processor", the owner of a free spinlock
          MaxPid,     \* bound on nextpid: AllocProc stops there
          Syscalls,   \* the system calls user programs make
          KillArgs    \* the arguments they pass to kill

Ops == {"fork", "exit", "wait", "kill", "sleep", "getppid"}

ASSUME ProcAssumption ==
  /\ NPROC \in Nat \ {0}
  /\ cpu0 \in CPU
  /\ NoCpu \notin CPU
  /\ MaxPid \in Nat
  /\ Syscalls \subseteq Ops
  /\ KillArgs \subseteq Nat

Slot == 1..NPROC
Null == 0                  \* the null struct proc pointer
initproc == 1              \* userinit takes the first slot
Ticks == NPROC + 1         \* the channel &ticks; the others are slots

VARIABLES
  \* ptable, indexed by slot
  state, pid, parent, chan, killed, kstack, nextpid,
  \* ptable.lock and tickslock: the CPU that holds each
  lock, tickslock,
  \* per CPU: c->proc (on whose stack it runs; Null is the scheduler's), the
  \* slot the scheduler loop looks at next (0 outside ptable.lock) and the
  \* step of the timer handler it is in
  cproc, scan, intr,
  \* per kernel thread: where it is, where a trap returns to, the local np of
  \* fork (the pointer read in getppid), and "ticks - ticks0 >= n" of sys_sleep
  pc, back, np, elapsed,
  \* the local pid of init's main (0: no shell, -1: fork failed), and panic()
  shpid, panicked

table == <<state, pid, parent, chan, killed, kstack, nextpid>>
cpus  == <<cproc, scan, intr>>
vars  == <<table, lock, tickslock, cpus, pc, back, np, elapsed, shpid, panicked>>

Init ==                                   \* after userinit, CPUs in scheduler
  /\ state = [p \in Slot |-> IF p = initproc THEN "RUNNABLE" ELSE "UNUSED"]
  /\ pid = [p \in Slot |-> IF p = initproc THEN 1 ELSE 0]
  /\ parent = [p \in Slot |-> Null]
  /\ chan = [p \in Slot |-> Null]
  /\ killed = [p \in Slot |-> FALSE]
  /\ kstack = [p \in Slot |-> p = initproc]
  /\ nextpid = 2
  /\ lock = NoCpu /\ tickslock = NoCpu
  /\ cproc = [c \in CPU |-> Null]
  /\ scan = [c \in CPU |-> 0]
  /\ intr = [c \in CPU |-> "no"]
  /\ pc = [p \in Slot |-> IF p = initproc THEN "forkret" ELSE "dead"]
  /\ back = [p \in Slot |-> "user"]
  /\ np = [p \in Slot |-> Null]
  /\ elapsed = [p \in Slot |-> TRUE]
  /\ shpid = 0
  /\ panicked = "no"

-----------------------------------------------------------------------------
First(S) == CHOOSE p \in S : \A q \in S : p <= q     \* first in table order

wakeup1(st, ch) ==
  [p \in Slot |-> IF st[p] = "SLEEPING" /\ chan[p] = ch THEN "RUNNABLE" ELSE st[p]]

\* CPU c executes process p at location l, outside an interrupt handler.
At(c, p, l) == cproc[c] = p /\ intr[c] = "no" /\ pc[p] = l

Goto(p, l) == pc' = [pc EXCEPT ![p] = l]

(***************************************************************************)
(* trap(T_SYSCALL): the kill point before and the one after the call.      *)
(***************************************************************************)
\* What the user program calls next: init.c for init, anything for the rest.
UserCalls(p) ==
  IF p # initproc THEN Syscalls
  ELSE IF shpid = 0 THEN {"fork"} ELSE IF shpid = -1 THEN {"exit"} ELSE {"wait"}

Syscall(c, p) ==
  /\ At(c, p, "user")
  /\ IF killed[p] THEN Goto(p, "exit") ELSE \E s \in UserCalls(p) : Goto(p, s)
  /\ UNCHANGED <<table, lock, tickslock, cpus, back, np, elapsed, shpid, panicked>>

SyscallReturn(c, p) ==
  /\ At(c, p, "sysret")
  /\ Goto(p, IF killed[p] THEN "exit" ELSE "user")
  /\ UNCHANGED <<table, lock, tickslock, cpus, back, np, elapsed, shpid, panicked>>

-----------------------------------------------------------------------------
(***************************************************************************)
(* fork: allocproc under the lock; the kernel stack, the address space and *)
(* the parent without it; RUNNABLE under it.                               *)
(***************************************************************************)
Unused == {q \in Slot : state[q] = "UNUSED"}

\* fork returns r; init's main keeps it.
ForkReturn(p, r) ==
  /\ Goto(p, "sysret")
  /\ np' = [np EXCEPT ![p] = Null]
  /\ shpid' = IF p = initproc THEN r ELSE shpid

AllocProc(c, p) ==
  /\ At(c, p, "fork") /\ lock = NoCpu
  /\ IF Unused = {}
     THEN ForkReturn(p, -1) /\ UNCHANGED <<state, pid, nextpid>>
     ELSE /\ nextpid <= MaxPid
          /\ np' = [np EXCEPT ![p] = First(Unused)]
          /\ state' = [state EXCEPT ![First(Unused)] = "EMBRYO"]
          /\ pid' = [pid EXCEPT ![First(Unused)] = nextpid]
          /\ nextpid' = nextpid + 1
          /\ Goto(p, "kalloc") /\ UNCHANGED shpid
  /\ UNCHANGED <<parent, chan, killed, kstack, lock, tickslock, cpus, back, elapsed, panicked>>

\* kalloc of the kernel stack, and the context that will start at forkret.
AllocStack(c, p) ==
  /\ At(c, p, "kalloc")
  /\ kstack' = [kstack EXCEPT ![np[p]] = TRUE]
  /\ pc' = [pc EXCEPT ![p] = "copyuvm", ![np[p]] = "forkret"]
  /\ UNCHANGED <<state, pid, parent, chan, killed, nextpid, lock, tickslock, cpus, back, np, elapsed, shpid, panicked>>

\* No memory for the stack: the slot is given back without the lock.
AllocStackFails(c, p) ==
  /\ At(c, p, "kalloc")
  /\ state' = [state EXCEPT ![np[p]] = "UNUSED"]
  /\ ForkReturn(p, -1)
  /\ UNCHANGED <<pid, parent, chan, killed, kstack, nextpid, lock, tickslock, cpus, back, elapsed, panicked>>

CopyUvm(c, p) ==
  /\ At(c, p, "copyuvm")
  /\ parent' = [parent EXCEPT ![np[p]] = p]
  /\ Goto(p, "ready")
  /\ UNCHANGED <<state, pid, chan, killed, kstack, nextpid, lock, tickslock, cpus, back, np, elapsed, shpid, panicked>>

\* No memory for the pages: stack and slot are given back without the lock.
CopyUvmFails(c, p) ==
  /\ At(c, p, "copyuvm")
  /\ kstack' = [kstack EXCEPT ![np[p]] = FALSE]
  /\ state' = [state EXCEPT ![np[p]] = "UNUSED"]
  /\ ForkReturn(p, -1)
  /\ UNCHANGED <<pid, parent, chan, killed, nextpid, lock, tickslock, cpus, back, elapsed, panicked>>

ForkReady(c, p) ==
  /\ At(c, p, "ready") /\ lock = NoCpu
  /\ state' = [state EXCEPT ![np[p]] = "RUNNABLE"]
  /\ ForkReturn(p, pid[np[p]])
  /\ UNCHANGED <<pid, parent, chan, killed, kstack, nextpid, lock, tickslock, cpus, back, elapsed, panicked>>

-----------------------------------------------------------------------------
(***************************************************************************)
(* exit: up to sched(), with ptable.lock kept for the scheduler.           *)
(***************************************************************************)
Children(p) == {q \in Slot : parent[q] = p}

\* Mutant: exit forgets to wake its parent, and init for an orphaned zombie.
ExitWithoutParent(p) == [state EXCEPT ![p] = "ZOMBIE"]

\* wakeup1(parent), reparenting with wakeup1(initproc), then ZOMBIE.
ExitStates(p) ==
  LET woken == wakeup1(state, parent[p])
      again == IF \E q \in Children(p) : state[q] = "ZOMBIE"
               THEN wakeup1(woken, initproc) ELSE woken
  IN  [again EXCEPT ![p] = "ZOMBIE"]

\* Mutant: the children keep their parent.
ExitWithoutReparenting(c, p) ==
  /\ At(c, p, "exit")
  /\ p # initproc /\ lock = NoCpu
  /\ lock' = c
  /\ state' = ExitStates(p)
  /\ Goto(p, "exiting")
  /\ UNCHANGED <<pid, parent, chan, killed, kstack, nextpid, tickslock, cpus, back, np, elapsed, shpid, panicked>>

Exit(c, p) ==
  /\ At(c, p, "exit")
  /\ p # initproc /\ lock = NoCpu
  /\ lock' = c
  /\ state' = ExitStates(p)
  /\ parent' = [q \in Slot |-> IF parent[q] = p THEN initproc ELSE parent[q]]
  /\ Goto(p, "exiting")
  /\ UNCHANGED <<pid, chan, killed, kstack, nextpid, tickslock, cpus, back, np, elapsed, shpid, panicked>>

InitExits(c, p) ==
  /\ At(c, p, "exit") /\ p = initproc
  /\ panicked' = "init exiting"
  /\ UNCHANGED <<table, lock, tickslock, cpus, pc, back, np, elapsed, shpid>>

(***************************************************************************)
(* wait: acquire, then scan; a scan that finds nothing sleeps on curproc   *)
(* with ptable.lock itself as the lock.                                    *)
(***************************************************************************)
WaitEnter(c, p) ==
  /\ At(c, p, "wait") /\ lock = NoCpu
  /\ lock' = c
  /\ Goto(p, "waitscan")
  /\ UNCHANGED <<table, tickslock, cpus, back, np, elapsed, shpid, panicked>>

ZombieChildren(p) == {q \in Children(p) : state[q] = "ZOMBIE"}

\* init's loop restarts the shell when wait returns the shell's pid or -1.
WaitReturns(p, r) ==
  shpid' = IF p = initproc /\ r \in {shpid, -1} THEN 0 ELSE shpid

Reap(c, p) ==
  /\ At(c, p, "waitscan") /\ ZombieChildren(p) # {}
  /\ LET z == First(ZombieChildren(p)) IN
       /\ WaitReturns(p, pid[z])
       /\ kstack' = [kstack EXCEPT ![z] = FALSE]
       /\ pid' = [pid EXCEPT ![z] = 0]
       /\ parent' = [parent EXCEPT ![z] = Null]
       /\ killed' = [killed EXCEPT ![z] = FALSE]
       /\ state' = [state EXCEPT ![z] = "UNUSED"]
  /\ lock' = NoCpu
  /\ Goto(p, "sysret")
  /\ UNCHANGED <<chan, nextpid, tickslock, cpus, back, np, elapsed, panicked>>

MustNotWait(p) == Children(p) = {} \/ killed[p]

WaitFails(c, p) ==
  /\ At(c, p, "waitscan") /\ ZombieChildren(p) = {} /\ MustNotWait(p)
  /\ WaitReturns(p, -1)
  /\ lock' = NoCpu
  /\ Goto(p, "sysret")
  /\ UNCHANGED <<table, tickslock, cpus, back, np, elapsed, panicked>>

WaitSleep(c, p) ==
  /\ At(c, p, "waitscan") /\ ZombieChildren(p) = {} /\ ~MustNotWait(p)
  /\ chan' = [chan EXCEPT ![p] = p]
  /\ state' = [state EXCEPT ![p] = "SLEEPING"]
  /\ Goto(p, "waiting")
  /\ UNCHANGED <<pid, parent, killed, kstack, nextpid, lock, tickslock, cpus, back, np, elapsed, shpid, panicked>>

\* Back from sched() inside sleep(curproc, &ptable.lock): chan = 0, scan again.
WaitResume(c, p) ==
  /\ At(c, p, "waited")
  /\ chan' = [chan EXCEPT ![p] = Null]
  /\ Goto(p, "waitscan")
  /\ UNCHANGED <<state, pid, parent, killed, kstack, nextpid, lock, tickslock, cpus, back, np, elapsed, shpid, panicked>>

-----------------------------------------------------------------------------
(***************************************************************************)
(* kill marks the first slot whose pid matches, whatever its state.        *)
(***************************************************************************)
\* Mutant: kill leaves a sleeper asleep.
KillWithoutWakeup(c, p) ==
  /\ At(c, p, "kill") /\ lock = NoCpu
  /\ \E k \in KillArgs :
       LET hit == {q \in Slot : pid[q] = k} IN
       IF hit = {} THEN UNCHANGED killed
       ELSE killed' = [killed EXCEPT ![First(hit)] = TRUE]
  /\ Goto(p, "sysret")
  /\ UNCHANGED <<state, pid, parent, chan, kstack, nextpid, lock, tickslock, cpus, back, np, elapsed, shpid, panicked>>

Kill(c, p) ==
  /\ At(c, p, "kill") /\ lock = NoCpu
  /\ \E k \in KillArgs :
       LET hit == {q \in Slot : pid[q] = k} IN
       IF hit = {} THEN UNCHANGED <<state, killed>>
       ELSE /\ killed' = [killed EXCEPT ![First(hit)] = TRUE]
            /\ state' = [state EXCEPT ![First(hit)] =
                           IF @ = "SLEEPING" THEN "RUNNABLE" ELSE @]
  /\ Goto(p, "sysret")
  /\ UNCHANGED <<pid, parent, chan, kstack, nextpid, lock, tickslock, cpus, back, np, elapsed, shpid, panicked>>

(***************************************************************************)
(* sys_sleep(1): the condition is read under tickslock; sleep takes        *)
(* ptable.lock before it lets tickslock go.                                *)
(***************************************************************************)
SleepEnter(c, p) ==
  /\ At(c, p, "sleep") /\ tickslock = NoCpu
  /\ tickslock' = c
  /\ elapsed' = [elapsed EXCEPT ![p] = FALSE]         \* ticks0 = ticks
  /\ Goto(p, "sleepcheck")
  /\ UNCHANGED <<table, lock, cpus, back, np, shpid, panicked>>

SleepDone(c, p) ==
  /\ At(c, p, "sleepcheck") /\ (elapsed[p] \/ killed[p])
  /\ tickslock' = NoCpu
  /\ elapsed' = [elapsed EXCEPT ![p] = TRUE]           \* ticks0 is dead
  /\ Goto(p, "sysret")
  /\ UNCHANGED <<table, lock, cpus, back, np, shpid, panicked>>

\* Mutant: tickslock is released between the check and sleep().
SleepCallReleases(c, p) ==
  /\ At(c, p, "sleepcheck") /\ ~(elapsed[p] \/ killed[p])
  /\ tickslock' = NoCpu
  /\ Goto(p, "sleepcall")
  /\ UNCHANGED <<table, lock, cpus, back, np, elapsed, shpid, panicked>>

\* The check passed: the call of sleep(&ticks, &tickslock).
SleepCall(c, p) ==
  /\ At(c, p, "sleepcheck") /\ ~(elapsed[p] \/ killed[p])
  /\ Goto(p, "sleepcall")
  /\ UNCHANGED <<table, lock, tickslock, cpus, back, np, elapsed, shpid, panicked>>

SleepTicks(c, p) ==
  /\ At(c, p, "sleepcall") /\ lock = NoCpu
  /\ lock' = c /\ tickslock' = NoCpu
  /\ chan' = [chan EXCEPT ![p] = Ticks]
  /\ state' = [state EXCEPT ![p] = "SLEEPING"]
  /\ Goto(p, "sleeping")
  /\ UNCHANGED <<pid, parent, killed, kstack, nextpid, cpus, back, np, elapsed, shpid, panicked>>

SleepResume(c, p) ==
  /\ At(c, p, "slept")
  /\ chan' = [chan EXCEPT ![p] = Null]
  /\ lock' = NoCpu
  /\ Goto(p, "reacquire")
  /\ UNCHANGED <<state, pid, parent, killed, kstack, nextpid, tickslock, cpus, back, np, elapsed, shpid, panicked>>

SleepReacquire(c, p) ==
  /\ At(c, p, "reacquire") /\ tickslock = NoCpu
  /\ tickslock' = c
  /\ Goto(p, "sleepcheck")
  /\ UNCHANGED <<table, lock, cpus, back, np, elapsed, shpid, panicked>>

\* sys_getppid: the load of myproc()->parent, then the load of its pid.
ReadParent(c, p) ==
  /\ At(c, p, "getppid")
  /\ np' = [np EXCEPT ![p] = parent[p]]
  /\ Goto(p, "readppid")
  /\ UNCHANGED <<table, lock, tickslock, cpus, back, elapsed, shpid, panicked>>

ReadPpid(c, p) ==
  /\ At(c, p, "readppid")
  /\ np' = [np EXCEPT ![p] = Null]
  /\ Goto(p, "sysret")
  /\ UNCHANGED <<table, lock, tickslock, cpus, back, elapsed, shpid, panicked>>

-----------------------------------------------------------------------------
(***************************************************************************)
(* sched and scheduler: ptable.lock is taken on one stack and released on  *)
(* another, so it covers the switch.                                       *)
(***************************************************************************)
\* Where a thread that calls sched() at l continues when it is run again.
AfterSched(l) ==
  CASE l = "yielding" -> "yielded"
    [] l = "waiting"  -> "waited"
    [] l = "sleeping" -> "slept"
    [] l = "exiting"  -> "dead"

SchedPanic(c, p) ==
  IF lock # c THEN "sched ptable.lock"
  ELSE IF tickslock = c THEN "sched locks"
  ELSE IF state[p] = "RUNNING" THEN "sched running" ELSE "no"

\* sched(): swtch to c->scheduler, which clears c->proc.
Sched(c, p) ==
  /\ cproc[c] = p /\ pc[p] \in {"yielding", "waiting", "sleeping", "exiting"}
  /\ panicked' = SchedPanic(c, p)
  /\ cproc' = [cproc EXCEPT ![c] = Null]
  /\ Goto(p, AfterSched(pc[p]))
  /\ UNCHANGED <<table, lock, tickslock, scan, intr, back, np, elapsed, shpid>>

SchedulerAcquire(c) ==
  /\ cproc[c] = Null /\ scan[c] = 0 /\ intr[c] = "no" /\ lock = NoCpu
  /\ lock' = c
  /\ scan' = [scan EXCEPT ![c] = 1]
  /\ UNCHANGED <<table, tickslock, cproc, intr, pc, back, np, elapsed, shpid, panicked>>

\* The RUNNABLE slots the loop has not passed yet.
Ahead(c) == {p \in Slot : p >= scan[c] /\ state[p] = "RUNNABLE"}

\* Mutant: the loop starts over after each switch.
SchedulerRestarts(c) ==
  /\ cproc[c] = Null /\ scan[c] # 0 /\ Ahead(c) # {}
  /\ LET p == First(Ahead(c)) IN
       /\ cproc' = [cproc EXCEPT ![c] = p]
       /\ state' = [state EXCEPT ![p] = "RUNNING"]
       /\ scan' = [scan EXCEPT ![c] = 1]
  /\ UNCHANGED <<pid, parent, chan, killed, kstack, nextpid, lock, tickslock, intr, pc, back, np, elapsed, shpid, panicked>>

\* The loop skips to the next RUNNABLE slot and switches to its stack.
SchedulerRun(c) ==
  /\ cproc[c] = Null /\ scan[c] # 0 /\ Ahead(c) # {}
  /\ LET p == First(Ahead(c)) IN
       /\ cproc' = [cproc EXCEPT ![c] = p]
       /\ state' = [state EXCEPT ![p] = "RUNNING"]
       /\ scan' = [scan EXCEPT ![c] = p + 1]
  /\ UNCHANGED <<pid, parent, chan, killed, kstack, nextpid, lock, tickslock, intr, pc, back, np, elapsed, shpid, panicked>>

SchedulerRelease(c) ==
  /\ cproc[c] = Null /\ scan[c] # 0 /\ Ahead(c) = {}
  /\ lock' = NoCpu
  /\ scan' = [scan EXCEPT ![c] = 0]
  /\ UNCHANGED <<table, tickslock, cproc, intr, pc, back, np, elapsed, shpid, panicked>>

\* A new process starts here, holding the lock the scheduler took.
ForkRet(c, p) ==
  /\ At(c, p, "forkret")
  /\ lock' = NoCpu
  /\ Goto(p, "user")
  /\ UNCHANGED <<table, tickslock, cpus, back, np, elapsed, shpid, panicked>>

-----------------------------------------------------------------------------
(***************************************************************************)
(* trap(IRQ_TIMER).  Spinlocks disable interrupts on the CPU that holds    *)
(* them; the handler itself runs with interrupts off.                      *)
(***************************************************************************)
InUser(p) == pc[p] = "user"

Interrupt(c) ==
  /\ intr[c] = "no" /\ lock # c /\ tickslock # c
  /\ cproc[c] # Null => pc[cproc[c]] \notin {"yield", "trapret"}
  /\ intr' = [intr EXCEPT ![c] = IF c = cpu0 THEN "tick" ELSE "return"]
  /\ UNCHANGED <<table, lock, tickslock, cproc, scan, pc, back, np, elapsed, shpid, panicked>>

TickCount(c) ==
  /\ intr[c] = "tick" /\ tickslock = NoCpu
  /\ tickslock' = c
  /\ elapsed' = [p \in Slot |-> TRUE]                 \* ticks++
  /\ intr' = [intr EXCEPT ![c] = "wakeup"]
  /\ UNCHANGED <<table, lock, cproc, scan, pc, back, np, shpid, panicked>>

TickWakeup(c) ==
  /\ intr[c] = "wakeup" /\ lock = NoCpu
  /\ state' = wakeup1(state, Ticks)
  /\ tickslock' = NoCpu
  /\ intr' = [intr EXCEPT ![c] = "return"]
  /\ UNCHANGED <<pid, parent, chan, killed, kstack, nextpid, lock, cproc, scan, pc, back, np, elapsed, shpid, panicked>>

\* The kill point of an interrupted user program, then the way to yield.
AfterInterrupt(c) ==
  /\ intr[c] = "return"
  /\ LET p == cproc[c] IN
       IF p = Null THEN UNCHANGED <<pc, back>>
       ELSE IF killed[p] /\ InUser(p) THEN Goto(p, "exit") /\ UNCHANGED back
       ELSE Goto(p, "yield") /\ back' = [back EXCEPT ![p] = pc[p]]
  /\ intr' = [intr EXCEPT ![c] = "no"]
  /\ UNCHANGED <<table, lock, tickslock, cproc, scan, np, elapsed, shpid, panicked>>

\* Mutant: yield does not take ptable.lock.
YieldUnlocked(c, p) ==
  /\ At(c, p, "yield") /\ lock = NoCpu
  /\ state' = [state EXCEPT ![p] = "RUNNABLE"]
  /\ Goto(p, "yielding")
  /\ UNCHANGED <<pid, parent, chan, killed, kstack, nextpid, lock, tickslock, cpus, back, np, elapsed, shpid, panicked>>

Yield(c, p) ==
  /\ At(c, p, "yield") /\ lock = NoCpu
  /\ lock' = c
  /\ state' = [state EXCEPT ![p] = "RUNNABLE"]
  /\ Goto(p, "yielding")
  /\ UNCHANGED <<pid, parent, chan, killed, kstack, nextpid, tickslock, cpus, back, np, elapsed, shpid, panicked>>

YieldResume(c, p) ==
  /\ At(c, p, "yielded")
  /\ lock' = NoCpu
  /\ Goto(p, "trapret")
  /\ UNCHANGED <<table, tickslock, cpus, back, np, elapsed, shpid, panicked>>

\* The last kill point, then iret to where the timer struck.
TrapReturn(c, p) ==
  /\ At(c, p, "trapret")
  /\ Goto(p, IF killed[p] /\ back[p] = "user" THEN "exit" ELSE back[p])
  /\ back' = [back EXCEPT ![p] = "user"]
  /\ UNCHANGED <<table, lock, tickslock, cpus, np, elapsed, shpid, panicked>>

-----------------------------------------------------------------------------
\* The steps of process p on CPU c inside a system call.
CallStep(c, p) ==
  \/ SyscallReturn(c, p) \/ ForkRet(c, p)
  \/ AllocProc(c, p) \/ AllocStack(c, p) \/ AllocStackFails(c, p)
  \/ CopyUvm(c, p) \/ CopyUvmFails(c, p) \/ ForkReady(c, p)
  \/ Exit(c, p) \/ InitExits(c, p)
  \/ WaitEnter(c, p) \/ Reap(c, p) \/ WaitFails(c, p) \/ WaitSleep(c, p) \/ WaitResume(c, p)
  \/ Kill(c, p)
  \/ SleepEnter(c, p) \/ SleepDone(c, p) \/ SleepCall(c, p) \/ SleepTicks(c, p)
  \/ SleepResume(c, p) \/ SleepReacquire(c, p)
  \/ ReadParent(c, p) \/ ReadPpid(c, p)

\* Its steps through sched() and through the end of a timer interrupt.
SwitchStep(c, p) == Sched(c, p) \/ Yield(c, p) \/ YieldResume(c, p) \/ TrapReturn(c, p)

SchedulerStep(c) == SchedulerAcquire(c) \/ SchedulerRun(c) \/ SchedulerRelease(c)

HandlerStep(c) == TickCount(c) \/ TickWakeup(c) \/ AfterInterrupt(c)

Running ==
  \E c \in CPU :
    \/ \E p \in Slot : Syscall(c, p) \/ CallStep(c, p) \/ SwitchStep(c, p)
    \/ SchedulerStep(c) \/ Interrupt(c) \/ HandlerStep(c)

\* panic() freezes the machine.
Halted == panicked # "no" /\ UNCHANGED vars

Next == (panicked = "no" /\ Running) \/ Halted

Spec == Init /\ [][Next]_vars

(***************************************************************************)
(* Fairness for one CPU.  The CPU keeps executing; the timer is periodic   *)
(* and its interrupt stays pending while interrupts are off; the time      *)
(* between two ticks is long enough for a step of the scheduler or of the  *)
(* process that runs; init's program goes on to its next system call.      *)
(* Other programs may compute for ever.                                    *)
(***************************************************************************)
Up(A) == panicked = "no" /\ A
Fairness ==
  /\ \A c \in CPU : /\ SF_vars(Up(SchedulerStep(c)))
                    /\ WF_vars(Up(HandlerStep(c)))
                    /\ SF_vars(Up(Interrupt(c)))
  /\ \A p \in Slot : /\ SF_vars(Up(\E c \in CPU : CallStep(c, p)))
                     /\ WF_vars(Up(\E c \in CPU : SwitchStep(c, p)))
  /\ SF_vars(Up(\E c \in CPU : Syscall(c, initproc)))

FairSpec == Spec /\ Fairness

-----------------------------------------------------------------------------
ProcState == {"UNUSED", "EMBRYO", "SLEEPING", "RUNNABLE", "RUNNING", "ZOMBIE"}
Panic == {"no", "init exiting", "sched ptable.lock", "sched locks", "sched running"}

\* Where a thread can be preempted, and all its locations.
Preemptible == Ops \union {"user", "sysret", "kalloc", "copyuvm", "ready", "readppid", "reacquire"}
Location == Preemptible \union
  {"forkret", "dead", "waitscan", "waiting", "waited", "sleepcheck", "sleepcall",
   "sleeping", "slept", "yield", "yielding", "yielded", "trapret", "exiting"}

\* The process table, the locks, the CPUs and the thread locals have the types
\* of their C declarations.
TypeOK ==
  /\ state \in [Slot -> ProcState]
  /\ pid \in [Slot -> Nat]
  /\ parent \in [Slot -> Slot \union {Null}]
  /\ chan \in [Slot -> Slot \union {Null, Ticks}]
  /\ killed \in [Slot -> BOOLEAN]
  /\ kstack \in [Slot -> BOOLEAN]
  /\ nextpid \in Nat
  /\ lock \in CPU \union {NoCpu}
  /\ tickslock \in CPU \union {NoCpu}
  /\ cproc \in [CPU -> Slot \union {Null}]
  /\ scan \in [CPU -> 0..(NPROC + 1)]
  /\ intr \in [CPU -> {"no", "tick", "wakeup", "return"}]
  /\ pc \in [Slot -> Location]
  /\ back \in [Slot -> Preemptible]
  /\ np \in [Slot -> Slot \union {Null}]
  /\ elapsed \in [Slot -> BOOLEAN]
  /\ shpid \in Int
  /\ panicked \in Panic

\* No two CPUs run on one kernel stack, and no CPU runs on a stack that was
\* freed: exit and sleep keep ptable.lock until swtch has left the stack, so
\* wait cannot free it, nor another scheduler resume it, before that.
StacksInUse ==
  /\ \A c, d \in CPU : cproc[c] = cproc[d] /\ cproc[c] # Null => c = d
  /\ \A c \in CPU : cproc[c] # Null => kstack[cproc[c]]

\* Every process but init has a parent that can still call wait (not a zombie,
\* not a reused slot): exit hands the children over before it becomes ZOMBIE,
\* and fork sets parent before the child can be seen by exit.
Live == {"SLEEPING", "RUNNABLE", "RUNNING"}
ParentsLive ==
  \A p \in Slot :
    /\ parent[p] # Null => state[parent[p]] \in Live
    /\ p # initproc /\ state[p] \in Live \union {"ZOMBIE"} => parent[p] # Null

\* A process asleep in wait has a child, none of them has exited, and it has
\* not been killed: no exit and no kill slips in between its scan and its sleep.
NoMissedExit ==
  \A p \in Slot : state[p] = "SLEEPING" /\ chan[p] = p =>
    Children(p) # {} /\ ZombieChildren(p) = {} /\ ~killed[p]

\* A process asleep in sys_sleep whose tick has come is about to be woken: the
\* tick cannot fall between the check under tickslock and the sleep.
NoMissedTick ==
  \A p \in Slot : state[p] = "SLEEPING" /\ chan[p] = Ticks /\ elapsed[p] =>
    \E c \in CPU : intr[c] = "wakeup"

\* The only panic of this code that can be reached is "init exiting"; the
\* checks of sched never fail.
OnlyInitPanics == panicked \in {"no", "init exiting"}

(***************************************************************************)
(* The inductive invariant behind StacksInUse and OnlyInitPanics.          *)
(***************************************************************************)
InSched == {"yielding", "waiting", "sleeping", "exiting"}
Resumable == {"forkret", "yielded", "waited", "slept"}
WithLock == InSched \union Resumable \union {"waitscan"}
WithTickslock == {"sleepcheck", "sleepcall"}

\* The location in the system call, under a timer interrupt if there is one.
Under(p) == IF pc[p] \in {"yield", "yielding", "yielded", "trapret"} THEN back[p] ELSE pc[p]
InFork(p) == Under(p) \in {"kalloc", "copyuvm", "ready"}

\* Who holds the spinlocks.
LocksHeld ==
  \A c \in CPU :
    /\ cproc[c] = Null /\ scan[c] # 0 => lock = c
    /\ cproc[c] # Null /\ pc[cproc[c]] \in WithLock => lock = c
    /\ intr[c] # "no" => lock # c
    /\ tickslock = c <=> \/ intr[c] = "wakeup"
                         \/ cproc[c] # Null /\ pc[cproc[c]] \in WithTickslock

\* The timer strikes where interrupts are on, and the thread stays there.
Interrupted ==
  \A c \in CPU : intr[c] # "no" /\ cproc[c] # Null => pc[cproc[c]] \in Preemptible

\* What the state of a slot says about its thread.
ThreadStates ==
  \A p \in Slot :
    /\ state[p] \in {"UNUSED", "EMBRYO"} => pc[p] \in {"dead", "forkret"}
    /\ state[p] \in {"RUNNABLE", "SLEEPING"} => pc[p] \in (InSched \ {"exiting"}) \union Resumable
    /\ state[p] = "ZOMBIE" => pc[p] \in {"exiting", "dead"}
    /\ state[p] = "RUNNING" => pc[p] \notin InSched \union {"dead"}

\* A thread inside sched has a CPU.
SchedOnCpu == \A p \in Slot : pc[p] \in InSched => \E c \in CPU : cproc[c] = p

\* A process keeps its kernel stack until it is reaped.
HasStack == \A p \in Slot : state[p] \in Live \union {"ZOMBIE"} => kstack[p]

\* A CPU runs a RUNNING process, or one on its way out through sched.
OnCpu ==
  \A c \in CPU : cproc[c] # Null =>
    state[cproc[c]] = "RUNNING" \/ pc[cproc[c]] \in InSched

\* A slot that fork is filling is an EMBRYO of that fork alone.
Embryos ==
  \A p \in Slot : InFork(p) =>
    /\ np[p] \in Slot /\ state[np[p]] = "EMBRYO"
    /\ Under(p) # "kalloc" => kstack[np[p]] /\ pc[np[p]] = "forkret"
    /\ \A q \in Slot : InFork(q) /\ np[q] = np[p] => q = p

\* Together they are preserved by every step: while a thread is between its
\* change of state and swtch, its CPU holds ptable.lock, so no scheduler picks
\* it and no wait frees it.
StackInv ==
  /\ TypeOK /\ StacksInUse /\ OnlyInitPanics
  /\ LocksHeld /\ Interrupted /\ ThreadStates /\ SchedOnCpu /\ HasStack /\ OnCpu /\ Embryos

\* An unused slot carries no pending kill: killed is "If non-zero, have been
\* killed" (proc.h), and kill is given the pid of a process.
KillHitsProcess == \A p \in Slot : state[p] = "UNUSED" => ~killed[p]

\* The machine panicked, or p waits at the bound MaxPid in fork.
Stopped(p) == panicked # "no" \/ (nextpid > MaxPid /\ "fork" \in {pc[p], back[p]})

\* The round-robin scan starves nobody: a RUNNABLE process gets a CPU.
RunnableRuns ==
  \A p \in Slot : state[p] = "RUNNABLE" ~> (state[p] = "RUNNING" \/ panicked # "no")


\* A killed process dies: it is woken, and reaches a kill point of trap().
KilledDies ==
  \A p \in Slot : (state[p] \in Live /\ killed[p])
                 ~> (state[p] \in {"ZOMBIE", "UNUSED"} \/ Stopped(p))

=============================================================================
