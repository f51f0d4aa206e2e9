------------------------------ MODULE BufCache ------------------------------
(***************************************************************************)
(* The buffer cache (xv6/bio.c), its sleep locks (xv6/sleeplock.c) and the *)
(* disk driver under it (xv6/ide.c).  A critical section of bcache.lock,   *)
(* of a sleep lock's spin lock or of idelock is one step.  The callers are *)
(* those of log.c and fs.c: they read a block, pin a change of it for the  *)
(* log, or write it.                                                       *)
(***************************************************************************)
EXTENDS Integers, Sequences, FiniteSets

CONSTANTS Proc, Buf, Block,
          NoProc, NoBuf, NoBlock,
          InitialLru,    \* the list of binit, most recently used first
          Changed,       \* the blocks that callers change, the others being read
          Faulty,        \* the blocks whose reads may fail
          MaxVersion,    \* changes of one block, at most
          MaxPinned      \* buffers the log keeps dirty, at most

ASSUME BufCacheAssumption ==
  /\ NoProc \notin Proc /\ NoBuf \notin Buf /\ NoBlock \notin Block
  /\ IsFiniteSet(Proc)
  /\ InitialLru \in Seq(Buf) /\ \A x \in Buf : \E i \in 1..Len(InitialLru) : InitialLru[i] = x

VARIABLES
  buf,        \* struct buf: block, flags, refcnt, sleep lock holder, data
  lru,        \* the list through next, from head.next to head.prev
  idequeue,
  disk, cmd, irq,     \* the drive: contents, last command, interrupt line
  pc, at, want,       \* per process: where it is, its buffer, its block
  latest,     \* history: the last contents a holder gave to each block
  panicked

io == <<idequeue, disk, cmd, irq>>
vars == <<buf, lru, io, pc, at, want, latest, panicked>>

NoCmd == [blk |-> NoBlock, write |-> FALSE, data |-> 0, done |-> TRUE]

Init ==
  /\ buf = [x \in Buf |-> [blk |-> NoBlock, valid |-> FALSE, dirty |-> FALSE,
                           refcnt |-> 0, pid |-> NoProc, data |-> 0]]
  /\ lru = InitialLru
  /\ idequeue = <<>>
  /\ disk = [b \in Block |-> 0] /\ cmd = NoCmd /\ irq = FALSE
  /\ pc = [p \in Proc |-> "out"]
  /\ at = [p \in Proc |-> NoBuf] /\ want = [p \in Proc |-> NoBlock]
  /\ latest = disk
  /\ panicked = "no"

At(p, l) == panicked = "no" /\ pc[p] = l
Goto(p, l) == pc' = [pc EXCEPT ![p] = l]

\* wakeup(chan): the sleepers at from whose buffer is x go to to; p goes to l.
Wakeup(x, from, to) ==
  [q \in Proc |-> IF pc[q] = from /\ at[q] = x THEN to ELSE pc[q]]

(***************************************************************************)
(* bget: one pass for the block, one from the tail for an unused buffer    *)
(***************************************************************************)
Cached(b) == {i \in DOMAIN lru : buf[lru[i]].blk = b}

\* Mutant: the pass stops one buffer short.
UnusedButFirst ==
  {i \in DOMAIN lru : i # 1 /\ buf[lru[i]].refcnt = 0 /\ ~buf[lru[i]].dirty}

Unused == {i \in DOMAIN lru : buf[lru[i]].refcnt = 0 /\ ~buf[lru[i]].dirty}

Enter(p, b, x) ==
  /\ at' = [at EXCEPT ![p] = x]
  /\ want' = [want EXCEPT ![p] = b]
  /\ Goto(p, "lock")

BgetHit(p, b) ==
  /\ At(p, "out") /\ Cached(b) # {}
  /\ LET x == lru[CHOOSE i \in Cached(b) : \A j \in Cached(b) : i <= j] IN
       /\ buf' = [buf EXCEPT ![x].refcnt = @ + 1]
       /\ Enter(p, b, x)
  /\ UNCHANGED <<lru, io, latest, panicked>>

\* Mutant: the flags of the old block stay.
RecycleValid(p, b) ==
  /\ At(p, "out") /\ Cached(b) = {} /\ Unused # {}
  /\ LET x == lru[CHOOSE i \in Unused : \A j \in Unused : i >= j] IN
       /\ buf' = [buf EXCEPT ![x].blk = b, ![x].refcnt = 1]
       /\ Enter(p, b, x)
  /\ UNCHANGED <<lru, io, latest, panicked>>

BgetRecycle(p, b) ==
  /\ At(p, "out") /\ Cached(b) = {} /\ Unused # {}
  /\ LET x == lru[CHOOSE i \in Unused : \A j \in Unused : i >= j] IN
       /\ buf' = [buf EXCEPT ![x].blk = b, ![x].valid = FALSE, ![x].dirty = FALSE, ![x].refcnt = 1]
       /\ Enter(p, b, x)
  /\ UNCHANGED <<lru, io, latest, panicked>>

BgetPanic(p, b) ==
  /\ At(p, "out") /\ Cached(b) = {} /\ Unused = {}
  /\ panicked' = "bget: no buffers"
  /\ UNCHANGED <<buf, lru, io, pc, at, want, latest>>

(***************************************************************************)
(* acquiresleep on the buffer, then bread's test of B_VALID                *)
(***************************************************************************)

AcquireSleep(p) ==
  /\ At(p, "lock")
  /\ IF buf[at[p]].pid # NoProc
       THEN Goto(p, "locksleep") /\ UNCHANGED buf
       ELSE /\ buf' = [buf EXCEPT ![at[p]].pid = p]
            /\ Goto(p, IF buf[at[p]].valid THEN "hold" ELSE "iderw")
  /\ UNCHANGED <<lru, io, at, want, latest, panicked>>

(***************************************************************************)
(* The driver.  idestart spins in idewait until the drive is ready, with   *)
(* idelock held: nothing of the driver happens until then.                 *)
(***************************************************************************)
idestart(x) ==
  cmd' = [blk |-> buf[x].blk, write |-> buf[x].dirty, data |-> buf[x].data, done |-> FALSE]

\* Append to idequeue, start the drive if it is idle, and sleep: the flags
\* of the buffer still ask for the transfer.
iderw(p) ==
  /\ At(p, "iderw")
  /\ idequeue' = Append(idequeue, at[p])
  /\ IF idequeue = <<>> THEN cmd.done /\ idestart(at[p]) ELSE UNCHANGED cmd
  /\ Goto(p, "iosleep")
  /\ UNCHANGED <<buf, lru, disk, irq, at, want, latest, panicked>>

\* Woken in iderw, by the handler or by kill: the while test.
IderwWoken(p) ==
  /\ At(p, "iowoken")
  /\ Goto(p, IF buf[at[p]].valid /\ ~buf[at[p]].dirty THEN "hold" ELSE "iosleep")
  /\ UNCHANGED <<buf, lru, io, at, want, latest, panicked>>

\* The drive, external: it ends its command and raises the interrupt.
DriveDone ==
  /\ ~cmd.done
  /\ disk' = IF cmd.write THEN [disk EXCEPT ![cmd.blk] = cmd.data] ELSE disk
  /\ cmd' = [NoCmd EXCEPT !.data = IF cmd.write THEN 0 ELSE disk[cmd.blk]]
  /\ irq' = TRUE
  /\ UNCHANGED <<buf, lru, idequeue, pc, at, want, latest, panicked>>

\* Mutant: the next request is not started.
FinishNoStart(x, failed) ==
  /\ failed => ~buf[x].dirty /\ buf[x].blk \in Faulty
  /\ buf[x].dirty \/ cmd.done
  /\ buf' = [buf EXCEPT ![x].valid = TRUE, ![x].dirty = FALSE,
                        ![x].data = IF buf[x].dirty \/ failed THEN @ ELSE cmd.data]
  /\ pc' = Wakeup(x, "iosleep", "iowoken")
  /\ idequeue' = Tail(idequeue)
  /\ UNCHANGED cmd

\* The first request is over: the data of a read is taken when the drive is
\* ready and reports no error, the sleeper wakes, the next request starts.
Finish(x, failed) ==
  /\ failed => ~buf[x].dirty /\ buf[x].blk \in Faulty
  /\ buf[x].dirty \/ cmd.done
  /\ buf' = [buf EXCEPT ![x].valid = TRUE, ![x].dirty = FALSE,
                        ![x].data = IF buf[x].dirty \/ failed THEN @ ELSE cmd.data]
  /\ pc' = Wakeup(x, "iosleep", "iowoken")
  /\ idequeue' = Tail(idequeue)
  /\ IF idequeue' # <<>> THEN cmd.done /\ idestart(Head(idequeue')) ELSE UNCHANGED cmd

\* The handler runs for the drive's interrupt, or for a spurious one (then
\* the interrupt of the command is still to come).
ideintr(spurious) ==
  /\ panicked = "no"
  /\ spurious \/ irq
  /\ irq' = (irq /\ spurious)
  /\ IF idequeue = <<>>
       THEN ~spurious /\ UNCHANGED <<buf, pc, idequeue, cmd>>
       ELSE \E failed \in BOOLEAN : Finish(Head(idequeue), failed)
  /\ UNCHANGED <<lru, disk, at, want, latest, panicked>>

(***************************************************************************)
(* What the holder of a buffer does: change and pin it (log_write), change *)
(* it or not and write it (bwrite), give it back (brelse)                  *)
(***************************************************************************)
Pinned == {x \in Buf : buf[x].dirty /\ buf[x].pid = NoProc}

Change(p) ==
  /\ want[p] \in Changed /\ latest[want[p]] < MaxVersion
  /\ latest' = [latest EXCEPT ![want[p]] = @ + 1]

LogWrite(p) ==
  /\ At(p, "hold") /\ Cardinality(Pinned \union {at[p]}) <= MaxPinned
  /\ Change(p)
  /\ buf' = [buf EXCEPT ![at[p]].data = latest'[want[p]], ![at[p]].dirty = TRUE]
  /\ Goto(p, "brelse")
  /\ UNCHANGED <<lru, io, at, want, panicked>>

bwrite(p) ==
  /\ At(p, "hold")
  /\ \/ Change(p) /\ buf' = [buf EXCEPT ![at[p]].data = latest'[want[p]], ![at[p]].dirty = TRUE]
     \/ UNCHANGED latest /\ buf' = [buf EXCEPT ![at[p]].dirty = TRUE]
  /\ Goto(p, "iderw")
  /\ UNCHANGED <<lru, io, at, want, panicked>>

Keep(p) ==
  /\ At(p, "hold")
  /\ Goto(p, "brelse")
  /\ UNCHANGED <<buf, lru, io, at, want, latest, panicked>>

\* Mutant: releasesleep wakes nobody.
ReleaseSilent(p) ==
  /\ At(p, "brelse")
  /\ buf' = [buf EXCEPT ![at[p]].pid = NoProc]
  /\ Goto(p, "brelse2")
  /\ UNCHANGED <<lru, io, at, want, latest, panicked>>

ReleaseSleep(p) ==
  /\ At(p, "brelse")
  /\ buf' = [buf EXCEPT ![at[p]].pid = NoProc]
  /\ pc' = [Wakeup(at[p], "locksleep", "lock") EXCEPT ![p] = "brelse2"]
  /\ UNCHANGED <<lru, io, at, want, latest, panicked>>

\* Unlink x and put it after head: what was before it moves one place back.
ToFront(x) ==
  LET k == CHOOSE i \in DOMAIN lru : lru[i] = x IN
  [i \in DOMAIN lru |-> IF i = 1 THEN x ELSE IF i <= k THEN lru[i - 1] ELSE lru[i]]

Brelse(p) ==
  /\ At(p, "brelse2")
  /\ buf' = [buf EXCEPT ![at[p]].refcnt = @ - 1]
  /\ lru' = IF buf[at[p]].refcnt = 1 THEN ToFront(at[p]) ELSE lru
  /\ at' = [at EXCEPT ![p] = NoBuf] /\ want' = [want EXCEPT ![p] = NoBlock]
  /\ Goto(p, "out")
  /\ UNCHANGED <<io, latest, panicked>>

\* kill makes a sleeper runnable whatever it waits for.
KillWakes(p) ==
  /\ panicked = "no"
  /\ \/ pc[p] = "locksleep" /\ Goto(p, "lock")
     \/ pc[p] = "iosleep" /\ Goto(p, "iowoken")
  /\ UNCHANGED <<buf, lru, io, at, want, latest, panicked>>

Bread(p) == \E b \in Block : BgetHit(p, b) \/ BgetRecycle(p, b) \/ BgetPanic(p, b)

\* What a process does without being asked to.
Step(p) ==
  \/ AcquireSleep(p) \/ iderw(p) \/ IderwWoken(p)
  \/ Keep(p) \/ ReleaseSleep(p) \/ Brelse(p)

Next ==
  \/ \E p \in Proc : Bread(p) \/ Step(p) \/ LogWrite(p) \/ bwrite(p) \/ KillWakes(p)
  \/ DriveDone
  \/ \E spurious \in BOOLEAN : ideintr(spurious)

\* Scheduled processes run on, the drive ends its commands, and an interrupt
\* is taken.
Fairness ==
  /\ \A p \in Proc : WF_vars(Step(p))
  /\ WF_vars(DriveDone)
  /\ WF_vars(ideintr(FALSE))

Spec == Init /\ [][Next]_vars /\ Fairness
-----------------------------------------------------------------------------
Holding == {"hold", "iderw", "iosleep", "iowoken", "brelse"}

\* The buffers, the list, the disk queue and the callers are within their types.
TypeOK ==
  /\ buf \in [Buf -> [blk : Block \union {NoBlock}, valid : BOOLEAN, dirty : BOOLEAN,
                      refcnt : Nat, pid : Proc \union {NoProc}, data : Nat]]
  /\ lru \in Seq(Buf) /\ idequeue \in Seq(Buf)
  /\ disk \in [Block -> Nat] /\ latest \in [Block -> Nat]
  /\ cmd \in [blk : Block \union {NoBlock}, write : BOOLEAN, data : Nat, done : BOOLEAN]
  /\ irq \in BOOLEAN
  /\ pc \in [Proc -> Holding \union {"out", "lock", "locksleep", "brelse2"}]
  /\ at \in [Proc -> Buf \union {NoBuf}] /\ want \in [Proc -> Block \union {NoBlock}]

\* The cache never has two buffers for a block, and two processes that hold
\* buffers, also across the sleeps of iderw, hold different ones.
Exclusive ==
  /\ \A x, y \in Buf : x # y /\ buf[x].blk = buf[y].blk => buf[x].blk = NoBlock
  /\ \A p, q \in Proc : p # q /\ pc[p] \in Holding /\ pc[q] \in Holding => at[p] # at[q]

\* bio.c: bread returns the block asked for, to one process at a time, with the
\* last contents any holder gave it, whatever was recycled, pinned or queued
\* meanwhile; only the contents of a block whose read may fail are excepted
\* (ideintr marks it B_VALID all the same).
Coherent ==
  /\ TypeOK /\ Exclusive
  /\ \A p \in Proc : pc[p] = "hold" =>
       /\ buf[at[p]].blk = want[p]
       /\ want[p] \notin Faulty => buf[at[p]].data = latest[want[p]]

\* A sleeper has something to wait for: the lock of its buffer is taken, or
\* its request is still in the queue.
NoLostWakeup ==
  \A p \in Proc :
    /\ pc[p] = "locksleep" => buf[at[p]].pid # NoProc
    /\ pc[p] = "iosleep" => \E i \in DOMAIN idequeue : idequeue[i] = at[p]

\* "bget: no buffers" only when every buffer really is pinned or in the hands
\* of a process: no count is ever left behind by a release.
NoBuffersLeft ==
  panicked # "no" =>
    \A x \in Buf : buf[x].dirty \/ \E p \in Proc : at[p] = x

\* Every request reaches the drive and comes back, other requests, spurious
\* interrupts and kills notwithstanding: a process that called iderw holds
\* its buffer again.
RequestsEnd == \A p \in Proc : pc[p] = "iosleep" ~> pc[p] = "hold" \/ panicked # "no"
=============================================================================
