--------------------------------- MODULE Log ---------------------------------
(***************************************************************************)
(* The redo log of xv6/log.c: begin_op, log_write, end_op, the group       *)
(* commit and the recovery, with a crash of the machine between any two    *)
(* steps.  A critical section of log.lock is one step; each block written  *)
(* to the disk is one step (a block is one sector).                        *)
(***************************************************************************)
EXTENDS Integers, Sequences, FiniteSets

CONSTANTS Proc,          \* processes that execute file-system calls
          Block,         \* home blocks
          Val, v0,       \* block contents, and what mkfs writes
          MAXOPBLOCKS, LOGSIZE,
          OpBlocks       \* the blocks one operation really writes, at most

ASSUME LogAssumption ==
  /\ IsFiniteSet(Proc) /\ IsFiniteSet(Block) /\ "none" \notin Block
  /\ v0 \in Val
  /\ MAXOPBLOCKS \in Nat \ {0}
  /\ LOGSIZE \in Nat
  /\ OpBlocks \in 0..MAXOPBLOCKS

size == LOGSIZE          \* sb.nlog, header included: mkfs.c writes LOGSIZE there

VARIABLES
  \* the disk: home blocks, log header, data blocks of the log
  home, hdr, dlog,
  \* the buffer cache: contents, and the blocks with B_DIRTY
  cache, dirty,
  \* struct log; lh.block[0..lh.n-1] is a sequence
  lh, outstanding, committing,
  \* per process: where it is, the locked buffer, the blocks of its operation
  pc, held, wrote,
  \* the local tail of write_log and install_trans, the step of the recovery
  tail, rec, panicked

disk == <<home, hdr, dlog>>
vars == <<disk, cache, dirty, lh, outstanding, committing, pc, held, wrote, tail, rec, panicked>>

NoBlock == "none"        \* no buffer is held

Init ==                                              \* mkfs, then a clean boot
  /\ home = [b \in Block |-> v0]
  /\ hdr = <<>>
  /\ dlog = [i \in 1..LOGSIZE |-> v0]
  /\ cache = home
  /\ dirty = {}
  /\ lh = <<>>
  /\ outstanding = 0 /\ committing = FALSE
  /\ pc = [p \in Proc |-> "out"]
  /\ held = [p \in Proc |-> NoBlock]
  /\ wrote = [p \in Proc |-> {}]
  /\ tail = 1
  /\ rec = "no"
  /\ panicked = "no"

-----------------------------------------------------------------------------
Logged(s) == {s[i] : i \in 1..Len(s)}

\* The process executes in a booted kernel.
At(p, l) == rec = "no" /\ panicked = "no" /\ pc[p] = l
Goto(p, l) == pc' = [pc EXCEPT ![p] = l]

\* wakeup(&log), and p goes on at l.
WakeupAnd(p, l) ==
  pc' = [q \in Proc |-> IF q = p THEN l ELSE IF pc[q] = "asleep" THEN "begin" ELSE pc[q]]

\* bread: a buffer that is neither dirty nor held may have been recycled, and
\* is then read from the disk again.
Bread(b) ==
  IF b \in dirty \/ \E p \in Proc : held[p] = b THEN {cache[b]} ELSE {cache[b], home[b]}

(***************************************************************************)
(* begin_op                                                                *)
(***************************************************************************)
Call(p) ==
  /\ At(p, "out")
  /\ Goto(p, "begin")
  /\ UNCHANGED <<disk, cache, dirty, lh, outstanding, committing, held, wrote, tail, rec, panicked>>

\* Mutant: the blocks already logged are not counted.
MustWaitForgets == committing \/ (outstanding + 1) * MAXOPBLOCKS > LOGSIZE

MustWait == committing \/ Len(lh) + (outstanding + 1) * MAXOPBLOCKS > LOGSIZE

BeginSleep(p) ==
  /\ At(p, "begin") /\ MustWait
  /\ Goto(p, "asleep")
  /\ UNCHANGED <<disk, cache, dirty, lh, outstanding, committing, held, wrote, tail, rec, panicked>>

BeginOp(p) ==
  /\ At(p, "begin") /\ ~MustWait
  /\ outstanding' = outstanding + 1
  /\ Goto(p, "op")
  /\ UNCHANGED <<disk, cache, dirty, lh, committing, held, wrote, tail, rec, panicked>>

(***************************************************************************)
(* bread, a change of b->data, then log_write: its two tests are made      *)
(* without log.lock.                                                       *)
(***************************************************************************)
LogCheck(p) ==
  /\ At(p, "op")
  /\ \E b \in Block, v \in Val :
       /\ \A q \in Proc : held[q] # b
       /\ Cardinality(wrote[p] \union {b}) <= OpBlocks
       /\ cache' = [cache EXCEPT ![b] = v]
       /\ held' = [held EXCEPT ![p] = b]
       /\ wrote' = [wrote EXCEPT ![p] = @ \union {b}]
  /\ panicked' = IF Len(lh) >= LOGSIZE \/ Len(lh) >= size - 1 THEN "too big a transaction"
                 ELSE IF outstanding < 1 THEN "log_write outside of trans" ELSE "no"
  /\ Goto(p, "log_write")
  /\ UNCHANGED <<disk, dirty, lh, outstanding, committing, tail, rec>>

\* Mutant: the buffer is not pinned.
LogWriteUnpinned(p) ==
  /\ At(p, "log_write")
  /\ lh' = IF held[p] \in Logged(lh) THEN lh ELSE Append(lh, held[p])
  /\ held' = [held EXCEPT ![p] = NoBlock]
  /\ Goto(p, "op")
  /\ UNCHANGED <<disk, cache, dirty, outstanding, committing, wrote, tail, rec, panicked>>

\* Under log.lock: absorb or append, pin the buffer; then brelse.
LogWrite(p) ==
  /\ At(p, "log_write")
  /\ lh' = IF held[p] \in Logged(lh) THEN lh ELSE Append(lh, held[p])
  /\ dirty' = dirty \union {held[p]}
  /\ held' = [held EXCEPT ![p] = NoBlock]
  /\ Goto(p, "op")
  /\ UNCHANGED <<disk, cache, outstanding, committing, wrote, tail, rec, panicked>>

(***************************************************************************)
(* end_op and commit                                                       *)
(***************************************************************************)
\* Mutant: end_op wakes nobody when others are still active.
EndOpSilent(p) ==
  /\ At(p, "op")
  /\ outstanding' = outstanding - 1
  /\ wrote' = [wrote EXCEPT ![p] = {}]
  /\ IF outstanding' = 0 THEN committing' = TRUE /\ Goto(p, "commit")
                         ELSE Goto(p, "out") /\ UNCHANGED committing
  /\ UNCHANGED <<disk, cache, dirty, lh, held, tail, rec, panicked>>

EndOp(p) ==
  /\ At(p, "op")
  /\ outstanding' = outstanding - 1
  /\ wrote' = [wrote EXCEPT ![p] = {}]
  /\ IF committing
     THEN panicked' = "log.committing" /\ UNCHANGED <<pc, committing>>
     ELSE /\ UNCHANGED panicked
          /\ IF outstanding' = 0
             THEN committing' = TRUE /\ Goto(p, "commit")
             ELSE WakeupAnd(p, "out") /\ UNCHANGED committing
  /\ UNCHANGED <<disk, cache, dirty, lh, held, tail, rec>>

Commit(p) ==
  /\ At(p, "commit")
  /\ Goto(p, IF lh = <<>> THEN "finish" ELSE "write_log")
  /\ tail' = 1
  /\ UNCHANGED <<disk, cache, dirty, lh, outstanding, committing, held, wrote, rec, panicked>>

\* One round of write_log: the cached block goes to the log.
WriteLog(p) ==
  /\ At(p, "write_log")
  /\ \E v \in Bread(lh[tail]) : dlog' = [dlog EXCEPT ![tail] = v]
  /\ IF tail < Len(lh) THEN tail' = tail + 1 /\ UNCHANGED pc
                       ELSE tail' = 1 /\ Goto(p, "write_head")
  /\ UNCHANGED <<home, hdr, cache, dirty, lh, outstanding, committing, held, wrote, rec, panicked>>

\* write_head with lh.n > 0: the true point of the commit.
WriteHead(p) ==
  /\ At(p, "write_head")
  /\ hdr' = lh
  /\ Goto(p, "install")
  /\ UNCHANGED <<home, dlog, cache, dirty, lh, outstanding, committing, held, wrote, tail, rec, panicked>>

\* One round of install_trans: from the log block to the home block, through
\* the home block's buffer, which bwrite leaves clean.
InstallBlock ==
  /\ home' = [home EXCEPT ![lh[tail]] = dlog[tail]]
  /\ cache' = [cache EXCEPT ![lh[tail]] = dlog[tail]]
  /\ dirty' = dirty \ {lh[tail]}

Install(p) ==
  /\ At(p, "install")
  /\ InstallBlock
  /\ IF tail < Len(lh) THEN tail' = tail + 1 /\ UNCHANGED pc
                       ELSE tail' = 1 /\ Goto(p, "erase")
  /\ UNCHANGED <<hdr, dlog, lh, outstanding, committing, held, wrote, rec, panicked>>

\* log.lh.n = 0; write_head()
Erase(p) ==
  /\ At(p, "erase")
  /\ lh' = <<>> /\ hdr' = <<>>
  /\ Goto(p, "finish")
  /\ UNCHANGED <<home, dlog, cache, dirty, outstanding, committing, held, wrote, tail, rec, panicked>>

Finish(p) ==
  /\ At(p, "finish")
  /\ committing' = FALSE
  /\ WakeupAnd(p, "out")
  /\ UNCHANGED <<disk, cache, dirty, lh, outstanding, held, wrote, tail, rec, panicked>>

(***************************************************************************)
(* A crash keeps the disk.  recover_from_log runs in the first process     *)
(* (forkret calls initlog), before any other file-system call.             *)
(***************************************************************************)
Crash ==
  /\ cache' = home /\ dirty' = {}
  /\ lh' = <<>> /\ outstanding' = 0 /\ committing' = FALSE
  /\ pc' = [p \in Proc |-> "out"]
  /\ held' = [p \in Proc |-> NoBlock]
  /\ wrote' = [p \in Proc |-> {}]
  /\ tail' = 1 /\ rec' = "read_head" /\ panicked' = "no"
  /\ UNCHANGED disk

ReadHead ==
  /\ rec = "read_head"
  /\ lh' = hdr
  /\ rec' = IF hdr = <<>> THEN "erase" ELSE "install"
  /\ UNCHANGED <<disk, cache, dirty, outstanding, committing, pc, held, wrote, tail, panicked>>

RecoverInstall ==
  /\ rec = "install"
  /\ InstallBlock
  /\ IF tail < Len(lh) THEN tail' = tail + 1 /\ UNCHANGED rec
                       ELSE tail' = 1 /\ rec' = "erase"
  /\ UNCHANGED <<hdr, dlog, lh, outstanding, committing, pc, held, wrote, panicked>>

RecoverErase ==
  /\ rec = "erase"
  /\ lh' = <<>> /\ hdr' = <<>>
  /\ rec' = "no"
  /\ UNCHANGED <<home, dlog, cache, dirty, outstanding, committing, pc, held, wrote, tail, panicked>>

Recover == ReadHead \/ RecoverInstall \/ RecoverErase

-----------------------------------------------------------------------------
\* The steps a process takes once it has called begin_op, up to its next call.
CommitStep(p) == Commit(p) \/ WriteLog(p) \/ WriteHead(p) \/ Install(p) \/ Erase(p) \/ Finish(p)
OpStep(p) == LogCheck(p) \/ LogWrite(p)

Next ==
  \/ \E p \in Proc : \/ Call(p) \/ BeginSleep(p) \/ BeginOp(p)
                     \/ OpStep(p) \/ EndOp(p) \/ CommitStep(p)
  \/ Crash \/ Recover

Spec == Init /\ [][Next]_vars

\* The kernel executes its processes; a file-system call makes a bounded number
\* of changes before its end_op; a machine that has booted completes initlog.
Fairness ==
  /\ \A p \in Proc : /\ WF_vars(LogWrite(p)) /\ SF_vars(EndOp(p)) /\ WF_vars(CommitStep(p))
  /\ WF_vars(Recover)

FairSpec == Spec /\ Fairness

-----------------------------------------------------------------------------
\* Every part of struct log, the disk and the buffer cache has its C type.
TypeOK ==
  /\ home \in [Block -> Val] /\ cache \in [Block -> Val]
  /\ dlog \in [1..LOGSIZE -> Val]
  /\ hdr \in Seq(Block) /\ lh \in Seq(Block)
  /\ Len(hdr) <= LOGSIZE /\ Len(lh) <= LOGSIZE
  /\ dirty \subseteq Block
  /\ outstanding \in 0..Cardinality(Proc) /\ committing \in BOOLEAN
  /\ pc \in [Proc -> {"out", "begin", "asleep", "op", "log_write", "commit", "write_log",
                      "write_head", "install", "erase", "finish"}]
  /\ held \in [Proc -> Block \union {NoBlock}]
  /\ wrote \in [Proc -> SUBSET Block]
  /\ tail \in 1..(LOGSIZE + 1)
  /\ rec \in {"no", "read_head", "install", "erase"}
  /\ panicked \in {"no", "too big a transaction", "log_write outside of trans", "log.committing"}

\* What recover_from_log makes of the disk as it is.
Recovered ==
  [b \in Block |-> IF b \in Logged(hdr)
                   THEN dlog[CHOOSE i \in 1..Len(hdr) : hdr[i] = b] ELSE home[b]]

\* The log implements atomic, grouped durability: whatever the interleaving of
\* operations and wherever the machine crashes, in commit or in recovery, the
\* disk recovers to the state after the last group of whole operations.
Disk == INSTANCE AtomicDisk WITH
          durable <- Recovered,
          current <- IF rec = "no" THEN cache ELSE Recovered,
          active  <- {p \in Proc : pc[p] \in {"op", "log_write"}}
CrashAtomic == Disk!Spec

\* begin_op's reservation covers the operations it lets in, whose blocks it can
\* only guess: no panic of log.c is reached, and lh.n stays within the data
\* blocks of the log, size - 1 of them, after which another block begins.
LogFits == TypeOK /\ panicked = "no" /\ Len(lh) <= size - 1

\* begin_op never sleeps for ever.
SleepersWoken == \A p \in Proc : pc[p] = "asleep" ~> pc[p] # "asleep"

=============================================================================
