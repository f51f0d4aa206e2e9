------------------------------ MODULE LogProofs ------------------------------
(***************************************************************************)
(* The crash and the recovery keep the invariant of LogSteps; from it,     *)
(* log.c implements AtomicDisk, and begin_op's reservation keeps the log    *)
(* from filling up.                                                        *)
(***************************************************************************)
EXTENDS LogSteps

-----------------------------------------------------------------------------
(***************************************************************************)
(* The crash and the recovery.                                             *)
(***************************************************************************)
LEMMA CrashKeeps ==
  ASSUME LogInv, Crash
  PROVE  LogInv' /\ Active' = {}
<1>1. /\ UNCHANGED <<home, hdr, dlog>> /\ cache' = home /\ dirty' = {} /\ lh' = <<>>
      /\ outstanding' = 0 /\ committing' = FALSE /\ tail' = 1
      /\ rec' = "read_head" /\ panicked' = "no"
      /\ pc' = [q \in Proc |-> "out"] /\ held' = [q \in Proc |-> NoBlock]
      /\ wrote' = [q \in Proc |-> {}]
  BY DEF Crash, disk
<1>2. \A q \in Proc : pc'[q] = "out" /\ held'[q] = NoBlock /\ wrote'[q] = {}
  BY <1>1
<1>3. Active' = {} /\ Counted' /\ Held' /\ Reserved' /\ Clean' /\ Pinned' /\ Committed'
  BY <1>1, <1>2, IdleFrame
<1>4. TypeOK'
  <2>1. /\ 0 \in 0..Cardinality(Proc) /\ 1 \in 1..(LOGSIZE + 1)
        /\ <<>> \in Seq(Block) /\ Len(<<>>) <= LOGSIZE
    BY EmptyLog, LogAssumption
  <2> QED  BY <1>1, <2>1, Zenon DEF LogInv, TypeOK
<1>5. Rebooted' /\ Recovering'
  BY <1>1, <1>2 DEF Rebooted, Recovering
<1>6. Distinct(lh)' /\ Distinct(hdr)'
  BY <1>1, EmptyLog DEF LogInv, Distinct
<1> QED  BY <1>3, <1>4, <1>5, <1>6 DEF LogInv

\* The steps of the recovery leave what the processes have as the boot made it.
LEMMA RecoverFrame ==
  ASSUME LogInv, Recover
  PROVE  /\ rec # "no" /\ Active = {} /\ Active' = {} /\ outstanding = 0 /\ panicked = "no"
         /\ ~committing /\ dirty = {} /\ cache = home
         /\ UNCHANGED <<dlog, outstanding, committing, pc, held, wrote, panicked>>
         /\ \A q \in Proc : pc[q] = "out" /\ held[q] = NoBlock /\ wrote[q] = {}
         /\ Counted' /\ Held' /\ Reserved'
         /\ rec' # "no" => Clean' /\ Pinned' /\ Committed'
<1>1. /\ rec # "no"
      /\ UNCHANGED <<dlog, outstanding, committing, pc, held, wrote, panicked>>
  BY DEF Recover, ReadHead, RecoverInstall, RecoverErase, disk
<1>2. /\ outstanding = 0 /\ panicked = "no" /\ ~committing /\ dirty = {} /\ cache = home
      /\ \A q \in Proc : pc[q] = "out" /\ held[q] = NoBlock /\ wrote[q] = {}
  BY <1>1 DEF LogInv, Rebooted
<1>3. Active = {}
  BY <1>2 DEF Active
<1>4. /\ Active' = {} /\ Counted' /\ Held' /\ Reserved'
      /\ rec' # "no" => Clean' /\ Pinned' /\ Committed'
  BY <1>1, <1>2, IdleFrame, Zenon
<1> QED  BY <1>1, <1>2, <1>3, <1>4

LEMMA ReadHeadKeeps == ASSUME LogInv, ReadHead PROVE LogInv'
<1>1. /\ UNCHANGED <<home, hdr, cache, dirty, tail>> /\ lh' = hdr
      /\ rec = "read_head" /\ rec' = IF hdr = <<>> THEN "erase" ELSE "install"
  BY DEF ReadHead, disk
<1>2. Recover
  BY DEF Recover
<1>3. rec' # "no"
  BY <1>1
<1>4. TypeOK'
  BY <1>1, <1>2, RecoverFrame, Zenon DEF LogInv, TypeOK
<1>5. Rebooted'
  BY <1>1, <1>2, RecoverFrame, Zenon DEF Rebooted
<1>6. Recovering'
  <2>1. tail = 1
    BY <1>1 DEF LogInv, Recovering
  <2>2. hdr # <<>> => 1 \in 1..Len(hdr)
    BY EmptyLog, Sizes
  <2>3. hdr = <<>> => Len(hdr) = 0
    BY EmptyLog
  <2> QED  BY <1>1, <2>1, <2>2, <2>3 DEF Recovering, Installed
<1>7. Distinct(lh)' /\ Distinct(hdr)'
  BY <1>1 DEF LogInv, Distinct
<1> QED  BY <1>2, <1>3, <1>4, <1>5, <1>6, <1>7, RecoverFrame DEF LogInv

LEMMA RecoverInstallKeeps == ASSUME LogInv, RecoverInstall PROVE LogInv'
<1>1. /\ UNCHANGED <<hdr, lh>> /\ rec = "install"
      /\ \/ tail < Len(lh) /\ tail' = tail + 1 /\ rec' = rec
         \/ ~(tail < Len(lh)) /\ tail' = 1 /\ rec' = "erase"
      /\ home' = [home EXCEPT ![lh[tail]] = dlog[tail]]
      /\ cache' = [cache EXCEPT ![lh[tail]] = dlog[tail]]
      /\ dirty' = dirty \ {lh[tail]}
  BY DEF RecoverInstall, InstallBlock
<1>2. Recover
  BY DEF Recover
<1>3. rec' # "no"
  BY <1>1
<1>4. tail \in 1..Len(lh) /\ hdr = lh /\ Installed(tail - 1)
  BY <1>1 DEF LogInv, Recovering
<1>5. lh[tail] \in Block /\ tail \in 1..LOGSIZE /\ dlog[tail] \in Val
  BY <1>4, Sizes
<1>6. home \in [Block -> Val] /\ cache \in [Block -> Val]
  BY Zenon DEF LogInv, TypeOK
<1>7. \A c \in Block : home'[c] = (IF c = lh[tail] THEN dlog[tail] ELSE home[c])
  BY <1>1, <1>6
<1>8. \A i \in 1..Len(lh) : i # tail => lh[i] # lh[tail]
  BY <1>4 DEF LogInv, Distinct
<1>9. \A i \in 1..tail : home'[lh[i]] = dlog[i]
  BY <1>4, <1>5, <1>7, <1>8, Sizes DEF Installed
<1>10. TypeOK'
  <2>1. tail' \in 1..(LOGSIZE + 1)
    BY <1>1, <1>5, LogAssumption
  <2>2. home' \in [Block -> Val] /\ cache' \in [Block -> Val] /\ dirty' \subseteq Block
    BY <1>1, <1>5, <1>6, Zenon DEF LogInv, TypeOK
  <2>3. rec' \in {"install", "erase"}
    BY <1>1
  <2>4. UNCHANGED <<dlog, outstanding, committing, pc, held, wrote, panicked>>
    BY <1>2, RecoverFrame
  <2> QED  BY <1>1, <2>1, <2>2, <2>3, <2>4, Zenon DEF LogInv, TypeOK
<1>11. Rebooted'
  BY <1>1, <1>2, RecoverFrame DEF Rebooted
<1>12. Recovering'
  <2>1. dlog' = dlog
    BY <1>2, RecoverFrame
  <2>2. CASE tail < Len(lh) /\ tail' = tail + 1 /\ rec' = rec
    BY <1>1, <1>4, <1>9, <2>1, <2>2, Sizes DEF Recovering, Installed
  <2>3. CASE tail = Len(lh) /\ rec' = "erase"
    BY <1>1, <1>4, <1>9, <2>1, <2>3 DEF Recovering, Installed
  <2> QED  BY <1>1, <1>4, <2>2, <2>3, Sizes
<1>13. Distinct(lh)' /\ Distinct(hdr)'
  BY <1>1 DEF LogInv, Distinct
<1> QED  BY <1>2, <1>3, <1>10, <1>11, <1>12, <1>13, RecoverFrame DEF LogInv

LEMMA RecoverEraseKeeps == ASSUME LogInv, RecoverErase PROVE LogInv'
<1>1. /\ UNCHANGED <<home, cache, dirty, tail>> /\ rec = "erase" /\ rec' = "no"
      /\ lh' = <<>> /\ hdr' = <<>>
  BY DEF RecoverErase
<1>2. /\ UNCHANGED <<dlog, outstanding, committing, pc, held, wrote, panicked>>
      /\ outstanding = 0 /\ cache = home /\ \A q \in Proc : pc[q] = "out"
      /\ Counted' /\ Held' /\ Reserved'
  BY RecoverFrame DEF Recover
<1>3. TypeOK'
  <2>1. <<>> \in Seq(Block) /\ Len(<<>>) <= LOGSIZE
    BY EmptyLog, LogAssumption
  <2> QED  BY <1>1, <1>2, <2>1, Zenon DEF LogInv, TypeOK
<1>4. Rebooted' /\ Recovering'
  BY <1>1 DEF Rebooted, Recovering
<1>5. Clean'
  BY <1>1, <1>2 DEF Clean
<1>6. Pinned' /\ Distinct(lh)' /\ Distinct(hdr)'
  BY <1>1, EmptyLog DEF Pinned, Distinct
<1>7. Committed'
  BY <1>1, <1>2 DEF Committed
<1> QED  BY <1>2, <1>3, <1>4, <1>5, <1>6, <1>7 DEF LogInv

-----------------------------------------------------------------------------
LEMMA InitKeeps == Init => LogInv
<1> SUFFICES ASSUME Init PROVE LogInv
  OBVIOUS
<1>1. TypeOK
  <2>1. /\ 0 \in 0..Cardinality(Proc) /\ 1 \in 1..(LOGSIZE + 1)
        /\ <<>> \in Seq(Block) /\ Len(<<>>) <= LOGSIZE /\ v0 \in Val
    BY EmptyLog, LogAssumption
  <2> QED  BY <2>1, Zenon DEF Init, TypeOK
<1>2. Counted
  <2>1. Active = {} /\ \A p \in Proc : pc[p] \notin CommitPlaces
    BY DEF Init, Active, CommitPlaces
  <2> QED  BY <2>1, FS_EmptySet DEF Init, Counted
<1>3. Held /\ Reserved
  BY FS_EmptySet, LogAssumption DEF Init, Held, Reserved
<1>4. Clean /\ Pinned
  BY EmptyLog DEF Init, Clean, Pinned
<1>5. Committed /\ Recovering /\ Rebooted
  BY DEF Init, Committed, Recovering, Rebooted
<1>6. Distinct(lh) /\ Distinct(hdr)
  BY EmptyLog DEF Init
<1> QED  BY <1>1, <1>2, <1>3, <1>4, <1>5, <1>6 DEF LogInv

LEMMA StepKeeps == LogInv /\ [Next]_vars => LogInv'
<1> SUFFICES ASSUME LogInv, [Next]_vars PROVE LogInv'
  OBVIOUS
<1>1. ASSUME NEW p \in Proc, Call(p) \/ BeginSleep(p) \/ BeginOp(p) PROVE LogInv'
  BY <1>1, WaitKeeps, BeginOpKeeps
<1>2. ASSUME NEW p \in Proc, OpStep(p) \/ EndOp(p) PROVE LogInv'
  BY <1>2, LogCheckKeeps, LogWriteKeeps, EndOpKeeps DEF OpStep
<1>3. ASSUME NEW p \in Proc, CommitStep(p) PROVE LogInv'
  BY <1>3, CommitKeeps, WriteLogKeeps, WriteHeadKeeps, InstallKeeps, EraseKeeps, FinishKeeps
     DEF CommitStep
<1>4. CASE Crash
  BY <1>4, CrashKeeps
<1>5. CASE Recover
  BY <1>5, ReadHeadKeeps, RecoverInstallKeeps, RecoverEraseKeeps DEF Recover
<1>6. CASE UNCHANGED vars
  <2> USE <1>6, Zenon DEF vars, disk, LogInv
  <2>1. TypeOK' /\ Rebooted' /\ Counted'
    BY DEF TypeOK, Rebooted, Counted, Active
  <2>2. Held' /\ Clean' /\ Pinned'
    BY DEF Held, Clean, Pinned, Pending, Active
  <2>3. Committed' /\ Recovering'
    BY DEF Committed, Copied, Installed, Recovering
  <2>4. Reserved' /\ Distinct(lh)' /\ Distinct(hdr)'
    BY DEF Reserved, Distinct, Done
  <2> QED  BY <2>1, <2>2, <2>3, <2>4
<1> QED  BY <1>1, <1>2, <1>3, <1>4, <1>5, <1>6 DEF Next

\* The counts of struct log, the pins in the buffer cache, and the stages of a
\* commit and of a recovery agree in every state of log.c: while the header on disk
\* is not empty it is the log of the one process that commits, or of the recovery,
\* whose copies are complete and whose first tail - 1 blocks are installed.
THEOREM LogInvariant == Spec => []LogInv
<1>1. Init => LogInv
  BY InitKeeps
<1>2. LogInv /\ [Next]_vars => LogInv'
  BY StepKeeps
<1> QED  BY <1>1, <1>2, PTL DEF Spec

-----------------------------------------------------------------------------
(***************************************************************************)
(* The refinement: recover_from_log makes Replay of a header, of the log    *)
(* blocks and of the home blocks.                                          *)
(***************************************************************************)
Replay(h, d, m) ==
  [b \in Block |-> IF b \in Logged(h) THEN d[CHOOSE i \in 1..Len(h) : h[i] = b] ELSE m[b]]

\* What the system reads.
Current == IF rec = "no" THEN cache ELSE Recovered

LEMMA RecoveredIs == Recovered = Replay(hdr, dlog, home)
  BY DEF Recovered, Replay

LEMMA RecoveredNext == Recovered' = Replay(hdr', dlog', home')
  BY DEF Recovered, Replay

LEMMA ReplayAt ==
  ASSUME NEW h \in Seq(Block), Distinct(h), NEW d, NEW m
  PROVE  /\ \A i \in 1..Len(h) : Replay(h, d, m)[h[i]] = d[i]
         /\ \A b \in Block \ Logged(h) : Replay(h, d, m)[b] = m[b]
<1>1. ASSUME NEW i \in 1..Len(h) PROVE Replay(h, d, m)[h[i]] = d[i]
  <2>1. h[i] \in Block /\ h[i] \in Logged(h)
    BY DEF Logged
  <2> DEFINE j == CHOOSE k \in 1..Len(h) : h[k] = h[i]
  <2>2. j \in 1..Len(h) /\ h[j] = h[i]
    OBVIOUS
  <2>3. Replay(h, d, m)[h[i]] = d[j]
    BY <2>1, Zenon DEF Replay
  <2> HIDE DEF j
  <2>4. j = i
    BY <2>2 DEF Distinct
  <2> QED  BY <2>3, <2>4
<1>2. ASSUME NEW b \in Block \ Logged(h) PROVE Replay(h, d, m)[b] = m[b]
  BY DEF Replay
<1> QED  BY <1>1, <1>2, Zenon

\* Two maps are equal when they agree on the blocks of a log and on the others.
LEMMA ReplayIs ==
  ASSUME NEW h \in Seq(Block), Distinct(h), NEW d, NEW m, NEW f \in [Block -> Val],
         \A i \in 1..Len(h) : f[h[i]] = d[i],
         \A b \in Block \ Logged(h) : f[b] = m[b]
  PROVE  Replay(h, d, m) = f
<1>1. ASSUME NEW b \in Block PROVE Replay(h, d, m)[b] = f[b]
  <2>1. CASE b \notin Logged(h)
    BY <2>1, ReplayAt
  <2>2. CASE b \in Logged(h)
    <3>1. PICK i \in 1..Len(h) : b = h[i]
      BY <2>2 DEF Logged
    <3>2. Replay(h, d, m)[h[i]] = d[i]
      BY ReplayAt
    <3> QED  BY <3>1, <3>2
  <2> QED  BY <2>1, <2>2
<1>2. Replay(h, d, m) = [b \in Block |-> Replay(h, d, m)[b]]
  BY DEF Replay
<1>3. f = [b \in Block |-> f[b]]
  OBVIOUS
<1> QED  BY <1>1, <1>2, <1>3

\* After the last block is installed the log changes nothing.
LEMMA ReplaySame ==
  ASSUME NEW h \in Seq(Block), Distinct(h), NEW d, NEW m \in [Block -> Val],
         \A i \in 1..Len(h) : m[h[i]] = d[i]
  PROVE  Replay(h, d, m) = m
  BY ReplayIs

\* A home block that the log covers does not matter.
LEMMA ReplayCovers ==
  ASSUME NEW h, NEW d, NEW m, NEW n, \A b \in Block \ Logged(h) : n[b] = m[b]
  PROVE  Replay(h, d, n) = Replay(h, d, m)
  BY DEF Replay

LEMMA ReplayEmpty ==
  ASSUME NEW d, NEW m \in [Block -> Val]
  PROVE  Replay(<<>>, d, m) = m
<1>1. \A b \in Block : Replay(<<>>, d, m)[b] = m[b]
  BY EmptyLog DEF Replay
<1> QED  BY <1>1 DEF Replay

\* A step that leaves the three abstract variables alone is a step of AtomicDisk.
LEMMA StutterMaps ==
  ASSUME Recovered' = Recovered, Current' = Current, Active' = Active
  PROVE  [Disk!Next]_(Disk!vars)
  BY Zenon DEF Disk!vars, Current, Active

\* What a reboot finds is not changed by a step that leaves the disk alone.
LEMMA DiskKept ==
  ASSUME UNCHANGED <<home, hdr, dlog, cache, rec>>
  PROVE  Recovered' = Recovered /\ Current' = Current
<1>1. Recovered' = Recovered
  BY RecoveredIs, RecoveredNext
<1> QED  BY <1>1 DEF Current

\* begin_op, log_write, end_op.
LEMMA OpMaps ==
  ASSUME LogInv, NEW p \in Proc,
         Call(p) \/ BeginSleep(p) \/ BeginOp(p) \/ OpStep(p) \/ EndOp(p)
  PROVE  [Disk!Next]_(Disk!vars)
<1>1. CASE Call(p) \/ BeginSleep(p)
  <2>1. UNCHANGED <<home, hdr, dlog, cache, rec>>
    BY <1>1 DEF Call, BeginSleep, disk
  <2> QED  BY <1>1, <2>1, WaitKeeps, DiskKept, StutterMaps
<1>2. CASE BeginOp(p)
  <2>1. UNCHANGED <<home, hdr, dlog, cache, rec>>
    BY <1>2 DEF BeginOp, disk
  <2>2. Active' = Active \union {p} /\ Recovered' = Recovered /\ Current' = Current
    BY <1>2, <2>1, BeginOpKeeps, DiskKept
  <2>3. Disk!Begin(p)
    BY <2>2, Zenon DEF Disk!Begin, Current, Active
  <2> QED  BY <2>3, Zenon DEF Disk!Next
<1>3. CASE LogCheck(p)
  <2>1. UNCHANGED <<home, hdr, dlog, rec>> /\ rec = "no" /\ p \in Active
    BY <1>3, Zenon DEF LogCheck, disk, At, Active
  <2>2. Active' = Active /\ Recovered' = Recovered
    BY <1>3, <2>1, LogCheckKeeps, RecoveredIs, RecoveredNext
  <2>3. PICK b \in Block, v \in Val : cache' = [cache EXCEPT ![b] = v]
    BY <1>3, Zenon DEF LogCheck
  <2>4. Current' = [Current EXCEPT ![b] = v]
    BY <2>1, <2>3 DEF Current
  <2>5. Disk!Write(p, b, v)
    BY <2>1, <2>2, <2>4, Zenon DEF Disk!Write, Current, Active
  <2> QED  BY <2>5, Zenon DEF Disk!Next
<1>4. CASE LogWrite(p)
  <2>1. UNCHANGED <<home, hdr, dlog, cache, rec>>
    BY <1>4 DEF LogWrite, disk
  <2>2. Active' = Active
    BY <1>4, LogWriteKeeps
  <2> QED  BY <2>1, <2>2, DiskKept, StutterMaps
<1>5. CASE EndOp(p)
  <2>1. UNCHANGED <<home, hdr, dlog, cache, rec>>
    BY <1>5 DEF EndOp, disk
  <2>2. Active' = Active \ {p} /\ Recovered' = Recovered /\ Current' = Current
    BY <1>5, <2>1, EndOpKeeps, DiskKept
  <2>3. Disk!End(p)
    BY <2>2, Zenon DEF Disk!End, Current, Active
  <2> QED  BY <2>3, Zenon DEF Disk!Next
<1> QED  BY <1>1, <1>2, <1>3, <1>4, <1>5 DEF OpStep

\* Writing the header is the commit of AtomicDisk: what a reboot finds becomes
\* what the system reads, at a time without an active operation.
LEMMA WriteHeadMaps ==
  ASSUME LogInv, NEW p \in Proc, WriteHead(p)
  PROVE  [Disk!Next]_(Disk!vars)
<1>1. UNCHANGED <<home, dlog, cache, rec>> /\ hdr' = lh
  BY DEF WriteHead
<1>2. pc[p] = "write_head" /\ pc[p] \in CommitPlaces
  BY DEF WriteHead, At, CommitPlaces
<1>3. rec = "no" /\ Active = {} /\ Active' = Active /\ \A q \in Proc : held[q] = NoBlock
  BY <1>2, CommitAlone, WriteHeadKeeps, Zenon
<1>4. Copied(Len(lh)) /\ Distinct(lh)
  BY <1>2, <1>3 DEF LogInv, Committed
<1>5. cache \in [Block -> Val]
  BY Zenon DEF LogInv, TypeOK
<1>6. \A b \in Block \ Logged(lh) : cache[b] = home[b]
  <2>1. \A b \in Block, q \in Proc : held[q] # b
    BY <1>3, LogAssumption DEF NoBlock
  <2> QED  BY <1>3, <2>1 DEF LogInv, Clean
<1>7. \A i \in 1..Len(lh) : cache[lh[i]] = dlog[i]
  BY <1>4 DEF Copied
<1>8. Replay(lh, dlog, home) = cache
  BY <1>4, <1>5, <1>6, <1>7, Sizes, ReplayIs
<1>9. Recovered' = cache
  BY <1>1, <1>8, RecoveredNext
<1>10. Disk!Commit
  BY <1>1, <1>3, <1>9, Zenon DEF Disk!Commit, Active
<1> QED  BY <1>10, Zenon DEF Disk!Next

\* The other steps of a commit change neither what a reboot finds nor what the
\* system reads.
LEMMA CommitMaps ==
  ASSUME LogInv, NEW p \in Proc, CommitStep(p)
  PROVE  [Disk!Next]_(Disk!vars)
<1>1. home \in [Block -> Val]
  BY Zenon DEF LogInv, TypeOK
<1>2. CASE Commit(p) \/ Finish(p)
  <2>1. UNCHANGED <<home, hdr, dlog, cache, rec>>
    BY <1>2 DEF Commit, Finish, disk
  <2> QED  BY <1>2, <2>1, CommitKeeps, FinishKeeps, DiskKept, StutterMaps
<1>3. CASE WriteLog(p)
  <2>1. UNCHANGED <<home, hdr, cache, rec>>
    BY <1>3 DEF WriteLog
  <2>2. Active' = Active /\ hdr = <<>>
    BY <1>3, WriteLogKeeps
  <2>3. Recovered' = Recovered
    BY <1>1, <2>1, <2>2, ReplayEmpty, RecoveredIs, RecoveredNext
  <2>4. Current' = Current
    BY <2>1, <2>3 DEF Current
  <2> QED  BY <2>2, <2>3, <2>4, StutterMaps
<1>4. CASE Install(p)
  <2>1. /\ home' = [home EXCEPT ![lh[tail]] = dlog[tail]]
        /\ UNCHANGED <<hdr, dlog, rec>> /\ pc[p] = "install" /\ pc[p] \in CommitPlaces
    BY <1>4 DEF Install, InstallBlock, At, CommitPlaces
  <2>2. Active' = Active /\ cache' = cache /\ rec = "no"
    BY <1>4, <2>1, InstallKeeps, CommitAlone
  <2>3. hdr = lh /\ tail \in 1..Len(lh)
    BY <2>1, <2>2 DEF LogInv, Committed
  <2>4. \A b \in Block \ Logged(hdr) : home'[b] = home[b]
    BY <1>1, <2>1, <2>3 DEF Logged
  <2>5. Replay(hdr, dlog, home') = Replay(hdr, dlog, home)
    BY <2>4, ReplayCovers
  <2>6. Recovered' = Recovered
    BY <2>1, <2>5, RecoveredIs, RecoveredNext
  <2>7. Current' = Current
    BY <2>1, <2>2, <2>6 DEF Current
  <2> QED  BY <2>2, <2>6, <2>7, StutterMaps
<1>5. CASE Erase(p)
  <2>1. /\ UNCHANGED <<home, dlog, cache, rec>> /\ hdr' = <<>>
        /\ pc[p] = "erase" /\ pc[p] \in CommitPlaces
    BY <1>5 DEF Erase, At, CommitPlaces
  <2>2. Active' = Active /\ rec = "no"
    BY <1>5, <2>1, EraseKeeps, CommitAlone
  <2>3. hdr = lh /\ Installed(Len(lh)) /\ Distinct(lh)
    BY <2>1, <2>2 DEF LogInv, Committed
  <2>4. \A i \in 1..Len(lh) : home[lh[i]] = dlog[i]
    BY <2>3 DEF Installed
  <2>5. Replay(lh, dlog, home) = home
    BY <1>1, <2>3, <2>4, Sizes, ReplaySame, Zenon
  <2>6. Recovered' = home /\ Recovered = home
    BY <1>1, <2>1, <2>3, <2>5, ReplayEmpty, RecoveredIs, RecoveredNext
  <2>7. Current' = Current
    BY <2>1, <2>2 DEF Current
  <2> QED  BY <2>2, <2>6, <2>7, StutterMaps
<1> QED  BY <1>2, <1>3, <1>4, <1>5, WriteHeadMaps DEF CommitStep

LEMMA CrashMaps == ASSUME LogInv, Crash PROVE [Disk!Next]_(Disk!vars)
<1>1. UNCHANGED <<home, hdr, dlog>> /\ rec' # "no" /\ Active' = {}
  BY CrashKeeps, Zenon DEF Crash, disk
<1>2. Recovered' = Recovered
  BY <1>1, RecoveredIs, RecoveredNext
<1>3. Disk!Crash
  BY <1>1, <1>2, Zenon DEF Disk!Crash, Active
<1> QED  BY <1>3, Zenon DEF Disk!Next

\* The recovery is invisible: what it reads and installs is what a reboot finds.
LEMMA RecoverMaps == ASSUME LogInv, Recover PROVE [Disk!Next]_(Disk!vars)
<1>1. home \in [Block -> Val]
  BY Zenon DEF LogInv, TypeOK
<1>2. Active' = Active /\ rec # "no" /\ cache = home /\ dlog' = dlog
  BY RecoverFrame
<1>3. CASE ReadHead
  <2>1. UNCHANGED <<home, hdr, dlog>> /\ rec' # "no"
    BY <1>3 DEF ReadHead, disk
  <2>2. Recovered' = Recovered
    BY <2>1, RecoveredIs, RecoveredNext
  <2> QED  BY <1>2, <2>1, <2>2, StutterMaps DEF Current
<1>4. CASE RecoverInstall
  <2>1. /\ home' = [home EXCEPT ![lh[tail]] = dlog[tail]] /\ hdr' = hdr
        /\ rec = "install" /\ rec' # "no"
    BY <1>4 DEF RecoverInstall, InstallBlock
  <2>2. hdr = lh /\ tail \in 1..Len(lh)
    BY <2>1 DEF LogInv, Recovering
  <2>3. \A b \in Block \ Logged(hdr) : home'[b] = home[b]
    BY <1>1, <2>1, <2>2 DEF Logged
  <2>4. Replay(hdr, dlog, home') = Replay(hdr, dlog, home)
    BY <2>3, ReplayCovers
  <2>5. Recovered' = Recovered
    BY <1>2, <2>1, <2>4, RecoveredIs, RecoveredNext
  <2> QED  BY <1>2, <2>1, <2>5, StutterMaps DEF Current
<1>5. CASE RecoverErase
  <2>1. /\ UNCHANGED <<home, cache>> /\ hdr' = <<>> /\ rec = "erase" /\ rec' = "no"
    BY <1>5 DEF RecoverErase
  <2>2. hdr = lh /\ Installed(Len(lh)) /\ Distinct(lh)
    BY <2>1 DEF LogInv, Recovering
  <2>3. \A i \in 1..Len(lh) : home[lh[i]] = dlog[i]
    BY <2>2 DEF Installed
  <2>4. Replay(lh, dlog, home) = home
    BY <1>1, <2>2, <2>3, Sizes, ReplaySame, Zenon
  <2>5. Recovered' = home /\ Recovered = home
    BY <1>1, <2>1, <2>2, <2>4, ReplayEmpty, RecoveredIs, RecoveredNext
  <2>6. Current' = Current
    BY <1>2, <2>1, <2>5 DEF Current
  <2> QED  BY <1>2, <2>5, <2>6, StutterMaps
<1> QED  BY <1>3, <1>4, <1>5 DEF Recover

\* log.c implements AtomicDisk, for any number of processes and blocks and any size
\* of the log: wherever the machine crashes, in an operation, in commit or in the
\* recovery itself, the disk recovers to the last group of whole operations.
THEOREM CrashAtomicHolds == Spec => CrashAtomic
<1>1. Init => Disk!Init
  <2> SUFFICES ASSUME Init PROVE Disk!Init
    OBVIOUS
  <2>1. home \in [Block -> Val] /\ hdr = <<>> /\ rec = "no" /\ cache = home
    BY LogAssumption DEF Init
  <2>2. Recovered = home
    BY <2>1, ReplayEmpty, RecoveredIs
  <2>3. Active = {}
    BY DEF Init, Active
  <2> QED  BY <2>1, <2>2, <2>3 DEF Disk!Init, Active
<1>2. LogInv /\ [Next]_vars => [Disk!Next]_(Disk!vars)
  <2> SUFFICES ASSUME LogInv, [Next]_vars PROVE [Disk!Next]_(Disk!vars)
    OBVIOUS
  <2>1. CASE Next
    BY <2>1, OpMaps, CommitMaps, CrashMaps, RecoverMaps, Zenon DEF Next
  <2>2. CASE UNCHANGED vars
    <3>1. UNCHANGED <<home, hdr, dlog, cache, rec>> /\ Active' = Active
      BY <2>2, Zenon DEF vars, disk, Active
    <3> QED  BY <3>1, DiskKept, StutterMaps
  <2> QED  BY <2>1, <2>2
<1> QED  BY <1>1, <1>2, LogInvariant, PTL DEF CrashAtomic, Spec, Disk!Spec

-----------------------------------------------------------------------------
(***************************************************************************)
(* No panic.  param.h has LOGSIZE = 3 * MAXOPBLOCKS; an operation writes at *)
(* most MAXOPBLOCKS - 1 blocks.                                            *)
(***************************************************************************)
\* What the active operations have logged, in blocks.
LEMMA DoneSmall ==
  ASSUME LogInv, OpBlocks < MAXOPBLOCKS
  PROVE  /\ Cardinality(Done) \in Nat
         /\ Cardinality(Done) <= outstanding * MAXOPBLOCKS - outstanding
         /\ outstanding = 1 => Cardinality(Done) <= OpBlocks
<1>1. wrote \in [Proc -> SUBSET Block] /\ Active \in SUBSET Proc
  BY Zenon DEF LogInv, TypeOK, Active
<1>2. \A q \in Proc : (q \notin Active => wrote[q] = {}) /\ Cardinality(wrote[q]) <= OpBlocks
  BY DEF LogInv, Held
<1>3. Cardinality(DoneOf(wrote, lh)) <= Cardinality(Active) * OpBlocks
  BY <1>1, <1>2, DoneBound
<1>4. Cardinality(Done) <= outstanding * OpBlocks
  BY <1>3 DEF LogInv, Counted, Done
<1>5. Cardinality(Done) \in Nat /\ outstanding \in Nat
  BY DoneFinite, Sizes DEF Done
<1>6. outstanding * OpBlocks <= outstanding * MAXOPBLOCKS - outstanding
  <2>1. outstanding * (MAXOPBLOCKS - OpBlocks - 1) >= 0
    BY <1>5, LogAssumption
  <2>2. outstanding * (MAXOPBLOCKS - OpBlocks - 1)
          = outstanding * MAXOPBLOCKS - outstanding * OpBlocks - outstanding
    BY <1>5, LogAssumption
  <2>3. outstanding * OpBlocks \in Nat /\ outstanding * MAXOPBLOCKS \in Nat
    BY <1>5, LogAssumption
  <2> QED  BY <1>5, <2>1, <2>2, <2>3
<1>7. outstanding * OpBlocks \in Nat /\ outstanding * MAXOPBLOCKS \in Nat
  BY <1>5, LogAssumption
<1>8. outstanding = 1 => Cardinality(Done) <= OpBlocks
  BY <1>4, <1>5, LogAssumption
<1> QED  BY <1>4, <1>5, <1>6, <1>7, <1>8

\* One block of the log is free whenever an operation is active, and two when it is
\* about to log another block.
LEMMA RoomLeft ==
  ASSUME LogInv, Spare, OpBlocks < MAXOPBLOCKS, MAXOPBLOCKS < LOGSIZE, outstanding > 0
  PROVE  Len(lh) <= LOGSIZE - 2
<1>1. Len(lh) + outstanding * MAXOPBLOCKS <= LOGSIZE + Cardinality(Done)
  BY DEF LogInv, Reserved
<1> USE <1>1, DoneSmall, Sizes, LogAssumption
<1>2. CASE Len(lh) + outstanding * MAXOPBLOCKS < LOGSIZE + Cardinality(Done)
  BY <1>2
<1>3. CASE outstanding >= 2
  BY <1>3
<1>4. CASE outstanding = 1 /\ Len(lh) <= Cardinality(Done)
  BY <1>4
<1>5. outstanding = 1 \/ outstanding >= 2
  OBVIOUS
<1> QED  BY <1>2, <1>3, <1>4, <1>5 DEF Spare

\* A step that leaves the counts alone.
LEMMA QuietFits ==
  ASSUME FitsInv, LogInv', UNCHANGED <<lh, outstanding, wrote, panicked>>
  PROVE  FitsInv'
<1>1. Done' = Done
  BY DEF Done
<1> QED  BY <1>1 DEF FitsInv, LogInv, LogFits, Spare

\* A step after which no operation is active and the log is no longer than before
\* or than the header on disk.
LEMMA IdleFits ==
  ASSUME LogInv', outstanding' = 0, panicked' = "no", Len(lh') <= size - 1
  PROVE  FitsInv'
  BY DEF FitsInv, LogInv, LogFits, Spare

LEMMA BeginFits ==
  ASSUME FitsInv, NEW p \in Proc, BeginOp(p), LogInv'
  PROVE  FitsInv'
<1>1. /\ UNCHANGED <<lh, wrote, panicked>> /\ outstanding' = outstanding + 1
      /\ ~committing /\ rec = "no"
  BY DEF BeginOp, At, MustWait
<1>2. Done' = Done
  BY <1>1 DEF Done
<1>3. outstanding \in Nat /\ Cardinality(Done) \in Nat
  BY Sizes, DoneFinite DEF FitsInv, Done
<1>4. outstanding = 0 => Len(lh) = 0
  BY <1>1, EmptyLog, Zenon DEF FitsInv, LogInv, Committed
<1>5. Spare'
  BY <1>1, <1>2, <1>3, <1>4 DEF Spare
<1> QED  BY <1>1, <1>5 DEF FitsInv, LogInv, LogFits

LEMMA LogCheckFits ==
  ASSUME FitsInv, NEW p \in Proc, LogCheck(p), LogInv',
         OpBlocks < MAXOPBLOCKS, MAXOPBLOCKS < LOGSIZE
  PROVE  FitsInv'
<1>1. /\ p \in Active /\ UNCHANGED <<lh, outstanding>>
  BY Zenon DEF LogCheck, At, Active
<1>2. outstanding \in Nat /\ outstanding > 0
  BY <1>1, OpAlone DEF FitsInv
<1>3. Len(lh) <= LOGSIZE - 2 /\ Len(lh) \in Nat
  BY <1>2, RoomLeft, Sizes DEF FitsInv
<1>4. panicked' = "no"
  <2>1. panicked' = IF Len(lh) >= LOGSIZE \/ Len(lh) >= size - 1 THEN "too big a transaction"
                    ELSE IF outstanding < 1 THEN "log_write outside of trans" ELSE "no"
    BY Zenon DEF LogCheck
  <2>2. ~(Len(lh) >= LOGSIZE \/ Len(lh) >= size - 1)
    BY <1>3, LogAssumption DEF size
  <2>3. ~(outstanding < 1)
    BY <1>2
  <2> QED  BY <2>1, <2>2, <2>3
<1>5. Done \in SUBSET Done'
  BY LogCheckKeeps DEF FitsInv
<1>6. IsFiniteSet(Done') /\ Cardinality(Done') \in Nat /\ Cardinality(Done) \in Nat
  BY DoneFinite DEF Done
<1>7. Cardinality(Done) <= Cardinality(Done')
  BY <1>5, <1>6, FS_Subset
<1>8. Spare'
  BY <1>1, <1>3, <1>6, <1>7, Sizes, LogAssumption DEF FitsInv, Spare
<1> QED  BY <1>1, <1>4, <1>8 DEF FitsInv, LogInv, LogFits

LEMMA LogWriteFits ==
  ASSUME FitsInv, NEW p \in Proc, LogWrite(p), LogInv',
         OpBlocks < MAXOPBLOCKS, MAXOPBLOCKS < LOGSIZE
  PROVE  FitsInv'
<1>1. p \in Active /\ UNCHANGED <<outstanding, panicked>>
  BY DEF LogWrite, At, Active
<1>2. outstanding \in Nat /\ outstanding > 0
  BY <1>1, OpAlone DEF FitsInv
<1>3. /\ Len(lh') \in Len(lh)..(Len(lh) + 1)
      /\ Cardinality(Done) \in Nat /\ Cardinality(Done') \in Nat
      /\ Len(lh') - Len(lh) <= Cardinality(Done') - Cardinality(Done)
  BY LogWriteKeeps DEF FitsInv
<1>4. Len(lh) <= LOGSIZE - 2 /\ Len(lh) \in Nat /\ outstanding * MAXOPBLOCKS \in Nat
  BY <1>2, RoomLeft, Sizes DEF FitsInv
<1>5. Len(lh') <= size - 1 /\ Len(lh') \in Nat
  BY <1>3, <1>4, LogAssumption DEF size
<1>6. Spare'
  BY <1>1, <1>2, <1>3, <1>4, <1>5, LogAssumption DEF FitsInv, Spare
<1> QED  BY <1>1, <1>5, <1>6 DEF FitsInv, LogInv, LogFits

LEMMA EndFits ==
  ASSUME FitsInv, NEW p \in Proc, EndOp(p), LogInv', OpBlocks < MAXOPBLOCKS
  PROVE  FitsInv'
<1>1. p \in Active
  BY DEF EndOp, At, Active
<1>2. ~committing /\ outstanding \in Nat /\ outstanding > 0
  BY <1>1, OpAlone DEF FitsInv
<1>3. /\ UNCHANGED <<lh, panicked>> /\ outstanding' = outstanding - 1
  BY <1>2 DEF EndOp
<1>4. Cardinality(Done) <= Cardinality(Done') + OpBlocks
  BY EndOpKeeps DEF FitsInv
<1>5. Cardinality(Done) \in Nat /\ Cardinality(Done') \in Nat
  BY DoneFinite DEF Done
<1>6. Len(lh) + outstanding * MAXOPBLOCKS <= LOGSIZE + Cardinality(Done) /\ Len(lh) \in Nat
  BY <1>2, Sizes DEF FitsInv, LogInv, Reserved
<1>7. /\ (outstanding - 1) * MAXOPBLOCKS = outstanding * MAXOPBLOCKS - MAXOPBLOCKS
      /\ outstanding * MAXOPBLOCKS \in Nat
  BY <1>2, LogAssumption
<1>8. Spare'
  BY <1>2, <1>3, <1>4, <1>5, <1>6, <1>7, LogAssumption DEF Spare
<1> QED  BY <1>3, <1>8 DEF FitsInv, LogInv, LogFits

\* The header on disk fits as well: it is empty, or the log of a commit, or what a
\* commit left.
HeadFits == Len(hdr) <= size - 1

LEMMA StepFits ==
  ASSUME OpBlocks < MAXOPBLOCKS, MAXOPBLOCKS < LOGSIZE, FitsInv, HeadFits, [Next]_vars
  PROVE  FitsInv' /\ HeadFits'
<1>1. LogInv'
  BY StepKeeps DEF FitsInv
<1>2. Len(<<>>) <= size - 1
  BY EmptyLog, LogAssumption DEF size
<1>3. ASSUME NEW p \in Proc, Call(p) \/ BeginSleep(p) PROVE FitsInv' /\ HeadFits'
  BY <1>1, <1>3, QuietFits DEF Call, BeginSleep, HeadFits, disk
<1>4. ASSUME NEW p \in Proc, BeginOp(p) PROVE FitsInv' /\ HeadFits'
  BY <1>1, <1>4, BeginFits DEF BeginOp, HeadFits, disk
<1>5. ASSUME NEW p \in Proc, OpStep(p) PROVE FitsInv' /\ HeadFits'
  BY <1>1, <1>5, LogCheckFits, LogWriteFits, Zenon DEF OpStep, LogCheck, LogWrite, HeadFits, disk
<1>6. ASSUME NEW p \in Proc, EndOp(p) PROVE FitsInv' /\ HeadFits'
  BY <1>1, <1>6, EndFits, Zenon DEF EndOp, HeadFits, disk
<1>7. ASSUME NEW p \in Proc, Commit(p) \/ WriteLog(p) \/ Install(p) \/ Finish(p)
      PROVE  FitsInv' /\ HeadFits'
  BY <1>1, <1>7, QuietFits DEF Commit, WriteLog, Install, Finish, HeadFits, disk
<1>8. ASSUME NEW p \in Proc, WriteHead(p) PROVE FitsInv' /\ HeadFits'
  BY <1>1, <1>8, QuietFits DEF WriteHead, HeadFits, FitsInv, LogFits
<1>9. ASSUME NEW p \in Proc, Erase(p) PROVE FitsInv' /\ HeadFits'
  <2>1. outstanding = 0
    BY <1>9, CommitAlone DEF FitsInv, Erase, At, CommitPlaces
  <2> QED  BY <1>1, <1>2, <1>9, <2>1, IdleFits DEF Erase, HeadFits, FitsInv, LogFits
<1>10. CASE Crash
  BY <1>1, <1>2, <1>10, IdleFits DEF Crash, HeadFits, disk
<1>11. CASE Recover
  <2>1. outstanding = 0 /\ panicked = "no"
    BY <1>11 DEF FitsInv, LogInv, Rebooted, Recover, ReadHead, RecoverInstall, RecoverErase
  <2>2. UNCHANGED <<outstanding, panicked>>
    BY <1>11 DEF Recover, ReadHead, RecoverInstall, RecoverErase
  <2>3. Len(lh') <= size - 1 /\ HeadFits'
    BY <1>2, <1>11 DEF Recover, ReadHead, RecoverInstall, RecoverErase, HeadFits, disk,
       FitsInv, LogFits
  <2> QED  BY <1>1, <2>1, <2>2, <2>3, IdleFits
<1>12. CASE UNCHANGED vars
  BY <1>1, <1>12, QuietFits DEF vars, disk, HeadFits
<1> QED
  BY <1>3, <1>4, <1>5, <1>6, <1>7, <1>8, <1>9, <1>10, <1>11, <1>12 DEF Next, CommitStep

\* begin_op's reservation is enough, for any number of operations at a time: when
\* an operation writes fewer than MAXOPBLOCKS blocks, and LOGSIZE is more than
\* MAXOPBLOCKS (param.h: three times), no panic of log.c is reached and lh.n stays
\* within the size - 1 data blocks of the log.
THEOREM LogFitsHolds ==
  ASSUME OpBlocks < MAXOPBLOCKS, MAXOPBLOCKS < LOGSIZE
  PROVE  Spec => []LogFits
<1>1. Init => FitsInv /\ HeadFits
  <2> SUFFICES ASSUME Init PROVE FitsInv /\ HeadFits
    OBVIOUS
  <2>1. LogInv
    BY InitKeeps
  <2>2. Len(<<>>) <= size - 1
    BY EmptyLog, LogAssumption DEF size
  <2> QED  BY <2>1, <2>2 DEF Init, FitsInv, LogInv, LogFits, Spare, HeadFits
<1>2. FitsInv /\ HeadFits /\ [Next]_vars => FitsInv' /\ HeadFits'
  BY StepFits
<1>3. FitsInv => LogFits
  BY DEF FitsInv
<1> QED  BY <1>1, <1>2, <1>3, PTL DEF Spec
=============================================================================
