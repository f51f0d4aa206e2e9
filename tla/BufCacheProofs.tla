--------------------------- MODULE BufCacheProofs ----------------------------
(***************************************************************************)
(* bio.c over ide.c for every number of processes, buffers and blocks: the *)
(* invariant that makes the cache coherent, and what follows from it.      *)
(***************************************************************************)
EXTENDS BufCache, FiniteSetTheorems, TLAPS

Waiting == {"iosleep", "iowoken"}
Users(x) == {p \in Proc : at[p] = x}
Queued(x) == \E i \in 1..Len(idequeue) : idequeue[i] = x

\* What iderw is called for: the flags ask for a transfer.
Asked(x) == buf[x].dirty \/ ~buf[x].valid

\* The contents of a block once the command of the drive is over.
OnDisk(b) == IF ~cmd.done /\ cmd.write /\ cmd.blk = b THEN cmd.data ELSE disk[b]

\* A process between bget and the end of brelse is at a buffer of its block.
Entered ==
  \A p \in Proc :
    IF pc[p] = "out" THEN at[p] = NoBuf
    ELSE at[p] \in Buf /\ want[p] \in Block /\ buf[at[p]].blk = want[p]

\* The counts and the holders of the sleep locks are those of the processes.
Counted == \A x \in Buf : buf[x].refcnt = Cardinality(Users(x))
Locked ==
  \A p \in Proc, x \in Buf : buf[x].pid = p <=> pc[p] \in Holding /\ at[p] = x

\* Every buffer is on the list, and no block has two.
Listed == \A x \in Buf : \E i \in 1..Len(lru) : lru[i] = x
OneBuffer == \A x, y \in Buf : buf[x].blk = buf[y].blk /\ buf[x].blk # NoBlock => x = y

\* Only contents are changed or pinned, and what is held or released has some.
Filled ==
  /\ \A x \in Buf : buf[x].dirty => buf[x].valid /\ buf[x].blk \in Block
  /\ \A p \in Proc : pc[p] \in {"hold", "brelse"} => buf[at[p]].valid

\* A buffer is in the queue once, as long as its holder waits for the transfer.
Queue ==
  /\ \A i, j \in 1..Len(idequeue) : idequeue[i] = idequeue[j] => i = j
  /\ \A i \in 1..Len(idequeue) :
       Asked(idequeue[i]) /\ \E p \in Proc : pc[p] \in Waiting /\ at[p] = idequeue[i]
  /\ \A p \in Proc :
       /\ pc[p] = "iderw" => Asked(at[p])
       /\ pc[p] = "iosleep" => Queued(at[p])
       /\ pc[p] = "iowoken" => Queued(at[p]) \/ ~Asked(at[p])

\* The drive works for the first of the queue, or has done so; a command that is
\* not over names a block.
Started ==
  /\ ~cmd.done => cmd.blk \in Block
  /\ \A x \in Buf : idequeue # <<>> /\ x = idequeue[1] =>
       IF buf[x].dirty THEN OnDisk(buf[x].blk) = buf[x].data
       ELSE IF cmd.done THEN cmd.data = disk[buf[x].blk]
       ELSE cmd.blk = buf[x].blk /\ ~cmd.write

\* The last contents of a block are in its buffer, if that is valid, and on the
\* disk, unless the buffer is dirty.
Fresh ==
  /\ \A x \in Buf : buf[x].valid /\ buf[x].blk \in Block \ Faulty =>
       buf[x].data = latest[buf[x].blk]
  /\ \A b \in Block \ Faulty : OnDisk(b) = latest[b] \/ \E x \in Buf : buf[x].blk = b /\ buf[x].dirty

SleepersWait == \A p \in Proc : pc[p] = "locksleep" => buf[at[p]].pid # NoProc

BufInv ==
  /\ TypeOK /\ Entered /\ Counted /\ Locked /\ Listed /\ OneBuffer /\ Filled
  /\ Queue /\ Started /\ Fresh /\ SleepersWait /\ NoBuffersLeft

-----------------------------------------------------------------------------
BufType == [blk : Block \union {NoBlock}, valid : BOOLEAN, dirty : BOOLEAN,
            refcnt : Nat, pid : Proc \union {NoProc}, data : Nat]
PcType == Holding \union {"out", "lock", "locksleep", "brelse2"}

LEMMA Types ==
  ASSUME BufInv
  PROVE  /\ buf \in [Buf -> BufType] /\ lru \in Seq(Buf) /\ idequeue \in Seq(Buf)
         /\ disk \in [Block -> Nat] /\ latest \in [Block -> Nat] /\ irq \in BOOLEAN
         /\ cmd \in [blk : Block \union {NoBlock}, write : BOOLEAN, data : Nat, done : BOOLEAN]
         /\ pc \in [Proc -> PcType] /\ at \in [Proc -> Buf \union {NoBuf}]
         /\ want \in [Proc -> Block \union {NoBlock}]
  BY Zenon DEF BufInv, TypeOK, BufType, PcType

LEMMA QueueSize ==
  ASSUME BufInv
  PROVE  /\ \A i \in 1..Len(idequeue) : idequeue[i] \in Buf
         /\ Len(idequeue) \in Nat /\ (idequeue # <<>> => 1 \in 1..Len(idequeue))
<1>1. idequeue \in Seq(Buf)
  BY Types
<1> QED  BY <1>1

\* The flags, the block and the contents of every buffer stay.
SameData ==
  \A y \in Buf : /\ buf'[y].blk = buf[y].blk /\ buf'[y].valid = buf[y].valid
                 /\ buf'[y].dirty = buf[y].dirty /\ buf'[y].data = buf[y].data

LEMMA DataFrame ==
  ASSUME BufInv, SameData, UNCHANGED <<idequeue, disk, cmd, latest>>
  PROVE  OneBuffer' /\ Started' /\ Fresh'
<1>2. \A b : OnDisk(b)' = OnDisk(b)
  BY DEF OnDisk
<1>3. OneBuffer'
  BY DEF SameData, BufInv, OneBuffer
<1>4. Started'
  BY <1>2 DEF SameData, BufInv, Started, OnDisk
<1>5. Fresh'
  BY <1>2 DEF SameData, BufInv, Fresh
<1> QED  BY <1>3, <1>4, <1>5

LEMMA PlaceFrame ==
  ASSUME BufInv, UNCHANGED <<at, panicked>>, panicked = "no",
         \A y \in Buf : buf'[y].refcnt = buf[y].refcnt
  PROVE  Counted' /\ NoBuffersLeft'
  BY DEF BufInv, Counted, Users, NoBuffersLeft

LEMMA LockFrame ==
  ASSUME BufInv, at' = at, \A y \in Buf : buf'[y].pid = buf[y].pid,
         \A q \in Proc : pc'[q] \in Holding <=> pc[q] \in Holding
  PROVE  Locked'
  BY DEF BufInv, Locked

\* The buffers of the processes at bread, bwrite and brelse.
LEMMA EnteredAt ==
  ASSUME BufInv, NEW p \in Proc, pc[p] # "out"
  PROVE  /\ at[p] \in Buf /\ want[p] \in Block /\ buf[at[p]].blk = want[p] /\ buf[at[p]] \in BufType
         /\ pc[p] \in Holding => buf[at[p]].pid = p
         /\ \A q \in Proc : pc[p] \in Holding /\ pc[q] \in Holding /\ at[q] = at[p] => q = p
<1>1. at[p] \in Buf /\ want[p] \in Block /\ buf[at[p]].blk = want[p]
  BY DEF BufInv, Entered
<1>2. buf[at[p]] \in BufType
  BY <1>1, Types
<1>3. \A q \in Proc : pc[q] \in Holding /\ at[q] = at[p] => buf[at[p]].pid = q
  BY <1>1, Zenon DEF BufInv, Locked
<1> QED  BY <1>1, <1>2, <1>3

LEMMA NotQueued ==
  ASSUME BufInv, NEW p \in Proc, pc[p] \in Holding \ Waiting
  PROVE  \A i \in 1..Len(idequeue) : idequeue[i] # at[p]
<1> SUFFICES ASSUME NEW i \in 1..Len(idequeue), idequeue[i] = at[p] PROVE FALSE
  OBVIOUS
<1>1. PICK q \in Proc : pc[q] \in Waiting /\ at[q] = at[p]
  BY DEF BufInv, Queue
<1>2. pc[p] # "out" /\ pc[q] \in Holding
  BY <1>1 DEF Holding, Waiting
<1> QED  BY <1>1, <1>2, EnteredAt

\* The blocks of the buffers in the queue.
LEMMA QueuedBlock ==
  ASSUME BufInv, NEW i \in 1..Len(idequeue)
  PROVE  LET x == idequeue[i] IN
         /\ x \in Buf /\ buf[x] \in BufType /\ buf[x].blk \in Block /\ Asked(x)
         /\ \E p \in Proc : pc[p] \in Waiting /\ at[p] = x
<1>1. PICK p \in Proc : pc[p] \in Waiting /\ at[p] = idequeue[i]
  BY DEF BufInv, Queue
<1>2. pc[p] # "out"
  BY <1>1 DEF Waiting
<1>3. Asked(idequeue[i])
  BY DEF BufInv, Queue
<1> QED  BY <1>1, <1>2, <1>3, EnteredAt

-----------------------------------------------------------------------------
(***************************************************************************)
(* Steps that only move a process.                                         *)
(***************************************************************************)
LEMMA MoveKeeps ==
  ASSUME BufInv, NEW p \in Proc, NEW l \in PcType \ {"out", "iderw"},
         UNCHANGED <<buf, lru, io, at, want, latest, panicked>>, panicked = "no",
         pc[p] # "out", Goto(p, l), pc[p] \in Holding <=> l \in Holding,
         l = "locksleep" => buf[at[p]].pid # NoProc,
         l \in {"hold", "brelse"} => buf[at[p]].valid,
         l = "iosleep" => Queued(at[p]),
         l = "iowoken" => Queued(at[p]) \/ ~Asked(at[p]),
         pc[p] \in Waiting /\ l \notin Waiting => ~Asked(at[p])
  PROVE  BufInv'
<1>1. UNCHANGED <<buf, lru, idequeue, disk, cmd, irq, at, want, latest, panicked>>
  BY DEF io
<1>2. \A q \in Proc : pc'[q] = IF q = p THEN l ELSE pc[q]
  BY Types, Zenon DEF Goto
<1>3. TypeOK'
  BY <1>1, Zenon DEF BufInv, TypeOK, PcType, Goto
<1>4. Entered' /\ SleepersWait' /\ Listed'
  BY <1>1, <1>2 DEF BufInv, Entered, SleepersWait, Listed
<1>5. Counted' /\ NoBuffersLeft'
  BY <1>1, PlaceFrame
<1>6. Locked'
  BY <1>1, <1>2, LockFrame
<1>7. OneBuffer' /\ Started' /\ Fresh'
  BY <1>1, DataFrame DEF SameData
<1>8. Filled'
  BY <1>1, <1>2 DEF BufInv, Filled
<1>9. Queue'
  <2>1. ASSUME NEW i \in 1..Len(idequeue)
        PROVE  Asked(idequeue[i]) /\ \E q \in Proc : pc'[q] \in Waiting /\ at[q] = idequeue[i]
    <3>1. Asked(idequeue[i])
      BY DEF BufInv, Queue
    <3>2. PICK q \in Proc : pc[q] \in Waiting /\ at[q] = idequeue[i]
      BY DEF BufInv, Queue
    <3>3. pc'[q] \in Waiting
      BY <1>2, <3>1, <3>2
    <3> QED  BY <3>1, <3>2, <3>3
  <2>2. \A q \in Proc : /\ pc'[q] = "iderw" => Asked(at[q])
                        /\ pc'[q] = "iosleep" => Queued(at[q])
                        /\ pc'[q] = "iowoken" => Queued(at[q]) \/ ~Asked(at[q])
    BY <1>2 DEF BufInv, Queue
  <2>3. \A i, j \in 1..Len(idequeue) : idequeue[i] = idequeue[j] => i = j
    BY DEF BufInv, Queue
  <2>4. \A x : (Asked(x)' <=> Asked(x)) /\ (Queued(x)' <=> Queued(x))
    BY <1>1 DEF Asked, Queued
  <2> QED  BY <1>1, <2>1, <2>2, <2>3, <2>4 DEF Queue
<1> QED  BY <1>3, <1>4, <1>5, <1>6, <1>7, <1>8, <1>9 DEF BufInv

LEMMA KeepKeeps == ASSUME BufInv, NEW p \in Proc, Keep(p) PROVE BufInv'
<1>1. /\ UNCHANGED <<buf, lru, io, at, want, latest, panicked>>
      /\ panicked = "no" /\ pc[p] = "hold" /\ Goto(p, "brelse")
  BY DEF Keep, At
<1>2. buf[at[p]].valid
  BY <1>1 DEF BufInv, Filled
<1> QED  BY <1>1, <1>2, MoveKeeps DEF PcType, Holding, Waiting

LEMMA IderwWokenKeeps == ASSUME BufInv, NEW p \in Proc, IderwWoken(p) PROVE BufInv'
<1>1. /\ UNCHANGED <<buf, lru, io, at, want, latest, panicked>>
      /\ panicked = "no" /\ pc[p] = "iowoken"
      /\ Goto(p, IF Asked(at[p]) THEN "iosleep" ELSE "hold")
  <2>1. at[p] \in Buf /\ buf[at[p]] \in BufType
    BY EnteredAt DEF IderwWoken, At
  <2>2. Asked(at[p]) <=> ~(buf[at[p]].valid /\ ~buf[at[p]].dirty)
    BY <2>1 DEF Asked, BufType
  <2> QED  BY <2>2 DEF IderwWoken, At
<1>2. Queued(at[p]) \/ ~Asked(at[p])
  BY <1>1 DEF BufInv, Queue
<1>3. CASE Asked(at[p])
  BY <1>1, <1>2, <1>3, MoveKeeps DEF PcType, Holding, Waiting
<1>4. CASE ~Asked(at[p])
  BY <1>1, <1>4, MoveKeeps DEF PcType, Holding, Waiting, Asked
<1> QED  BY <1>3, <1>4

LEMMA KillWakesKeeps == ASSUME BufInv, NEW p \in Proc, KillWakes(p) PROVE BufInv'
<1>1. UNCHANGED <<buf, lru, io, at, want, latest, panicked>> /\ panicked = "no"
  BY DEF KillWakes
<1>2. CASE pc[p] = "locksleep" /\ Goto(p, "lock")
  BY <1>1, <1>2, MoveKeeps DEF PcType, Holding, Waiting
<1>3. CASE pc[p] = "iosleep" /\ Goto(p, "iowoken")
  <2>1. Queued(at[p])
    BY <1>3 DEF BufInv, Queue
  <2> QED  BY <1>1, <1>3, <2>1, MoveKeeps DEF PcType, Holding, Waiting
<1> QED  BY <1>2, <1>3 DEF KillWakes

-----------------------------------------------------------------------------
(***************************************************************************)
(* The sleep locks.                                                        *)
(***************************************************************************)
\* acquiresleep and releasesleep change the holder of one buffer.
LEMMA LockKeeps ==
  ASSUME BufInv, NEW p \in Proc, NEW l \in {"hold", "iderw", "brelse2"}, NEW h \in {p, NoProc},
         panicked = "no", UNCHANGED <<lru, io, at, want, latest, panicked>>,
         buf' = [buf EXCEPT ![at[p]].pid = h], pc[p] \in {"lock", "brelse"}, pc'[p] = l,
         h = NoProc <=> pc[p] = "brelse",
         h = NoProc <=> l = "brelse2", l = "hold" <=> pc[p] = "lock" /\ buf[at[p]].valid,
         pc[p] = "lock" => buf[at[p]].pid = NoProc,
         pc' \in [Proc -> PcType],
         \A q \in Proc : q # p => \/ pc'[q] = pc[q]
                                  \/ pc[q] = "locksleep" /\ pc'[q] = "lock",
         h = NoProc => \A q \in Proc : q # p /\ pc[q] = "locksleep" /\ at[q] = at[p] => pc'[q] = "lock"
  PROVE  BufInv'
<1>1. UNCHANGED <<lru, idequeue, disk, cmd, irq, at, want, latest, panicked>>
  BY DEF io
<1>2. at[p] \in Buf /\ want[p] \in Block /\ buf[at[p]].blk = want[p] /\ NoProc \notin Proc
  BY EnteredAt, BufCacheAssumption
<1>3. buf' \in [Buf -> BufType]
  <2>1. buf' = [buf EXCEPT ![at[p]] = [buf[at[p]] EXCEPT !.pid = h]]
    OBVIOUS
  <2>2. [buf[at[p]] EXCEPT !.pid = h] \in BufType
    <3>1. buf[at[p]] \in BufType /\ h \in Proc \union {NoProc}
      BY <1>2, Types, Zenon
    <3> QED  BY <3>1 DEF BufType
  <2> QED  BY <1>2, <2>1, <2>2, Types, Zenon
<1>4. \A y \in Buf : /\ buf'[y].blk = buf[y].blk /\ buf'[y].valid = buf[y].valid
                     /\ buf'[y].dirty = buf[y].dirty /\ buf'[y].data = buf[y].data
                     /\ buf'[y].refcnt = buf[y].refcnt
                     /\ buf'[y].pid = IF y = at[p] THEN h ELSE buf[y].pid
  BY <1>2, Types DEF BufType
<1>5. TypeOK'
  BY <1>1, <1>3, Zenon DEF BufInv, TypeOK, BufType, PcType
<1>6. Entered' /\ Listed'
  BY <1>1, <1>2, <1>4 DEF BufInv, Entered, Listed
<1>7. Counted' /\ NoBuffersLeft'
  BY <1>1, <1>4, PlaceFrame
<1>8. OneBuffer' /\ Started' /\ Fresh'
  BY <1>1, <1>4, DataFrame DEF SameData
<1>9. Locked'
  <2>1. ASSUME NEW q \in Proc, NEW x \in Buf
        PROVE  buf'[x].pid = q <=> pc'[q] \in Holding /\ at[q] = x
    <3>1. buf[x].pid = q <=> pc[q] \in Holding /\ at[q] = x
      BY DEF BufInv, Locked
    <3>2. pc[p] = "brelse" => buf[at[p]].pid = p
      BY EnteredAt DEF Holding
    <3>3. CASE q = p
      BY <1>2, <1>4, <3>1, <3>3 DEF Holding
    <3>4. CASE q # p
      <4>1. pc'[q] \in Holding <=> pc[q] \in Holding
        BY <3>4 DEF Holding
      <4>2. x = at[p] => buf[x].pid # q
        BY <1>2, <3>2, <3>4
      <4> QED  BY <1>2, <1>4, <3>1, <3>4, <4>1, <4>2
    <3> QED  BY <3>3, <3>4
  <2> QED  BY <1>1, <2>1 DEF Locked
<1>10. SleepersWait'
  BY <1>1, <1>2, <1>4 DEF BufInv, SleepersWait, Entered
<1>11. Filled'
  BY <1>1, <1>2, <1>4 DEF BufInv, Filled, Entered
<1>12. Queue'
  <2>1. ASSUME NEW q \in Proc PROVE (pc'[q] \in Waiting <=> pc[q] \in Waiting)
    BY DEF Waiting
  <2>2. \A i \in 1..Len(idequeue) : idequeue[i] \in Buf
    BY Types
  <2>3. \A x \in Buf : (Asked(x)' <=> Asked(x)) /\ (Queued(x)' <=> Queued(x))
    BY <1>1, <1>4 DEF Asked, Queued
  <2>4. \A i \in 1..Len(idequeue) :
          Asked(idequeue[i])' /\ \E q \in Proc : pc'[q] \in Waiting /\ at[q] = idequeue[i]
    <3>1. \A i \in 1..Len(idequeue) :
            Asked(idequeue[i]) /\ \E q \in Proc : pc[q] \in Waiting /\ at[q] = idequeue[i]
      BY DEF BufInv, Queue
    <3>2. \A i \in 1..Len(idequeue) : Asked(idequeue[i])'
      BY <1>1, <2>2, <2>3, <3>1
    <3> QED  BY <2>1, <3>1, <3>2, Zenon
  <2>5. ASSUME NEW q \in Proc
        PROVE  /\ pc'[q] = "iderw" => Asked(at[q])'
               /\ pc'[q] = "iosleep" => Queued(at[q])'
               /\ pc'[q] = "iowoken" => Queued(at[q])' \/ ~Asked(at[q])'
    <3>1. CASE q = p
      BY <1>2, <2>3, <3>1 DEF Asked
    <3>2. CASE q # p /\ pc'[q] \in {"iderw", "iosleep", "iowoken"}
      <4>1. pc'[q] = pc[q] /\ at[q] \in Buf
        BY <3>2, EnteredAt
      <4> QED  BY <2>3, <4>1 DEF BufInv, Queue
    <3> QED  BY <3>1, <3>2
  <2> QED  BY <1>1, <2>4, <2>5 DEF BufInv, Queue
<1> QED
  BY <1>5, <1>6, <1>7, <1>8, <1>9, <1>10, <1>11, <1>12 DEF BufInv

LEMMA AcquireSleepKeeps == ASSUME BufInv, NEW p \in Proc, AcquireSleep(p) PROVE BufInv'
<1>1. /\ UNCHANGED <<lru, io, at, want, latest, panicked>> /\ panicked = "no" /\ pc[p] = "lock"
  BY DEF AcquireSleep, At
<1>2. CASE buf[at[p]].pid # NoProc /\ Goto(p, "locksleep") /\ UNCHANGED buf
  BY <1>1, <1>2, MoveKeeps DEF PcType, Holding, Waiting
<1>3. CASE /\ buf[at[p]].pid = NoProc /\ buf' = [buf EXCEPT ![at[p]].pid = p]
           /\ Goto(p, IF buf[at[p]].valid THEN "hold" ELSE "iderw")
  <2> DEFINE l == IF buf[at[p]].valid THEN "hold" ELSE "iderw"
  <2>1. l \in {"hold", "iderw"} /\ l \in PcType /\ (l = "hold" <=> buf[at[p]].valid)
    BY DEF PcType, Holding
  <2>2. pc' = [pc EXCEPT ![p] = l]
    BY <1>3 DEF Goto
  <2> HIDE DEF l
  <2>3. pc'[p] = l /\ pc' \in [Proc -> PcType] /\ \A q \in Proc : q # p => pc'[q] = pc[q]
    BY <2>1, <2>2, Types
  <2> QED  BY <1>1, <1>3, <2>1, <2>3, LockKeeps, BufCacheAssumption, Zenon
<1> QED  BY <1>2, <1>3 DEF AcquireSleep

LEMMA ReleaseSleepKeeps == ASSUME BufInv, NEW p \in Proc, ReleaseSleep(p) PROVE BufInv'
<1>1. /\ UNCHANGED <<lru, io, at, want, latest, panicked>> /\ panicked = "no" /\ pc[p] = "brelse"
      /\ buf' = [buf EXCEPT ![at[p]].pid = NoProc]
      /\ pc' = [Wakeup(at[p], "locksleep", "lock") EXCEPT ![p] = "brelse2"]
  BY DEF ReleaseSleep, At
<1>2. Wakeup(at[p], "locksleep", "lock") \in [Proc -> PcType]
  BY Types DEF Wakeup, PcType
<1>3. pc' \in [Proc -> PcType] /\ pc'[p] = "brelse2"
  BY <1>1, <1>2 DEF PcType
<1>4. \A q \in Proc : q # p => pc'[q] = IF pc[q] = "locksleep" /\ at[q] = at[p] THEN "lock" ELSE pc[q]
  BY <1>1 DEF Wakeup
<1> QED  BY <1>1, <1>3, <1>4, LockKeeps, BufCacheAssumption, Zenon

-----------------------------------------------------------------------------
(***************************************************************************)
(* bget and the end of brelse: the list and the counts.                    *)
(***************************************************************************)
LEMMA LeastOf ==
  ASSUME NEW S \in SUBSET Nat, S # {}
  PROVE  \E i \in S : \A j \in S : i <= j
<1>1. PICK i \in S : \A j \in S : ~(<<j, i>> \in OpToRel(<, Nat))
  BY NatLessThanWellFounded, WFMin, Zenon
<1>2. \A j \in S : j < i => <<j, i>> \in OpToRel(<, Nat)
  BY DEF OpToRel
<1>3. \A j \in S : ~(j < i)
  BY <1>1, <1>2, Zenon
<1> QED  BY <1>3

LEMMA GreatestOf ==
  ASSUME NEW n \in Nat, NEW S \in SUBSET (1..n), S # {}
  PROVE  \E i \in S : \A j \in S : i >= j
<1> DEFINE T == {k \in Nat : n - k \in S}
<1>1. \A i \in S : n - i \in T /\ n - (n - i) = i
  OBVIOUS
<1>2. T \in SUBSET Nat /\ T # {}
  BY <1>1, Zenon
<1>3. PICK k \in T : \A j \in T : k <= j
  BY <1>2, LeastOf, Zenon
<1>4. n - k \in S /\ k \in Nat
  BY <1>3
<1> HIDE DEF T
<1>5. \A j \in S : j \in 1..n /\ k <= n - j
  BY <1>1, <1>3
<1> QED  BY <1>4, <1>5

\* The buffers that the passes of bget find, and that no buffer is missed.
LEMMA Found ==
  ASSUME BufInv, NEW b \in Block
  PROVE  /\ Cached(b) # {} =>
              LET x == lru[CHOOSE i \in Cached(b) : \A j \in Cached(b) : i <= j]
              IN  x \in Buf /\ buf[x].blk = b
         /\ Cached(b) = {} => \A x \in Buf : buf[x].blk # b
         /\ Unused # {} =>
              LET x == lru[CHOOSE i \in Unused : \A j \in Unused : i >= j]
              IN  x \in Buf /\ buf[x].refcnt = 0 /\ ~buf[x].dirty
         /\ Unused = {} => \A x \in Buf : buf[x].refcnt # 0 \/ buf[x].dirty
<1>1. Len(lru) \in Nat /\ DOMAIN lru = 1..Len(lru) /\ \A i \in 1..Len(lru) : lru[i] \in Buf
  BY Types
<1>2. \A x \in Buf : \E i \in DOMAIN lru : lru[i] = x
  BY <1>1 DEF BufInv, Listed
<1>3. Cached(b) \in SUBSET Nat /\ Unused \in SUBSET (1..Len(lru))
  BY <1>1 DEF Cached, Unused
<1>4. ASSUME Cached(b) # {}
      PROVE  LET x == lru[CHOOSE i \in Cached(b) : \A j \in Cached(b) : i <= j]
             IN  x \in Buf /\ buf[x].blk = b
  <2> DEFINE i == CHOOSE i \in Cached(b) : \A j \in Cached(b) : i <= j
  <2>1. \E k \in Cached(b) : \A j \in Cached(b) : k <= j
    BY <1>3, <1>4, LeastOf, Zenon
  <2>2. i \in Cached(b)
    BY <2>1, Zenon
  <2> HIDE DEF i
  <2>3. lru[i] \in Buf /\ buf[lru[i]].blk = b
    BY <1>1, <2>2 DEF Cached
  <2> QED  BY <2>3 DEF i
<1>5. ASSUME Unused # {}
      PROVE  LET x == lru[CHOOSE i \in Unused : \A j \in Unused : i >= j]
             IN  x \in Buf /\ buf[x].refcnt = 0 /\ ~buf[x].dirty
  <2> DEFINE i == CHOOSE i \in Unused : \A j \in Unused : i >= j
  <2>1. \E k \in Unused : \A j \in Unused : k >= j
    BY <1>1, <1>3, <1>5, GreatestOf, Zenon
  <2>2. i \in Unused
    BY <2>1, Zenon
  <2> HIDE DEF i
  <2>3. lru[i] \in Buf /\ buf[lru[i]].refcnt = 0 /\ ~buf[lru[i]].dirty
    BY <1>1, <2>2 DEF Unused
  <2> QED  BY <2>3 DEF i
<1>6. Cached(b) = {} => \A x \in Buf : buf[x].blk # b
  BY <1>2, Zenon DEF Cached
<1>7. Unused = {} => \A x \in Buf : buf[x].refcnt # 0 \/ buf[x].dirty
  BY <1>2, Zenon DEF Unused
<1> QED  BY <1>4, <1>5, <1>6, <1>7

\* The count of a buffer is zero when no process is at it.
LEMMA NoUsers ==
  ASSUME BufInv, NEW x \in Buf
  PROVE  buf[x].refcnt = 0 <=> \A p \in Proc : at[p] # x
<1>1. IsFiniteSet(Users(x)) /\ buf[x].refcnt = Cardinality(Users(x))
  <2>1. Users(x) \subseteq Proc
    BY DEF Users
  <2> QED  BY <2>1, BufCacheAssumption, FS_Subset DEF BufInv, Counted
<1>2. buf[x].refcnt = 0 <=> Users(x) = {}
  BY <1>1, FS_EmptySet
<1> QED  BY <1>2 DEF Users

\* A process comes to a buffer, or leaves it.
LEMMA CountFrame ==
  ASSUME BufInv, NEW p \in Proc, NEW x \in Buf,
         \A y \in Buf : y # x => buf'[y].refcnt = buf[y].refcnt,
         \/ /\ at[p] = NoBuf /\ at' = [at EXCEPT ![p] = x]
            /\ buf'[x].refcnt = buf[x].refcnt + 1
         \/ /\ at[p] = x /\ at' = [at EXCEPT ![p] = NoBuf]
            /\ buf'[x].refcnt = buf[x].refcnt - 1
  PROVE  Counted'
<1>1. \A y \in Buf : IsFiniteSet(Users(y)) /\ buf[y].refcnt = Cardinality(Users(y))
  <2>1. \A y \in Buf : Users(y) \subseteq Proc
    BY DEF Users
  <2> QED  BY <2>1, BufCacheAssumption, FS_Subset, Zenon DEF BufInv, Counted
<1>2. NoBuf \notin Buf /\ at \in [Proc -> Buf \union {NoBuf}]
  BY BufCacheAssumption, Types
<1>3. \A y \in Buf : y # x => Users(y)' = Users(y)
  BY <1>2 DEF Users
<1>4. CASE at[p] = NoBuf /\ at' = [at EXCEPT ![p] = x]
  <2>1. Users(x)' = Users(x) \union {p} /\ p \notin Users(x)
    BY <1>2, <1>4 DEF Users
  <2>2. Cardinality(Users(x)') = Cardinality(Users(x)) + 1
    BY <1>1, <2>1, FS_AddElement, Zenon
  <2> QED  BY <1>1, <1>2, <1>3, <1>4, <2>2 DEF Counted
<1>5. CASE at[p] = x /\ at' = [at EXCEPT ![p] = NoBuf]
  <2>1. Users(x)' = Users(x) \ {p} /\ p \in Users(x)
    BY <1>2, <1>5 DEF Users
  <2>2. Cardinality(Users(x)') = Cardinality(Users(x)) - 1
    BY <1>1, <2>1, FS_RemoveElement, Zenon
  <2> QED  BY <1>1, <1>2, <1>3, <1>5, <2>2 DEF Counted
<1> QED  BY <1>4, <1>5

\* bget gives the buffer x to p: a buffer of the block b, or one it recycles for it.
Recycled(b, x) ==
  /\ buf[x].refcnt = 0 /\ ~buf[x].dirty /\ ~buf'[x].valid /\ ~buf'[x].dirty
  /\ \A y \in Buf : buf[y].blk # b

Enters(p, b, x) ==
  /\ panicked = "no" /\ pc[p] = "out" /\ Enter(p, b, x)
  /\ UNCHANGED <<lru, io, latest, panicked>> /\ buf' \in [Buf -> BufType]
  /\ \A y \in Buf : y # x => buf'[y] = buf[y]
  /\ buf'[x].pid = buf[x].pid /\ buf'[x].refcnt = buf[x].refcnt + 1 /\ buf'[x].blk = b
  /\ SameData \/ Recycled(b, x)

LEMMA EnterKeeps ==
  ASSUME BufInv, NEW p \in Proc, NEW b \in Block, NEW x \in Buf, Enters(p, b, x)
  PROVE  BufInv'
<1>1. /\ UNCHANGED <<lru, idequeue, disk, cmd, irq, latest, panicked>>
      /\ panicked = "no" /\ pc[p] = "out" /\ Enter(p, b, x)
  BY Zenon DEF Enters, io
<1>2. /\ at' = [at EXCEPT ![p] = x] /\ want' = [want EXCEPT ![p] = b]
      /\ pc' = [pc EXCEPT ![p] = "lock"] /\ at[p] = NoBuf
  BY <1>1 DEF Enter, Goto, BufInv, Entered
<1>3. /\ \A y \in Buf : y # x => buf'[y] = buf[y]
      /\ buf' \in [Buf -> BufType]
      /\ buf'[x].refcnt = buf[x].refcnt + 1 /\ buf'[x].blk = b
  BY DEF Enters
<1>4. /\ \A q \in Proc : pc'[q] = IF q = p THEN "lock" ELSE pc[q]
      /\ \A q \in Proc : at'[q] = IF q = p THEN x ELSE at[q]
      /\ \A q \in Proc : want'[q] = IF q = p THEN b ELSE want[q]
  BY <1>2, Types, Zenon
<1>5. TypeOK'
  <2>1. /\ pc' \in [Proc -> PcType] /\ at' \in [Proc -> Buf \union {NoBuf}]
        /\ want' \in [Proc -> Block \union {NoBlock}]
    BY <1>2, Types, Zenon DEF PcType
  <2> QED  BY <1>3, <1>1, <2>1, Zenon DEF BufInv, TypeOK, BufType, PcType
<1>6. \A q \in Proc : q # p /\ at[q] = x => SameData
  BY NoUsers DEF Enters, Recycled
<1>7. \A y \in Buf : buf'[y].pid = buf[y].pid
  BY DEF Enters
<1>8. Entered'
  <2>1. ASSUME NEW q \in Proc
        PROVE  IF pc'[q] = "out" THEN at'[q] = NoBuf
               ELSE at'[q] \in Buf /\ want'[q] \in Block /\ buf'[at'[q]].blk = want'[q]
    <3>1. CASE q = p
      BY <1>3, <1>4, <3>1
    <3>2. CASE q # p /\ pc[q] = "out"
      BY <1>4, <3>2 DEF BufInv, Entered
    <3>3. CASE q # p /\ pc[q] # "out"
      <4>1. at[q] \in Buf /\ want[q] \in Block /\ buf[at[q]].blk = want[q]
        BY <3>3, EnteredAt
      <4>2. buf'[at[q]].blk = buf[at[q]].blk
        BY <1>3, <1>6, <3>3, <4>1 DEF SameData
      <4> QED  BY <1>3, <1>4, <3>3, <4>1, <4>2
    <3> QED  BY <3>1, <3>2, <3>3
  <2> QED  BY <2>1 DEF Entered
<1>9. Counted'
  BY <1>3, <1>2, CountFrame, Zenon
<1>10. Locked'
  <2>1. ASSUME NEW q \in Proc, NEW y \in Buf
        PROVE  buf'[y].pid = q <=> pc'[q] \in Holding /\ at'[q] = y
    <3>1. buf[y].pid = q <=> pc[q] \in Holding /\ at[q] = y
      BY DEF BufInv, Locked
    <3>2. "lock" \notin Holding /\ "out" \notin Holding
      BY DEF Holding
    <3> QED  BY <1>1, <1>4, <1>7, <3>1, <3>2
  <2> QED  BY <2>1 DEF Locked
<1>11. SleepersWait' /\ Listed' /\ NoBuffersLeft'
  <2>1. \A q \in Proc : pc[q] = "locksleep" => at[q] \in Buf
    BY EnteredAt
  <2> QED  BY <1>1, <1>4, <1>7, <2>1 DEF BufInv, SleepersWait, Listed, NoBuffersLeft
<1>12. \A q \in Proc : pc[q] \in Holding =>
          /\ at[q] \in Buf /\ buf'[at[q]].valid = buf[at[q]].valid
          /\ buf'[at[q]].dirty = buf[at[q]].dirty
  <2> SUFFICES ASSUME NEW q \in Proc, pc[q] \in Holding
               PROVE  /\ at[q] \in Buf /\ buf'[at[q]].valid = buf[at[q]].valid
                      /\ buf'[at[q]].dirty = buf[at[q]].dirty
    OBVIOUS
  <2>1. at[q] \in Buf /\ q # p
    BY <1>1, EnteredAt DEF Holding
  <2> QED  BY <1>3, <1>6, <2>1 DEF SameData
<1>13. SameData \/ Recycled(b, x)
  BY DEF Enters
<1>14. Filled'
  <2>1. \A y \in Buf : buf'[y].dirty => buf'[y].valid /\ buf'[y].blk \in Block
    BY <1>3, <1>13 DEF BufInv, Filled, SameData, Recycled
  <2>2. \A q \in Proc : pc'[q] \in {"hold", "brelse"} => buf'[at'[q]].valid
    BY <1>1, <1>4, <1>12 DEF BufInv, Filled, Holding
  <2> QED  BY <2>1, <2>2 DEF Filled
<1>15. Queue'
  <2>1. \A q \in Proc : pc[q] \in Holding => (Asked(at[q])' <=> Asked(at[q])) /\ at'[q] = at[q]
    BY <1>1, <1>4, <1>12 DEF Asked, Holding
  <2>2. \A y : Queued(y)' <=> Queued(y)
    BY <1>1 DEF Queued
  <2>3. ASSUME NEW i \in 1..Len(idequeue)
        PROVE  /\ Asked(idequeue[i])'
               /\ \E q \in Proc : pc'[q] \in Waiting /\ at'[q] = idequeue[i]
    <3>1. Asked(idequeue[i])
      BY DEF BufInv, Queue
    <3>2. PICK q \in Proc : pc[q] \in Waiting /\ at[q] = idequeue[i]
      BY DEF BufInv, Queue
    <3>3. pc[q] \in Holding /\ q # p
      BY <1>1, <3>2 DEF Holding, Waiting
    <3>4. Asked(idequeue[i])'
      BY <1>1, <1>12, <3>1, <3>2, <3>3 DEF Asked
    <3> QED  BY <1>4, <2>1, <3>2, <3>3, <3>4
  <2>4. ASSUME NEW q \in Proc
        PROVE  /\ pc'[q] = "iderw" => Asked(at[q])'
               /\ pc'[q] = "iosleep" => Queued(at[q])'
               /\ pc'[q] = "iowoken" => Queued(at[q])' \/ ~Asked(at[q])'
    BY <1>1, <1>4, <2>1, <2>2 DEF BufInv, Queue, Holding
  <2> QED  BY <1>1, <2>3, <2>4 DEF BufInv, Queue
<1>16. CASE SameData
  <2>1. OneBuffer' /\ Started' /\ Fresh'
    BY <1>1, <1>16, DataFrame
  <2> QED  BY <1>5, <1>8, <1>9, <1>10, <1>11, <1>14, <1>15, <2>1 DEF BufInv
<1>17. CASE Recycled(b, x)
  <2>1. OneBuffer'
    BY <1>3, <1>17 DEF BufInv, OneBuffer, Recycled
  <2>2. \A c : OnDisk(c)' = OnDisk(c)
    BY <1>1 DEF OnDisk
  <2>3. Started'
    <3>1. idequeue # <<>> => idequeue[1] # x
      <4>1. idequeue # <<>> => 1 \in 1..Len(idequeue)
        BY Types
      <4> QED  BY <1>17, <4>1, NoUsers DEF BufInv, Queue, Recycled
    <3> QED  BY <1>3, <1>1, <2>2, <3>1 DEF BufInv, Started
  <2>4. Fresh'
    <3>1. \A y \in Buf : buf'[y].valid /\ buf'[y].blk \in Block \ Faulty =>
            buf'[y].data = latest'[buf'[y].blk]
      BY <1>3, <1>1, <1>17 DEF BufInv, Fresh, Recycled
    <3>2. ASSUME NEW c \in Block \ Faulty
          PROVE  OnDisk(c)' = latest'[c] \/ \E y \in Buf : buf'[y].blk = c /\ buf'[y].dirty
      <4>1. OnDisk(c) = latest[c] \/ \E y \in Buf : buf[y].blk = c /\ buf[y].dirty
        BY DEF BufInv, Fresh
      <4> QED  BY <1>3, <1>1, <1>17, <2>2, <4>1 DEF Recycled
    <3> QED  BY <3>1, <3>2 DEF Fresh
  <2> QED  BY <1>5, <1>8, <1>9, <1>10, <1>11, <1>14, <1>15, <2>1, <2>3, <2>4 DEF BufInv
<1> QED  BY <1>16, <1>17, <1>13

LEMMA BgetHitKeeps ==
  ASSUME BufInv, NEW p \in Proc, NEW b \in Block, BgetHit(p, b)
  PROVE  BufInv'
<1> DEFINE x == lru[CHOOSE i \in Cached(b) : \A j \in Cached(b) : i <= j]
<1>1. x \in Buf /\ buf[x].blk = b
  BY Found DEF BgetHit
<1>2. /\ panicked = "no" /\ pc[p] = "out" /\ Enter(p, b, x)
      /\ UNCHANGED <<lru, io, latest, panicked>> /\ buf' = [buf EXCEPT ![x].refcnt = @ + 1]
  BY Zenon DEF BgetHit, At
<1> HIDE DEF x
<1>3. buf[x] \in BufType /\ buf \in [Buf -> BufType]
  BY <1>1, Types
<1>4. [buf[x] EXCEPT !.refcnt = @ + 1] \in BufType
  BY <1>3 DEF BufType
<1>5. buf' \in [Buf -> BufType] /\ \A y \in Buf : y # x => buf'[y] = buf[y]
  BY <1>1, <1>2, <1>3, <1>4
<1>6. buf'[x] = [buf[x] EXCEPT !.refcnt = @ + 1]
  BY <1>1, <1>2, <1>3
<1>7. /\ buf'[x].pid = buf[x].pid /\ buf'[x].refcnt = buf[x].refcnt + 1
      /\ buf'[x].blk = b /\ buf'[x].valid = buf[x].valid /\ buf'[x].dirty = buf[x].dirty
      /\ buf'[x].data = buf[x].data
  BY <1>1, <1>3, <1>6 DEF BufType
<1>8. SameData
  BY <1>1, <1>5, <1>7 DEF SameData
<1>9. Enters(p, b, x)
  BY <1>2, <1>5, <1>7, <1>8, Zenon DEF Enters
<1> QED  BY <1>1, <1>9, EnterKeeps

LEMMA BgetRecycleKeeps ==
  ASSUME BufInv, NEW p \in Proc, NEW b \in Block, BgetRecycle(p, b)
  PROVE  BufInv'
<1> DEFINE x == lru[CHOOSE i \in Unused : \A j \in Unused : i >= j]
<1>1. /\ x \in Buf /\ buf[x].refcnt = 0 /\ ~buf[x].dirty
      /\ \A y \in Buf : buf[y].blk # b
  BY Found, Zenon DEF BgetRecycle
<1>2. /\ panicked = "no" /\ pc[p] = "out" /\ Enter(p, b, x)
      /\ UNCHANGED <<lru, io, latest, panicked>>
      /\ buf' = [buf EXCEPT ![x].blk = b, ![x].valid = FALSE, ![x].dirty = FALSE, ![x].refcnt = 1]
  BY Zenon DEF BgetRecycle, At
<1> HIDE DEF x
<1> DEFINE r == [buf[x] EXCEPT !.blk = b, !.valid = FALSE, !.dirty = FALSE, !.refcnt = 1]
<1>3. buf[x] \in BufType /\ buf \in [Buf -> BufType]
  BY <1>1, Types
<1>4. r \in BufType
  BY <1>3, Zenon DEF BufType
<1>5. buf' = [buf EXCEPT ![x] = r]
  BY <1>1, <1>2, <1>3, Zenon
<1>6. /\ r.pid = buf[x].pid /\ r.refcnt = buf[x].refcnt + 1 /\ r.blk = b
      /\ ~r.valid /\ ~r.dirty
  BY <1>1, <1>3 DEF BufType
<1> HIDE DEF r
<1>7. buf' \in [Buf -> BufType] /\ buf'[x] = r /\ \A y \in Buf : y # x => buf'[y] = buf[y]
  BY <1>1, <1>3, <1>4, <1>5
<1>8. Enters(p, b, x)
  BY <1>1, <1>2, <1>6, <1>7, Zenon DEF Enters, Recycled
<1> QED  BY <1>1, <1>8, EnterKeeps

LEMMA BgetPanicKeeps ==
  ASSUME BufInv, NEW p \in Proc, NEW b \in Block, BgetPanic(p, b)
  PROVE  BufInv'
<1>1. /\ UNCHANGED <<buf, lru, idequeue, disk, cmd, irq, pc, at, want, latest>> /\ Unused = {}
  BY Zenon DEF BgetPanic, io
<1>2. \A x \in Buf : buf[x].dirty \/ \E q \in Proc : at[q] = x
  BY <1>1, Found, NoUsers
<1>3. NoBuffersLeft'
  BY <1>1, <1>2 DEF NoBuffersLeft
<1>4. TypeOK' /\ Entered' /\ Listed' /\ Filled' /\ SleepersWait'
  BY <1>1, Zenon DEF BufInv, TypeOK, Entered, Listed, Filled, SleepersWait
<1>5. Counted' /\ Locked'
  BY <1>1 DEF BufInv, Counted, Users, Locked
<1>6. Queue'
  BY <1>1, Zenon DEF BufInv, Queue, Queued, Asked
<1>7. OneBuffer' /\ Started' /\ Fresh'
  BY <1>1, DataFrame DEF SameData
<1> QED  BY <1>3, <1>4, <1>5, <1>6, <1>7 DEF BufInv

\* Moving a buffer to the front loses none.
LEMMA ToFrontLists ==
  ASSUME BufInv, NEW x \in Buf
  PROVE  /\ ToFront(x) \in Seq(Buf)
         /\ \A y \in Buf : \E i \in 1..Len(ToFront(x)) : ToFront(x)[i] = y
<1> DEFINE k == CHOOSE i \in DOMAIN lru : lru[i] = x
           n == Len(lru)
<1>1. n \in Nat /\ DOMAIN lru = 1..n /\ lru \in [1..n -> Buf]
  BY Types
<1>2. \A y \in Buf : \E i \in DOMAIN lru : lru[i] = y
  BY <1>1 DEF BufInv, Listed
<1>3. k \in 1..n /\ lru[k] = x
  BY <1>1, <1>2
<1>4. ToFront(x) = [i \in 1..n |-> IF i = 1 THEN x ELSE IF i <= k THEN lru[i - 1] ELSE lru[i]]
  BY <1>1 DEF ToFront
<1> HIDE DEF k, n
<1>5. ToFront(x) \in [1..n -> Buf]
  BY <1>1, <1>3, <1>4
<1>6. ToFront(x) \in Seq(Buf) /\ Len(ToFront(x)) = n
  BY <1>1, <1>5
<1>7. ASSUME NEW y \in Buf PROVE \E i \in 1..n : ToFront(x)[i] = y
  <2>1. CASE y = x
    BY <1>1, <1>3, <1>4, <2>1
  <2>2. CASE y # x
    <3>1. PICK i \in 1..n : lru[i] = y
      BY <1>1, <1>2
    <3>2. i # k
      BY <1>3, <2>2, <3>1
    <3>3. CASE i < k
      <4>1. i + 1 \in 1..n /\ i + 1 # 1 /\ i + 1 <= k /\ (i + 1) - 1 = i
        BY <1>1, <1>3, <3>3
      <4>2. ToFront(x)[i + 1] = lru[i]
        BY <1>4, <4>1
      <4> QED  BY <3>1, <4>1, <4>2
    <3>4. CASE i > k
      <4>1. ToFront(x)[i] = lru[i]
        BY <1>1, <1>3, <1>4, <3>4
      <4> QED  BY <3>1, <4>1
    <3> QED  BY <1>1, <1>3, <3>2, <3>3, <3>4
  <2> QED  BY <2>1, <2>2
<1> QED  BY <1>6, <1>7

LEMMA BrelseKeeps == ASSUME BufInv, NEW p \in Proc, Brelse(p) PROVE BufInv'
<1> DEFINE x == at[p]
<1>1. /\ UNCHANGED <<idequeue, disk, cmd, irq, latest, panicked>> /\ panicked = "no"
      /\ pc[p] = "brelse2" /\ pc' = [pc EXCEPT ![p] = "out"]
      /\ at' = [at EXCEPT ![p] = NoBuf] /\ want' = [want EXCEPT ![p] = NoBlock]
      /\ buf' = [buf EXCEPT ![x].refcnt = @ - 1]
      /\ lru' = lru \/ lru' = ToFront(x)
  BY DEF Brelse, At, Goto, io
<1>2. x \in Buf /\ buf[x] \in BufType /\ buf \in [Buf -> BufType]
  BY <1>1, EnteredAt, Types
<1>3. buf[x].refcnt # 0
  BY <1>2, NoUsers
<1>4. at[p] = x
  OBVIOUS
<1> HIDE DEF x
<1>5. [buf[x] EXCEPT !.refcnt = @ - 1] \in BufType
  BY <1>2, <1>3 DEF BufType
<1>6. buf' \in [Buf -> BufType]
  BY <1>1, <1>2, <1>5
<1>7. /\ SameData /\ \A y \in Buf : buf'[y].pid = buf[y].pid
      /\ \A y \in Buf : y # x => buf'[y].refcnt = buf[y].refcnt
      /\ buf'[x].refcnt = buf[x].refcnt - 1
  BY <1>1, <1>2 DEF SameData, BufType
<1>8. /\ \A q \in Proc : pc'[q] = IF q = p THEN "out" ELSE pc[q]
      /\ \A q \in Proc : q # p => at'[q] = at[q] /\ want'[q] = want[q]
      /\ at'[p] = NoBuf
  BY <1>1, Types, Zenon
<1>9. lru' \in Seq(Buf) /\ Listed'
  <2>1. lru' = lru => lru' \in Seq(Buf) /\ Listed'
    BY Types DEF BufInv, Listed
  <2>2. lru' = ToFront(x) => lru' \in Seq(Buf) /\ Listed'
    BY <1>2, ToFrontLists, Zenon DEF Listed
  <2> QED  BY <1>1, <2>1, <2>2
<1>10. TypeOK'
  <2>1. /\ pc' \in [Proc -> PcType] /\ at' \in [Proc -> Buf \union {NoBuf}]
        /\ want' \in [Proc -> Block \union {NoBlock}]
    BY <1>1, Types, Zenon DEF PcType
  <2> QED  BY <1>1, <1>6, <1>9, <2>1, Zenon DEF BufInv, TypeOK, BufType, PcType
<1>11. \A q \in Proc : q # p /\ pc[q] # "out" => at[q] \in Buf
  BY EnteredAt
<1>12. Entered' /\ SleepersWait' /\ NoBuffersLeft'
  BY <1>1, <1>7, <1>8, <1>11 DEF BufInv, Entered, SleepersWait, NoBuffersLeft, SameData
<1>13. Counted'
  BY <1>1, <1>2, <1>4, <1>7, CountFrame, Zenon
<1>14. Locked'
  <2>1. ASSUME NEW q \in Proc, NEW y \in Buf
        PROVE  buf'[y].pid = q <=> pc'[q] \in Holding /\ at'[q] = y
    <3>1. buf[y].pid = q <=> pc[q] \in Holding /\ at[q] = y
      BY DEF BufInv, Locked
    <3>2. "brelse2" \notin Holding /\ "out" \notin Holding
      BY DEF Holding
    <3> QED  BY <1>1, <1>7, <1>8, <3>1, <3>2
  <2> QED  BY <2>1 DEF Locked
<1>15. OneBuffer' /\ Started' /\ Fresh'
  BY <1>1, <1>7, DataFrame
<1>16. Filled'
  BY <1>7, <1>8, <1>11 DEF BufInv, Filled, SameData
<1>17. Queue'
  <2>1. \A y \in Buf : (Asked(y)' <=> Asked(y)) /\ (Queued(y)' <=> Queued(y))
    BY <1>1, <1>7 DEF Asked, Queued, SameData
  <2>2. ASSUME NEW i \in 1..Len(idequeue)
        PROVE  /\ Asked(idequeue[i])'
               /\ \E q \in Proc : pc'[q] \in Waiting /\ at'[q] = idequeue[i]
    <3>1. Asked(idequeue[i]) /\ idequeue[i] \in Buf
      BY Types DEF BufInv, Queue
    <3>2. PICK q \in Proc : pc[q] \in Waiting /\ at[q] = idequeue[i]
      BY DEF BufInv, Queue
    <3>3. q # p
      BY <1>1, <3>2 DEF Waiting
    <3> QED  BY <1>1, <1>8, <2>1, <3>1, <3>2, <3>3
  <2>3. ASSUME NEW q \in Proc
        PROVE  /\ pc'[q] = "iderw" => Asked(at[q])'
               /\ pc'[q] = "iosleep" => Queued(at[q])'
               /\ pc'[q] = "iowoken" => Queued(at[q])' \/ ~Asked(at[q])'
    BY <1>8, <1>11, <2>1 DEF BufInv, Queue
  <2> QED  BY <1>1, <2>2, <2>3 DEF BufInv, Queue
<1> QED
  BY <1>9, <1>10, <1>12, <1>13, <1>14, <1>15, <1>16, <1>17 DEF BufInv

-----------------------------------------------------------------------------
(***************************************************************************)
(* The holder changes its buffer: log_write and bwrite.                    *)
(***************************************************************************)
\* The contents d go to the buffer x, which becomes dirty.
Changes(p, l, d, x) ==
  /\ at[p] = x /\ panicked = "no" /\ pc[p] = "hold" /\ Goto(p, l)
  /\ UNCHANGED <<lru, io, at, want, panicked>> /\ buf' \in [Buf -> BufType]
  /\ \A y \in Buf : y # x => buf'[y] = buf[y]
  /\ buf'[x].data = d /\ buf'[x].dirty /\ buf'[x].valid = buf[x].valid
  /\ buf'[x].blk = buf[x].blk /\ buf'[x].pid = buf[x].pid /\ buf'[x].refcnt = buf[x].refcnt
  /\ \/ latest' = latest /\ d = buf[x].data
     \/ latest' = [latest EXCEPT ![want[p]] = d]

LEMMA ChangeKeeps ==
  ASSUME BufInv, NEW p \in Proc, NEW l \in {"brelse", "iderw"}, NEW d \in Nat, NEW x \in Buf,
         Changes(p, l, d, x)
  PROVE  BufInv'
<1>1. /\ UNCHANGED <<lru, idequeue, disk, cmd, irq, at, want, panicked>>
      /\ at[p] = x /\ panicked = "no" /\ pc[p] = "hold" /\ Goto(p, l)
  BY Zenon DEF Changes, io
<1>2. /\ want[p] \in Block /\ buf[x].blk = want[p] /\ buf[x].valid
      /\ \A i \in 1..Len(idequeue) : idequeue[i] # x
      /\ \A q \in Proc : pc[q] \in Holding /\ at[q] = x => q = p
  <2>1. pc[p] # "out" /\ pc[p] \in Holding \ Waiting
    BY <1>1 DEF Holding, Waiting
  <2>2. buf[x].valid
    BY <1>1 DEF BufInv, Filled
  <2> QED  BY <1>1, <2>1, <2>2, EnteredAt, NotQueued
<1>3. /\ \A y \in Buf : y # x => buf'[y] = buf[y]
      /\ buf' \in [Buf -> BufType] /\ buf'[x].data = d /\ buf'[x].dirty
      /\ \A y \in Buf : /\ buf'[y].blk = buf[y].blk /\ buf'[y].valid = buf[y].valid
                        /\ buf'[y].pid = buf[y].pid /\ buf'[y].refcnt = buf[y].refcnt
                        /\ buf[y].dirty => buf'[y].dirty
  BY DEF Changes
<1>4. \A q \in Proc : pc'[q] = IF q = p THEN l ELSE pc[q]
  BY <1>1, Types, Zenon DEF Goto
<1>5. /\ latest' \in [Block -> Nat]
      /\ \/ latest'[want[p]] = d
         \/ latest' = latest /\ d = buf[x].data
      /\ \A b \in Block : b # want[p] => latest'[b] = latest[b]
  <2>1. latest \in [Block -> Nat]
    BY Types
  <2>2. CASE latest' = latest /\ d = buf[x].data
    BY <2>1, <2>2
  <2>3. CASE latest' = [latest EXCEPT ![want[p]] = d]
    BY <1>2, <2>1, <2>3, Zenon
  <2> QED  BY <2>2, <2>3 DEF Changes
<1>6. TypeOK'
  <2>1. pc' \in [Proc -> PcType]
    <3>1. l \in PcType
      BY DEF PcType, Holding
    <3> QED  BY <1>1, <3>1, Types, Zenon DEF Goto
  <2> QED  BY <1>1, <1>3, <1>5, <2>1, Zenon DEF BufInv, TypeOK, BufType, PcType
<1>7. \A q \in Proc : pc[q] # "out" => at[q] \in Buf
  <2> SUFFICES ASSUME NEW q \in Proc, pc[q] # "out" PROVE at[q] \in Buf
    OBVIOUS
  <2> QED  BY EnteredAt
<1>8. Entered' /\ SleepersWait' /\ Filled' /\ Listed'
  <2>1. ASSUME NEW q \in Proc
        PROVE  /\ IF pc'[q] = "out" THEN at'[q] = NoBuf
                  ELSE at'[q] \in Buf /\ want'[q] \in Block /\ buf'[at'[q]].blk = want'[q]
               /\ pc'[q] = "locksleep" => buf'[at'[q]].pid # NoProc
               /\ pc'[q] \in {"hold", "brelse"} => buf'[at'[q]].valid
    <3>1. CASE q = p
      BY <1>1, <1>2, <1>3, <1>4, <3>1
    <3>2. CASE q # p /\ pc[q] = "out"
      BY <1>1, <1>4, <3>2 DEF BufInv, Entered
    <3>3. CASE q # p /\ pc[q] # "out"
      <4>1. at[q] \in Buf /\ pc'[q] = pc[q] /\ at'[q] = at[q] /\ want'[q] = want[q]
        BY <1>1, <1>4, <1>7, <3>3
      <4>2. /\ buf'[at[q]].blk = buf[at[q]].blk /\ buf'[at[q]].pid = buf[at[q]].pid
            /\ buf'[at[q]].valid = buf[at[q]].valid
        BY <1>3, <4>1
      <4> QED  BY <3>3, <4>1, <4>2 DEF BufInv, Entered, SleepersWait, Filled
    <3> QED  BY <3>1, <3>2, <3>3
  <2>2. \A y \in Buf : buf'[y].dirty => buf'[y].valid /\ buf'[y].blk \in Block
    BY <1>2, <1>3, Zenon DEF BufInv, Filled
  <2> QED  BY <1>1, <2>1, <2>2, Zenon DEF BufInv, Entered, SleepersWait, Filled, Listed
<1>9. Counted' /\ NoBuffersLeft'
  BY <1>1, <1>3, PlaceFrame
<1>10. Locked'
  BY <1>1, <1>3, <1>4, LockFrame DEF Holding
<1>11. OneBuffer'
  BY <1>3 DEF BufInv, OneBuffer
<1>12. \A y \in Buf : y # x => (Asked(y)' <=> Asked(y))
  BY <1>3 DEF Asked
<1>13. Queue'
  <2>1. \A y : Queued(y)' <=> Queued(y)
    BY <1>1 DEF Queued
  <2>2. ASSUME NEW i \in 1..Len(idequeue)
        PROVE  /\ Asked(idequeue[i])'
               /\ \E q \in Proc : pc'[q] \in Waiting /\ at'[q] = idequeue[i]
    <3>1. Asked(idequeue[i]) /\ idequeue[i] \in Buf
      BY QueuedBlock, Zenon
    <3>2. PICK q \in Proc : pc[q] \in Waiting /\ at[q] = idequeue[i]
      BY DEF BufInv, Queue
    <3>3. q # p
      BY <1>1, <3>2 DEF Waiting
    <3> QED  BY <1>1, <1>2, <1>4, <1>12, <3>1, <3>2, <3>3, Zenon
  <2>3. ASSUME NEW q \in Proc
        PROVE  /\ pc'[q] = "iderw" => Asked(at[q])'
               /\ pc'[q] = "iosleep" => Queued(at[q])'
               /\ pc'[q] = "iowoken" => Queued(at[q])' \/ ~Asked(at[q])'
    <3>1. CASE q = p
      BY <1>1, <1>3, <1>4, <3>1 DEF Asked
    <3>2. CASE q # p
      <4>1. pc'[q] \in {"iderw", "iosleep", "iowoken"} => at[q] \in Buf /\ at[q] # x
        BY <1>2, <1>4, <1>7, <3>2 DEF Holding
      <4> QED  BY <1>1, <1>4, <1>12, <2>1, <3>2, <4>1 DEF BufInv, Queue
    <3> QED  BY <3>1, <3>2
  <2> QED  BY <1>1, <2>2, <2>3, Zenon DEF BufInv, Queue
<1>14. \A b : OnDisk(b)' = OnDisk(b)
  BY <1>1 DEF OnDisk
<1>15. Started'
  <2>1. idequeue # <<>> => idequeue[1] # x
    BY <1>2, QueueSize
  <2>2. \A y \in Buf : idequeue # <<>> /\ y = idequeue[1] => buf'[y] = buf[y]
    BY <1>3, <2>1, Zenon
  <2> QED  BY <1>1, <1>14, <2>2 DEF BufInv, Started
<1>16. Fresh'
  <2>1. ASSUME NEW y \in Buf, buf'[y].valid, buf'[y].blk \in Block \ Faulty
        PROVE  buf'[y].data = latest'[buf'[y].blk]
    <3>1. buf[y].valid /\ buf[y].data = latest[buf[y].blk] /\ buf[y].blk \in Block
      BY <1>3, <2>1 DEF BufInv, Fresh
    <3>2. CASE y = x
      BY <1>2, <1>3, <1>5, <3>1, <3>2
    <3>3. CASE y # x
      <4>1. buf[y].blk # want[p]
        BY <1>2, <3>1, <3>3, BufCacheAssumption DEF BufInv, OneBuffer
      <4>2. buf'[y] = buf[y]
        BY <1>3, <3>3, Zenon
      <4>3. latest'[buf[y].blk] = latest[buf[y].blk]
        BY <1>5, <3>1, <4>1
      <4> QED  BY <3>1, <4>2, <4>3
    <3> QED  BY <3>2, <3>3
  <2>2. ASSUME NEW b \in Block \ Faulty
        PROVE  OnDisk(b)' = latest'[b] \/ \E y \in Buf : buf'[y].blk = b /\ buf'[y].dirty
    <3>1. CASE b = want[p]
      BY <1>2, <1>3, <3>1
    <3>2. CASE b # want[p]
      <4>1. OnDisk(b) = latest[b] \/ \E y \in Buf : buf[y].blk = b /\ buf[y].dirty
        BY DEF BufInv, Fresh
      <4> QED  BY <1>3, <1>5, <1>14, <3>2, <4>1
    <3> QED  BY <3>1, <3>2
  <2> QED  BY <2>1, <2>2 DEF Fresh
<1> QED
  BY <1>6, <1>8, <1>9, <1>10, <1>11, <1>13, <1>15, <1>16 DEF BufInv

LEMMA WritesKeep == ASSUME BufInv, NEW p \in Proc, LogWrite(p) \/ bwrite(p) PROVE BufInv'
<1>1. /\ panicked = "no" /\ pc[p] = "hold" /\ UNCHANGED <<lru, io, at, want, panicked>>
      /\ Goto(p, "brelse") \/ Goto(p, "iderw")
  BY DEF LogWrite, bwrite, At
<1>2. PICK x \in Buf : x = at[p]
  BY <1>1, EnteredAt
<1>3. /\ want[p] \in Block /\ buf[x] \in BufType
      /\ buf \in [Buf -> BufType] /\ latest \in [Block -> Nat]
  BY <1>1, <1>2, EnteredAt, Types
<1>4. PICK d \in Nat : /\ buf' = [buf EXCEPT ![x] = [buf[x] EXCEPT !.data = d, !.dirty = TRUE]]
                       /\ \/ latest' = latest /\ d = buf[x].data
                          \/ latest' = [latest EXCEPT ![want[p]] = d]
  <2>1. CASE /\ Change(p)
             /\ buf' = [buf EXCEPT ![x].data = latest'[want[p]], ![x].dirty = TRUE]
    <3>1. latest[want[p]] + 1 \in Nat /\ latest' = [latest EXCEPT ![want[p]] = latest[want[p]] + 1]
      BY <1>3, <2>1 DEF Change
    <3>2. latest'[want[p]] = latest[want[p]] + 1
      BY <1>3, <3>1
    <3>3. buf' = [buf EXCEPT ![x] =
                    [buf[x] EXCEPT !.data = latest[want[p]] + 1, !.dirty = TRUE]]
      BY <1>3, <2>1, <3>2, Zenon
    <3> QED  BY <3>1, <3>3, Zenon
  <2>2. CASE UNCHANGED latest /\ buf' = [buf EXCEPT ![x].dirty = TRUE]
    <3>1. buf[x].data \in Nat
      BY <1>3 DEF BufType
    <3>2. [buf[x] EXCEPT !.dirty = TRUE] = [buf[x] EXCEPT !.data = buf[x].data, !.dirty = TRUE]
      BY <1>3, Zenon DEF BufType
    <3>3. buf' = [buf EXCEPT ![x] = [buf[x] EXCEPT !.dirty = TRUE]]
      BY <1>3, <2>2
    <3> QED  BY <2>2, <3>1, <3>2, <3>3, Zenon
  <2> QED  BY <1>2, <2>1, <2>2, Zenon DEF LogWrite, bwrite
<1>5. PICK r \in BufType : r = [buf[x] EXCEPT !.data = d, !.dirty = TRUE]
  BY <1>3, Zenon DEF BufType
<1>6. /\ r.data = d /\ r.dirty /\ r.valid = buf[x].valid /\ r.blk = buf[x].blk
      /\ r.pid = buf[x].pid /\ r.refcnt = buf[x].refcnt
  BY <1>3, <1>5 DEF BufType
<1>7. buf' \in [Buf -> BufType] /\ buf'[x] = r /\ \A y \in Buf : y # x => buf'[y] = buf[y]
  BY <1>3, <1>4, <1>5, Zenon
<1>8. \E l \in {"brelse", "iderw"} : Changes(p, l, d, x)
  BY <1>1, <1>2, <1>4, <1>6, <1>7, Zenon DEF Changes
<1> QED  BY <1>8, ChangeKeeps

-----------------------------------------------------------------------------
(***************************************************************************)
(* The driver.                                                             *)
(***************************************************************************)
\* The command is a record of its four fields.
LEMMA CmdIs ==
  ASSUME BufInv
  PROVE  /\ cmd.blk \in Block \union {NoBlock} /\ cmd.write \in BOOLEAN /\ cmd.data \in Nat
         /\ cmd.done \in BOOLEAN
<1>1. cmd \in [blk : Block \union {NoBlock}, write : BOOLEAN, data : Nat, done : BOOLEAN]
  BY Types
<1> QED  BY <1>1

\* A step that changes no buffer, no process but from iderw into its sleep, and
\* only adds to the queue.
LEMMA DriveKeeps == ASSUME BufInv, DriveDone PROVE BufInv'
<1>1. /\ UNCHANGED <<buf, lru, idequeue, pc, at, want, latest, panicked>>
      /\ ~cmd.done /\ irq' = TRUE
      /\ disk' = IF cmd.write THEN [disk EXCEPT ![cmd.blk] = cmd.data] ELSE disk
      /\ cmd' = [NoCmd EXCEPT !.data = IF cmd.write THEN 0 ELSE disk[cmd.blk]]
  BY DEF DriveDone
<1>2. cmd.blk \in Block /\ disk \in [Block -> Nat] /\ cmd.data \in Nat /\ cmd.write \in BOOLEAN
  BY <1>1, CmdIs, Types DEF BufInv, Started
<1> DEFINE d == IF cmd.write THEN 0 ELSE disk[cmd.blk]
<1>3. d \in Nat /\ (~cmd.write => d = disk[cmd.blk])
  BY <1>2
<1>4. cmd' = [blk |-> NoBlock, write |-> FALSE, data |-> d, done |-> TRUE]
  BY <1>1, Zenon DEF NoCmd
<1> HIDE DEF d
<1>5. disk' \in [Block -> Nat]
  BY <1>1, <1>2
<1>6. \A b \in Block : disk'[b] = OnDisk(b)
  BY <1>1, <1>2 DEF OnDisk
<1>7. \A b \in Block : OnDisk(b)' = OnDisk(b)
  BY <1>4, <1>6 DEF OnDisk
<1>8. TypeOK'
  <2>1. cmd' \in [blk : Block \union {NoBlock}, write : BOOLEAN, data : Nat, done : BOOLEAN]
    BY <1>3, <1>4
  <2> QED  BY <1>1, <1>5, <2>1, Zenon DEF BufInv, TypeOK
<1>9. Entered' /\ Listed' /\ Filled' /\ SleepersWait' /\ NoBuffersLeft' /\ OneBuffer'
  BY <1>1, Zenon DEF BufInv, Entered, Listed, Filled, SleepersWait, NoBuffersLeft, OneBuffer
<1>10. Counted' /\ Locked'
  BY <1>1 DEF BufInv, Counted, Users, Locked
<1>11. Queue'
  BY <1>1, Zenon DEF BufInv, Queue, Queued, Asked
<1>12. Started'
  <2> SUFFICES ASSUME NEW x \in Buf, idequeue # <<>>, x = idequeue[1]
               PROVE  IF buf[x].dirty THEN OnDisk(buf[x].blk)' = buf[x].data
                      ELSE d = disk'[buf[x].blk]
    BY <1>1, <1>4 DEF Started
  <2>1. buf[x].blk \in Block
    <3>1. \E p \in Proc : pc[p] \in Waiting /\ at[p] = x
      BY QueueSize DEF BufInv, Queue
    <3>2. \E p \in Proc : pc[p] # "out" /\ at[p] = x
      BY <3>1 DEF Waiting
    <3> QED  BY <3>2, EnteredAt
  <2>2. CASE buf[x].dirty
    <3>1. OnDisk(buf[x].blk) = buf[x].data
      BY <2>2 DEF BufInv, Started
    <3> QED  BY <1>1, <1>7, <2>1, <2>2, <3>1
  <2>3. CASE ~buf[x].dirty
    <3>1. cmd.blk = buf[x].blk /\ ~cmd.write
      BY <1>1, <2>3 DEF BufInv, Started
    <3> QED  BY <1>1, <1>3, <2>3, <3>1
  <2> QED  BY <2>2, <2>3
<1>13. Fresh'
  BY <1>1, <1>7 DEF BufInv, Fresh
<1> QED  BY <1>8, <1>9, <1>10, <1>11, <1>12, <1>13 DEF BufInv

\* idestart: the drive is idle, the command of the buffer goes to it, and the block
\* of a dirty buffer is as good as written.
LEMMA StartIs ==
  ASSUME BufInv, NEW x \in Buf, buf[x].blk \in Block, cmd.done, idestart(x), disk' = disk
  PROVE  /\ cmd' \in [blk : Block \union {NoBlock}, write : BOOLEAN, data : Nat, done : BOOLEAN]
         /\ ~cmd'.done /\ cmd'.blk = buf[x].blk /\ (cmd'.write <=> buf[x].dirty)
         /\ \A b \in Block : OnDisk(b) = disk[b]
         /\ \A b \in Block : OnDisk(b)' = IF buf[x].dirty /\ b = buf[x].blk THEN buf[x].data ELSE disk[b]
<1>1. buf[x] \in BufType
  BY Types
<1>2. cmd' = [blk |-> buf[x].blk, write |-> buf[x].dirty, data |-> buf[x].data, done |-> FALSE]
  BY DEF idestart
<1>3. /\ cmd' \in [blk : Block \union {NoBlock}, write : BOOLEAN, data : Nat, done : BOOLEAN]
      /\ ~cmd'.done /\ cmd'.blk = buf[x].blk /\ cmd'.write = buf[x].dirty
      /\ cmd'.data = buf[x].data
  BY <1>1, <1>2 DEF BufType
<1>4. \A b \in Block : OnDisk(b) = disk[b]
  BY DEF OnDisk
<1>5. \A b \in Block : OnDisk(b)' = IF buf[x].dirty /\ b = buf[x].blk THEN buf[x].data ELSE disk[b]
  BY <1>3 DEF OnDisk
<1> QED  BY <1>3, <1>4, <1>5

LEMMA StartFresh ==
  ASSUME BufInv, NEW x \in Buf, buf[x].blk \in Block, cmd.done, idestart(x), disk' = disk
  PROVE  \A b \in Block \ Faulty : OnDisk(b) = latest[b] => OnDisk(b)' = latest[b]
<1>1. buf[x].dirty /\ buf[x].blk \notin Faulty => buf[x].data = latest[buf[x].blk]
  BY DEF BufInv, Fresh, Filled
<1> QED  BY <1>1, StartIs

LEMMA IderwKeeps == ASSUME BufInv, NEW p \in Proc, iderw(p) PROVE BufInv'
<1>0. PICK x \in Buf : x = at[p]
  BY EnteredAt DEF iderw, At
<1>1. /\ UNCHANGED <<buf, lru, disk, irq, at, want, latest, panicked>> /\ panicked = "no"
      /\ pc[p] = "iderw" /\ pc' = [pc EXCEPT ![p] = "iosleep"]
      /\ idequeue' = Append(idequeue, x)
      /\ IF idequeue = <<>> THEN cmd.done /\ idestart(x) ELSE UNCHANGED cmd
  BY <1>0 DEF iderw, At, Goto
<1>2. /\ x \in Buf /\ buf[x].blk \in Block /\ at[p] = x /\ Asked(x)
      /\ \A i \in 1..Len(idequeue) : idequeue[i] # x
  BY <1>0, <1>1, EnteredAt, NotQueued, Zenon DEF Holding, Waiting, BufInv, Queue
<1>3. \A q \in Proc : pc'[q] = IF q = p THEN "iosleep" ELSE pc[q]
  BY <1>1, Types, Zenon
<1>4. /\ idequeue' \in Seq(Buf) /\ Len(idequeue) \in Nat /\ Len(idequeue') = Len(idequeue) + 1
      /\ idequeue'[Len(idequeue) + 1] = x
      /\ \A i \in 1..Len(idequeue) : idequeue'[i] = idequeue[i]
      /\ idequeue = <<>> => idequeue'[1] = x
  <2>1. idequeue \in Seq(Buf)
    BY Types
  <2> QED  BY <1>1, <1>2, <2>1
<1>5. idequeue = <<>> => /\ cmd.done /\ idestart(x) /\ ~cmd'.done /\ cmd'.blk = buf[x].blk
                         /\ cmd'.write <=> buf[x].dirty
  BY <1>1, <1>2, StartIs, Zenon
<1>6. \A b \in Block \ Faulty : OnDisk(b) = latest[b] => OnDisk(b)' = latest[b]
  <2>1. CASE idequeue # <<>>
    BY <1>1, <2>1 DEF OnDisk
  <2>2. CASE idequeue = <<>>
    BY <1>1, <1>2, <1>5, <2>2, StartFresh, Zenon
  <2> QED  BY <2>1, <2>2
<1>7. TypeOK'
  <2>1. cmd' \in [blk : Block \union {NoBlock}, write : BOOLEAN, data : Nat, done : BOOLEAN]
    BY <1>1, <1>2, StartIs, Types, Zenon
  <2>2. pc' \in [Proc -> PcType]
    BY <1>1, Types, Zenon DEF PcType, Holding
  <2> QED  BY <1>1, <1>4, <2>1, <2>2, Zenon DEF BufInv, TypeOK, PcType
<1>8. Entered' /\ Listed' /\ Filled' /\ SleepersWait' /\ OneBuffer'
  BY <1>1, <1>3 DEF BufInv, Entered, Listed, Filled, SleepersWait, OneBuffer
<1>9. Counted' /\ NoBuffersLeft'
  BY <1>1, PlaceFrame
<1>10. Locked'
  BY <1>1, <1>3, LockFrame DEF Holding
<1>11. Queue'
  <2>1. \A y : (Asked(y)' <=> Asked(y)) /\ (Queued(y) => Queued(y)')
    BY <1>1, <1>4 DEF Asked, Queued
  <2>2. Queued(x)'
    BY <1>4 DEF Queued
  <2>3. \A i, j \in 1..Len(idequeue') : idequeue'[i] = idequeue'[j] => i = j
    BY <1>2, <1>4 DEF BufInv, Queue
  <2>4. ASSUME NEW i \in 1..Len(idequeue')
        PROVE  /\ Asked(idequeue'[i])
               /\ \E q \in Proc : pc'[q] \in Waiting /\ at[q] = idequeue'[i]
    <3>1. CASE i = Len(idequeue) + 1
      BY <1>2, <1>3, <1>4, <3>1 DEF Waiting
    <3>2. CASE i \in 1..Len(idequeue)
      <4>1. PICK q \in Proc : pc[q] \in Waiting /\ at[q] = idequeue[i]
        BY <3>2, QueuedBlock
      <4>2. pc'[q] \in Waiting
        BY <1>3, <4>1 DEF Waiting
      <4>3. Asked(idequeue[i])
        BY <3>2, QueuedBlock
      <4> QED  BY <1>4, <3>2, <4>1, <4>2, <4>3
    <3> QED  BY <1>4, <3>1, <3>2
  <2>5. \A q \in Proc : /\ pc'[q] = "iderw" => Asked(at[q])
                        /\ pc'[q] = "iosleep" => Queued(at[q])'
                        /\ pc'[q] = "iowoken" => Queued(at[q])' \/ ~Asked(at[q])
    <3>1. \A q \in Proc : (Queued(at[q]) => Queued(at[q])') /\ at'[q] = at[q]
      BY <1>1, <2>1
    <3> QED  BY <1>1, <1>2, <1>3, <2>2, <3>1 DEF BufInv, Queue
  <2> QED  BY <1>1, <2>1, <2>3, <2>4, <2>5 DEF Queue
<1>12. Started'
  <2>1. CASE idequeue # <<>>
    <3>1. idequeue'[1] = idequeue[1] /\ cmd' = cmd
      BY <1>1, <1>4, <2>1, QueueSize
    <3> QED  BY <1>1, <2>1, <3>1 DEF BufInv, Started, OnDisk
  <2>2. CASE idequeue = <<>>
    <3>1. buf[x].dirty => OnDisk(buf[x].blk)' = buf[x].data
      BY <1>1, <1>2, <1>5, <2>2, StartIs
    <3> QED  BY <1>1, <1>2, <1>4, <1>5, <2>2, <3>1 DEF Started
  <2> QED  BY <2>1, <2>2
<1>13. Fresh'
  BY <1>1, <1>6, Zenon DEF BufInv, Fresh
<1> QED  BY <1>7, <1>8, <1>9, <1>10, <1>11, <1>12, <1>13 DEF BufInv

\* What the handler does to the first request, whose data are then those of its
\* block and on their way to the disk.
LEMMA FinishedData ==
  ASSUME BufInv, NEW x \in Buf, idequeue # <<>>, x = idequeue[1], NEW failed \in BOOLEAN,
         failed => ~buf[x].dirty /\ buf[x].blk \in Faulty, buf[x].dirty \/ cmd.done
  PROVE  LET d == IF buf[x].dirty \/ failed THEN buf[x].data ELSE cmd.data IN
         /\ d \in Nat
         /\ buf[x].blk \notin Faulty => d = latest[buf[x].blk] /\ OnDisk(buf[x].blk) = latest[buf[x].blk]
<1>1. buf[x] \in BufType /\ buf[x].blk \in Block
  BY QueueSize, QueuedBlock
<1>2. CASE buf[x].dirty
  <2>1. OnDisk(buf[x].blk) = buf[x].data
    BY <1>2 DEF BufInv, Started
  <2>2. buf[x].blk \notin Faulty => buf[x].data = latest[buf[x].blk]
    BY <1>1, <1>2 DEF BufInv, Fresh, Filled
  <2> QED  BY <1>1, <1>2, <2>1, <2>2 DEF BufType
<1>3. CASE ~buf[x].dirty /\ failed
  BY <1>1, <1>3 DEF BufType
<1>4. CASE ~buf[x].dirty /\ ~failed
  <2>1. cmd.done /\ cmd.data = disk[buf[x].blk]
    BY <1>4 DEF BufInv, Started
  <2>2. OnDisk(buf[x].blk) = cmd.data
    BY <2>1 DEF OnDisk
  <2>3. ASSUME buf[x].blk \notin Faulty PROVE OnDisk(buf[x].blk) = latest[buf[x].blk]
    <3>1. ASSUME NEW y \in Buf, buf[y].blk = buf[x].blk PROVE ~buf[y].dirty
      BY <1>1, <1>4, <3>1, BufCacheAssumption DEF BufInv, OneBuffer
    <3> QED  BY <1>1, <2>3, <3>1 DEF BufInv, Fresh
  <2> QED  BY <1>4, <2>2, <2>3, CmdIs
<1> QED  BY <1>2, <1>3, <1>4, Zenon

LEMMA FinishKeeps ==
  ASSUME BufInv, NEW failed \in BOOLEAN, panicked = "no", idequeue # <<>>,
         Finish(Head(idequeue), failed),
         UNCHANGED <<lru, disk, at, want, latest, panicked>>, irq' \in BOOLEAN
  PROVE  BufInv'
<1>1. PICK x \in Buf : x = idequeue[1] /\ x = Head(idequeue)
  BY Types, QueueSize
<1>2. 1 \in 1..Len(idequeue) /\ Len(idequeue) \in Nat
  BY QueueSize
<1>3. buf[x] \in BufType /\ buf[x].blk \in Block /\ buf \in [Buf -> BufType]
  BY <1>1, <1>2, QueuedBlock, Types
<1>4. /\ failed => ~buf[x].dirty /\ buf[x].blk \in Faulty
      /\ buf[x].dirty \/ cmd.done
      /\ buf' = [buf EXCEPT ![x].valid = TRUE, ![x].dirty = FALSE,
                            ![x].data = IF buf[x].dirty \/ failed THEN @ ELSE cmd.data]
      /\ pc' = Wakeup(x, "iosleep", "iowoken") /\ idequeue' = Tail(idequeue)
      /\ IF idequeue' # <<>> THEN cmd.done /\ idestart(Head(idequeue')) ELSE UNCHANGED cmd
  BY <1>1 DEF Finish
<1>5. PICK d \in Nat : /\ d = IF buf[x].dirty \/ failed THEN buf[x].data ELSE cmd.data
                       /\ buf[x].blk \notin Faulty =>
                            d = latest[buf[x].blk] /\ OnDisk(buf[x].blk) = latest[buf[x].blk]
  BY <1>1, <1>4, FinishedData
<1>6. PICK r \in BufType : r = [buf[x] EXCEPT !.valid = TRUE, !.dirty = FALSE, !.data = d]
  BY <1>3, Zenon DEF BufType
<1>7. /\ r.valid /\ ~r.dirty /\ r.data = d /\ r.blk = buf[x].blk /\ r.pid = buf[x].pid
      /\ r.refcnt = buf[x].refcnt
  BY <1>3, <1>6 DEF BufType
<1>8. buf' \in [Buf -> BufType] /\ buf'[x] = r /\ \A y \in Buf : y # x => buf'[y] = buf[y]
  <2>1. buf' = [buf EXCEPT ![x] = r]
    BY <1>3, <1>4, <1>5, <1>6, Zenon
  <2> QED  BY <1>3, <1>6, <2>1, Zenon
<1>9. \A y \in Buf : /\ buf'[y].blk = buf[y].blk /\ buf'[y].pid = buf[y].pid
                     /\ buf'[y].refcnt = buf[y].refcnt /\ (buf[y].valid => buf'[y].valid)
  BY <1>7, <1>8
<1>10. /\ \A q \in Proc : pc'[q] = IF pc[q] = "iosleep" /\ at[q] = x THEN "iowoken" ELSE pc[q]
       /\ pc' \in [Proc -> PcType]
  <2>1. pc \in [Proc -> PcType] /\ "iowoken" \in PcType
    BY Types DEF PcType, Holding
  <2> QED  BY <1>4, <2>1 DEF Wakeup
<1>11. /\ idequeue' \in Seq(Buf) /\ Len(idequeue') = Len(idequeue) - 1
       /\ \A i \in 1..Len(idequeue') : i + 1 \in 1..Len(idequeue) /\ idequeue'[i] = idequeue[i + 1]
       /\ idequeue' # <<>> => 2 \in 1..Len(idequeue) /\ Head(idequeue') = idequeue[2] /\ idequeue'[1] = idequeue[2]
  <2>1. idequeue \in Seq(Buf)
    BY Types
  <2> QED  BY <1>4, <2>1
<1>12. \A i \in 2..Len(idequeue) : idequeue[i] # x /\ idequeue[i] \in Buf
  BY <1>1, <1>2, QueueSize DEF BufInv, Queue
<1>13. idequeue' # <<>> =>
         LET y == idequeue[2] IN y \in Buf /\ y # x /\ buf[y].blk \in Block /\ cmd.done /\ idestart(y)
  BY <1>4, <1>11, <1>12, QueuedBlock
<1>14. \A q \in Proc : pc[q] # "out" => at[q] \in Buf
  BY EnteredAt
<1>15. TypeOK'
  <2>1. cmd' \in [blk : Block \union {NoBlock}, write : BOOLEAN, data : Nat, done : BOOLEAN]
    BY <1>4, <1>13, StartIs, Types
  <2> QED  BY <1>8, <1>10, <1>11, <2>1, Zenon DEF BufInv, TypeOK, BufType, PcType
<1>16. Entered' /\ Listed' /\ SleepersWait' /\ OneBuffer'
  BY <1>9, <1>10, <1>14 DEF BufInv, Entered, Listed, SleepersWait, OneBuffer
<1>17. Counted' /\ NoBuffersLeft'
  BY <1>9, PlaceFrame
<1>18. Locked'
  BY <1>9, <1>10, LockFrame DEF Holding
<1>19. Filled'
  <2>1. \A q \in Proc : pc'[q] \in {"hold", "brelse"} => pc[q] = pc'[q] /\ at[q] \in Buf
    BY <1>10, <1>14
  <2> QED  BY <1>7, <1>8, <1>9, <2>1 DEF BufInv, Filled
<1>20. Queue'
  <2>1. \A y \in Buf : y # x => (Asked(y)' <=> Asked(y)) /\ (Queued(y) => Queued(y)')
    <3>1. ASSUME NEW y \in Buf, y # x PROVE Asked(y)' <=> Asked(y)
      BY <1>8, <3>1 DEF Asked
    <3>2. ASSUME NEW y \in Buf, y # x, Queued(y) PROVE Queued(y)'
      <4>1. PICK i \in 1..Len(idequeue) : idequeue[i] = y
        BY <3>2 DEF Queued
      <4>2. i # 1
        BY <1>1, <3>2, <4>1
      <4>3. i - 1 \in 1..Len(idequeue') /\ idequeue'[i - 1] = y
        <5>1. i - 1 \in 1..Len(idequeue') /\ (i - 1) + 1 = i
          BY <1>2, <1>11, <4>2
        <5> QED  BY <1>11, <4>1, <5>1
      <4> QED  BY <4>3 DEF Queued
    <3> QED  BY <3>1, <3>2
  <2>2. ~Asked(x)'
    BY <1>7, <1>8 DEF Asked
  <2>3. \A i, j \in 1..Len(idequeue') : idequeue'[i] = idequeue'[j] => i = j
    BY <1>2, <1>11 DEF BufInv, Queue
  <2>4. ASSUME NEW i \in 1..Len(idequeue')
        PROVE  /\ Asked(idequeue[i])'
               /\ \E q \in Proc : pc'[q] \in Waiting /\ at'[q] = idequeue'[i]
    <3>1. PICK y \in Buf : y = idequeue'[i] /\ y = idequeue[i + 1] /\ y # x /\ i + 1 \in 1..Len(idequeue)
      BY <1>2, <1>11, <1>12
    <3>2. PICK q \in Proc : pc[q] \in Waiting /\ at[q] = y
      BY <3>1, QueuedBlock
    <3>3. pc'[q] \in Waiting
      BY <1>10, <3>2 DEF Waiting
    <3>4. Asked(y)'
      BY <2>1, <3>1, QueuedBlock
    <3> QED  BY <3>1, <3>2, <3>3, <3>4
  <2>5. \A q \in Proc : pc[q] = "iderw" => at[q] # x
    BY <1>1, <1>2, NotQueued DEF Holding, Waiting
  <2>6. ASSUME NEW q \in Proc
        PROVE  /\ pc'[q] = "iderw" => Asked(at[q])'
               /\ pc'[q] = "iosleep" => Queued(at[q])'
               /\ pc'[q] = "iowoken" => Queued(at[q])' \/ ~Asked(at[q])'
    <3>1. CASE at[q] = x
      BY <1>10, <2>2, <2>5, <3>1
    <3>2. CASE at[q] # x /\ pc[q] # "out"
      <4>1. PICK y \in Buf : y = at[q] /\ y = at'[q]
        BY <1>14, <3>2
      <4> QED  BY <1>10, <2>1, <3>2, <4>1, Zenon DEF BufInv, Queue
    <3>3. CASE pc[q] = "out"
      BY <1>10, <3>3
    <3> QED  BY <3>1, <3>2, <3>3
  <2> QED  BY <2>3, <2>4, <2>6 DEF Queue
<1>21. Started'
  <2>1. CASE idequeue' = <<>>
    BY <1>4, <2>1 DEF BufInv, Started
  <2>2. CASE idequeue' # <<>>
    <3>1. PICK y \in Buf : /\ y = idequeue'[1] /\ y # x /\ buf[y].blk \in Block /\ cmd.done
                           /\ idestart(y) /\ buf'[y] = buf[y]
      BY <1>8, <1>11, <1>13, <2>2
    <3>2. /\ ~cmd'.done /\ cmd'.blk = buf[y].blk /\ (cmd'.write <=> buf[y].dirty)
          /\ \A b \in Block : OnDisk(b)' = IF buf[y].dirty /\ b = buf[y].blk THEN buf[y].data ELSE disk[b]
      BY <3>1, StartIs
    <3> QED  BY <2>2, <3>1, <3>2 DEF Started
  <2> QED  BY <2>1, <2>2
<1>22. Fresh'
  <2>1. \A b \in Block \ Faulty : OnDisk(b) = latest[b] => OnDisk(b)' = latest[b]
    <3>1. CASE idequeue' = <<>>
      BY <1>4, <3>1 DEF OnDisk
    <3>2. CASE idequeue' # <<>>
      BY <1>13, <3>2, StartFresh
    <3> QED  BY <3>1, <3>2
  <2>2. ASSUME NEW y \in Buf, buf'[y].valid, buf'[y].blk \in Block \ Faulty
        PROVE  buf'[y].data = latest[buf'[y].blk]
    <3>1. CASE y = x
      BY <1>5, <1>7, <1>8, <2>2, <3>1
    <3>2. CASE y # x
      BY <1>8, <2>2, <3>2, Zenon DEF BufInv, Fresh
    <3> QED  BY <3>1, <3>2
  <2>3. ASSUME NEW b \in Block \ Faulty
        PROVE  OnDisk(b)' = latest[b] \/ \E y \in Buf : buf'[y].blk = b /\ buf'[y].dirty
    <3>1. CASE OnDisk(b) = latest[b]
      BY <2>1, <3>1
    <3>2. CASE \E y \in Buf : buf[y].blk = b /\ buf[y].dirty
      <4>1. PICK y \in Buf : buf[y].blk = b /\ buf[y].dirty
        BY <3>2
      <4>2. CASE y = x
        BY <1>5, <2>1, <4>1, <4>2
      <4>3. CASE y # x
        BY <1>8, <4>1, <4>3
      <4> QED  BY <4>2, <4>3
    <3> QED  BY <3>1, <3>2 DEF BufInv, Fresh
  <2> QED  BY <2>2, <2>3 DEF Fresh
<1> QED
  BY <1>15, <1>16, <1>17, <1>18, <1>19, <1>20, <1>21, <1>22 DEF BufInv

\* A step that leaves everything but the interrupt line alone.
LEMMA QuietKeeps ==
  ASSUME BufInv, irq' \in BOOLEAN,
         UNCHANGED <<buf, lru, idequeue, disk, cmd, pc, at, want, latest, panicked>>
  PROVE  BufInv'
<1>1. TypeOK' /\ Entered' /\ Listed' /\ Filled' /\ SleepersWait' /\ NoBuffersLeft'
  BY Zenon DEF BufInv, TypeOK, Entered, Listed, Filled, SleepersWait, NoBuffersLeft
<1>2. Counted' /\ Locked'
  BY DEF BufInv, Counted, Users, Locked
<1>3. Queue'
  BY Zenon DEF BufInv, Queue, Queued, Asked
<1>4. OneBuffer' /\ Started' /\ Fresh'
  BY DataFrame DEF SameData
<1> QED  BY <1>1, <1>2, <1>3, <1>4 DEF BufInv

LEMMA IdeintrKeeps == ASSUME BufInv, NEW spurious \in BOOLEAN, ideintr(spurious) PROVE BufInv'
<1>1. /\ panicked = "no" /\ UNCHANGED <<lru, disk, at, want, latest, panicked>>
      /\ irq' = (irq /\ spurious)
  BY DEF ideintr
<1>2. irq' \in BOOLEAN
  BY <1>1
<1>3. CASE idequeue = <<>>
  BY <1>1, <1>2, <1>3, QuietKeeps DEF ideintr
<1>4. CASE idequeue # <<>>
  <2>1. PICK failed \in BOOLEAN : Finish(Head(idequeue), failed)
    BY <1>4 DEF ideintr
  <2> QED  BY <1>1, <1>2, <1>4, <2>1, FinishKeeps
<1> QED  BY <1>3, <1>4

-----------------------------------------------------------------------------
LEMMA InitKeeps == Init => BufInv
<1> SUFFICES ASSUME Init PROVE BufInv
  OBVIOUS
<1>1. TypeOK
  <2>1. cmd \in [blk : Block \union {NoBlock}, write : BOOLEAN, data : Nat, done : BOOLEAN]
    BY DEF Init, NoCmd
  <2>2. <<>> \in Seq(Buf) /\ 0 \in Nat
    OBVIOUS
  <2>3. buf \in [Buf -> BufType]
    BY DEF Init, BufType
  <2> QED  BY <2>1, <2>2, <2>3, BufCacheAssumption, Zenon DEF Init, TypeOK, BufType, Holding
<1>2. Entered /\ Filled /\ SleepersWait /\ NoBuffersLeft
  BY DEF Init, Entered, Filled, SleepersWait, NoBuffersLeft
<1>3. Counted
  <2>1. \A x \in Buf : Users(x) = {}
    BY BufCacheAssumption DEF Init, Users
  <2> QED  BY <2>1, FS_EmptySet, Zenon DEF Init, Counted
<1>4. Locked
  BY BufCacheAssumption DEF Init, Locked, Holding
<1>5. Listed /\ OneBuffer
  BY BufCacheAssumption DEF Init, Listed, OneBuffer
<1>6. Queue
  BY DEF Init, Queue
<1>7. Started
  BY DEF Init, Started, NoCmd
<1>8. Fresh
  BY DEF Init, Fresh, OnDisk, NoCmd
<1> QED  BY <1>1, <1>2, <1>3, <1>4, <1>5, <1>6, <1>7, <1>8 DEF BufInv

LEMMA StepKeeps == BufInv /\ [Next]_vars => BufInv'
<1> SUFFICES ASSUME BufInv, [Next]_vars PROVE BufInv'
  OBVIOUS
<1>1. ASSUME NEW p \in Proc, Bread(p) PROVE BufInv'
  BY <1>1, BgetHitKeeps, BgetRecycleKeeps, BgetPanicKeeps DEF Bread
<1>2. ASSUME NEW p \in Proc, Step(p) PROVE BufInv'
  BY <1>2, AcquireSleepKeeps, IderwKeeps, IderwWokenKeeps, KeepKeeps, ReleaseSleepKeeps,
     BrelseKeeps DEF Step
<1>3. ASSUME NEW p \in Proc, LogWrite(p) \/ bwrite(p) \/ KillWakes(p) PROVE BufInv'
  BY <1>3, WritesKeep, KillWakesKeeps
<1>4. CASE UNCHANGED vars
  <2>1. /\ UNCHANGED <<buf, lru, idequeue, disk, cmd, pc, at, want, latest, panicked>>
        /\ irq' \in BOOLEAN
    BY <1>4, Types DEF vars, io
  <2> QED  BY <2>1, QuietKeeps
<1> QED  BY <1>1, <1>2, <1>3, <1>4, DriveKeeps, IdeintrKeeps DEF Next

\* Between any two steps of bio.c, sleeplock.c and ide.c the counts, the sleep locks,
\* the list, the disk queue and the drive agree: see BufInv.
THEOREM BufInvariant == Spec => []BufInv
<1>1. Init => BufInv
  BY InitKeeps
<1>2. BufInv /\ [Next]_vars => BufInv'
  BY StepKeeps
<1> QED  BY <1>1, <1>2, PTL DEF Spec

\* bread returns the block asked for to one process at a time, with the last contents
\* any holder gave it, for any number of processes, buffers and blocks.
THEOREM CoherentHolds == Spec => []Coherent
<1>1. BufInv => Coherent
  <2> SUFFICES ASSUME BufInv PROVE Coherent
    OBVIOUS
  <2>1. Exclusive
    <3>1. \A p, q \in Proc : p # q /\ pc[p] \in Holding /\ pc[q] \in Holding => at[p] # at[q]
      BY EnteredAt DEF Holding
    <3> QED  BY <3>1 DEF BufInv, OneBuffer, Exclusive
  <2>2. ASSUME NEW p \in Proc, pc[p] = "hold"
        PROVE  /\ buf[at[p]].blk = want[p]
               /\ want[p] \notin Faulty => buf[at[p]].data = latest[want[p]]
    <3>1. at[p] \in Buf /\ want[p] \in Block /\ buf[at[p]].blk = want[p]
      BY <2>2, EnteredAt
    <3>2. buf[at[p]].valid
      BY <2>2 DEF BufInv, Filled
    <3> QED  BY <3>1, <3>2 DEF BufInv, Fresh
  <2> QED  BY <2>1, <2>2 DEF BufInv, Coherent
<1> QED  BY <1>1, BufInvariant, PTL

\* No wakeup of a sleep lock or of iderw is lost: who sleeps has a holder or a
\* request in the queue to wait for.
THEOREM NoLostWakeupHolds == Spec => []NoLostWakeup
<1>1. BufInv => NoLostWakeup
  <2> SUFFICES ASSUME BufInv PROVE NoLostWakeup
    OBVIOUS
  <2>1. idequeue \in Seq(Buf)
    BY Types
  <2>2. DOMAIN idequeue = 1..Len(idequeue)
    BY <2>1
  <2> QED  BY <2>2, Zenon DEF BufInv, SleepersWait, Queue, Queued, NoLostWakeup
<1> QED  BY <1>1, BufInvariant, PTL

\* bget panics only when every buffer is pinned or in the hands of a process.
THEOREM NoBuffersLeftHolds == Spec => []NoBuffersLeft
<1>1. BufInv => NoBuffersLeft
  BY DEF BufInv
<1> QED  BY <1>1, BufInvariant, PTL
=============================================================================
