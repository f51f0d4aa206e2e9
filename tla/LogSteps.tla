------------------------------ MODULE LogSteps -------------------------------
(***************************************************************************)
(* The invariant of log.c for every number of processes, blocks and block  *)
(* contents and every size of the log, and that the operations (begin_op,  *)
(* log_write, end_op) and each stage of commit keep it.                    *)
(***************************************************************************)
EXTENDS Log, FiniteSetTheorems, TLAPS

Active == {p \in Proc : pc[p] \in {"op", "log_write"}}
CommitPlaces == {"commit", "write_log", "write_head", "install", "erase", "finish"}
Distinct(s) == \A i, j \in 1..Len(s) : s[i] = s[j] => i = j

\* During recovery there is no operation, and the cache is what the disk has.
Rebooted ==
  rec # "no" =>
    /\ \A p \in Proc : pc[p] = "out" /\ held[p] = NoBlock /\ wrote[p] = {}
    /\ dirty = {} /\ cache = home
    /\ outstanding = 0 /\ ~committing /\ panicked = "no"

\* outstanding counts the operations, and one process commits when there are none.
Counted ==
  /\ outstanding = Cardinality(Active)
  /\ committing <=> \E p \in Proc : pc[p] \in CommitPlaces
  /\ \A p, q \in Proc : pc[p] \in CommitPlaces =>
       q \notin Active /\ (pc[q] \in CommitPlaces => q = p)

\* A buffer is held from the change to the end of log_write, by one process, and
\* the blocks of an operation are no more than it may write.
Held ==
  \A p \in Proc :
    /\ held[p] # NoBlock <=> pc[p] = "log_write"
    /\ held[p] # NoBlock => held[p] \in wrote[p] /\ \A q \in Proc : held[q] = held[p] => q = p
    /\ p \notin Active => wrote[p] = {}
    /\ Cardinality(wrote[p]) <= OpBlocks

\* The cache differs from the disk only for a block in the log and for one that is
\* held.  What is in the log is pinned until it is installed.
Clean ==
  rec = "no" =>
    \A b \in Block : b \notin Logged(lh) /\ (\A p \in Proc : held[p] # b) =>
      cache[b] = home[b]

Pending(i) == \A p \in Proc : pc[p] # "erase" /\ (pc[p] = "install" => tail <= i)
Pinned == rec = "no" => \A i \in 1..Len(lh) : Pending(i) => lh[i] \in dirty

\* How far the log and the home blocks are, by the place of the commit.
Copied(n) == \A i \in 1..n : dlog[i] = cache[lh[i]]
Installed(n) == \A i \in 1..n : home[lh[i]] = dlog[i]

Committed ==
  rec = "no" =>
    /\ (\A p \in Proc : pc[p] \notin {"install", "erase"}) => hdr = <<>>
    /\ outstanding = 0 /\ ~committing => lh = <<>>
    /\ \A p \in Proc :
         /\ pc[p] = "write_log" => tail \in 1..Len(lh) /\ Copied(tail - 1)
         /\ pc[p] = "write_head" => tail = 1 /\ lh # <<>> /\ Copied(Len(lh))
         /\ pc[p] = "install" => /\ hdr = lh /\ tail \in 1..Len(lh)
                                 /\ Copied(Len(lh)) /\ Installed(tail - 1)
         /\ pc[p] = "erase" => hdr = lh /\ Copied(Len(lh)) /\ Installed(Len(lh))
         /\ pc[p] = "finish" => lh = <<>>

\* The same for the recovery.
Recovering ==
  /\ rec = "read_head" => tail = 1 /\ lh = <<>>
  /\ rec = "install" => hdr = lh /\ tail \in 1..Len(lh) /\ Installed(tail - 1)
  /\ rec = "erase" => hdr = lh /\ Installed(Len(lh))

\* The blocks in the log that an active operation has written, once for each
\* operation; the others were there when the last operation began.
DoneOf(w, s) == {x \in Proc \X Block : x[2] \in w[x[1]] /\ x[2] \in Logged(s)}
Done == DoneOf(wrote, lh)

\* The reservation of begin_op: what the active operations may still log fits.
Reserved == outstanding > 0 => Len(lh) + outstanding * MAXOPBLOCKS <= LOGSIZE + Cardinality(Done)

\* The inductive invariant of log.c.
LogInv ==
  /\ TypeOK /\ Rebooted /\ Counted /\ Held /\ Clean /\ Pinned
  /\ Committed /\ Recovering /\ Reserved
  /\ Distinct(lh) /\ Distinct(hdr)

\* What the reservation leaves over.  One block for each operation that has ended
\* since; or none yet has and there are at least two; or there is only the one, and
\* nothing was in the log before it.
Spare ==
  outstanding > 0 =>
    \/ Len(lh) + outstanding * MAXOPBLOCKS < LOGSIZE + Cardinality(Done)
    \/ outstanding >= 2
    \/ Len(lh) <= Cardinality(Done)

FitsInv == LogInv /\ LogFits /\ Spare

-----------------------------------------------------------------------------
\* No bound on a count of pairs is lost by counting them operation by operation.
LEMMA PairsBounded ==
  ASSUME NEW A, IsFiniteSet(A), NEW B, IsFiniteSet(B), NEW D \in SUBSET (A \X B),
         NEW k \in Nat,
         \A a \in A : Cardinality({b \in B : <<a, b>> \in D}) <= k
  PROVE  Cardinality(D) <= Cardinality(A) * k
<1> DEFINE Of(T) == D \cap (T \X B)
           Bad == {T \in SUBSET A : ~(Cardinality(Of(T)) <= Cardinality(T) * k)}
<1>1. \A T \in SUBSET A : IsFiniteSet(T) /\ IsFiniteSet(Of(T))
  <2> SUFFICES ASSUME NEW T \in SUBSET A PROVE IsFiniteSet(T) /\ IsFiniteSet(Of(T))
    OBVIOUS
  <2>1. IsFiniteSet(T)
    BY FS_Subset
  <2>2. IsFiniteSet(T \X B)
    BY <2>1, FS_Product
  <2>3. Of(T) \in SUBSET (T \X B)
    OBVIOUS
  <2> QED  BY <2>1, <2>2, <2>3, FS_Subset
<1>2. SUFFICES ASSUME Bad # {} PROVE FALSE
  <2>1. A \notin Bad
    BY <1>2, Zenon
  <2>2. Of(A) = D
    OBVIOUS
  <2> QED  BY <2>1, <2>2, Zenon
<1>3. PICK T \in Bad : \A U \in Bad : ~(<<U, T>> \in StrictSubsetOrdering(A))
  <2>1. IsWellFoundedOn(StrictSubsetOrdering(A), SUBSET A)
    BY FS_StrictSubsetOrderingWellFounded, FS_FiniteSubsetsOfFinite, Zenon
  <2> HIDE DEF Bad
  <2>2. Bad \subseteq SUBSET A
    BY DEF Bad
  <2> QED  BY <1>2, <2>1, <2>2, WFMin
<1>4. T # {}
  <2>1. SUFFICES ASSUME T = {} PROVE FALSE
    OBVIOUS
  <2>2. Of(T) = {}
    BY <2>1
  <2> QED  BY <2>1, <2>2, <1>3, FS_EmptySet
<1>5. PICK a \in T : TRUE
  BY <1>4
<1> DEFINE U == T \ {a}
           S == {b \in B : <<a, b>> \in D}
<1>6. U \notin Bad /\ U \in SUBSET A /\ a \in A
  <2>1. U \in SUBSET A /\ T \in SUBSET A
    BY <1>3
  <2>2. <<U, T>> \in StrictSubsetOrdering(A)
    BY <2>1, <1>5 DEF StrictSubsetOrdering
  <2> QED  BY <1>3, <2>1, <2>2, <1>5, Zenon
<1>7. Cardinality(Of(U)) <= Cardinality(U) * k
  BY <1>6
<1>8. Of(T) = Of(U) \union ({a} \X S) /\ Of(U) \cap ({a} \X S) = {}
  BY <1>5
<1>9. IsFiniteSet({a} \X S) /\ Cardinality({a} \X S) <= k
  <2>1. IsFiniteSet(S)
    BY FS_Subset, Zenon
  <2>2. Cardinality(S) \in Nat
    BY <2>1, FS_CardinalityType
  <2>3. IsFiniteSet({a}) /\ Cardinality({a}) = 1
    BY FS_Singleton, Zenon
  <2>4. IsFiniteSet({a} \X S) /\ Cardinality({a} \X S) = 1 * Cardinality(S)
    BY <2>1, <2>3, FS_Product, Zenon
  <2> QED  BY <2>2, <2>4, <1>6
<1>10. Cardinality(Of(T)) <= Cardinality(Of(U)) + k
  <2>1. IsFiniteSet(Of(U)) /\ Cardinality(Of(U)) \in Nat /\ Cardinality({a} \X S) \in Nat
    BY <1>1, <1>6, <1>9, FS_CardinalityType
  <2> HIDE DEF Of, U, S
  <2>2. Cardinality(Of(U) \cap ({a} \X S)) = 0
    BY <1>8, FS_EmptySet
  <2>3. Cardinality(Of(U) \union ({a} \X S))
          = Cardinality(Of(U)) + Cardinality({a} \X S) - Cardinality(Of(U) \cap ({a} \X S))
    BY <1>9, <2>1, FS_Union
  <2> QED  BY <1>8, <1>9, <2>1, <2>2, <2>3
<1>11. Cardinality(T) = Cardinality(U) + 1
  <2>1. IsFiniteSet(T)
    BY <1>1, <1>3
  <2>2. Cardinality(U) = Cardinality(T) - 1
    BY <2>1, <1>5, FS_RemoveElement, Zenon
  <2> QED  BY <2>1, <2>2, FS_CardinalityType
<1>12. Cardinality(U) \in Nat /\ Cardinality(Of(U)) \in Nat /\ Cardinality(Of(T)) \in Nat
  BY <1>1, <1>3, <1>6, FS_CardinalityType, Zenon
<1>13. (Cardinality(U) + 1) * k = Cardinality(U) * k + k
  BY <1>12
<1>14. Cardinality(Of(T)) <= Cardinality(T) * k
  <2> HIDE DEF Of, U, S
  <2>1. Cardinality(U) * k \in Nat
    BY <1>12
  <2> QED  BY <1>7, <1>10, <1>11, <1>12, <1>13, <2>1
<1> QED  BY <1>3, <1>14

\* Appending a block to the log.
LEMMA LoggedAppend ==
  ASSUME NEW s \in Seq(Block), NEW b \in Block
  PROVE  /\ Append(s, b) \in Seq(Block) /\ Len(Append(s, b)) = Len(s) + 1
         /\ \A i \in 1..Len(s) : Append(s, b)[i] = s[i]
         /\ Append(s, b)[Len(s) + 1] = b
         /\ Logged(Append(s, b)) = Logged(s) \union {b}
  BY DEF Logged

\* The empty log, and the number of processes.
LEMMA EmptyLog ==
  /\ <<>> \in Seq(Block) /\ Len(<<>>) = 0 /\ Logged(<<>>) = {} /\ Distinct(<<>>)
  /\ \A s \in Seq(Block) : s # <<>> <=> Len(s) > 0
  /\ Cardinality(Proc) \in Nat
<1>1. Cardinality(Proc) \in Nat
  BY LogAssumption, FS_CardinalityType
<1> QED  BY <1>1 DEF Logged, Distinct

\* What operations have logged can be counted, and is bounded by their number.
LEMMA DoneFinite ==
  ASSUME NEW w, NEW s
  PROVE  IsFiniteSet(DoneOf(w, s)) /\ Cardinality(DoneOf(w, s)) \in Nat
<1>1. DoneOf(w, s) \in SUBSET (Proc \X Block)
  BY DEF DoneOf
<1>2. IsFiniteSet(Proc \X Block)
  BY LogAssumption, FS_Product
<1> QED  BY <1>1, <1>2, FS_Subset, FS_CardinalityType

LEMMA DoneBound ==
  ASSUME NEW A \in SUBSET Proc, NEW w \in [Proc -> SUBSET Block], NEW s,
         \A p \in Proc : (p \notin A => w[p] = {}) /\ Cardinality(w[p]) <= OpBlocks
  PROVE  /\ IsFiniteSet(A) /\ Cardinality(A) \in Nat
         /\ Cardinality(DoneOf(w, s)) <= Cardinality(A) * OpBlocks
<1>1. IsFiniteSet(A) /\ Cardinality(A) \in Nat
  BY LogAssumption, FS_Subset, FS_CardinalityType
<1>2. DoneOf(w, s) \in SUBSET (A \X Block)
  BY DEF DoneOf
<1>3. ASSUME NEW p \in A
      PROVE  Cardinality({b \in Block : <<p, b>> \in DoneOf(w, s)}) <= OpBlocks
  <2> DEFINE S == {b \in Block : <<p, b>> \in DoneOf(w, s)}
  <2>1. p \in Proc
    OBVIOUS
  <2>2. S \in SUBSET w[p]
    BY DEF DoneOf
  <2>3. w[p] \in SUBSET Block
    BY <2>1
  <2>4. IsFiniteSet(w[p]) /\ IsFiniteSet(S)
    BY <2>2, <2>3, LogAssumption, FS_Subset, Zenon
  <2>5. Cardinality(S) <= Cardinality(w[p])
    BY <2>2, <2>4, FS_Subset, Zenon
  <2>6. Cardinality(S) \in Nat /\ Cardinality(w[p]) \in Nat
    BY <2>4, FS_CardinalityType
  <2> QED  BY <2>1, <2>5, <2>6, LogAssumption
<1>4. OpBlocks \in Nat
  BY LogAssumption
<1> QED  BY <1>1, <1>2, <1>3, <1>4, LogAssumption, PairsBounded

\* An operation that ends takes away what it has logged, at most OpBlocks blocks.
LEMMA DoneDrop ==
  ASSUME NEW w \in [Proc -> SUBSET Block], NEW s, NEW p \in Proc,
         Cardinality(w[p]) <= OpBlocks
  PROVE  Cardinality(DoneOf(w, s))
           <= Cardinality(DoneOf([w EXCEPT ![p] = {}], s)) + OpBlocks
<1> DEFINE D == DoneOf(w, s)
           E == DoneOf([w EXCEPT ![p] = {}], s)
           F == {p} \X w[p]
<1>1. D \in SUBSET (E \union F)
  BY DEF DoneOf
<1>2. IsFiniteSet(w[p]) /\ Cardinality(w[p]) \in Nat
  <2>1. w[p] \in SUBSET Block
    OBVIOUS
  <2> QED  BY <2>1, LogAssumption, FS_Subset, FS_CardinalityType
<1>3. IsFiniteSet(F) /\ Cardinality(F) = 1 * Cardinality(w[p])
  <2>1. IsFiniteSet({p}) /\ Cardinality({p}) = 1
    BY FS_Singleton, Zenon
  <2> QED  BY <1>2, <2>1, FS_Product
<1>4. IsFiniteSet(E) /\ Cardinality(E) \in Nat /\ IsFiniteSet(D) /\ Cardinality(D) \in Nat
  BY DoneFinite
<1> HIDE DEF D, E, F
<1>5. /\ IsFiniteSet(E \union F)
      /\ Cardinality(E \union F) = Cardinality(E) + Cardinality(F) - Cardinality(E \cap F)
  BY <1>3, <1>4, FS_Union
<1>6. Cardinality(E \cap F) \in Nat
  BY <1>4, FS_Intersection, FS_CardinalityType, Zenon
<1>7. Cardinality(D) <= Cardinality(E \union F)
  BY <1>1, <1>5, FS_Subset
<1>8. Cardinality(D) <= Cardinality(E) + OpBlocks
  BY <1>2, <1>3, <1>4, <1>5, <1>6, <1>7, LogAssumption
<1> QED  BY <1>8 DEF D, E

\* The sizes of the state, for the arithmetic.
LEMMA Sizes ==
  ASSUME LogInv
  PROVE  /\ lh \in Seq(Block) /\ Len(lh) \in Nat /\ Len(lh) <= LOGSIZE
         /\ hdr \in Seq(Block) /\ Len(hdr) \in Nat /\ Len(hdr) <= LOGSIZE
         /\ \A i \in 1..Len(lh) : lh[i] \in Block /\ i \in 1..LOGSIZE /\ dlog[i] \in Val
         /\ \A i \in 1..Len(hdr) : hdr[i] \in Block /\ i \in 1..LOGSIZE /\ dlog[i] \in Val
         /\ outstanding \in Nat /\ outstanding * MAXOPBLOCKS \in Nat /\ tail \in Nat
<1>1. lh \in Seq(Block) /\ hdr \in Seq(Block) /\ Len(lh) <= LOGSIZE /\ Len(hdr) <= LOGSIZE
  BY Zenon DEF LogInv, TypeOK
<1>2. Len(lh) \in Nat /\ Len(hdr) \in Nat
  BY <1>1
<1>3. \A i \in 1..LOGSIZE : dlog[i] \in Val
  BY Zenon DEF LogInv, TypeOK
<1>4. outstanding \in Nat
  <2>1. outstanding \in 0..Cardinality(Proc)
    BY Zenon DEF LogInv, TypeOK
  <2> QED  BY <2>1, EmptyLog
<1>5. outstanding * MAXOPBLOCKS \in Nat
  BY <1>4, LogAssumption
<1>6. tail \in Nat
  <2>1. tail \in 1..(LOGSIZE + 1)
    BY Zenon DEF LogInv, TypeOK
  <2> QED  BY <2>1, LogAssumption
<1> QED  BY <1>1, <1>2, <1>3, <1>4, <1>5, <1>6, LogAssumption

\* While a process commits there is no operation, and no buffer is held.
LEMMA CommitAlone ==
  ASSUME LogInv, NEW p \in Proc, pc[p] \in CommitPlaces
  PROVE  /\ rec = "no" /\ committing /\ Active = {} /\ outstanding = 0
         /\ \A q \in Proc : held[q] = NoBlock /\ wrote[q] = {}
         /\ \A q \in Proc : pc[q] \in CommitPlaces => q = p
<1>1. Active = {}
  BY DEF LogInv, Counted, Active
<1>2. outstanding = 0
  BY <1>1, FS_EmptySet DEF LogInv, Counted
<1>3. rec = "no"
  BY DEF LogInv, Rebooted, CommitPlaces
<1> QED  BY <1>1, <1>2, <1>3 DEF LogInv, Counted, Held, Active

\* While there is an operation nobody commits, and the header on disk is empty.
LEMMA OpAlone ==
  ASSUME LogInv, NEW p \in Active
  PROVE  /\ rec = "no" /\ ~committing /\ hdr = <<>>
         /\ outstanding \in Nat /\ outstanding > 0
         /\ \A q \in Proc : pc[q] \notin CommitPlaces
<1>1. rec = "no"
  BY DEF LogInv, Rebooted, Active
<1>2. \A q \in Proc : pc[q] \notin CommitPlaces
  BY DEF LogInv, Counted, Active
<1>3. outstanding \in Nat /\ outstanding # 0
  <2>1. IsFiniteSet(Active)
    BY LogAssumption, FS_Subset DEF Active
  <2> QED  BY <2>1, FS_EmptySet, FS_CardinalityType DEF LogInv, Counted
<1> QED  BY <1>1, <1>2, <1>3 DEF LogInv, Counted, Committed, CommitPlaces

LEMMA Squeeze ==
  ASSUME NEW n \in Nat, NEW c \in Nat, NEW x \in Nat, NEW y \in Nat, NEW z \in Nat,
         n + y <= z + c, c <= x, x <= y
  PROVE  n <= z
  OBVIOUS

\* OpBlocks blocks for each operation are no more than MAXOPBLOCKS for each.
LEMMA Monotone == \A n \in Nat : n * OpBlocks <= n * MAXOPBLOCKS
<1> SUFFICES ASSUME NEW n \in Nat PROVE n * OpBlocks <= n * MAXOPBLOCKS
  OBVIOUS
<1>1. n * (MAXOPBLOCKS - OpBlocks) >= 0
  BY LogAssumption
<1>2. n * (MAXOPBLOCKS - OpBlocks) = n * MAXOPBLOCKS - n * OpBlocks
  BY LogAssumption
<1>3. n * OpBlocks \in Nat /\ n * MAXOPBLOCKS \in Nat
  BY LogAssumption
<1> QED  BY <1>1, <1>2, <1>3


-----------------------------------------------------------------------------
(***************************************************************************)
(* What the steps have in common.                                          *)
(***************************************************************************)
\* The disk, the log and the buffers are left alone, and the processes stay inside
\* or outside of their operations: begin_op before it has a place in the log.
LEMMA WaitKeeps ==
  ASSUME LogInv, NEW p \in Proc, Call(p) \/ BeginSleep(p)
  PROVE  LogInv' /\ Active' = Active
<1>1. /\ UNCHANGED <<home, hdr, dlog, cache, dirty, lh, outstanding, committing>>
      /\ UNCHANGED <<held, wrote, tail, rec, panicked>> /\ rec = "no"
  BY DEF Call, BeginSleep, At, disk
<1>2. /\ pc[p] \in {"out", "begin"}
      /\ \E l \in {"begin", "asleep"} : pc' = [pc EXCEPT ![p] = l]
  BY DEF Call, BeginSleep, At, Goto
<1>3. TypeOK'
  BY <1>1, <1>2, Zenon DEF LogInv, TypeOK
<1>4. /\ \A q \in Proc : \/ pc'[q] = pc[q]
                         \/ pc[q] \in {"out", "begin"} /\ pc'[q] \in {"begin", "asleep"}
  BY <1>2, Zenon DEF LogInv, TypeOK
<1>5. Active' = Active
  BY <1>4 DEF Active
<1>6. \A q \in Proc : pc'[q] \in CommitPlaces \/ pc[q] \in CommitPlaces => pc'[q] = pc[q]
  BY <1>4 DEF CommitPlaces
<1>7. Counted'
  BY <1>1, <1>5, <1>6 DEF LogInv, Counted
<1>8. Held'
  BY <1>1, <1>4, <1>5 DEF LogInv, Held
<1>9. Clean' /\ Rebooted' /\ Recovering'
  BY <1>1 DEF LogInv, Clean, Rebooted, Recovering
<1>10. Pinned'
  BY <1>1, <1>6 DEF LogInv, Pinned, Pending, CommitPlaces
<1>11. Committed'
  BY <1>1, <1>6 DEF LogInv, Committed, Copied, Installed, CommitPlaces
<1>12. Reserved' /\ Distinct(lh)' /\ Distinct(hdr)'
  BY <1>1 DEF LogInv, Reserved, Done, Distinct
<1> QED  BY <1>3, <1>5, <1>7, <1>8, <1>9, <1>10, <1>11, <1>12 DEF LogInv

\* While there is an operation the disk waits: the log grows, nothing is installed.
\* Used for the steps of operations, which leave the disk alone.
LEMMA OpFrame ==
  ASSUME LogInv, rec = "no", UNCHANGED <<home, hdr, rec>>, hdr = <<>>,
         outstanding' # 0 \/ committing',
         \A q \in Proc : pc'[q] \notin CommitPlaces \ {"commit"}
  PROVE  Rebooted' /\ Recovering' /\ Committed' /\ Distinct(hdr)'
<1>1. Rebooted' /\ Recovering'
  BY DEF Rebooted, Recovering
<1>2. Committed'
  BY DEF Committed, CommitPlaces
<1> QED  BY <1>1, <1>2 DEF LogInv, Distinct

\* A step of the process that commits: there are no operations, before and after.
LEMMA CommitFrame ==
  ASSUME LogInv, NEW p \in Proc, pc[p] \in CommitPlaces,
         UNCHANGED <<outstanding, held, wrote, rec>>,
         pc'[p] \notin {"op", "log_write"},
         committing' <=> pc'[p] \in CommitPlaces,
         \A q \in Proc : q # p => pc'[q] = pc[q] \/ (pc[q] = "asleep" /\ pc'[q] = "begin")
  PROVE  /\ rec = "no" /\ Active = {} /\ Active' = {}
         /\ Rebooted' /\ Counted' /\ Held' /\ Recovering' /\ Reserved'
<1>1. /\ rec = "no" /\ Active = {} /\ outstanding = 0
      /\ \A q \in Proc : held[q] = NoBlock /\ wrote[q] = {} /\ (pc[q] \in CommitPlaces => q = p)
  BY CommitAlone
<1>2. \A q \in Proc : pc'[q] \notin {"op", "log_write"} /\ (pc'[q] \in CommitPlaces => q = p)
  BY <1>1 DEF Active, CommitPlaces
<1>3. Active' = {}
  BY <1>2 DEF Active
<1>4. Counted'
  BY <1>1, <1>2, <1>3, FS_EmptySet DEF Counted
<1>5. Held'
  BY <1>1, <1>2 DEF LogInv, Held
<1>6. Rebooted' /\ Recovering'
  BY <1>1 DEF Rebooted, Recovering
<1>7. Reserved'
  BY <1>1 DEF Reserved
<1> QED  BY <1>1, <1>3, <1>4, <1>5, <1>6, <1>7

\* A step of the machine or of the recovery: there are no processes in log.c.
LEMMA IdleFrame ==
  ASSUME outstanding' = 0, ~committing',
         \A q \in Proc : pc'[q] = "out" /\ held'[q] = NoBlock /\ wrote'[q] = {}
  PROVE  /\ Active' = {} /\ Counted' /\ Held' /\ Reserved'
         /\ rec' # "no" => Clean' /\ Pinned' /\ Committed'
<1>1. Active' = {}
  BY DEF Active
<1>2. Counted'
  BY <1>1, FS_EmptySet DEF Counted, CommitPlaces
<1>3. Held'
  <2>1. Cardinality({}) <= OpBlocks
    BY FS_EmptySet, LogAssumption
  <2> QED  BY <2>1 DEF Held
<1>4. Reserved'
  BY DEF Reserved
<1>5. rec' # "no" => Clean' /\ Pinned' /\ Committed'
  BY DEF Clean, Pinned, Committed
<1> QED  BY <1>1, <1>2, <1>3, <1>4, <1>5

-----------------------------------------------------------------------------
(***************************************************************************)
(* The operations.                                                         *)
(***************************************************************************)
LEMMA BeginOpKeeps ==
  ASSUME LogInv, NEW p \in Proc, BeginOp(p)
  PROVE  LogInv' /\ Active' = Active \union {p}
<1>1. /\ UNCHANGED <<home, hdr, dlog, cache, dirty, lh, committing, held, wrote, tail, rec>>
      /\ UNCHANGED panicked /\ pc[p] = "begin" /\ pc' = [pc EXCEPT ![p] = "op"]
      /\ rec = "no" /\ ~committing /\ outstanding' = outstanding + 1
  BY DEF BeginOp, At, Goto, MustWait, disk
<1>2. ~(Len(lh) + (outstanding + 1) * MAXOPBLOCKS > LOGSIZE)
  BY DEF BeginOp, MustWait
<1>3. \A q \in Proc : pc'[q] = (IF q = p THEN "op" ELSE pc[q])
  BY <1>1, Zenon DEF LogInv, TypeOK
<1>4. Active' = Active \union {p} /\ p \notin Active
  BY <1>1, <1>3 DEF Active
<1>5. \A q \in Proc : pc[q] \notin CommitPlaces
  BY <1>1 DEF LogInv, Counted
<1>6. \A q \in Proc : pc'[q] \notin CommitPlaces
  BY <1>3, <1>5 DEF CommitPlaces
<1>7. hdr = <<>>
  BY <1>1, <1>5 DEF LogInv, Committed, CommitPlaces
<1>8. outstanding \in Nat /\ (outstanding + 1) * MAXOPBLOCKS \in Nat
  BY Sizes, LogAssumption
<1>9. outstanding' = Cardinality(Active') /\ outstanding' \in 0..Cardinality(Proc)
  <2>1. IsFiniteSet(Active) /\ IsFiniteSet(Active') /\ Cardinality(Active') <= Cardinality(Proc)
    <3>1. Active \in SUBSET Proc /\ Active' \in SUBSET Proc
      BY DEF Active
    <3> QED  BY <3>1, LogAssumption, FS_Subset
  <2>2. Cardinality(Active') = Cardinality(Active) + 1
    BY <1>4, <2>1, FS_AddElement
  <2>3. outstanding = Cardinality(Active)
    BY DEF LogInv, Counted
  <2> QED  BY <1>1, <1>8, <2>1, <2>2, <2>3, EmptyLog
<1>10. TypeOK'
  BY <1>1, <1>9, Zenon DEF LogInv, TypeOK
<1>11. Counted'
  BY <1>1, <1>6, <1>9 DEF Counted
<1>12. Held'
  BY <1>1, <1>3, <1>4 DEF LogInv, Held
<1>13. Clean' /\ Distinct(lh)'
  BY <1>1 DEF LogInv, Clean, Distinct
<1>14. Pinned'
  BY <1>1, <1>5, <1>6 DEF LogInv, Pinned, Pending, CommitPlaces
<1>15. Rebooted' /\ Recovering' /\ Committed' /\ Distinct(hdr)'
  <2>1. outstanding' # 0
    BY <1>1, <1>8
  <2> QED  BY <1>1, <1>6, <1>7, <2>1, OpFrame
<1>16. Reserved'
  <2>1. Done' = Done /\ Cardinality(Done) \in Nat
    BY <1>1, DoneFinite DEF Done
  <2> QED  BY <1>1, <1>2, <1>8, <2>1, Sizes, LogAssumption DEF Reserved
<1> QED
  BY <1>4, <1>10, <1>11, <1>12, <1>13, <1>14, <1>15, <1>16 DEF LogInv

LEMMA LogCheckKeeps ==
  ASSUME LogInv, NEW p \in Proc, LogCheck(p)
  PROVE  LogInv' /\ Active' = Active /\ Done \in SUBSET Done'
<1>1. PICK b \in Block, v \in Val :
         /\ \A q \in Proc : held[q] # b
         /\ Cardinality(wrote[p] \union {b}) <= OpBlocks
         /\ cache' = [cache EXCEPT ![b] = v]
         /\ held' = [held EXCEPT ![p] = b]
         /\ wrote' = [wrote EXCEPT ![p] = @ \union {b}]
  BY Zenon DEF LogCheck
<1>2. /\ UNCHANGED <<home, hdr, dlog, dirty, lh, outstanding, committing, tail, rec>>
      /\ pc[p] = "op" /\ pc' = [pc EXCEPT ![p] = "log_write"] /\ rec = "no"
  BY Zenon DEF LogCheck, At, Goto, disk
<1>3. panicked' \in {"no", "too big a transaction", "log_write outside of trans"}
  BY Zenon DEF LogCheck
<1>4. \A q \in Proc : pc'[q] = (IF q = p THEN "log_write" ELSE pc[q])
  BY <1>2, Zenon DEF LogInv, TypeOK
<1>5. p \in Active /\ Active' = Active
  BY <1>2, <1>4 DEF Active
<1>6. /\ ~committing /\ hdr = <<>> /\ outstanding \in Nat /\ outstanding > 0
      /\ \A q \in Proc : pc[q] \notin CommitPlaces
  BY <1>5, OpAlone
<1>7. \A q \in Proc : pc'[q] \notin CommitPlaces
  BY <1>4, <1>6 DEF CommitPlaces
<1>8. /\ \A q \in Proc : held'[q] = (IF q = p THEN b ELSE held[q])
      /\ \A q \in Proc : wrote'[q] = (IF q = p THEN wrote[p] \union {b} ELSE wrote[q])
      /\ \A c \in Block : c # b => cache'[c] = cache[c]
  BY <1>1, Zenon DEF LogInv, TypeOK
<1>9. TypeOK'
  BY <1>1, <1>2, <1>3, Zenon DEF LogInv, TypeOK
<1>10. Counted'
  BY <1>2, <1>5, <1>6, <1>7 DEF LogInv, Counted
<1>11. Held'
  <2>1. b # NoBlock
    BY LogAssumption, Zenon DEF NoBlock
  <2> QED  BY <1>1, <1>2, <1>4, <1>5, <1>8, <2>1 DEF LogInv, Held
<1>12. Clean'
  <2> SUFFICES ASSUME NEW c \in Block, c \notin Logged(lh), \A q \in Proc : held'[q] # c
               PROVE  cache'[c] = home[c]
    BY <1>2 DEF Clean
  <2>1. c # b /\ \A q \in Proc : held[q] # c
    <3>1. held[p] = NoBlock
      BY <1>2 DEF LogInv, Held
    <3>2. c # NoBlock
      BY LogAssumption DEF NoBlock
    <3> QED  BY <1>8, <3>1, <3>2, Zenon
  <2> QED  BY <1>2, <1>8, <2>1, Zenon DEF LogInv, Clean
<1>13. Pinned'
  BY <1>2, <1>6, <1>7 DEF LogInv, Pinned, Pending, CommitPlaces
<1>14. Rebooted' /\ Recovering' /\ Committed' /\ Distinct(hdr)'
  BY <1>2, <1>6, <1>7, OpFrame
<1>15. Done \in SUBSET Done'
  BY <1>2, <1>8 DEF Done, DoneOf
<1>16. Reserved' /\ Distinct(lh)'
  <2>1. IsFiniteSet(Done') /\ Cardinality(Done') \in Nat /\ Cardinality(Done) \in Nat
    BY DoneFinite DEF Done
  <2>2. Cardinality(Done) <= Cardinality(Done')
    BY <1>15, <2>1, FS_Subset
  <2>3. Reserved'
    BY <1>2, <2>1, <2>2, Sizes, LogAssumption DEF LogInv, Reserved
  <2> QED  BY <1>2, <2>3 DEF LogInv, Distinct
<1> QED
  BY <1>5, <1>9, <1>10, <1>11, <1>12, <1>13, <1>14, <1>15, <1>16 DEF LogInv

\* log_write adds the block that is held to the log, at most once, and counts it
\* among what the active operations have logged.
LEMMA LogWriteKeeps ==
  ASSUME LogInv, NEW p \in Proc, LogWrite(p)
  PROVE  /\ LogInv' /\ Active' = Active
         /\ Len(lh') \in Len(lh)..(Len(lh) + 1)
         /\ Cardinality(Done) \in Nat /\ Cardinality(Done') \in Nat
         /\ Len(lh') - Len(lh) <= Cardinality(Done') - Cardinality(Done)
<1> DEFINE b == held[p]
<1>1. /\ UNCHANGED <<home, hdr, dlog, cache, outstanding, committing, wrote, tail, rec, panicked>>
      /\ pc[p] = "log_write" /\ pc' = [pc EXCEPT ![p] = "op"] /\ rec = "no"
      /\ held' = [held EXCEPT ![p] = NoBlock] /\ dirty' = dirty \union {b}
      /\ \/ lh' = lh /\ b \in Logged(lh)
         \/ lh' = Append(lh, b) /\ b \notin Logged(lh)
  BY DEF LogWrite, At, Goto, disk
<1>2. /\ b \in wrote[p] /\ b # NoBlock /\ \A q \in Proc : held[q] = b => q = p
  BY <1>1 DEF LogInv, Held
<1>3. b \in Block
  BY <1>2, Zenon DEF LogInv, TypeOK
<1> HIDE DEF b
<1>4. \A q \in Proc : pc'[q] = (IF q = p THEN "op" ELSE pc[q])
  BY <1>1, Zenon DEF LogInv, TypeOK
<1>5. p \in Active /\ Active' = Active
  BY <1>1, <1>4 DEF Active
<1>6. /\ ~committing /\ hdr = <<>> /\ outstanding \in Nat /\ outstanding > 0
      /\ \A q \in Proc : pc[q] \notin CommitPlaces
  BY <1>5, OpAlone
<1>7. \A q \in Proc : pc'[q] \notin CommitPlaces
  BY <1>4, <1>6 DEF CommitPlaces
<1>8. \A q \in Proc : held'[q] = (IF q = p THEN NoBlock ELSE held[q])
  BY <1>1, Zenon DEF LogInv, TypeOK
<1>9. /\ lh' \in Seq(Block) /\ Logged(lh') = Logged(lh) \union {b}
      /\ Len(lh') \in Len(lh)..(Len(lh) + 1) /\ \A i \in 1..Len(lh) : lh'[i] = lh[i]
      /\ \A i \in 1..Len(lh') : i > Len(lh) => lh'[i] = b
  <2>1. CASE lh' = lh /\ b \in Logged(lh)
    BY <2>1, Sizes
  <2>2. CASE lh' = Append(lh, b)
    BY <1>3, <2>2, Sizes, LoggedAppend
  <2> QED  BY <1>1, <2>1, <2>2
<1>10. /\ Cardinality(Done) \in Nat /\ Cardinality(Done') \in Nat
       /\ IsFiniteSet(Done) /\ IsFiniteSet(Done')
  BY DoneFinite DEF Done
<1>11. Len(lh') - Len(lh) <= Cardinality(Done') - Cardinality(Done)
  <2>1. CASE lh' = lh
    BY <1>1, <1>10, <2>1, Sizes DEF Done
  <2>2. CASE lh' = Append(lh, b) /\ b \notin Logged(lh)
    <3>1. Done \union {<<p, b>>} \in SUBSET Done' /\ <<p, b>> \notin Done
      BY <1>1, <1>2, <1>3, <1>9, <2>2 DEF Done, DoneOf
    <3>2. Cardinality(Done \union {<<p, b>>}) = Cardinality(Done) + 1
      BY <3>1, <1>10, FS_AddElement, Zenon
    <3>3. Cardinality(Done \union {<<p, b>>}) <= Cardinality(Done')
      BY <3>1, <1>10, FS_Subset
    <3> QED  BY <1>9, <1>10, <3>2, <3>3, Sizes
  <2> QED  BY <1>1, <2>1, <2>2
<1>12. Len(lh') + outstanding * MAXOPBLOCKS <= LOGSIZE + Cardinality(Done')
  BY <1>6, <1>9, <1>10, <1>11, Sizes, LogAssumption DEF LogInv, Reserved
<1>13. Len(lh') <= LOGSIZE
  <2>1. wrote \in [Proc -> SUBSET Block] /\ Active \in SUBSET Proc
    BY Zenon DEF LogInv, TypeOK, Active
  <2>2. \A q \in Proc : (q \notin Active => wrote[q] = {}) /\ Cardinality(wrote[q]) <= OpBlocks
    BY DEF LogInv, Held
  <2>3. Cardinality(DoneOf(wrote, lh')) <= Cardinality(Active) * OpBlocks
    BY <2>1, <2>2, DoneBound
  <2>4. Cardinality(Done') <= outstanding * OpBlocks
    BY <1>1, <2>3 DEF LogInv, Counted, Done
  <2>5. outstanding * OpBlocks <= outstanding * MAXOPBLOCKS /\ outstanding * OpBlocks \in Nat
    BY <1>6, Monotone, LogAssumption
  <2>6. Len(lh') \in Nat /\ outstanding * MAXOPBLOCKS \in Nat /\ LOGSIZE \in Nat
    BY <1>9, Sizes, LogAssumption
  <2> QED  BY <1>10, <1>12, <2>4, <2>5, <2>6, Squeeze
<1>14. TypeOK'
  BY <1>1, <1>3, <1>9, <1>13, Zenon DEF LogInv, TypeOK
<1>15. Counted'
  BY <1>1, <1>5, <1>6, <1>7 DEF LogInv, Counted
<1>16. Held'
  <2>1. wrote' = wrote /\ pc[p] = "log_write"
    BY <1>1
  <2> QED  BY <1>4, <1>5, <1>8, <2>1 DEF LogInv, Held
<1>17. Clean'
  <2> SUFFICES ASSUME NEW c \in Block, c \notin Logged(lh'), \A q \in Proc : held'[q] # c
               PROVE  cache[c] = home[c]
    BY <1>1 DEF Clean
  <2>1. c \notin Logged(lh) /\ c # b
    BY <1>9
  <2>2. \A q \in Proc : held[q] # c
    BY <1>8, <2>1, Zenon DEF b
  <2> QED  BY <1>1, <2>1, <2>2 DEF LogInv, Clean
<1>18. Pinned'
  BY <1>1, <1>6, <1>9, Sizes DEF LogInv, Pinned, Pending, CommitPlaces
<1>19. Rebooted' /\ Recovering' /\ Committed' /\ Distinct(hdr)'
  BY <1>1, <1>6, <1>7, OpFrame
<1>20. Distinct(lh)'
  <2>1. CASE lh' = lh
    BY <2>1 DEF LogInv, Distinct
  <2>2. CASE lh' = Append(lh, b) /\ b \notin Logged(lh)
    BY <1>9, <2>2, Sizes DEF LogInv, Distinct, Logged
  <2> QED  BY <1>1, <2>1, <2>2
<1>21. Reserved'
  BY <1>1, <1>12 DEF Reserved
<1> QED
  BY <1>5, <1>9, <1>10, <1>11, <1>14, <1>15, <1>16, <1>17, <1>18, <1>19, <1>20, <1>21
     DEF LogInv

LEMMA EndOpKeeps ==
  ASSUME LogInv, NEW p \in Proc, EndOp(p)
  PROVE  /\ LogInv' /\ Active' = Active \ {p}
         /\ Cardinality(Done) <= Cardinality(Done') + OpBlocks
<1>1. p \in Active /\ pc[p] = "op"
  BY DEF EndOp, At, Active
<1>2. /\ rec = "no" /\ ~committing /\ hdr = <<>> /\ outstanding \in Nat /\ outstanding > 0
      /\ \A q \in Proc : pc[q] \notin CommitPlaces
  BY <1>1, OpAlone
<1>3. /\ UNCHANGED <<home, hdr, dlog, cache, dirty, lh, held, tail, rec, panicked>>
      /\ outstanding' = outstanding - 1 /\ wrote' = [wrote EXCEPT ![p] = {}]
      /\ \/ /\ outstanding' = 0 /\ committing' = TRUE /\ pc' = [pc EXCEPT ![p] = "commit"]
         \/ /\ outstanding' # 0 /\ committing' = committing
            /\ pc' = [q \in Proc |-> IF q = p THEN "out"
                                     ELSE IF pc[q] = "asleep" THEN "begin" ELSE pc[q]]
  BY <1>2, Zenon DEF EndOp, Goto, WakeupAnd, disk
<1>4. committing' <=> outstanding' = 0
  BY <1>2, <1>3
<1>5. /\ \A q \in Proc : q # p => pc'[q] = pc[q] \/ (pc[q] = "asleep" /\ pc'[q] = "begin")
      /\ pc'[p] = (IF committing' THEN "commit" ELSE "out")
  <2>1. pc' = [pc EXCEPT ![p] = "commit"] =>
          \A q \in Proc : pc'[q] = (IF q = p THEN "commit" ELSE pc[q])
    BY Zenon DEF LogInv, TypeOK
  <2> QED  BY <1>2, <1>3, <2>1
<1>6. Active' = Active \ {p}
  BY <1>5 DEF Active
<1>7. outstanding' = Cardinality(Active') /\ IsFiniteSet(Active')
  <2>1. IsFiniteSet(Active)
    BY LogAssumption, FS_Subset DEF Active
  <2>2. outstanding = Cardinality(Active)
    BY DEF LogInv, Counted
  <2> QED  BY <1>1, <1>3, <1>6, <2>1, <2>2, FS_RemoveElement
<1>8. TypeOK'
  <2>1. outstanding' \in 0..Cardinality(Proc)
    <3>1. outstanding \in 0..Cardinality(Proc)
      BY Zenon DEF LogInv, TypeOK
    <3> QED  BY <1>2, <1>3, <3>1, EmptyLog
  <2>2. CASE pc' = [pc EXCEPT ![p] = "commit"] /\ committing' = TRUE
    BY <1>3, <2>1, <2>2, Zenon DEF LogInv, TypeOK
  <2>3. CASE /\ committing' = committing
             /\ pc' = [q \in Proc |-> IF q = p THEN "out"
                                      ELSE IF pc[q] = "asleep" THEN "begin" ELSE pc[q]]
    BY <1>3, <2>1, <2>3, Zenon DEF LogInv, TypeOK
  <2> QED  BY <1>3, <2>2, <2>3, Zenon
<1>9. Counted'
  <2>1. committing' => Active' = {}
    BY <1>4, <1>7, FS_EmptySet
  <2>2. \A q \in Proc : pc'[q] \in CommitPlaces <=> q = p /\ committing'
    BY <1>2, <1>5 DEF CommitPlaces
  <2> QED  BY <1>7, <2>1, <2>2 DEF Counted
<1>10. Held'
  <2>1. Cardinality({}) <= OpBlocks
    BY FS_EmptySet, LogAssumption
  <2>2. \A q \in Proc : wrote'[q] = (IF q = p THEN {} ELSE wrote[q])
    BY <1>3, Zenon DEF LogInv, TypeOK
  <2>3. \A q \in Proc : pc'[q] = "log_write" <=> pc[q] = "log_write"
    BY <1>1, <1>5
  <2>4. held[p] = NoBlock
    BY <1>1 DEF LogInv, Held
  <2> QED  BY <1>3, <1>6, <2>1, <2>2, <2>3, <2>4 DEF LogInv, Held
<1>11. Clean' /\ Distinct(lh)'
  BY <1>3 DEF LogInv, Clean, Distinct
<1>12. Pinned'
  BY <1>2, <1>3, <1>5 DEF LogInv, Pinned, Pending, CommitPlaces
<1>13. Rebooted' /\ Recovering' /\ Committed' /\ Distinct(hdr)'
  <2>1. \A q \in Proc : pc'[q] \notin CommitPlaces \ {"commit"}
    BY <1>2, <1>5 DEF CommitPlaces
  <2> QED  BY <1>2, <1>3, <1>4, <2>1, OpFrame
<1>14. Cardinality(Done) <= Cardinality(Done') + OpBlocks
  <2>1. wrote \in [Proc -> SUBSET Block]
    BY Zenon DEF LogInv, TypeOK
  <2>2. Cardinality(wrote[p]) <= OpBlocks
    BY DEF LogInv, Held
  <2> QED  BY <1>3, <2>1, <2>2, DoneDrop, Zenon DEF Done
<1>15. Reserved'
  <2>1. Cardinality(Done) \in Nat /\ Cardinality(Done') \in Nat
    BY DoneFinite DEF Done
  <2>2. (outstanding - 1) * MAXOPBLOCKS = outstanding * MAXOPBLOCKS - MAXOPBLOCKS
    BY <1>2, LogAssumption
  <2> QED  BY <1>2, <1>3, <1>14, <2>1, <2>2, Sizes, LogAssumption DEF LogInv, Reserved
<1> QED
  BY <1>6, <1>8, <1>9, <1>10, <1>11, <1>12, <1>13, <1>14, <1>15 DEF LogInv

-----------------------------------------------------------------------------
(***************************************************************************)
(* The commit.                                                             *)
(***************************************************************************)
LEMMA CommitKeeps ==
  ASSUME LogInv, NEW p \in Proc, Commit(p)
  PROVE  LogInv' /\ Active' = Active
<1>1. /\ UNCHANGED <<home, hdr, dlog, cache, dirty, lh, outstanding, committing, held, wrote>>
      /\ UNCHANGED <<rec, panicked>> /\ tail' = 1 /\ pc[p] = "commit" /\ pc[p] \in CommitPlaces
      /\ pc' = [pc EXCEPT ![p] = IF lh = <<>> THEN "finish" ELSE "write_log"]
  BY DEF Commit, At, Goto, disk, CommitPlaces
<1>2. \A q \in Proc : pc'[q] = IF q = p THEN IF lh = <<>> THEN "finish" ELSE "write_log"
                                         ELSE pc[q]
  BY <1>1, Zenon DEF LogInv, TypeOK
<1>3. /\ rec = "no" /\ committing /\ \A q \in Proc : pc[q] \in CommitPlaces => q = p
  BY <1>1, CommitAlone
<1>4. /\ Active = {} /\ Active' = {} /\ Rebooted' /\ Counted' /\ Held' /\ Recovering' /\ Reserved'
  BY <1>1, <1>2, <1>3, CommitFrame DEF CommitPlaces
<1>5. TypeOK'
  <2>1. 1 \in 1..(LOGSIZE + 1)
    BY LogAssumption
  <2> QED  BY <1>1, <2>1, Zenon DEF LogInv, TypeOK
<1>6. Clean' /\ Distinct(lh)' /\ Distinct(hdr)'
  BY <1>1 DEF LogInv, Clean, Distinct
<1>7. Pinned'
  BY <1>1, <1>2, <1>3 DEF LogInv, Pinned, Pending, CommitPlaces
<1>8. Committed'
  <2>1. lh # <<>> => 1 \in 1..Len(lh)
    BY EmptyLog, Sizes
  <2>2. hdr = <<>>
    BY <1>1, <1>3 DEF LogInv, Committed, CommitPlaces
  <2>3. \A q \in Proc : pc'[q] \in CommitPlaces =>
          IF lh = <<>> THEN pc'[q] = "finish" ELSE pc'[q] = "write_log"
    BY <1>2, <1>3, Zenon
  <2>4. tail' - 1 = 0 /\ \A i \in 1..0 : FALSE
    BY <1>1
  <2>5. Copied(tail - 1)'
    BY <2>4 DEF Copied
  <2> QED  BY <1>1, <1>3, <2>1, <2>2, <2>3, <2>5 DEF Committed, CommitPlaces
<1> QED  BY <1>4, <1>5, <1>6, <1>7, <1>8 DEF LogInv

LEMMA WriteLogKeeps ==
  ASSUME LogInv, NEW p \in Proc, WriteLog(p)
  PROVE  LogInv' /\ Active' = Active /\ hdr = <<>>
<1>1. /\ UNCHANGED <<home, hdr, cache, dirty, lh, outstanding, committing, held, wrote>>
      /\ UNCHANGED <<rec, panicked>> /\ pc[p] = "write_log" /\ pc[p] \in CommitPlaces
      /\ \/ tail < Len(lh) /\ tail' = tail + 1 /\ pc' = pc
         \/ ~(tail < Len(lh)) /\ tail' = 1 /\ pc' = [pc EXCEPT ![p] = "write_head"]
  BY DEF WriteLog, At, Goto, CommitPlaces
<1>2. /\ rec = "no" /\ committing /\ \A q \in Proc : pc[q] \in CommitPlaces => q = p
  BY <1>1, CommitAlone
<1>3. /\ tail \in 1..Len(lh) /\ Copied(tail - 1) /\ hdr = <<>>
  BY <1>1, <1>2 DEF LogInv, Committed, CommitPlaces
<1>4. lh[tail] \in Block /\ lh[tail] \in dirty /\ tail \in 1..LOGSIZE
  <2>1. Pending(tail)
    BY <1>1, <1>2 DEF Pending, CommitPlaces
  <2> QED  BY <1>2, <1>3, <2>1, Sizes DEF LogInv, Pinned
<1>5. dlog' = [dlog EXCEPT ![tail] = cache[lh[tail]]]
  BY <1>4, Zenon DEF WriteLog, Bread
<1>6. \A q \in Proc :
        pc'[q] = pc[q] \/ (q = p /\ pc'[q] = "write_head" /\ tail = Len(lh) /\ tail' = 1)
  <2>1. pc' = [pc EXCEPT ![p] = "write_head"] =>
          \A q \in Proc : pc'[q] = (IF q = p THEN "write_head" ELSE pc[q])
    BY Zenon DEF LogInv, TypeOK
  <2> QED  BY <1>1, <1>3, <2>1, Sizes
<1>7. /\ Active = {} /\ Active' = {} /\ Rebooted' /\ Counted' /\ Held' /\ Recovering' /\ Reserved'
  BY <1>1, <1>2, <1>6, CommitFrame DEF CommitPlaces
<1>8. dlog \in [1..LOGSIZE -> Val] /\ cache[lh[tail]] \in Val
  BY <1>4, Zenon DEF LogInv, TypeOK
<1>9. TypeOK'
  <2>1. tail' \in 1..(LOGSIZE + 1)
    BY <1>1, <1>4, LogAssumption
  <2>2. dlog' \in [1..LOGSIZE -> Val]
    BY <1>5, <1>8, Zenon
  <2>3. CASE pc' = pc
    BY <1>1, <2>1, <2>2, <2>3, Zenon DEF LogInv, TypeOK
  <2>4. CASE pc' = [pc EXCEPT ![p] = "write_head"]
    BY <1>1, <2>1, <2>2, <2>4, Zenon DEF LogInv, TypeOK
  <2> QED  BY <1>1, <2>3, <2>4
<1>10. Clean' /\ Distinct(lh)' /\ Distinct(hdr)'
  BY <1>1 DEF LogInv, Clean, Distinct
<1>11. Pinned'
  <2> SUFFICES ASSUME NEW i \in 1..Len(lh) PROVE lh[i] \in dirty
    BY <1>1 DEF Pinned
  <2>1. Pending(i)
    BY <1>1, <1>2 DEF Pending, CommitPlaces
  <2> QED  BY <1>2, <2>1 DEF LogInv, Pinned
<1>12. Committed'
  <2>1. \A i \in 1..tail : dlog'[i] = cache[lh[i]]
    BY <1>3, <1>4, <1>5, <1>8, Sizes DEF Copied
  <2>2. CASE tail < Len(lh) /\ tail' = tail + 1 /\ pc' = pc
    BY <1>1, <1>2, <1>3, <2>1, <2>2, Sizes DEF Committed, Copied, CommitPlaces
  <2>3. CASE tail = Len(lh) /\ tail' = 1 /\ pc'[p] = "write_head"
    <3>1. lh # <<>>
      BY <1>3, Sizes, EmptyLog
    <3>2. \A q \in Proc : q # p => pc'[q] \notin CommitPlaces
      BY <1>2, <1>6
    <3> QED  BY <1>1, <1>2, <1>3, <2>1, <2>3, <3>1, <3>2 DEF Committed, Copied, CommitPlaces
  <2>4. pc'[p] = pc[p] \/ (pc'[p] = "write_head" /\ tail = Len(lh) /\ tail' = 1)
    BY <1>6
  <2>5. pc' = [pc EXCEPT ![p] = "write_head"] => pc'[p] = "write_head"
    BY Zenon DEF LogInv, TypeOK
  <2> QED  BY <1>1, <2>2, <2>3, <2>4, <2>5
<1> QED  BY <1>3, <1>7, <1>9, <1>10, <1>11, <1>12 DEF LogInv

LEMMA WriteHeadKeeps ==
  ASSUME LogInv, NEW p \in Proc, WriteHead(p)
  PROVE  LogInv' /\ Active' = Active
<1>1. /\ UNCHANGED <<home, dlog, cache, dirty, lh, outstanding, committing, held, wrote, tail>>
      /\ UNCHANGED <<rec, panicked>> /\ pc[p] = "write_head" /\ pc[p] \in CommitPlaces
      /\ pc' = [pc EXCEPT ![p] = "install"] /\ hdr' = lh
  BY DEF WriteHead, At, Goto, CommitPlaces
<1>2. \A q \in Proc : pc'[q] = (IF q = p THEN "install" ELSE pc[q])
  BY <1>1, Zenon DEF LogInv, TypeOK
<1>3. /\ rec = "no" /\ committing /\ \A q \in Proc : pc[q] \in CommitPlaces => q = p
  BY <1>1, CommitAlone
<1>4. /\ Active = {} /\ Active' = {} /\ Rebooted' /\ Counted' /\ Held' /\ Recovering' /\ Reserved'
  BY <1>1, <1>2, <1>3, CommitFrame DEF CommitPlaces
<1>5. TypeOK'
  BY <1>1, Zenon DEF LogInv, TypeOK
<1>6. Clean' /\ Distinct(lh)' /\ Distinct(hdr)'
  BY <1>1 DEF LogInv, Clean, Distinct
<1>7. tail = 1 /\ lh # <<>> /\ Copied(Len(lh))
  BY <1>1, <1>3 DEF LogInv, Committed
<1>8. Pinned'
  <2> SUFFICES ASSUME NEW i \in 1..Len(lh) PROVE lh[i] \in dirty
    BY <1>1 DEF Pinned
  <2>1. Pending(i)
    BY <1>1, <1>3 DEF Pending, CommitPlaces
  <2> QED  BY <1>3, <2>1 DEF LogInv, Pinned
<1>9. Committed'
  <2>1. tail \in 1..Len(lh)
    BY <1>7, EmptyLog, Sizes
  <2> QED
    BY <1>1, <1>2, <1>3, <1>7, <2>1 DEF Committed, Copied, Installed, CommitPlaces
<1> QED  BY <1>4, <1>5, <1>6, <1>8, <1>9 DEF LogInv

\* What a round of install_trans changes is already what the cache has.
LEMMA InstallKeeps ==
  ASSUME LogInv, NEW p \in Proc, Install(p)
  PROVE  LogInv' /\ Active' = Active /\ cache' = cache
<1>1. /\ UNCHANGED <<hdr, dlog, lh, outstanding, committing, held, wrote>>
      /\ UNCHANGED <<rec, panicked>> /\ pc[p] = "install" /\ pc[p] \in CommitPlaces
      /\ \/ tail < Len(lh) /\ tail' = tail + 1 /\ pc' = pc
         \/ ~(tail < Len(lh)) /\ tail' = 1 /\ pc' = [pc EXCEPT ![p] = "erase"]
      /\ home' = [home EXCEPT ![lh[tail]] = dlog[tail]]
      /\ cache' = [cache EXCEPT ![lh[tail]] = dlog[tail]]
      /\ dirty' = dirty \ {lh[tail]}
  BY DEF Install, InstallBlock, At, Goto, CommitPlaces
<1>2. /\ rec = "no" /\ committing /\ \A q \in Proc : pc[q] \in CommitPlaces => q = p
  BY <1>1, CommitAlone
<1>3. /\ tail \in 1..Len(lh) /\ hdr = lh /\ Copied(Len(lh)) /\ Installed(tail - 1)
  BY <1>1, <1>2 DEF LogInv, Committed
<1>4. /\ lh[tail] \in Block /\ tail \in 1..LOGSIZE /\ dlog[tail] \in Val
      /\ dlog[tail] = cache[lh[tail]]
  BY <1>3, Sizes DEF Copied
<1>5. home \in [Block -> Val] /\ cache \in [Block -> Val]
  BY Zenon DEF LogInv, TypeOK
<1>6. cache' = cache
  BY <1>1, <1>4, <1>5
<1>7. \A c \in Block : home'[c] = (IF c = lh[tail] THEN dlog[tail] ELSE home[c])
  BY <1>1, <1>5
<1>8. \A q \in Proc : pc'[q] = pc[q] \/ (q = p /\ pc'[q] = "erase" /\ tail = Len(lh))
  <2>1. pc' = [pc EXCEPT ![p] = "erase"] =>
          \A q \in Proc : pc'[q] = (IF q = p THEN "erase" ELSE pc[q])
    BY Zenon DEF LogInv, TypeOK
  <2> QED  BY <1>1, <1>3, <2>1, Sizes
<1>9. /\ Active = {} /\ Active' = {} /\ Rebooted' /\ Counted' /\ Held' /\ Recovering' /\ Reserved'
  BY <1>1, <1>2, <1>8, CommitFrame DEF CommitPlaces
<1>10. \A i \in 1..Len(lh) : i # tail => lh[i] # lh[tail]
  BY <1>3 DEF LogInv, Distinct
<1>11. \A i \in 1..tail : home'[lh[i]] = dlog[i]
  BY <1>3, <1>4, <1>7, <1>10, Sizes DEF Installed
<1>12. TypeOK'
  <2>1. tail' \in 1..(LOGSIZE + 1)
    BY <1>1, <1>4, LogAssumption
  <2>2. home' \in [Block -> Val] /\ dirty' \subseteq Block
    BY <1>1, <1>4, <1>5, Zenon DEF LogInv, TypeOK
  <2>3. CASE pc' = pc
    BY <1>1, <1>6, <2>1, <2>2, <2>3, Zenon DEF LogInv, TypeOK
  <2>4. CASE pc' = [pc EXCEPT ![p] = "erase"]
    BY <1>1, <1>6, <2>1, <2>2, <2>4, Zenon DEF LogInv, TypeOK
  <2> QED  BY <1>1, <2>3, <2>4
<1>13. Distinct(lh)' /\ Distinct(hdr)'
  BY <1>1 DEF LogInv, Distinct
<1>14. Clean'
  <2>1. \A c \in Block : c \notin Logged(lh) => c # lh[tail]
    BY <1>3 DEF Logged
  <2> QED  BY <1>1, <1>6, <1>7, <2>1 DEF LogInv, Clean
<1>15. CASE tail < Len(lh) /\ tail' = tail + 1 /\ pc' = pc
  <2>1. Pinned'
    <3> SUFFICES ASSUME NEW i \in 1..Len(lh), tail + 1 <= i
                 PROVE  lh[i] \in dirty /\ lh[i] # lh[tail]
      BY <1>1, <1>15 DEF Pinned, Pending
    <3>1. Pending(i)
      BY <1>1, <1>2, Sizes DEF Pending, CommitPlaces
    <3> QED  BY <1>2, <1>10, <3>1, Sizes DEF LogInv, Pinned
  <2>2. Committed'
    BY <1>1, <1>2, <1>3, <1>6, <1>11, <1>15, Sizes
       DEF Committed, Copied, Installed, CommitPlaces
  <2> QED  BY <1>6, <1>9, <1>12, <1>13, <1>14, <2>1, <2>2 DEF LogInv
<1>16. CASE tail = Len(lh) /\ pc'[p] = "erase"
  <2>1. Pinned'
    BY <1>16 DEF Pinned, Pending
  <2>2. \A q \in Proc : q # p => pc'[q] \notin CommitPlaces
    BY <1>2, <1>8
  <2>3. Committed'
    BY <1>1, <1>2, <1>3, <1>6, <1>11, <1>16, <2>2
       DEF Committed, Copied, Installed, CommitPlaces
  <2> QED  BY <1>6, <1>9, <1>12, <1>13, <1>14, <2>1, <2>3 DEF LogInv
<1> QED
  <2>1. pc' = [pc EXCEPT ![p] = "erase"] => pc'[p] = "erase"
    BY Zenon DEF LogInv, TypeOK
  <2> QED  BY <1>1, <1>8, <1>15, <1>16, <2>1

LEMMA EraseKeeps ==
  ASSUME LogInv, NEW p \in Proc, Erase(p)
  PROVE  LogInv' /\ Active' = Active
<1>1. /\ UNCHANGED <<home, dlog, cache, dirty, outstanding, committing, held, wrote, tail>>
      /\ UNCHANGED <<rec, panicked>> /\ pc[p] = "erase" /\ pc[p] \in CommitPlaces
      /\ pc' = [pc EXCEPT ![p] = "finish"] /\ lh' = <<>> /\ hdr' = <<>>
  BY DEF Erase, At, Goto, CommitPlaces
<1>2. \A q \in Proc : pc'[q] = (IF q = p THEN "finish" ELSE pc[q])
  BY <1>1, Zenon DEF LogInv, TypeOK
<1>3. /\ rec = "no" /\ committing /\ \A q \in Proc : pc[q] \in CommitPlaces => q = p
      /\ \A q \in Proc : held[q] = NoBlock
  BY <1>1, CommitAlone
<1>4. /\ Active = {} /\ Active' = {} /\ Rebooted' /\ Counted' /\ Held' /\ Recovering' /\ Reserved'
  BY <1>1, <1>2, <1>3, CommitFrame DEF CommitPlaces
<1>5. TypeOK'
  <2>1. <<>> \in Seq(Block) /\ Len(<<>>) <= LOGSIZE
    BY EmptyLog, LogAssumption
  <2> QED  BY <1>1, <2>1, Zenon DEF LogInv, TypeOK
<1>6. Clean'
  <2>1. /\ Copied(Len(lh)) /\ Installed(Len(lh))
    BY <1>1, <1>3 DEF LogInv, Committed
  <2>2. \A b \in Logged(lh) : cache[b] = home[b]
    BY <2>1 DEF Logged, Copied, Installed
  <2>3. \A b \in Block, q \in Proc : held[q] # b
    BY <1>3, LogAssumption DEF NoBlock
  <2>4. \A b \in Block : cache[b] = home[b]
    BY <1>3, <2>2, <2>3, Zenon DEF LogInv, Clean
  <2> QED  BY <1>1, <2>4, Zenon DEF Clean
<1>7. Pinned' /\ Distinct(lh)' /\ Distinct(hdr)'
  BY <1>1, EmptyLog DEF Pinned, Distinct
<1>8. Committed'
  BY <1>1, <1>2, <1>3 DEF Committed, CommitPlaces
<1> QED  BY <1>4, <1>5, <1>6, <1>7, <1>8 DEF LogInv

LEMMA FinishKeeps ==
  ASSUME LogInv, NEW p \in Proc, Finish(p)
  PROVE  LogInv' /\ Active' = Active
<1>1. /\ UNCHANGED <<home, hdr, dlog, cache, dirty, lh, outstanding, held, wrote, tail>>
      /\ UNCHANGED <<rec, panicked>> /\ pc[p] = "finish" /\ pc[p] \in CommitPlaces
      /\ committing' = FALSE
      /\ pc' = [q \in Proc |-> IF q = p THEN "out"
                               ELSE IF pc[q] = "asleep" THEN "begin" ELSE pc[q]]
  BY DEF Finish, At, WakeupAnd, disk, CommitPlaces
<1>2. /\ pc'[p] = "out"
      /\ \A q \in Proc : q # p => pc'[q] = pc[q] \/ (pc[q] = "asleep" /\ pc'[q] = "begin")
  BY <1>1
<1>3. /\ rec = "no" /\ \A q \in Proc : pc[q] \in CommitPlaces => q = p
  BY <1>1, CommitAlone
<1>4. /\ Active = {} /\ Active' = {} /\ Rebooted' /\ Counted' /\ Held' /\ Recovering' /\ Reserved'
  BY <1>1, <1>2, <1>3, CommitFrame DEF CommitPlaces
<1>5. TypeOK'
  BY <1>1, Zenon DEF LogInv, TypeOK
<1>6. Clean' /\ Distinct(lh)' /\ Distinct(hdr)'
  BY <1>1 DEF LogInv, Clean, Distinct
<1>7. lh = <<>> /\ hdr = <<>>
  BY <1>1, <1>3 DEF LogInv, Committed, CommitPlaces
<1>8. Pinned'
  BY <1>1, <1>7, EmptyLog DEF Pinned
<1>9. Committed'
  <2>1. \A q \in Proc : pc'[q] \notin CommitPlaces
    BY <1>2, <1>3 DEF CommitPlaces
  <2> QED  BY <1>1, <1>7, <2>1 DEF Committed, CommitPlaces
<1> QED  BY <1>4, <1>5, <1>6, <1>8, <1>9 DEF LogInv

=============================================================================
