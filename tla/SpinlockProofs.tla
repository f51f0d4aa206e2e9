--------------------------- MODULE SpinlockProofs ---------------------------
(***************************************************************************)
(* For any number of processors and locks: the assertions of spinlock.c    *)
(* never fail, a lock is held once, and the interrupt flag comes back.     *)
(* LockInv is inductive; each action has one lemma, with a step for each   *)
(* conjunct it can disturb.                                                *)
(***************************************************************************)
EXTENDS Spinlock, TLAPS, FiniteSetTheorems

\* The locks a processor holds are finitely many, so that ncli counts them.
LEMMA HeldFinite ==
  ASSUME TypeOK, NEW c \in CPU
  PROVE  IsFiniteSet(held[c]) /\ Cardinality(held[c]) \in Nat
<1>1. IsFiniteSet(Lock)
  BY SpinlockAssumption, FS_Interval DEF Lock
<1>2. held[c] \subseteq Lock
  BY DEF TypeOK
<1> QED BY <1>1, <1>2, FS_Subset, FS_CardinalityType

\* Code that holds no lock has no pushcli to undo.
LEMMA NoLocks ==
  ASSUME LockInv, NEW c \in CPU, at[c].pc = "run", held[c] = {}
  PROVE  ncli[c] = 0
<1>1. Cardinality(held[c]) = 0
  BY FS_EmptySet
<1>2. Extra(c) = 0
  BY DEF Extra
<1>3. ncli[c] = Cardinality(held[c]) + Extra(c)
  BY DEF LockInv, Counts
<1> QED BY <1>1, <1>2, <1>3

\* initlock: no lock is held and every processor accepts interrupts.
LEMMA InitLockInv == Init => LockInv
<1> SUFFICES ASSUME Init PROVE LockInv
  OBVIOUS
<1>1. TypeOK
  BY SpinlockAssumption DEF Init, TypeOK, Running
<1>2. NeverPanics /\ Places /\ Owned
  BY SpinlockAssumption DEF Init, NeverPanics, Places, Owned, Between, Running
<1>3. Counts
  BY FS_EmptySet DEF Init, Counts, Extra, Running
<1>4. Flags
  BY DEF Init, Flags
<1> QED BY <1>1, <1>2, <1>3, <1>4 DEF LockInv

\* acquire: the order of the locks keeps a processor from its own lock, and
\* pushcli notes the flag of the outermost call.
LEMMA AcquireLockInv ==
  ASSUME LockInv, NEW c \in CPU, NEW l \in Lock, Acquire(c, l)
  PROVE  LockInv'
<1> USE DEF Acquire, At, Go, pushcli
<1>1. l \notin held[c]
  BY SpinlockAssumption DEF Lock, LockInv, TypeOK
<1>2. NeverPanics'
  BY <1>1 DEF LockInv, Owned, NeverPanics, holding
<1>3. TypeOK'
  BY <1>2, SpinlockAssumption DEF LockInv, TypeOK, NeverPanics, Lock
<1>4. Counts'
  BY HeldFinite DEF LockInv, TypeOK, Counts, Extra
<1>5. Flags'
  <2> SUFFICES ASSUME NEW d \in CPU
               PROVE  /\ IF_'[d] <=> ncli'[d] = 0 /\ ~handler'[d]
                      /\ ncli'[d] # 0 => (intena'[d] <=> ~handler'[d])
                      /\ below'[d] = {}
    BY DEF Flags
  <2>1. CASE d # c
    BY <2>1 DEF LockInv, TypeOK, Flags
  <2>2. CASE d = c
    <3>1. ncli'[c] # 0 /\ ~IF_'[c]
      BY DEF LockInv, TypeOK
    <3>2. ncli[c] = 0 => intena'[c] = IF_[c]
      BY DEF LockInv, TypeOK
    <3>3. ncli[c] # 0 => intena'[c] = intena[c]
      BY DEF LockInv, TypeOK
    <3> QED BY <2>2, <3>1, <3>2, <3>3 DEF LockInv, Flags
  <2> QED BY <2>1, <2>2
<1>6. Places'
  BY <1>1 DEF LockInv, TypeOK, Places
<1>7. Owned'
  BY DEF LockInv, TypeOK, Owned, Between
<1> QED BY <1>2, <1>3, <1>4, <1>5, <1>6, <1>7 DEF LockInv

\* The xchg: a lock that is not locked has no holder yet.
LEMMA XchgLockInv ==
  ASSUME LockInv, NEW c \in CPU, Xchg(c)
  PROVE  LockInv'
<1> USE DEF Xchg, At, Go
<1> DEFINE l == at[c].lk
<1>1. l \in Lock /\ l \notin held[c]
  BY DEF LockInv, Places
<1>2. \A d \in CPU : l \notin held[d]
  BY <1>1 DEF LockInv, Owned
<1>3. TypeOK' /\ NeverPanics'
  BY <1>1 DEF LockInv, TypeOK, NeverPanics
<1>4. Counts'
  <2>1. IsFiniteSet(held[c]) /\ Cardinality(held[c]) \in Nat
    BY HeldFinite DEF LockInv
  <2>2. Cardinality(held[c] \union {l}) = Cardinality(held[c]) + 1
    BY <1>1, <2>1, FS_AddElement
  <2>3. held'[c] = held[c] \union {l} /\ \A d \in CPU \ {c} : held'[d] = held[d]
    BY DEF LockInv, TypeOK
  <2>4. ncli[c] = Cardinality(held[c]) + 1
    BY DEF LockInv, Counts, Extra
  <2>5. ASSUME NEW d \in CPU
        PROVE  (ncli[d] = Cardinality(held[d]) + Extra(d))'
    <3>1. CASE d = c
      BY <2>2, <2>3, <2>4, <2>1, <3>1 DEF Extra, LockInv, TypeOK
    <3>2. CASE d # c
      BY <2>3, <3>2 DEF LockInv, TypeOK, Counts, Extra
    <3> QED BY <3>1, <3>2
  <2> QED BY <2>5 DEF Counts
<1>5. Flags'
  BY DEF LockInv, TypeOK, Flags
<1>6. Places'
  BY <1>1 DEF LockInv, TypeOK, Places
<1>7. Owned'
  BY <1>1, <1>2 DEF LockInv, TypeOK, Owned, Between
<1> QED BY <1>3, <1>4, <1>5, <1>6, <1>7 DEF LockInv

\* The store of lk->cpu ends acquire.
LEMMA SetOwnerLockInv ==
  ASSUME LockInv, NEW c \in CPU, SetOwner(c)
  PROVE  LockInv'
<1> USE DEF SetOwner, At, Go
<1>1. at[c].lk \in held[c] /\ at[c].lk \in Lock
  BY DEF LockInv, Places, TypeOK
<1>2. TypeOK' /\ NeverPanics'
  BY <1>1, SpinlockAssumption DEF LockInv, TypeOK, NeverPanics
<1>3. Counts'
  BY DEF LockInv, TypeOK, Counts, Extra
<1>4. Flags'
  BY DEF LockInv, TypeOK, Flags
<1>5. Places'
  BY DEF LockInv, TypeOK, Places
<1>6. Owned'
  BY <1>1, SpinlockAssumption DEF LockInv, TypeOK, Owned, Between, Lock
<1> QED BY <1>2, <1>3, <1>4, <1>5, <1>6 DEF LockInv

\* release: its processor is the owner of a lock it holds.
LEMMA ReleaseLockInv ==
  ASSUME LockInv, NEW c \in CPU, NEW l \in Lock, Release(c, l)
  PROVE  LockInv'
<1> USE DEF Release, At, Go
<1>1. NeverPanics'
  BY DEF LockInv, Owned, Between, NeverPanics, holding
<1>2. TypeOK'
  BY <1>1, SpinlockAssumption DEF LockInv, TypeOK, NeverPanics, Lock
<1>3. Counts'
  BY DEF LockInv, TypeOK, Counts, Extra
<1>4. Flags'
  BY DEF LockInv, TypeOK, Flags
<1>5. Places'
  BY DEF LockInv, TypeOK, Places
<1>6. Owned'
  BY SpinlockAssumption DEF LockInv, TypeOK, Owned, Between
<1> QED BY <1>1, <1>2, <1>3, <1>4, <1>5, <1>6 DEF LockInv

\* The store that clears the lock.
LEMMA UnlockLockInv ==
  ASSUME LockInv, NEW c \in CPU, Unlock(c)
  PROVE  LockInv'
<1> USE DEF Unlock, At, Go
<1> DEFINE l == at[c].lk
<1>1. l \in Lock /\ l \in held[c]
  BY DEF LockInv, Places, TypeOK
<1>2. \A d \in CPU : l \in held[d] => d = c
  BY <1>1 DEF LockInv, Owned
<1>3. TypeOK' /\ NeverPanics'
  BY <1>1, SpinlockAssumption DEF LockInv, TypeOK, NeverPanics
<1>4. Counts'
  <2>1. IsFiniteSet(held[c]) /\ Cardinality(held[c]) \in Nat
    BY HeldFinite DEF LockInv
  <2>2. Cardinality(held[c] \ {l}) = Cardinality(held[c]) - 1
    BY <1>1, <2>1, FS_RemoveElement
  <2>3. held'[c] = held[c] \ {l} /\ \A d \in CPU \ {c} : held'[d] = held[d]
    BY DEF LockInv, TypeOK
  <2>4. ncli[c] = Cardinality(held[c])
    BY <2>1 DEF LockInv, Counts, Extra
  <2>5. ASSUME NEW d \in CPU
        PROVE  (ncli[d] = Cardinality(held[d]) + Extra(d))'
    <3>1. CASE d = c
      BY <2>2, <2>3, <2>4, <2>1, <3>1 DEF Extra, LockInv, TypeOK
    <3>2. CASE d # c
      BY <2>3, <3>2 DEF LockInv, TypeOK, Counts, Extra
    <3> QED BY <3>1, <3>2
  <2> QED BY <2>5 DEF Counts
<1>5. Flags'
  BY DEF LockInv, TypeOK, Flags
<1>6. Places'
  BY DEF LockInv, TypeOK, Places
<1>7. Owned'
  BY <1>1, <1>2 DEF LockInv, TypeOK, Owned, Between
<1> QED BY <1>3, <1>4, <1>5, <1>6, <1>7 DEF LockInv

\* popcli: the count is not zero, and the last one restores the flag.
LEMMA PopcliLockInv ==
  ASSUME LockInv, NEW c \in CPU, Popcli(c)
  PROVE  LockInv'
<1>1. /\ panicked = "no" /\ at[c].pc = "popcli"
      /\ at' = [at EXCEPT ![c] = [pc |-> "run", lk |-> 0]]
      /\ ncli' = [ncli EXCEPT ![c] = @ - 1]
      /\ UNCHANGED <<locked, cpu, intena, held, handler, below>>
  BY DEF Popcli, popcli, At, Go
<1>2. Cardinality(held[c]) \in Nat /\ ncli[c] = Cardinality(held[c]) + 1
  BY <1>1, HeldFinite DEF LockInv, Counts, Extra
<1>3. ~IF_[c] /\ ~(ncli[c] < 1)
  BY <1>2 DEF LockInv, Flags
<1>4. panicked' = "no"
  <2>1. panicked' = IF IF_[c] THEN "popcli - interruptible" ELSE IF ncli[c] < 1 THEN "popcli" ELSE "no"
    BY DEF Popcli, popcli
  <2> QED BY <1>3, <2>1
<1>5. IF_' \in [CPU -> BOOLEAN] /\ (IF_'[c] <=> ncli[c] = 1 /\ intena[c])
      /\ \A d \in CPU \ {c} : IF_'[d] = IF_[d]
  <2> DEFINE b == ncli[c] = 1 /\ intena[c]
  <2>1. b \in BOOLEAN /\ IF_ \in [CPU -> BOOLEAN]
    BY DEF LockInv, TypeOK
  <2>2. IF_' = [IF_ EXCEPT ![c] = b]
    BY DEF Popcli, popcli
  <2> HIDE DEF b
  <2>3. IF_' \in [CPU -> BOOLEAN] /\ IF_'[c] = b /\ \A d \in CPU \ {c} : IF_'[d] = IF_[d]
    BY <2>1, <2>2
  <2> QED BY <2>1, <2>3, Zenon DEF b
<1>6. TypeOK' /\ NeverPanics'
  <2>1. ncli' \in [CPU -> Nat]
    BY <1>1, <1>2 DEF LockInv, TypeOK
  <2>2. at' \in [CPU -> [pc : {"run", "xchg", "owner", "unlock", "popcli"}, lk : 0..NLOCK]]
    BY <1>1, SpinlockAssumption DEF LockInv, TypeOK
  <2>3. IF_' \in [CPU -> BOOLEAN]
    BY <1>5
  <2> QED BY <1>1, <1>4, <2>1, <2>2, <2>3 DEF LockInv, TypeOK, NeverPanics
<1>7. Counts'
  BY <1>1, <1>2 DEF LockInv, TypeOK, Counts, Extra
<1>8. Flags'
  <2> SUFFICES ASSUME NEW d \in CPU
               PROVE  /\ IF_'[d] <=> ncli'[d] = 0 /\ ~handler'[d]
                      /\ ncli'[d] # 0 => (intena'[d] <=> ~handler'[d])
                      /\ below'[d] = {}
    BY DEF Flags
  <2>1. CASE d # c
    BY <1>1, <1>5, <2>1 DEF LockInv, TypeOK, Flags
  <2>2. CASE d = c
    <3>1. ncli'[c] = ncli[c] - 1 /\ (ncli'[c] = 0 <=> ncli[c] = 1) /\ ncli[c] # 0
      BY <1>1, <1>2 DEF LockInv, TypeOK
    <3> QED BY <1>1, <1>5, <2>2, <3>1 DEF LockInv, Flags
  <2> QED BY <2>1, <2>2
<1>9. Places'
  BY <1>1 DEF LockInv, TypeOK, Places
<1>10. Owned'
  BY <1>1 DEF LockInv, TypeOK, Owned, Between
<1> QED BY <1>6, <1>7, <1>8, <1>9, <1>10 DEF LockInv

\* An interrupt comes only where no lock is held.
LEMMA InterruptLockInv ==
  ASSUME LockInv, NEW c \in CPU, Interrupt(c)
  PROVE  LockInv'
<1> USE DEF Interrupt
<1>1. held[c] = {}
  BY HeldFinite, FS_EmptySet DEF LockInv, Flags, Counts, Extra
<1>2. held' = held /\ below' = below
  BY <1>1 DEF LockInv, TypeOK, Flags
<1>3. TypeOK' /\ NeverPanics'
  BY <1>2 DEF LockInv, TypeOK, NeverPanics
<1>4. Counts'
  BY <1>2 DEF LockInv, TypeOK, Counts, Extra
<1>5. Flags'
  BY <1>2 DEF LockInv, TypeOK, Flags
<1>6. Places' /\ Owned'
  BY <1>2 DEF LockInv, Places, Owned, Between
<1> QED BY <1>3, <1>4, <1>5, <1>6 DEF LockInv

\* iret: the handler has given back its locks, and there were none below.
LEMMA IretLockInv ==
  ASSUME LockInv, NEW c \in CPU, Iret(c)
  PROVE  LockInv'
<1> USE DEF Iret, At
<1>1. held' = held /\ below' = below
  BY DEF LockInv, TypeOK, Flags
<1>2. ncli[c] = 0
  BY NoLocks
<1>3. TypeOK' /\ NeverPanics'
  BY <1>1 DEF LockInv, TypeOK, NeverPanics
<1>4. Counts'
  BY <1>1 DEF LockInv, TypeOK, Counts, Extra
<1>5. Flags'
  BY <1>1, <1>2 DEF LockInv, TypeOK, Flags
<1>6. Places' /\ Owned'
  BY <1>1 DEF LockInv, Places, Owned, Between
<1> QED BY <1>3, <1>4, <1>5, <1>6 DEF LockInv

\* Every step keeps the invariant.
LEMMA NextLockInv == LockInv /\ [Next]_vars => LockInv'
<1> SUFFICES ASSUME LockInv, [Next]_vars PROVE LockInv'
  OBVIOUS
<1>1. CASE UNCHANGED vars
  BY <1>1 DEF vars, LockInv, TypeOK, NeverPanics, Counts, Extra, Flags, Places, Owned, Between
<1>2. CASE Next
  <2> PICK c \in CPU : \/ \E l \in Lock : Acquire(c, l) \/ Release(c, l)
                       \/ Xchg(c) \/ SetOwner(c) \/ Unlock(c) \/ Popcli(c)
                       \/ Interrupt(c) \/ Iret(c)
    BY <1>2 DEF Next
  <2> QED BY AcquireLockInv, ReleaseLockInv, XchgLockInv, SetOwnerLockInv, UnlockLockInv,
             PopcliLockInv, InterruptLockInv, IretLockInv
<1> QED BY <1>1, <1>2

\* Without a lock a processor is not between two of these instructions.
LEMMA LockInvFlag == LockInv => FlagRestored
<1> SUFFICES ASSUME LockInv, NEW c \in CPU, at[c].pc = "run", held[c] = {}
             PROVE  IF_[c] = ~handler[c]
  BY DEF FlagRestored
<1>1. ncli[c] = 0
  BY NoLocks
<1>2. IF_[c] <=> ~handler[c]
  BY <1>1 DEF LockInv, Flags
<1>3. IF_[c] \in BOOLEAN /\ handler[c] \in BOOLEAN
  BY DEF LockInv, TypeOK
<1> QED BY <1>2, <1>3

\* The flag is set only with ncli at zero, that is without locks.
LEMMA LockInvHeld == LockInv => HeldOnce
<1> SUFFICES ASSUME LockInv PROVE HeldOnce
  OBVIOUS
<1>1. \A c \in CPU : below[c] = {} /\ held[c] \subseteq Lock
  BY DEF LockInv, Flags, TypeOK
<1>2. \A c, d \in CPU : c # d => held[c] \intersect held[d] = {}
  BY <1>1 DEF LockInv, Owned
<1>3. ASSUME NEW c \in CPU, IF_[c] PROVE held[c] = {}
  BY <1>3, HeldFinite, FS_EmptySet DEF LockInv, Flags, Counts, Extra
<1> QED BY <1>1, <1>2, <1>3 DEF HeldOnce

\* ncli, the flags and the two fields of every lock always agree with who
\* holds what (acquire, release, pushcli, popcli).
THEOREM LockInvHolds == Spec => []LockInv
BY InitLockInv, NextLockInv, PTL DEF Spec

\* The panics of acquire, release and popcli are not reached.
THEOREM LocksNeverPanic == Spec => []NeverPanics
<1>1. LockInv => NeverPanics
  BY DEF LockInv
<1> QED BY <1>1, LockInvHolds, PTL

\* A lock is held by one processor, by one of its two levels, and never with
\* interrupts on.
THEOREM LocksHeldOnce == Spec => []HeldOnce
BY LockInvHolds, LockInvHeld, PTL

\* pushcli and popcli nest: without locks the interrupt flag is the one the
\* code started with.
THEOREM LocksRestoreFlag == Spec => []FlagRestored
BY LockInvHolds, LockInvFlag, PTL
=============================================================================
