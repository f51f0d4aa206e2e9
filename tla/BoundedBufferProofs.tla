------------------------ MODULE BoundedBufferProofs ------------------------
(***************************************************************************)
(* The consumer of lab-05/buf.c reads every item in order, whatever the    *)
(* size of the buffer and the number of items.                             *)
(***************************************************************************)
EXTENDS BoundedBuffer, TLAPS

\* Two numbers less than n apart use different places of a buffer of n places.
LEMMA DifferentPlaces ==
  ASSUME NEW n \in Nat \ {0}, NEW a \in Nat, NEW b \in Nat, a < b, b < a + n
  PROVE  a % n # b % n
<1> DEFINE qa == a \div n
           qb == b \div n
<1>1. qa \in Int /\ qb \in Int /\ a % n \in Int /\ b % n \in Int
  OBVIOUS
<1>2. a = n * qa + (a % n) /\ b = n * qb + (b % n)
  OBVIOUS
<1>3. SUFFICES ASSUME a % n = b % n PROVE FALSE
  OBVIOUS
<1> HIDE DEF qa, qb
<1>4. n * (qb - qa) = b - a
  BY <1>1, <1>2, <1>3
<1>5. CASE qb - qa <= 0
  <2>1. n * (qb - qa) <= 0
    BY <1>1, <1>5
  <2> QED BY <2>1, <1>4
<1>6. CASE qb - qa >= 1
  <2>1. n * (qb - qa) >= n
    BY <1>1, <1>6
  <2> QED BY <2>1, <1>4
<1> QED BY <1>1, <1>5, <1>6

\* The place of an item is a place of the buffer.
LEMMA PlaceOf == ASSUME NEW a \in Nat PROVE a % size \in Place
BY BufferAssumption DEF Place

\* The program starts in the invariant.
LEMMA InitHolds == Init => BufferInv
BY BufferAssumption DEF Init, BufferInv, TypeOK, MutexHeld, Looping, Counted, Holds, InOrder,
   Inside, Waited, produced, consumed, Threads, Location, Item, Place, Garbage

\* A step that changes neither the buffer nor the results keeps them right if it
\* keeps the counts of items produced and consumed.
Still == UNCHANGED <<buf, reader_results>> /\ produced' = produced /\ consumed' = consumed

\* Such a step leaves every item where it is.
LEMMA StillKeeps == Holds /\ InOrder /\ Still => Holds' /\ InOrder'
BY DEF Holds, InOrder, Still

\* The producer takes an empty place.
LEMMA WaitEmptyKeeps == BufferInv /\ WaitEmpty => BufferInv'
<1> SUFFICES ASSUME BufferInv, WaitEmpty PROVE BufferInv'
  OBVIOUS
<1>1. TypeOK'
  BY BufferAssumption DEF BufferInv, TypeOK, Looping, Counted, Waited, Threads, Location, WaitEmpty, Goto
<1>2. MutexHeld' /\ Looping' /\ Counted'
  BY BufferAssumption DEF BufferInv, TypeOK, MutexHeld, Looping, Counted, Inside, Waited, Threads, Location, WaitEmpty, Goto
<1>3. Still
  BY DEF BufferInv, TypeOK, Still, produced, consumed, Threads, WaitEmpty, Goto
<1> QED
  BY <1>1, <1>2, <1>3, StillKeeps DEF BufferInv

\* The producer takes the mutex.
LEMMA LockProducerKeeps == BufferInv /\ Lock("producer") => BufferInv'
<1> SUFFICES ASSUME BufferInv, Lock("producer") PROVE BufferInv'
  OBVIOUS
<1>1. TypeOK'
  BY BufferAssumption DEF BufferInv, TypeOK, Looping, Counted, Waited, Threads, Location, Lock, Goto
<1>2. MutexHeld' /\ Looping' /\ Counted'
  BY BufferAssumption DEF BufferInv, TypeOK, MutexHeld, Looping, Counted, Inside, Waited, Threads, Location, Lock, Goto
<1>3. Still
  BY DEF BufferInv, TypeOK, Still, produced, consumed, Threads, Lock, Goto
<1> QED
  BY <1>1, <1>2, <1>3, StillKeeps DEF BufferInv

\* The consumer takes the mutex.
LEMMA LockConsumerKeeps == BufferInv /\ Lock("consumer") => BufferInv'
<1> SUFFICES ASSUME BufferInv, Lock("consumer") PROVE BufferInv'
  OBVIOUS
<1>1. TypeOK'
  BY BufferAssumption DEF BufferInv, TypeOK, Looping, Counted, Waited, Threads, Location, Lock, Goto
<1>2. MutexHeld' /\ Looping' /\ Counted'
  BY BufferAssumption DEF BufferInv, TypeOK, MutexHeld, Looping, Counted, Inside, Waited, Threads, Location, Lock, Goto
<1>3. Still
  BY DEF BufferInv, TypeOK, Still, produced, consumed, Threads, Lock, Goto
<1> QED
  BY <1>1, <1>2, <1>3, StillKeeps DEF BufferInv

\* The producer releases the mutex.
LEMMA UnlockProducerKeeps == BufferInv /\ Unlock("producer") => BufferInv'
<1> SUFFICES ASSUME BufferInv, Unlock("producer") PROVE BufferInv'
  OBVIOUS
<1>1. TypeOK'
  BY BufferAssumption DEF BufferInv, TypeOK, Looping, Counted, Waited, Threads, Location, Unlock, Goto
<1>2. MutexHeld' /\ Looping' /\ Counted'
  BY BufferAssumption DEF BufferInv, TypeOK, MutexHeld, Looping, Counted, Inside, Waited, Threads, Location, Unlock, Goto
<1>3. Still
  BY DEF BufferInv, TypeOK, Still, produced, consumed, Threads, Unlock, Goto
<1> QED
  BY <1>1, <1>2, <1>3, StillKeeps DEF BufferInv

\* The consumer releases the mutex.
LEMMA UnlockConsumerKeeps == BufferInv /\ Unlock("consumer") => BufferInv'
<1> SUFFICES ASSUME BufferInv, Unlock("consumer") PROVE BufferInv'
  OBVIOUS
<1>1. TypeOK'
  BY BufferAssumption DEF BufferInv, TypeOK, Looping, Counted, Waited, Threads, Location, Unlock, Goto
<1>2. MutexHeld' /\ Looping' /\ Counted'
  BY BufferAssumption DEF BufferInv, TypeOK, MutexHeld, Looping, Counted, Inside, Waited, Threads, Location, Unlock, Goto
<1>3. Still
  BY DEF BufferInv, TypeOK, Still, produced, consumed, Threads, Unlock, Goto
<1> QED
  BY <1>1, <1>2, <1>3, StillKeeps DEF BufferInv

\* The producer announces the item and goes on.
LEMMA PostFullKeeps == BufferInv /\ PostFull => BufferInv'
<1> SUFFICES ASSUME BufferInv, PostFull PROVE BufferInv'
  OBVIOUS
<1>0. i["producer"] \in 0..(items - 1)
  BY BufferAssumption DEF BufferInv, TypeOK, Looping, Threads, PostFull
<1>1. TypeOK'
  <2>1. full' \in 0..size
    BY BufferAssumption DEF BufferInv, TypeOK, Counted, Waited, Threads, PostFull
  <2>2. i' \in [Threads -> 0..items]
    BY <1>0, BufferAssumption DEF BufferInv, TypeOK, Threads, PostFull, Loop
  <2>3. pc' \in [Threads -> Location]
    BY DEF BufferInv, TypeOK, Threads, Location, PostFull, Loop, Goto
  <2> QED
    BY <2>1, <2>2, <2>3 DEF BufferInv, TypeOK, PostFull
<1>2. MutexHeld' /\ Looping' /\ Counted'
  <2>1. MutexHeld'
    BY DEF BufferInv, TypeOK, MutexHeld, Inside, Threads, PostFull, Loop, Goto
  <2>2. Looping'
    BY <1>0, BufferAssumption DEF BufferInv, TypeOK, Looping, Threads, PostFull, Loop, Goto
  <2>3. Counted'
    BY <1>0, BufferAssumption DEF BufferInv, TypeOK, Counted, Waited, Threads, PostFull, Loop, Goto
  <2> QED
    BY <2>1, <2>2, <2>3
<1>3. Still
  BY DEF BufferInv, TypeOK, Still, produced, consumed, Threads, PostFull, Goto, Loop
<1> QED
  BY <1>1, <1>2, <1>3, StillKeeps DEF BufferInv

\* The consumer takes a full place.
LEMMA WaitFullKeeps == BufferInv /\ WaitFull => BufferInv'
<1> SUFFICES ASSUME BufferInv, WaitFull PROVE BufferInv'
  OBVIOUS
<1>1. TypeOK'
  BY BufferAssumption DEF BufferInv, TypeOK, Looping, Counted, Waited, Threads, Location, WaitFull, Goto
<1>2. MutexHeld' /\ Looping' /\ Counted'
  BY BufferAssumption DEF BufferInv, TypeOK, MutexHeld, Looping, Counted, Inside, Waited, Threads, Location, WaitFull, Goto
<1>3. Still
  BY DEF BufferInv, TypeOK, Still, produced, consumed, Threads, WaitFull, Goto
<1> QED
  BY <1>1, <1>2, <1>3, StillKeeps DEF BufferInv

\* The consumer gives the place back and goes on.
LEMMA PostEmptyKeeps == BufferInv /\ PostEmpty => BufferInv'
<1> SUFFICES ASSUME BufferInv, PostEmpty PROVE BufferInv'
  OBVIOUS
<1>0. i["consumer"] \in 0..(items - 1)
  BY BufferAssumption DEF BufferInv, TypeOK, Looping, Threads, PostEmpty
<1>1. TypeOK'
  <2>1. empty' \in 0..size
    BY BufferAssumption DEF BufferInv, TypeOK, Counted, Waited, Threads, PostEmpty
  <2>2. i' \in [Threads -> 0..items]
    BY <1>0, BufferAssumption DEF BufferInv, TypeOK, Threads, PostEmpty, Loop
  <2>3. pc' \in [Threads -> Location]
    BY DEF BufferInv, TypeOK, Threads, Location, PostEmpty, Loop, Goto
  <2> QED
    BY <2>1, <2>2, <2>3 DEF BufferInv, TypeOK, PostEmpty
<1>2. MutexHeld' /\ Looping' /\ Counted'
  <2>1. MutexHeld'
    BY DEF BufferInv, TypeOK, MutexHeld, Inside, Threads, PostEmpty, Loop, Goto
  <2>2. Looping'
    BY <1>0, BufferAssumption DEF BufferInv, TypeOK, Looping, Threads, PostEmpty, Loop, Goto
  <2>3. Counted'
    BY <1>0, BufferAssumption DEF BufferInv, TypeOK, Counted, Waited, Threads, PostEmpty, Loop, Goto
  <2> QED
    BY <2>1, <2>2, <2>3
<1>3. Still
  BY DEF BufferInv, TypeOK, Still, produced, consumed, Threads, PostEmpty, Goto, Loop
<1> QED
  BY <1>1, <1>2, <1>3, StillKeeps DEF BufferInv

\* The producer stores an item: its place is none of those still to be read.
LEMMA PutKeeps == BufferInv /\ Put => BufferInv'
<1> SUFFICES ASSUME BufferInv, Put PROVE BufferInv'
  OBVIOUS
<1> DEFINE ip == i["producer"]
<1>0. ip \in Item /\ ip \in Nat /\ i["consumer"] \in Nat
  BY BufferAssumption DEF BufferInv, TypeOK, Looping, Threads, Put, Item
<1>1. TypeOK'
  BY <1>0, PlaceOf DEF BufferInv, TypeOK, Threads, Location, Put, Goto
<1>2. MutexHeld' /\ Looping' /\ Counted'
  BY DEF BufferInv, TypeOK, MutexHeld, Looping, Counted, Inside, Waited, Threads, Put, Goto
<1>3. produced = ip /\ produced' = ip + 1 /\ consumed' = consumed
  BY <1>0 DEF BufferInv, TypeOK, produced, consumed, Threads, Put, Goto
<1>4. ip - i["consumer"] < size /\ consumed \in Nat /\ consumed >= i["consumer"]
  BY <1>0, BufferAssumption DEF BufferInv, TypeOK, Counted, Waited, Threads, Put, consumed
<1>5. Holds'
  <2> SUFFICES ASSUME NEW k \in Item, consumed <= k, k < ip + 1 PROVE buf'[k % size] = k
    BY <1>3 DEF Holds
  <2>0. k \in Nat
    BY BufferAssumption DEF Item
  <2>1. CASE k = ip
    BY <2>1, <1>0, PlaceOf DEF BufferInv, TypeOK, Put
  <2>2. CASE k # ip
    <3>1. k < ip /\ ip < k + size
      BY <2>0, <2>2, <1>0, <1>4, BufferAssumption
    <3>2. k % size # ip % size
      BY <3>1, <2>0, <1>0, BufferAssumption, DifferentPlaces
    <3>3. buf[k % size] = k
      BY <3>1, <1>3 DEF BufferInv, Holds
    <3> QED
      BY <3>2, <3>3, <2>0, <1>0, PlaceOf DEF BufferInv, TypeOK, Put
  <2> QED BY <2>1, <2>2
<1>6. InOrder'
  BY <1>3 DEF BufferInv, InOrder, Put
<1> QED
  BY <1>1, <1>2, <1>5, <1>6 DEF BufferInv

\* The consumer copies an item: the oldest one in the buffer.
LEMMA GetKeeps == BufferInv /\ Get => BufferInv'
<1> SUFFICES ASSUME BufferInv, Get PROVE BufferInv'
  OBVIOUS
<1> DEFINE ic == i["consumer"]
<1>0. ic \in Item /\ ic \in Nat /\ i["producer"] \in Nat
  BY BufferAssumption DEF BufferInv, TypeOK, Looping, Threads, Get, Item
<1>1. TypeOK'
  BY <1>0, PlaceOf DEF BufferInv, TypeOK, Threads, Location, Get, Goto
<1>2. MutexHeld' /\ Looping' /\ Counted'
  BY DEF BufferInv, TypeOK, MutexHeld, Looping, Counted, Inside, Waited, Threads, Get, Goto
<1>3. consumed = ic /\ consumed' = ic + 1 /\ produced' = produced
  BY <1>0 DEF BufferInv, TypeOK, produced, consumed, Threads, Get, Goto
<1>4. ic < produced
  BY <1>0, BufferAssumption DEF BufferInv, TypeOK, Counted, Waited, Threads, Get, produced
<1>5. buf[ic % size] = ic
  BY <1>0, <1>3, <1>4 DEF BufferInv, Holds
<1>6. Holds'
  BY <1>0, <1>3, BufferAssumption DEF BufferInv, Holds, Get, Item
<1>7. InOrder'
  <2>1. reader_results' = [reader_results EXCEPT ![ic] = ic]
    BY <1>5 DEF Get
  <2>2. reader_results \in [Item -> Int]
    BY DEF BufferInv, TypeOK
  <2> SUFFICES ASSUME NEW k \in Item, k < ic + 1 PROVE reader_results'[k] = k
    BY <1>3 DEF InOrder
  <2>3. CASE k = ic
    BY <1>0, <2>1, <2>2, <2>3
  <2>4. CASE k # ic
    <3>1. k < ic
      BY <1>0, <2>4, BufferAssumption DEF Item
    <3>2. reader_results[k] = k
      BY <1>3, <3>1 DEF BufferInv, InOrder
    <3> QED
      BY <1>0, <2>1, <2>2, <2>4, <3>2
  <2> QED
    BY <2>3, <2>4
<1> QED
  BY <1>1, <1>2, <1>6, <1>7 DEF BufferInv

\* Every step of the two threads preserves the invariant.
LEMMA NextKeeps == BufferInv /\ [Next]_vars => BufferInv'
<1> SUFFICES ASSUME BufferInv, [Next]_vars PROVE BufferInv'
  OBVIOUS
<1>1. CASE Producer
  BY <1>1, WaitEmptyKeeps, LockProducerKeeps, PutKeeps, UnlockProducerKeeps, PostFullKeeps DEF Producer
<1>2. CASE Consumer
  BY <1>2, WaitFullKeeps, LockConsumerKeeps, GetKeeps, UnlockConsumerKeeps, PostEmptyKeeps DEF Consumer
<1>3. CASE UNCHANGED vars
  BY <1>3 DEF vars, BufferInv, TypeOK, MutexHeld, Looping, Counted, Holds, InOrder, Inside, Waited,
     produced, consumed
<1> QED
  BY <1>1, <1>2, <1>3 DEF Next, Joined

\* The invariant holds in every reachable state.
THEOREM BufferInvariant == Spec => []BufferInv
BY InitHolds, NextKeeps, PTL DEF Spec

\* The consumer reads the items in the order of production, each of them once,
\* for every size of the buffer and every number of items.
THEOREM ConsumedInOrder == Spec => []InOrder
<1>1. BufferInv => InOrder
  BY DEF BufferInv
<1> QED
  BY <1>1, BufferInvariant, PTL

\* The semaphores never exceed the size of the buffer nor fall below zero.
THEOREM BufferTypes == Spec => []TypeOK
<1>1. BufferInv => TypeOK
  BY DEF BufferInv
<1> QED
  BY <1>1, BufferInvariant, PTL

=============================================================================
