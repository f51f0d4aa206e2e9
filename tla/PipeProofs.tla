----------------------------- MODULE PipeProofs -----------------------------
(***************************************************************************)
(* For any processes, buffer size and counter width: the page of a pipe is *)
(* freed when nobody can use it any more, and no sleeper misses what it    *)
(* waits for.  Neither is inductive.  PipeInv says who holds p->lock, that *)
(* an open flag is cleared by the one process that dropped the last        *)
(* reference, and what a process asleep, or about to be, has tested.       *)
(***************************************************************************)
EXTENDS Pipe, TLAPS

Reading == {"racquire", "rtest", "rtosleep", "rsleep"}
Writing == {"wacquire", "wtest", "wtosleep", "wsleep"}
ClosingR == {"cracquire", "cr"}
ClosingW == {"cwacquire", "cw"}
Locked == {"rtest", "wtest", "rtosleep", "wtosleep", "cr", "cw"}
Places == Reading \union Writing \union ClosingR \union ClosingW \union {"user"}

Types ==
  /\ lock \in Proc \union {"none"}
  /\ readopen \in BOOLEAN /\ writeopen \in BOOLEAN
  /\ freed \in BOOLEAN /\ skipped \in BOOLEAN
  /\ ref \in [{"r", "w"} -> SUBSET Proc]
  /\ pc \in [Proc -> Places]

\* p->lock is held exactly by the process in its critical section.
LockHeld == \A p \in Proc : pc[p] \in Locked <=> lock = p

\* A process in a call has a descriptor of the end it uses.
Users ==
  \A p \in Proc :
    /\ pc[p] \in Reading => p \in ref["r"]
    /\ pc[p] \in Writing => p \in ref["w"]

\* One process closes an end, after the last descriptor is gone and before
\* the flag is cleared.
Closers ==
  \A p \in Proc :
    /\ pc[p] \in ClosingR =>
         ref["r"] = {} /\ readopen /\ \A q \in Proc : pc[q] \in ClosingR => q = p
    /\ pc[p] \in ClosingW =>
         ref["w"] = {} /\ writeopen /\ \A q \in Proc : pc[q] \in ClosingW => q = p

\* The flags say which ends are in use, and the page goes with the second.
Open ==
  /\ ref["r"] # {} => readopen
  /\ ref["w"] # {} => writeopen
  /\ readopen => ref["r"] # {} \/ \E p \in Proc : pc[p] \in ClosingR
  /\ writeopen => ref["w"] # {} \/ \E p \in Proc : pc[p] \in ClosingW
  /\ freed <=> ~readopen /\ ~writeopen

\* What writers and readers wait for.  A writer in its loop may have added
\* bytes for readers it has not woken yet.
Waits ==
  \A p \in Proc :
    /\ pc[p] \in {"wtosleep", "wsleep"} => Full /\ readopen
    /\ pc[p] = "rtosleep" => Empty /\ writeopen
    /\ pc[p] = "rsleep" => \/ skipped \/ (Empty /\ writeopen)
                           \/ \E w \in Proc : pc[w] = "wtest"

\* What piperead, pipewrite, pipeclose and fileclose keep true between them: the
\* inductive invariant.
PipeInv == Types /\ LockHeld /\ Users /\ Closers /\ Open /\ Waits

-----------------------------------------------------------------------------
\* A step of a process keeps PipeInv: one case per function of pipe.c, file.c and
\* proc.c, and under it one step per conjunct.
LEMMA PipeStep == PipeInv /\ [Next]_vars => PipeInv'
<1> SUFFICES ASSUME PipeInv, [Next]_vars PROVE PipeInv'
  OBVIOUS
<1> USE PipeAssumption
<1> USE DEF PipeInv, Places, Reading, Writing, ClosingR, ClosingW, Locked
<1>1. ASSUME NEW p \in Proc, Call(p) PROVE PipeInv'
  <2>1. Types'
    BY <1>1 DEF Types, Call, Goto, ends, counters, aux
  <2>2. LockHeld'
    BY <1>1 DEF Types, LockHeld, Call, Goto, ends, counters, aux
  <2>3. Users'
    BY <1>1 DEF Types, LockHeld, Users, Closers, Call, Goto, ends, counters, aux
  <2>4. Closers'
    BY <1>1 DEF Types, LockHeld, Users, Closers, Open, Call, Goto, ends, counters, aux
  <2>5. Open'
    BY <1>1 DEF Types, LockHeld, Users, Closers, Open, Call, Goto, ends, counters, aux
  <2>6. Waits'
    BY <1>1 DEF Types, LockHeld, Users, Waits, Full, Empty, Call, Goto, ends,
           counters, aux
  <2> QED  BY <2>1, <2>2, <2>3, <2>4, <2>5, <2>6
<1>2. ASSUME NEW p \in Proc, Acquire(p) PROVE PipeInv'
  <2>1. Types'
    BY <1>2 DEF Types, Acquire, Goto, ends, counters, aux
  <2>2. LockHeld'
    BY <1>2 DEF Types, LockHeld, Acquire, Goto, ends, counters, aux
  <2>3. Users'
    BY <1>2 DEF Types, LockHeld, Users, Closers, Acquire, Goto, ends, counters, aux
  <2>4. Closers'
    BY <1>2 DEF Types, LockHeld, Users, Closers, Open, Acquire, Goto, ends,
           counters, aux
  <2>5. Open'
    BY <1>2 DEF Types, LockHeld, Users, Closers, Open, Acquire, Goto, ends,
           counters, aux
  <2>6. Waits'
    BY <1>2 DEF Types, LockHeld, Users, Waits, Full, Empty, Acquire, Goto, ends,
           counters, aux
  <2> QED  BY <2>1, <2>2, <2>3, <2>4, <2>5, <2>6
<1>3. ASSUME NEW p \in Proc, WriteByte(p) PROVE PipeInv'
  <2>1. Types'
    BY <1>3 DEF Types, WriteByte, ends, aux
  <2>2. LockHeld'
    BY <1>3 DEF Types, LockHeld, WriteByte, ends, aux
  <2>3. Users'
    BY <1>3 DEF Types, LockHeld, Users, Closers, WriteByte, ends, aux
  <2>4. Closers'
    BY <1>3 DEF Types, LockHeld, Users, Closers, Open, WriteByte, ends, aux
  <2>5. Open'
    BY <1>3 DEF Types, LockHeld, Users, Closers, Open, WriteByte, ends, aux
  <2>6. Waits'
    BY <1>3 DEF Types, LockHeld, Users, Waits, Full, Empty, WriteByte, ends, aux
  <2> QED  BY <2>1, <2>2, <2>3, <2>4, <2>5, <2>6
<1>4. ASSUME NEW p \in Proc, WriteEnd(p) PROVE PipeInv'
  <2>1. Types'
    BY <1>4 DEF Types, WriteEnd, Return, Woken, ends, counters
  <2>2. LockHeld'
    BY <1>4 DEF Types, LockHeld, WriteEnd, Return, Woken, ends, counters
  <2>3. Users'
    BY <1>4 DEF Types, LockHeld, Users, Closers, WriteEnd, Return, Woken, ends, counters
  <2>4. Closers'
    BY <1>4 DEF Types, LockHeld, Users, Closers, Open, WriteEnd, Return, Woken,
           ends, counters
  <2>5. Open'
    BY <1>4 DEF Types, LockHeld, Users, Closers, Open, WriteEnd, Return, Woken,
           ends, counters
  <2>6. Waits'
    BY <1>4 DEF Types, LockHeld, Users, Waits, Full, Empty, WriteEnd, Return,
           Woken, ends, counters
  <2> QED  BY <2>1, <2>2, <2>3, <2>4, <2>5, <2>6
<1>5. ASSUME NEW p \in Proc, WriteFull(p) PROVE PipeInv'
  <2>0. /\ pc'[p] \in {"user", "wtosleep"}
        /\ \A q \in Proc \ {p} : \/ pc'[q] = pc[q]
                                 \/ pc[q] = "rsleep" /\ pc'[q] = "racquire"
    <3>1. CASE ~readopen \/ p \in killed
      <4>1. pc' = [pc EXCEPT ![p] = "user"]
        BY <1>5, <3>1 DEF WriteFull, Return
      <4> QED  BY <4>1 DEF Types
    <3>2. CASE readopen /\ p \notin killed
      <4>1. pc' = [Woken("rsleep") EXCEPT ![p] = "wtosleep"]
        BY <1>5, <3>2 DEF WriteFull
      <4> QED  BY <4>1 DEF Types, Woken
    <3> QED  BY <3>1, <3>2 DEF Types
  <2>1. Types'
    BY <1>5 DEF Types, WriteFull, Return, Woken, ends, counters
  <2>2. LockHeld'
    BY <1>5 DEF Types, LockHeld, WriteFull, Return, Woken, ends, counters
  <2>3. Users'
    BY <1>5, <2>0 DEF Types, LockHeld, Users, Closers, WriteFull, ends
  <2>4. Closers'
    BY <1>5, <2>0 DEF Types, LockHeld, Users, Closers, Open, WriteFull, ends
  <2>5. Open'
    BY <1>5, <2>0 DEF Types, LockHeld, Users, Closers, Open, WriteFull, ends
  <2>6. Waits'
    <3>1. CASE ~readopen \/ p \in killed
      <4>1. pc' = [pc EXCEPT ![p] = "user"] /\ UNCHANGED <<counters, ends>>
        BY <1>5, <3>1 DEF WriteFull, Return
      <4>2. \A q \in Proc : pc[q] = "rsleep" => skipped'
        BY <1>5, <3>1 DEF WriteFull, Return
      <4> QED
        BY <1>5, <4>1, <4>2 DEF Types, Waits, Full, Empty, WriteFull, ends, counters
    <3>2. CASE readopen /\ p \notin killed
      <4>1. /\ pc' = [Woken("rsleep") EXCEPT ![p] = "wtosleep"]
            /\ UNCHANGED <<counters, ends>>
        BY <1>5, <3>2 DEF WriteFull
      <4>2. \A q \in Proc \ {p} : pc'[q] # "rsleep"
        BY <4>1 DEF Types, Woken
      <4>3. \A q \in Proc \ {p} : pc'[q] = pc[q] \/ pc'[q] = "racquire"
        BY <4>1 DEF Types, Woken
      <4> QED
        BY <1>5, <3>2, <4>1, <4>2, <4>3 DEF Types, Waits, Full, Empty,
               WriteFull, ends, counters, Woken
    <3> QED  BY <3>1, <3>2 DEF Types
  <2> QED  BY <2>1, <2>2, <2>3, <2>4, <2>5, <2>6
<1>6. ASSUME NEW p \in Proc, ReadTest(p) PROVE PipeInv'
  <2>1. Types'
    BY <1>6 DEF Types, ReadTest, Return, Goto, ends, counters, aux
  <2>2. LockHeld'
    BY <1>6 DEF Types, LockHeld, ReadTest, Return, Goto, ends, counters, aux
  <2>3. Users'
    BY <1>6 DEF Types, LockHeld, Users, Closers, ReadTest, Return, Goto, ends,
           counters, aux
  <2>4. Closers'
    BY <1>6 DEF Types, LockHeld, Users, Closers, Open, ReadTest, Return, Goto,
           ends, counters, aux
  <2>5. Open'
    BY <1>6 DEF Types, LockHeld, Users, Closers, Open, ReadTest, Return, Goto,
           ends, counters, aux
  <2>6. Waits'
    BY <1>6 DEF Types, LockHeld, Users, Waits, Full, Empty, ReadTest, Return,
           Goto, ends, counters, aux
  <2> QED  BY <2>1, <2>2, <2>3, <2>4, <2>5, <2>6
<1>7. ASSUME NEW p \in Proc, ReadCopy(p) PROVE PipeInv'
  <2>1. Types'
    BY <1>7 DEF Types, ReadCopy, Return, Woken, ends
  <2>2. LockHeld'
    BY <1>7 DEF Types, LockHeld, ReadCopy, Return, Woken, ends
  <2>3. Users'
    BY <1>7 DEF Types, LockHeld, Users, Closers, ReadCopy, Return, Woken, ends
  <2>4. Closers'
    BY <1>7 DEF Types, LockHeld, Users, Closers, Open, ReadCopy, Return, Woken, ends
  <2>5. Open'
    BY <1>7 DEF Types, LockHeld, Users, Closers, Open, ReadCopy, Return, Woken, ends
  <2>6. Waits'
    BY <1>7 DEF Types, LockHeld, Users, Waits, Full, Empty, ReadCopy, Return,
           Woken, ends
  <2> QED  BY <2>1, <2>2, <2>3, <2>4, <2>5, <2>6
<1>8. ASSUME NEW p \in Proc, Sleep(p) PROVE PipeInv'
  <2>1. Types'
    BY <1>8 DEF Types, Sleep, Goto, ends, counters, aux
  <2>2. LockHeld'
    BY <1>8 DEF Types, LockHeld, Sleep, Goto, ends, counters, aux
  <2>3. Users'
    BY <1>8 DEF Types, LockHeld, Users, Closers, Sleep, Goto, ends, counters, aux
  <2>4. Closers'
    BY <1>8 DEF Types, LockHeld, Users, Closers, Open, Sleep, Goto, ends, counters, aux
  <2>5. Open'
    BY <1>8 DEF Types, LockHeld, Users, Closers, Open, Sleep, Goto, ends, counters, aux
  <2>6. Waits'
    BY <1>8 DEF Types, LockHeld, Users, Waits, Full, Empty, Sleep, Goto, ends,
           counters, aux
  <2> QED  BY <2>1, <2>2, <2>3, <2>4, <2>5, <2>6
<1>9. ASSUME NEW p \in Proc, pipeclose(p) PROVE PipeInv'
  <2>1. Types'
    BY <1>9 DEF Types, pipeclose, Return, Woken, counters
  <2>2. LockHeld'
    BY <1>9 DEF Types, LockHeld, pipeclose, Return, Woken, counters
  <2>3. Users'
    BY <1>9 DEF Types, LockHeld, Users, Closers, pipeclose, Return, Woken, counters
  <2>4. Closers'
    BY <1>9 DEF Types, LockHeld, Users, Closers, Open, pipeclose, Return, Woken,
           counters
  <2>5. Open'
    BY <1>9 DEF Types, LockHeld, Users, Closers, Open, pipeclose, Return, Woken,
           counters
  <2>6. Waits'
    BY <1>9 DEF Types, LockHeld, Users, Waits, Full, Empty, pipeclose, Return,
           Woken, counters
  <2> QED  BY <2>1, <2>2, <2>3, <2>4, <2>5, <2>6
<1>10. ASSUME NEW p \in Proc, kill(p) PROVE PipeInv'
  <2>1. Types'
    BY <1>10 DEF Types, kill, ends, counters, aux
  <2>2. LockHeld'
    BY <1>10 DEF Types, LockHeld, kill, ends, counters, aux
  <2>3. Users'
    BY <1>10 DEF Types, LockHeld, Users, Closers, kill, ends, counters, aux
  <2>4. Closers'
    BY <1>10 DEF Types, LockHeld, Users, Closers, Open, kill, ends, counters, aux
  <2>5. Open'
    BY <1>10 DEF Types, LockHeld, Users, Closers, Open, kill, ends, counters, aux
  <2>6. Waits'
    BY <1>10 DEF Types, LockHeld, Users, Waits, Full, Empty, kill, ends, counters, aux
  <2> QED  BY <2>1, <2>2, <2>3, <2>4, <2>5, <2>6
<1>11. ASSUME NEW p \in Proc, NEW c \in Proc, Dup(p, c) PROVE PipeInv'
  <2>1. Types'
    BY <1>11 DEF Types, Dup, counters, aux
  <2>2. LockHeld'
    BY <1>11 DEF Types, LockHeld, Dup, counters, aux
  <2>3. Users'
    BY <1>11 DEF Types, LockHeld, Users, Closers, Dup, counters, aux
  <2>4. Closers'
    BY <1>11 DEF Types, LockHeld, Users, Closers, Open, Dup, counters, aux
  <2>5. Open'
    BY <1>11 DEF Types, LockHeld, Users, Closers, Open, Dup, counters, aux
  <2>6. Waits'
    BY <1>11 DEF Types, LockHeld, Users, Waits, Full, Empty, Dup, counters, aux
  <2> QED  BY <2>1, <2>2, <2>3, <2>4, <2>5, <2>6
<1>12. ASSUME NEW p \in Proc, NEW e \in {"r", "w"}, fileclose(p, e) PROVE PipeInv'
  <2>1. Types'
    BY <1>12 DEF Types, fileclose, Goto, counters, aux
  <2>2. LockHeld'
    BY <1>12 DEF Types, LockHeld, fileclose, Goto, counters, aux
  <2>3. Users'
    BY <1>12 DEF Types, LockHeld, Users, Closers, fileclose, Goto, counters, aux
  <2>4. Closers'
    BY <1>12 DEF Types, LockHeld, Users, Closers, Open, fileclose, Goto, counters, aux
  <2>5. Open'
    BY <1>12 DEF Types, LockHeld, Users, Closers, Open, fileclose, Goto, counters, aux
  <2>6. Waits'
    BY <1>12 DEF Types, LockHeld, Users, Waits, Full, Empty, fileclose, Goto,
           counters, aux
  <2> QED  BY <2>1, <2>2, <2>3, <2>4, <2>5, <2>6
<1>13. CASE UNCHANGED vars
  BY <1>13 DEF vars, counters, ends, aux, Types, LockHeld, Users, Closers, Open,
         Waits, Full, Empty
<1> QED  BY <1>1, <1>2, <1>3, <1>4, <1>5, <1>6, <1>7, <1>8, <1>9, <1>10, <1>11,
       <1>12, <1>13 DEF Next, InCall

\* pipealloc establishes PipeInv, and every step keeps it.
THEOREM PipeInvariant == Spec => []PipeInv
<1>1. Init => PipeInv
  BY PipeAssumption DEF Init, PipeInv, Types, LockHeld, Users, Closers, Open,
         Waits, Places, Reading, Writing, ClosingR, ClosingW, Locked
<1> QED  BY <1>1, PipeStep, PTL DEF Spec

\* pipeclose frees the page only when no descriptor of either end is left and no
\* process is inside piperead, pipewrite or pipeclose.
THEOREM FreedUnusedHolds == Spec => []FreedUnused
<1>1. PipeInv => FreedUnused
  BY DEF PipeInv, Types, Users, Closers, Open, FreedUnused, Places, Reading,
         Writing, ClosingR, ClosingW, Locked
<1> QED  BY <1>1, PipeInvariant, PTL

\* With p->lock free, a process sleeps in piperead or pipewrite only while what it
\* waits for has not happened, but for the wakeup a killed writer skips.
THEOREM NoLostWakeupHolds == Spec => []NoLostWakeup
<1>1. PipeInv => NoLostWakeup
  BY PipeAssumption DEF PipeInv, Types, LockHeld, Waits, NoLostWakeup, Locked
<1> QED  BY <1>1, PipeInvariant, PTL

=============================================================================
