------------------------------ MODULE Spinlock ------------------------------
(***************************************************************************)
(* Spinlocks and interrupts: xv6/spinlock.c.  Each processor runs kernel   *)
(* code that takes locks in the order of their numbers, and is interrupted *)
(* by handlers that do the same (console and timer interrupts) whenever    *)
(* its interrupt flag is set.  The stores of acquire and release are       *)
(* separate steps, seen by the other processors one by one.                *)
(***************************************************************************)
EXTENDS Integers, Sequences, FiniteSets

CONSTANTS CPU, NoCpu, NLOCK

ASSUME SpinlockAssumption == NLOCK \in Nat /\ NoCpu \notin CPU

VARIABLES locked, cpu,        \* the two fields of each lock
          IF_, ncli, intena,  \* of each processor: its flag, and struct cpu
          held,               \* of each processor: the locks of the code it runs
          handler,            \* of each processor: is that code an interrupt handler
          below,              \* of each processor: the locks of the code its handler interrupts
          at,                 \* of each processor: which instruction, on which lock
          panicked

vars == <<locked, cpu, IF_, ncli, intena, held, handler, below, at, panicked>>

Lock == 1..NLOCK
Running == [pc |-> "run", lk |-> 0]

Init ==
  /\ locked = [l \in Lock |-> FALSE]
  /\ cpu = [l \in Lock |-> NoCpu]
  /\ IF_ = [c \in CPU |-> TRUE]
  /\ ncli = [c \in CPU |-> 0]
  /\ intena = [c \in CPU |-> FALSE]
  /\ held = [c \in CPU |-> {}]
  /\ handler = [c \in CPU |-> FALSE]
  /\ below = [c \in CPU |-> {}]
  /\ at = [c \in CPU |-> Running]
  /\ panicked = "no"

At(c, l) == panicked = "no" /\ at[c].pc = l
Go(c, pc, l) == at' = [at EXCEPT ![c] = [pc |-> pc, lk |-> l]]

\* cli, then the nesting count; the outermost call notes the flag.
pushcli(c) ==
  /\ IF_' = [IF_ EXCEPT ![c] = FALSE]
  /\ intena' = [intena EXCEPT ![c] = IF ncli[c] = 0 THEN IF_[c] ELSE @]
  /\ ncli' = [ncli EXCEPT ![c] = @ + 1]

\* Mutant: the count goes down twice.
popcliTwice(c) ==
  /\ ncli' = [ncli EXCEPT ![c] = @ - 2]
  /\ IF_' = [IF_ EXCEPT ![c] = ncli[c] = 1 /\ intena[c]]
  /\ panicked' = IF IF_[c] THEN "popcli - interruptible" ELSE IF ncli[c] < 1 THEN "popcli" ELSE "no"
  /\ UNCHANGED intena

popcli(c) ==
  /\ ncli' = [ncli EXCEPT ![c] = @ - 1]
  /\ IF_' = [IF_ EXCEPT ![c] = ncli[c] = 1 /\ intena[c]]
  /\ panicked' = IF IF_[c] THEN "popcli - interruptible" ELSE IF ncli[c] < 1 THEN "popcli" ELSE "no"
  /\ UNCHANGED intena

holding(c, l) == locked[l] /\ cpu[l] = c

\* acquire, up to the spinning.
Acquire(c, l) ==
  /\ At(c, "run") /\ \A k \in held[c] : k < l
  /\ pushcli(c)
  /\ panicked' = IF holding(c, l) THEN "acquire" ELSE "no"
  /\ Go(c, "xchg", l)
  /\ UNCHANGED <<locked, cpu, held, handler, below>>

\* The xchg that finds the lock free, and the store of lk->cpu.
Xchg(c) ==
  LET l == at[c].lk IN
  /\ At(c, "xchg") /\ ~locked[l]
  /\ locked' = [locked EXCEPT ![l] = TRUE]
  /\ held' = [held EXCEPT ![c] = @ \union {l}]
  /\ Go(c, "owner", l)
  /\ UNCHANGED <<cpu, IF_, ncli, intena, handler, below, panicked>>

SetOwner(c) ==
  /\ At(c, "owner")
  /\ cpu' = [cpu EXCEPT ![at[c].lk] = c]
  /\ Go(c, "run", 0)
  /\ UNCHANGED <<locked, IF_, ncli, intena, held, handler, below, panicked>>

\* release: the owner is cleared before the lock; the code need not release
\* in the order it acquired.
Release(c, l) ==
  /\ At(c, "run") /\ l \in held[c]
  /\ panicked' = IF ~holding(c, l) THEN "release" ELSE "no"
  /\ cpu' = [cpu EXCEPT ![l] = NoCpu]
  /\ Go(c, "unlock", l)
  /\ UNCHANGED <<locked, IF_, ncli, intena, held, handler, below>>

Unlock(c) ==
  LET l == at[c].lk IN
  /\ At(c, "unlock")
  /\ locked' = [locked EXCEPT ![l] = FALSE]
  /\ held' = [held EXCEPT ![c] = @ \ {l}]
  /\ Go(c, "popcli", 0)
  /\ UNCHANGED <<cpu, IF_, ncli, intena, handler, below, panicked>>

Popcli(c) ==
  /\ At(c, "popcli")
  /\ popcli(c)
  /\ Go(c, "run", 0)
  /\ UNCHANGED <<locked, cpu, held, handler, below>>

\* An interrupt clears the flag for its handler; iret sets it again.
Interrupt(c) ==
  /\ panicked = "no" /\ IF_[c] /\ ~handler[c]
  /\ IF_' = [IF_ EXCEPT ![c] = FALSE]
  /\ handler' = [handler EXCEPT ![c] = TRUE]
  /\ below' = [below EXCEPT ![c] = held[c]]
  /\ held' = [held EXCEPT ![c] = {}]
  /\ UNCHANGED <<locked, cpu, ncli, intena, at, panicked>>

Iret(c) ==
  /\ At(c, "run") /\ handler[c] /\ held[c] = {}
  /\ IF_' = [IF_ EXCEPT ![c] = TRUE]
  /\ handler' = [handler EXCEPT ![c] = FALSE]
  /\ held' = [held EXCEPT ![c] = below[c]]
  /\ below' = [below EXCEPT ![c] = {}]
  /\ UNCHANGED <<locked, cpu, ncli, intena, at, panicked>>

Next == \E c \in CPU :
  \/ \E l \in Lock : Acquire(c, l) \/ Release(c, l)
  \/ Xchg(c) \/ SetOwner(c) \/ Unlock(c) \/ Popcli(c)
  \/ Interrupt(c) \/ Iret(c)

Spec == Init /\ [][Next]_vars
-----------------------------------------------------------------------------
\* The fields of locks and processors have their types.
TypeOK ==
  /\ locked \in [Lock -> BOOLEAN]
  /\ cpu \in [Lock -> CPU \union {NoCpu}]
  /\ IF_ \in [CPU -> BOOLEAN]
  /\ ncli \in [CPU -> Nat]
  /\ intena \in [CPU -> BOOLEAN]
  /\ held \in [CPU -> SUBSET Lock]
  /\ handler \in [CPU -> BOOLEAN]
  /\ below \in [CPU -> SUBSET Lock]
  /\ at \in [CPU -> [pc : {"run", "xchg", "owner", "unlock", "popcli"}, lk : 0..NLOCK]]
  /\ panicked \in {"no", "acquire", "release", "popcli", "popcli - interruptible"}

\* acquire never finds its own processor in the lock and release never
\* another one, though both are read and written while the other processors
\* acquire and release; popcli is always matched.
NeverPanics == panicked = "no"

\* A lock is held once: by one processor, and there by the code it runs or
\* by the code that interrupts, which would spin for ever on the other's.
HeldOnce ==
  /\ \A c, d \in CPU : c # d => (held[c] \union below[c]) \intersect (held[d] \union below[d]) = {}
  /\ \A c \in CPU : held[c] \intersect below[c] = {}
  /\ \A c \in CPU : IF_[c] => held[c] \union below[c] = {}

\* Without locks the flag is what it was before the first: set in a process,
\* clear in a handler.
FlagRestored == \A c \in CPU : at[c].pc = "run" /\ held[c] = {} => IF_[c] = ~handler[c]

(***************************************************************************)
(* The inductive invariant behind the three.                               *)
(***************************************************************************)
\* The depth of pushcli: one for each lock, and one on the way in or out.
Extra(c) == IF at[c].pc \in {"xchg", "popcli"} THEN 1 ELSE 0
Counts == \A c \in CPU : ncli[c] = Cardinality(held[c]) + Extra(c)

Flags == \A c \in CPU :
  /\ IF_[c] <=> ncli[c] = 0 /\ ~handler[c]
  /\ ncli[c] # 0 => (intena[c] <=> ~handler[c])
  /\ below[c] = {}

Places == \A c \in CPU :
  /\ at[c].pc \in {"owner", "unlock"} => at[c].lk \in held[c]
  /\ at[c].pc = "xchg" => at[c].lk \in Lock \ held[c]

\* lk->cpu names the holder, but for a moment after the xchg and before the
\* lock is cleared.
Between(c, l) == at[c].lk = l /\ at[c].pc \in {"owner", "unlock"}
Owned == \A c \in CPU : \A l \in Lock :
  /\ l \in held[c] => locked[l] /\ \A d \in CPU : l \in held[d] => d = c
  /\ cpu[l] = c <=> l \in held[c] /\ ~Between(c, l)

\* ncli, the flag, locked and lk->cpu always agree with the locks each
\* processor holds, between any two instructions of acquire and release.
LockInv == TypeOK /\ NeverPanics /\ Counts /\ Flags /\ Places /\ Owned
=============================================================================
