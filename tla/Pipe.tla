-------------------------------- MODULE Pipe --------------------------------
(***************************************************************************)
(* A pipe of xv6 (pipe.c) between processes that hold its ends, with the   *)
(* part of fileclose (file.c) that drops the last reference.  p->lock is   *)
(* modelled: what is done under it is split where the code writes a byte,  *)
(* and between the test of killed and the sleep, since kill (proc.c) takes *)
(* another lock.  The counters are unsigned and wrap at M.                 *)
(***************************************************************************)
EXTENDS Integers, Sequences

CONSTANTS Proc, Byte, PIPESIZE,
          M,          \* values of a counter: 2^32 in the code
          MaxN,       \* bound on the n of a read or write
          MaxForks,   \* bound on the forks that pass the ends on
          Starts      \* who holds an end at first: [r |-> ..., w |-> ...]

ASSUME PipeAssumption ==
  /\ PIPESIZE \in Nat \ {0} /\ M \in Nat /\ M > PIPESIZE /\ M % PIPESIZE = 0
  /\ MaxN \in Nat \ {0} /\ MaxForks \in Nat /\ "none" \notin Proc
  /\ Starts \in [{"r", "w"} -> (SUBSET Proc) \ {{}}]

VARIABLES
  lock,                            \* holder of p->lock, or "none"
  data, nread, nwrite,
  readopen, writeopen,
  freed,                           \* kfree was called
  ref,                             \* per end: the processes with a descriptor
  pc, n,                           \* per process: where, the bytes left of the argument n
  killed, forks,
  out,                             \* auxiliary: what the last piperead copied
  skipped                          \* auxiliary: a killed writer returned from the full
                                   \* pipe past sleeping readers, not woken since

counters == <<data, nread, nwrite>>
ends == <<readopen, writeopen, freed, ref>>
aux == <<out, skipped>>
vars == <<lock, counters, ends, pc, n, killed, forks, aux>>

\* pipealloc
Init ==
  /\ lock = "none"
  /\ data = [k \in 0..(PIPESIZE - 1) |-> CHOOSE x \in Byte : TRUE]    \* junk
  /\ nread = 0 /\ nwrite = 0
  /\ readopen = TRUE /\ writeopen = TRUE /\ freed = FALSE
  /\ ref = Starts
  /\ pc = [p \in Proc |-> "user"]
  /\ n = [p \in Proc |-> 0]
  /\ killed = {} /\ forks = 0
  /\ out = <<>> /\ skipped = FALSE

-----------------------------------------------------------------------------

Full == nwrite = (nread + PIPESIZE) % M

Empty == nread = nwrite

\* wakeup: every process asleep on the channel has to take the lock again.
Woken(c) == [p \in Proc |-> IF pc[p] = c THEN IF c = "rsleep" THEN "racquire" ELSE "wacquire"
                            ELSE pc[p]]
Goto(p, l) == pc' = [pc EXCEPT ![p] = l]

\* read and write, through a descriptor of the end.
Call(p) ==
  /\ pc[p] = "user" /\ p \notin killed
  /\ \/ p \in ref["r"] /\ Goto(p, "racquire")
     \/ p \in ref["w"] /\ Goto(p, "wacquire")
  /\ \E k \in 1..MaxN : n' = [n EXCEPT ![p] = k]
  /\ UNCHANGED <<lock, counters, ends, killed, forks, aux>>

\* acquire, first or at the end of sleep.
Acquire(p) ==
  /\ pc[p] \in {"racquire", "wacquire", "cracquire", "cwacquire"} /\ lock = "none"
  /\ lock' = p
  /\ Goto(p, CASE pc[p] = "racquire" -> "rtest" [] pc[p] = "wacquire" -> "wtest"
               [] pc[p] = "cracquire" -> "cr" [] pc[p] = "cwacquire" -> "cw")
  /\ UNCHANGED <<counters, ends, n, killed, forks, aux>>

Return(p, wake) ==
  /\ lock' = "none"
  /\ pc' = [wake EXCEPT ![p] = "user"]
  /\ n' = [n EXCEPT ![p] = 0]

\* Mutant: the counter is advanced before the byte is stored.
WriteByteLate(p) ==
  /\ pc[p] = "wtest" /\ n[p] > 0 /\ ~Full
  /\ \E b \in Byte : data' = [data EXCEPT ![(nwrite + 1) % PIPESIZE] = b]
  /\ nwrite' = (nwrite + 1) % M
  /\ n' = [n EXCEPT ![p] = @ - 1]
  /\ UNCHANGED <<lock, nread, ends, pc, killed, forks, aux>>

\* One turn of the loop of pipewrite: a byte, or the end, or a full pipe.
WriteByte(p) ==
  /\ pc[p] = "wtest" /\ n[p] > 0 /\ ~Full
  /\ \E b \in Byte : data' = [data EXCEPT ![nwrite % PIPESIZE] = b]
  /\ nwrite' = (nwrite + 1) % M
  /\ n' = [n EXCEPT ![p] = @ - 1]
  /\ UNCHANGED <<lock, nread, ends, pc, killed, forks, aux>>

\* Mutant: the write returns without waking the readers.
WriteEndSilent(p) ==
  /\ pc[p] = "wtest" /\ n[p] = 0
  /\ Return(p, pc)
  /\ UNCHANGED <<counters, ends, killed, forks, aux>>

WriteEnd(p) ==
  /\ pc[p] = "wtest" /\ n[p] = 0
  /\ Return(p, Woken("rsleep"))
  /\ skipped' = FALSE
  /\ UNCHANGED <<counters, ends, killed, forks, out>>

WriteFull(p) ==
  /\ pc[p] = "wtest" /\ n[p] > 0 /\ Full
  /\ IF ~readopen \/ p \in killed
     THEN Return(p, pc) /\ skipped' = (skipped \/ \E q \in Proc : pc[q] = "rsleep")
     ELSE /\ pc' = [Woken("rsleep") EXCEPT ![p] = "wtosleep"]
          /\ skipped' = FALSE
          /\ UNCHANGED <<lock, n>>
  /\ UNCHANGED <<counters, ends, killed, forks, out>>

ReadTest(p) ==
  /\ pc[p] = "rtest" /\ Empty /\ writeopen
  /\ IF p \in killed
     THEN Return(p, pc)
     ELSE Goto(p, "rtosleep") /\ UNCHANGED <<lock, n>>
  /\ UNCHANGED <<counters, ends, killed, forks, aux>>

\* The copy of piperead, of what there is up to n, and the wakeup.
Used == (nwrite + M - nread) % M
Bytes(k) == [j \in 1..k |-> data[(nread + j - 1) % PIPESIZE]]

ReadCopy(p) ==
  /\ pc[p] = "rtest" /\ (~Empty \/ ~writeopen)
  /\ LET k == IF n[p] < Used THEN n[p] ELSE Used IN
       /\ out' = Bytes(k)
       /\ nread' = (nread + k) % M
  /\ Return(p, Woken("wsleep"))
  /\ UNCHANGED <<data, nwrite, ends, killed, forks, skipped>>

\* sleep (proc.c) releases p->lock only once asleep for wakeup.
Sleep(p) ==
  /\ pc[p] \in {"rtosleep", "wtosleep"}
  /\ Goto(p, IF pc[p] = "rtosleep" THEN "rsleep" ELSE "wsleep")
  /\ lock' = "none"
  /\ UNCHANGED <<counters, ends, n, killed, forks, aux>>

-----------------------------------------------------------------------------
\* filedup in fork: the child has the descriptors of the parent.
Dup(p, c) ==
  /\ pc[p] = "user" /\ p \notin killed
  /\ pc[c] = "user" /\ \A e \in {"r", "w"} : c \notin ref[e]
  /\ ref' = [e \in {"r", "w"} |-> IF p \in ref[e] THEN ref[e] \union {c} ELSE ref[e]]
  /\ killed' = killed \ {c}
  /\ forks < MaxForks /\ forks' = forks + 1
  /\ UNCHANGED <<lock, counters, readopen, writeopen, freed, pc, n, aux>>

\* fileclose: the last reference calls pipeclose, after ftable.lock is released.
fileclose(p, e) ==
  /\ pc[p] = "user" /\ p \in ref[e]
  /\ ref' = [ref EXCEPT ![e] = @ \ {p}]
  /\ Goto(p, IF ref[e] # {p} THEN "user" ELSE IF e = "r" THEN "cracquire" ELSE "cwacquire")
  /\ UNCHANGED <<lock, counters, readopen, writeopen, freed, n, killed, forks, aux>>

\* Mutant: the page is freed with the first end.
CloseEither(p) ==
  /\ pc[p] \in {"cr", "cw"}
  /\ readopen' = (readopen /\ pc[p] # "cr")
  /\ writeopen' = (writeopen /\ pc[p] # "cw")
  /\ freed' = (freed \/ ~(readopen' /\ writeopen'))
  /\ Return(p, Woken(IF pc[p] = "cw" THEN "rsleep" ELSE "wsleep"))
  /\ skipped' = (skipped /\ pc[p] # "cw")
  /\ UNCHANGED <<counters, ref, killed, forks, out>>

pipeclose(p) ==
  /\ pc[p] \in {"cr", "cw"}
  /\ readopen' = (readopen /\ pc[p] # "cr")
  /\ writeopen' = (writeopen /\ pc[p] # "cw")
  /\ freed' = (~readopen' /\ ~writeopen')
  /\ Return(p, Woken(IF pc[p] = "cw" THEN "rsleep" ELSE "wsleep"))
  /\ skipped' = (skipped /\ pc[p] # "cw")
  /\ UNCHANGED <<counters, ref, killed, forks, out>>

\* kill (proc.c): the flag, and out of sleep.
kill(p) ==
  /\ p \notin killed
  /\ killed' = killed \union {p}
  /\ pc' = [pc EXCEPT ![p] = IF @ = "rsleep" THEN "racquire" ELSE IF @ = "wsleep" THEN "wacquire" ELSE @]
  /\ UNCHANGED <<lock, counters, ends, n, forks, aux>>

InCall(p) ==
  \/ Acquire(p) \/ WriteByte(p) \/ WriteEnd(p) \/ WriteFull(p)
  \/ ReadTest(p) \/ ReadCopy(p) \/ Sleep(p) \/ pipeclose(p)

Next ==
  \E p \in Proc :
    \/ Call(p) \/ InCall(p) \/ kill(p)
    \/ \E c \in Proc : Dup(p, c)
    \/ \E e \in {"r", "w"} : fileclose(p, e)

Spec == Init /\ [][Next]_vars

-----------------------------------------------------------------------------
\* While nobody holds p->lock, a process sleeps in piperead only with nothing to
\* read and the write end open, and in pipewrite only with no room and the read
\* end open.  The exception is what pipewrite leaves when it is killed after
\* some bytes: it returns from the full pipe without the wakeup.
NoLostWakeup ==
  \A p \in Proc :
    /\ pc[p] = "rsleep" => lock # "none" \/ skipped \/ (Empty /\ writeopen)
    /\ pc[p] = "wsleep" => lock # "none" \/ (Full /\ readopen)

\* The page of a pipe is freed only after every descriptor of both ends is gone,
\* and no process is inside a call on it or about to make one.
FreedUnused ==
  freed => /\ \A e \in {"r", "w"} : ref[e] = {}
           /\ \A p \in Proc : pc[p] = "user"

\* A pipe is a queue of at most PIPESIZE bytes, across the wrap of the counters
\* and with any number of readers and writers.
Stream == INSTANCE ByteStream WITH q <- Bytes(Used)
InOrder == Stream!Spec

=============================================================================
