------------------------------ MODULE UThread ------------------------------
(***************************************************************************)
(* The user-level threads of xv6/uthreadlib.c, driven by the program       *)
(* xv6/uthread.c: main creates numthreads threads, each of which yields    *)
(* numexecs times and exits.  Threads are cooperative, so one step runs    *)
(* from one switch to the next.                                            *)
(***************************************************************************)
EXTENDS Integers, FiniteSets

CONSTANTS MAX_THREAD,            \* size of all_thread
          NumThreads, NumExecs   \* the arguments uthread may be given

Thread == 0..(MAX_THREAD - 1)
main == 0                        \* thread_init makes main thread 0

VARIABLES
  state,                 \* all_thread[t].state
  current_thread, ultimo_indice,
  numthreads, numexecs,  \* argv
  i,                     \* the loop counter of each mythread
  created,               \* the loop counter of main
  at                     \* where main is

vars == <<state, current_thread, ultimo_indice, numthreads, numexecs, i, created, at>>

Init ==
  /\ state = [t \in Thread |-> IF t = main THEN "RUNNING" ELSE "FREE"]   \* thread_init
  /\ current_thread = main
  /\ ultimo_indice = 0
  /\ numthreads \in NumThreads /\ numexecs \in NumExecs
  /\ i = [t \in Thread |-> 0]
  /\ created = 0
  /\ at = "create"

-----------------------------------------------------------------------------
\* Mutant: the search always starts at the first slot.
FromTheFirst(k) == k % MAX_THREAD

\* The k-th slot the search of thread_schedule looks at.
Candidate(k) == (ultimo_indice + k) % MAX_THREAD

\* The positions of the search at which there is a thread to run.
Eligible(st) ==
  {k \in 1..(MAX_THREAD - 1) : st[Candidate(k)] = "RUNNABLE" /\ Candidate(k) # current_thread}

\* thread_schedule, called with the thread states st: the next RUNNABLE thread
\* after the last one chosen, or main when there is none; then thread_switch.
thread_schedule(st) ==
  IF Eligible(st) # {}
  THEN LET k == CHOOSE k \in Eligible(st) : \A j \in Eligible(st) : k <= j
           next == Candidate(k)
       IN  /\ ultimo_indice' = next
           /\ current_thread' = next
           /\ state' = [st EXCEPT ![next] = "RUNNING"]
  ELSE /\ UNCHANGED ultimo_indice
       /\ current_thread' = main
       /\ state' = [st EXCEPT ![main] = "RUNNING"]

\* thread_create: the first FREE slot.
thread_create ==
  /\ at = "create" /\ created < numthreads
  /\ LET free == {t \in Thread : state[t] = "FREE"}
         t == CHOOSE t \in free : \A u \in free : t <= u
     IN  state' = [state EXCEPT ![t] = "RUNNABLE"]
  /\ created' = created + 1
  /\ UNCHANGED <<current_thread, ultimo_indice, numthreads, numexecs, i, at>>

\* main's call of thread_schedule; it returns when main is resumed.
MainSchedules ==
  /\ at = "create" /\ created = numthreads
  /\ at' = "schedule"
  /\ thread_schedule(state)
  /\ UNCHANGED <<numthreads, numexecs, i, created>>

\* "all threads ended.", and the process exits.
MainEnds ==
  /\ at = "schedule" /\ current_thread = main
  /\ at' = "ended"
  /\ UNCHANGED <<state, current_thread, ultimo_indice, numthreads, numexecs, i, created>>

\* The thread that runs, unless the process has exited.
Runs(t) == at = "schedule" /\ current_thread = t /\ t # main

\* A round of mythread's loop, up to thread_yield.
thread_yield(t) ==
  /\ Runs(t) /\ i[t] < numexecs
  /\ i' = [i EXCEPT ![t] = @ + 1]
  /\ thread_schedule([state EXCEPT ![t] = "RUNNABLE"])
  /\ UNCHANGED <<numthreads, numexecs, created, at>>

\* Mutant: an exiting thread stays RUNNABLE.
ExitRunnable(t) ==
  /\ Runs(t) /\ i[t] = numexecs
  /\ thread_schedule([state EXCEPT ![t] = "RUNNABLE"])
  /\ UNCHANGED <<numthreads, numexecs, i, created, at>>

thread_exit(t) ==
  /\ Runs(t) /\ i[t] = numexecs
  /\ thread_schedule([state EXCEPT ![t] = "FREE"])
  /\ UNCHANGED <<numthreads, numexecs, i, created, at>>

Done == at = "ended" /\ UNCHANGED vars

Next ==
  \/ thread_create \/ MainSchedules \/ MainEnds \/ Done
  \/ \E t \in Thread : thread_yield(t) \/ thread_exit(t)

Spec == Init /\ [][Next]_vars
\* The process gets the CPU from time to time.
FairSpec == Spec /\ WF_vars(Next)

-----------------------------------------------------------------------------
Live == {t \in Thread \ {main} : state[t] # "FREE"}

\* Round robin: of two threads that have not ended, neither is ever more than
\* one round ahead, however many there are and whichever ended before.
FairTurns == \A t, u \in Live : i[t] - i[u] <= 1

\* The program ends, and by then every thread has (with the same exception).
AllEnd == <>(at = "ended" /\ (numthreads # 1 => Live = {}))

=============================================================================
