------------------------------ MODULE MCSynch ------------------------------
EXTENDS Synch, TLC

\* Instance: every condition variable is protected by the one client lock.
MCCondLock == [c \in Cond |-> CHOOSE l \in Lock : l # TidLock]

WorkerSymmetry == Permutations(Worker)

\* Bound: from the first use of the last page on, no client semaphore, lock or
\* condition variable is in use.  Two threads can then be inside thread_create()
\* at once; until then two of the threads use everything.
PageLeft == \E w \in Worker : status[w] = "FREE" /\ tid[w] = 0

Quiet ==
  /\ \A s \in Sema : value[s] = 0 /\ waiters[s] = <<>>
  /\ \A l \in Lock \ {TidLock} : value[l] = 1
  /\ \A c \in Cond : cwaiters[c] = <<>>

Bound == PageLeft \/ Quiet
=============================================================================
