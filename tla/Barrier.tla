------------------------------- MODULE Barrier -------------------------------
(***************************************************************************)
(* threads-sema/barrier.c: a one-shot barrier for the children of main.    *)
(* sem1 protects the two counters; the last child to arrive posts sem2,    *)
(* and every child that passes posts it again for the next one.            *)
(***************************************************************************)
EXTENDS Threads, FiniteSets

CONSTANT Procs           (* the children                                   *)

num_threads == Cardinality(Procs)

VARIABLES count, thread_count, sem1, sem2

vars == <<pc, count, thread_count, sem1, sem2>>

Labels == {"before", "count", "post1", "sleep", "lock", "check",
           "open1", "open2", "after"}

\* barrier_init; main creates the children afterwards
Init == /\ pc = [p \in Procs |-> "before"]
        /\ thread_count = num_threads
        /\ count = 0
        /\ sem1 = 1
        /\ sem2 = 0

\* sem_wait(&b->sem1), after the child printed "before"
Arrive(p) == /\ Goto(p, "before", "count")
             /\ SemWait(sem1)
             /\ UNCHANGED <<count, thread_count, sem2>>

\* the last child but one does not wait
MutantCountEarly(p) ==
    /\ count' = count + 1
    /\ Goto(p, "count", IF count' < thread_count - 1 THEN "post1" ELSE "check")
    /\ UNCHANGED <<thread_count, sem1, sem2>>

\* b->count++; if (b->count < b->thread_count)
Count(p) == /\ count' = count + 1
            /\ Goto(p, "count", IF count' < thread_count THEN "post1" ELSE "check")
            /\ UNCHANGED <<thread_count, sem1, sem2>>

\* sem_post(&b->sem1); sem_wait(&b->sem2); sem_wait(&b->sem1)
Sleep(p) == /\ \/ /\ Goto(p, "post1", "sleep") /\ SemPost(sem1)
                  /\ UNCHANGED sem2
               \/ /\ Goto(p, "sleep", "lock") /\ SemWait(sem2)
                  /\ UNCHANGED sem1
               \/ /\ Goto(p, "lock", "check") /\ SemWait(sem1)
                  /\ UNCHANGED sem2
            /\ UNCHANGED <<count, thread_count>>

\* the number of threads is not counted down with the count
MutantCheck(p) == /\ Goto(p, "check", IF thread_count = count THEN "open1" ELSE "after")
                  /\ count' = IF thread_count = count THEN count - 1 ELSE count
                  /\ UNCHANGED <<thread_count, sem1, sem2>>

\* if (b->thread_count == b->count) { b->thread_count--; b->count--; ... }
\* otherwise barrier returns at once, with sem1 still taken
Check(p) == /\ IF thread_count = count
                 THEN /\ Goto(p, "check", "open1")
                      /\ thread_count' = thread_count - 1
                      /\ count' = count - 1
                 ELSE /\ Goto(p, "check", "after")
                      /\ UNCHANGED <<count, thread_count>>
            /\ UNCHANGED <<sem1, sem2>>

\* sem2 is not passed on
MutantOpen(p) == /\ \/ Goto(p, "open1", "open2") /\ SemPost(sem1)
                    \/ Goto(p, "open2", "after") /\ UNCHANGED sem1
                 /\ UNCHANGED <<count, thread_count, sem2>>

\* sem_post(&b->sem1); sem_post(&b->sem2)
Open(p) == /\ \/ Goto(p, "open1", "open2") /\ SemPost(sem1) /\ UNCHANGED sem2
              \/ Goto(p, "open2", "after") /\ SemPost(sem2) /\ UNCHANGED sem1
           /\ UNCHANGED <<count, thread_count>>

Step(p) == Arrive(p) \/ Count(p) \/ Sleep(p) \/ Check(p) \/ Open(p)

\* main's joins have returned
AllAfter == (\A p \in Procs : pc[p] = "after") /\ UNCHANGED vars

Next == (\E p \in Procs : Step(p)) \/ AllAfter

Spec == Init /\ [][Next]_vars

------------------------------------------------------------------------------
(* Properties *)

\* children that have been counted, and those that have been counted down
Arrived == {p \in Procs : pc[p] \notin {"before", "count"}}
Passed  == {p \in Procs : pc[p] \in {"open1", "open2", "after"}}

\* Every variable keeps its shape.  Both semaphores stay binary although sem2
\* is posted once per child, and neither counter goes below zero.
TypeOK == /\ pc \in [Procs -> Labels]
          /\ count \in 0..num_threads
          /\ thread_count \in 0..num_threads
          /\ sem1 \in {0, 1}
          /\ sem2 \in {0, 1}

\* nobody is past the barrier before everybody has arrived
Holds == Passed # {} => Arrived = Procs

\* The counters are only touched by the holder of sem1, through the gap in
\* which a child gives sem1 up, sleeps, and takes it again.
CountersProtected ==
    \A p, q \in Procs :
        {pc[p], pc[q]} \subseteq {"count", "post1", "check", "open1"} => p = q

\* who has not arrived is missing from count, who has passed from thread_count
Exact == /\ thread_count = num_threads - Cardinality(Passed)
         /\ thread_count - count = num_threads - Cardinality(Arrived)
==============================================================================
