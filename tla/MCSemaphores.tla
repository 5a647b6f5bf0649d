---------------------------- MODULE MCSemaphores ----------------------------
(***************************************************************************)
(* What is built around one counting semaphore and what it is built from:  *)
(* zemaphore.h under the children of throttle.c, barrier.c and             *)
(* no-starve-mutex.c.  One behaviour runs one of them.                     *)
(***************************************************************************)
EXTENDS Zemaphore

CONSTANTS Callers,   (* the threads that use the mutex                     *)
          Calls      (* bound on the calls of ns_mutex_acquire             *)

ASSUME CallersAssumption == Callers \subseteq Procs /\ Calls \in Nat

VARIABLES program,
          child, count, thread_count, sem1, sem2,
          thread, room1, room2, mutex, t1, t2, reg, calls

barrier  == <<child, count, thread_count, sem1, sem2>>
ns_mutex == <<thread, room1, room2, mutex, t1, t2, reg, calls>>

B == INSTANCE Barrier WITH pc <- child
N == INSTANCE NoStarveMutex WITH Procs <- Callers, pc <- thread

all == <<program, vars, barrier, ns_mutex>>

------------------------------------------------------------------------------
RunInit == /\ program \in {"zemaphore.h", "barrier.c", "no-starve-mutex.c"}
           /\ Init /\ B!Init /\ N!Init

RunNext == /\ \/ program = "zemaphore.h" /\ Next /\ UNCHANGED <<barrier, ns_mutex>>
              \/ program = "barrier.c" /\ B!Next /\ UNCHANGED <<vars, ns_mutex>>
              \/ program = "no-starve-mutex.c" /\ N!Next /\ UNCHANGED <<vars, barrier>>
           /\ UNCHANGED program

\* a statement of thread p
RunStep(p) == /\ \/ program = "zemaphore.h" /\ Step(p) /\ UNCHANGED <<barrier, ns_mutex>>
                 \/ program = "barrier.c" /\ B!Step(p) /\ UNCHANGED <<vars, ns_mutex>>
                 \/ /\ program = "no-starve-mutex.c" /\ p \in Callers /\ N!Step(p)
                    /\ UNCHANGED <<vars, barrier>>
              /\ UNCHANGED program

\* The scheduler eventually runs a thread that can keep running.  A wake-up
\* without a signal is never owed, and no thread is obliged to call
\* ns_mutex_acquire.
RunSpec == RunInit /\ [][RunNext]_all /\ \A p \in Procs : WF_all(RunStep(p))

------------------------------------------------------------------------------
(* Properties *)

\* "each child should print their before message before either prints their
\* after message": nobody is past the barrier before everybody has arrived.
BarrierHolds == B!Holds

\* Counting down both counters of the barrier keeps them in step: what is
\* missing from count is who has not arrived, and thread_count is who has not
\* passed.
CountersExact == B!Exact

\* ns_mutex_init opens both turnstiles, so two threads can be in the critical
\* section of no-starve-mutex.c together; but however the turnstiles are opened
\* after that, and whatever becomes of room2, there are never three.
NeverThree == N!NeverThree

\* "Variable room1 is protected by the mutex": no update of it is lost, it is
\* always the number of threads in room 1, and "If All recahed room2" is
\* decided rightly.
Room1Exact == N!Room1Counted

\* Every thread that calls ns_mutex_acquire comes into the critical section,
\* when the others call it only finitely often (sem_wait may overlook a thread
\* as long as others come) and unless an update of room2 has been lost: only a
\* wrong count of room 2 can make ns_mutex_release open the turnstile nobody
\* waits at.
EntersUnlessLost ==
    \A p \in Callers : thread[p] = "want" ~> thread[p] = "crit" \/ N!Room2Lost

\* Every child of throttle.c returns (it posts as often as it waits): Zem_wait
\* never sleeps through the post that was meant for it.  Every child gets past
\* the barrier: the post of sem2 reaches all of them.
Termination ==
    <>[](\A p \in Procs : /\ program = "zemaphore.h" => Finished(p)
                          /\ program = "barrier.c" => child[p] = "after")
==============================================================================
