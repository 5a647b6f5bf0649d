----------------------------- MODULE LightSwitch -----------------------------
(***************************************************************************)
(* struct LightSwitch of the three reader-writer locks: the first thread   *)
(* to lock the switch takes the semaphore, the last one to unlock it gives *)
(* it back.  One action per statement; counter is only touched under mutex *)
(* so its update and the test that follows are one step.                   *)
(*                                                                         *)
(* lock runs from the statement called from to the one called to, and so   *)
(* does unlock: the caller names its own statements.                       *)
(***************************************************************************)
EXTENDS Threads

VARIABLES counter,     (* threads that called lock and not yet unlock      *)
          mutex,       (* the value of the switch's own semaphore          *)
          semaphore    (* the value of the semaphore given as argument     *)

------------------------------------------------------------------------------
(* lock *)

\* sem_wait(&mutex)
LockMutex(p, from) == /\ Goto(p, from, "l_count")
                      /\ SemWait(mutex)
                      /\ UNCHANGED <<counter, semaphore>>

\* counter++; if (counter == 1)
LockCount(p) == /\ Goto(p, "l_count", IF counter = 0 THEN "l_sem" ELSE "l_post")
                /\ counter' = counter + 1
                /\ UNCHANGED <<mutex, semaphore>>

\* sem_wait(&semaphore), with mutex held
LockSem(p) == /\ Goto(p, "l_sem", "l_post")
              /\ SemWait(semaphore)
              /\ UNCHANGED <<counter, mutex>>

\* sem_post(&mutex)
LockPost(p, to) == /\ Goto(p, "l_post", to)
                   /\ SemPost(mutex)
                   /\ UNCHANGED <<counter, semaphore>>

Lock(p, from, to) == \/ LockMutex(p, from)
                     \/ LockCount(p)
                     \/ LockSem(p)
                     \/ LockPost(p, to)

------------------------------------------------------------------------------
(* unlock *)

\* sem_wait(&mutex)
UnlockMutex(p, from) == /\ Goto(p, from, "u_count")
                        /\ SemWait(mutex)
                        /\ UNCHANGED <<counter, semaphore>>

\* every thread that leaves gives the semaphore back
MutantUnlockCountAny(p) == /\ Goto(p, "u_count", "u_sem")
                           /\ counter' = counter - 1
                           /\ UNCHANGED <<mutex, semaphore>>

\* counter--; if (counter == 0)
UnlockCount(p) == /\ Goto(p, "u_count", IF counter = 1 THEN "u_sem" ELSE "u_post")
                  /\ counter' = counter - 1
                  /\ UNCHANGED <<mutex, semaphore>>

\* the last thread out forgets to give the semaphore back
MutantUnlockSemForgotten(p) == /\ Goto(p, "u_sem", "u_post")
                               /\ UNCHANGED <<counter, mutex, semaphore>>

\* sem_post(&semaphore)
UnlockSem(p) == /\ Goto(p, "u_sem", "u_post")
                /\ SemPost(semaphore)
                /\ UNCHANGED <<counter, mutex>>

\* sem_post(&mutex)
UnlockPost(p, to) == /\ Goto(p, "u_post", to)
                     /\ SemPost(mutex)
                     /\ UNCHANGED <<counter, semaphore>>

Unlock(p, from, to) == \/ UnlockMutex(p, from)
                       \/ UnlockCount(p)
                       \/ UnlockSem(p)
                       \/ UnlockPost(p, to)
==============================================================================
