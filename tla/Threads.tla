------------------------------- MODULE Threads -------------------------------
(***************************************************************************)
(* What the semaphore programs share: threads that execute one statement   *)
(* at a time, and the counting semaphores of <semaphore.h> that            *)
(* common_threads.h wraps (a wrapper aborts if the call fails; the calls   *)
(* modelled here do not fail).  A semaphore is its value: sem_wait takes   *)
(* effect when the value is positive, and nothing says which of several    *)
(* waiting threads gets it.                                                *)
(***************************************************************************)
EXTENDS Integers

VARIABLE pc          (* pc[p]: the statement thread p executes next        *)

Goto(p, from, to) == /\ pc[p] = from
                     /\ pc' = [pc EXCEPT ![p] = to]

SemWait(s) == s > 0 /\ s' = s - 1
SemPost(s) == s' = s + 1
==============================================================================
