---------------------------- MODULE NoStarveMutex ----------------------------
(***************************************************************************)
(* threads-sema/no-starve-mutex.c: two counted rooms and three semaphores, *)
(* as ns_mutex_init sets them up: with t2 open.  One action per statement, *)
(* for threads that call ns_mutex_acquire and ns_mutex_release again and   *)
(* again (the file's own worker and main do not use the mutex).            *)
(*                                                                         *)
(* The rooms are plain ints, and += and -= are a load and a store: what    *)
(* threads that update the same room together leave in it depends on the   *)
(* order of their loads and stores.                                        *)
(***************************************************************************)
EXTENDS Threads, FiniteSets

CONSTANTS Procs,
          Calls      (* bound on the calls of ns_mutex_acquire             *)

VARIABLES room1, room2,
          mutex, t1, t2,
          reg,       (* reg[p]: the room as p has loaded it                *)
          calls      (* calls of ns_mutex_acquire so far                   *)

rooms == <<room1, room2>>
sems  == <<mutex, t1, t2>>
vars  == <<pc, rooms, sems, reg, calls>>

\* r += n, a load and a store
Load(p, from, to, r) == /\ Goto(p, from, to)
                        /\ reg' = [reg EXCEPT ![p] = r]
                        /\ UNCHANGED <<rooms, sems, calls>>

\* the sum has been stored, and the register is not used again
Stored(p) == reg' = [reg EXCEPT ![p] = 0]

------------------------------------------------------------------------------
\* ns_mutex_init
Init == /\ pc = [p \in Procs |-> "outside"]
        /\ room1 = 0 /\ room2 = 0
        /\ mutex = 1 /\ t1 = 1 /\ t2 = 1
        /\ reg = [p \in Procs |-> 0]
        /\ calls = 0

\* a thread calls ns_mutex_acquire, if it ever wants to
Call(p) == /\ calls < Calls
           /\ Goto(p, "outside", "want")
           /\ calls' = calls + 1
           /\ UNCHANGED <<rooms, sems, reg>>

------------------------------------------------------------------------------
(* ns_mutex_acquire *)

\* m->room1 += 1, between sem_wait(&m->mutex) and sem_post(&m->mutex)
Room1Enter(p) ==
    \/ Goto(p, "want", "enter1") /\ SemWait(mutex) /\ UNCHANGED <<rooms, t1, t2, reg, calls>>
    \/ Load(p, "enter1", "entered1", room1)
    \/ /\ Goto(p, "entered1", "post1")
       /\ room1' = reg[p] + 1 /\ Stored(p)
       /\ UNCHANGED <<room2, sems, calls>>
    \/ Goto(p, "post1", "turn1") /\ SemPost(mutex) /\ UNCHANGED <<rooms, t1, t2, reg, calls>>

\* sem_wait(&m->t1); m->room2 += 1
Room2Enter(p) ==
    \/ Goto(p, "turn1", "enter2") /\ SemWait(t1) /\ UNCHANGED <<rooms, mutex, t2, reg, calls>>
    \/ Load(p, "enter2", "entered2", room2)
    \/ /\ Goto(p, "entered2", "lock1")
       /\ room2' = reg[p] + 1 /\ Stored(p)
       /\ UNCHANGED <<room1, sems, calls>>

\* room 1 is counted down without the mutex
MutantRoom1LeaveUnlocked(p) ==
    \/ Goto(p, "lock1", "left1") /\ reg' = [reg EXCEPT ![p] = room1] /\ UNCHANGED <<rooms, sems, calls>>
    \/ /\ Goto(p, "left1", IF reg[p] = 1 THEN "last1" ELSE "more1")
       /\ room1' = reg[p] - 1 /\ Stored(p)
       /\ UNCHANGED <<room2, sems, calls>>

\* sem_wait(&m->mutex); m->room1 -= 1; if (m->room1 == 0)
Room1Leave(p) ==
    \/ Goto(p, "lock1", "leave1") /\ SemWait(mutex) /\ UNCHANGED <<rooms, t1, t2, reg, calls>>
    \/ Load(p, "leave1", "left1", room1)
    \/ /\ Goto(p, "left1", IF reg[p] = 1 THEN "last1" ELSE "more1")
       /\ room1' = reg[p] - 1 /\ Stored(p)
       /\ UNCHANGED <<room2, sems, calls>>

\* both turnstiles are opened when room 1 is empty
MutantOpenTurnstileBoth(p) ==
    \/ /\ Goto(p, "last1", "open2") \/ Goto(p, "more1", "open1")
       /\ SemPost(mutex) /\ UNCHANGED <<rooms, t1, t2, reg, calls>>
    \/ Goto(p, "open2", "open1") /\ SemPost(t2) /\ UNCHANGED <<rooms, mutex, t1, reg, calls>>
    \/ Goto(p, "open1", "turn2") /\ SemPost(t1) /\ UNCHANGED <<rooms, mutex, t2, reg, calls>>

\* sem_post(&m->mutex); then t2 if room 1 was empty, else t1
OpenTurnstile(p) ==
    \/ /\ Goto(p, "last1", "open2") \/ Goto(p, "more1", "open1")
       /\ SemPost(mutex) /\ UNCHANGED <<rooms, t1, t2, reg, calls>>
    \/ Goto(p, "open2", "turn2") /\ SemPost(t2) /\ UNCHANGED <<rooms, mutex, t1, reg, calls>>
    \/ Goto(p, "open1", "turn2") /\ SemPost(t1) /\ UNCHANGED <<rooms, mutex, t2, reg, calls>>

\* sem_wait(&m->t2); m->room2 -= 1
Room2Leave(p) ==
    \/ Goto(p, "turn2", "leave2") /\ SemWait(t2) /\ UNCHANGED <<rooms, mutex, t1, reg, calls>>
    \/ Load(p, "leave2", "left2", room2)
    \/ /\ Goto(p, "left2", "crit")
       /\ room2' = reg[p] - 1 /\ Stored(p)
       /\ UNCHANGED <<room1, sems, calls>>

------------------------------------------------------------------------------
\* the first turnstile is always the one opened again
MutantReleaseT1(p) ==
    \/ Goto(p, "crit", "rel1") /\ UNCHANGED <<rooms, sems, reg, calls>>
    \/ Goto(p, "rel1", "outside") /\ SemPost(t1) /\ UNCHANGED <<rooms, mutex, t2, reg, calls>>

\* ns_mutex_release, at the end of the critical section
Release(p) ==
    \/ /\ Goto(p, "crit", IF room2 = 0 THEN "rel1" ELSE "rel2")
       /\ UNCHANGED <<rooms, sems, reg, calls>>
    \/ Goto(p, "rel1", "outside") /\ SemPost(t1) /\ UNCHANGED <<rooms, mutex, t2, reg, calls>>
    \/ Goto(p, "rel2", "outside") /\ SemPost(t2) /\ UNCHANGED <<rooms, mutex, t1, reg, calls>>

------------------------------------------------------------------------------
Step(p) == \/ Room1Enter(p) \/ Room2Enter(p) \/ Room1Leave(p)
           \/ OpenTurnstile(p) \/ Room2Leave(p) \/ Release(p)

Next == \E p \in Procs : Call(p) \/ Step(p)

Spec == Init /\ [][Next]_vars

------------------------------------------------------------------------------
(* Properties *)

Labels == {"outside", "want", "enter1", "entered1", "post1", "turn1", "enter2",
           "entered2", "lock1", "leave1", "left1", "last1", "open2", "more1",
           "open1", "turn2", "leave2", "left2", "crit", "rel1", "rel2"}

\* Every variable keeps its shape.
TypeOK == /\ pc \in [Procs -> Labels]
          /\ room1 \in Int /\ room2 \in Int
          /\ mutex \in Nat /\ t1 \in Nat /\ t2 \in Nat
          /\ reg \in [Procs -> Int]
          /\ calls \in Nat

\* the threads between the return of ns_mutex_acquire and the post of
\* ns_mutex_release
Critical == {p \in Procs : pc[p] \in {"crit", "rel1", "rel2"}}

\* One thread at a time is between ns_mutex_acquire and the post of
\* ns_mutex_release: what a mutex is for, and what the explanation at the end of
\* the file argues for ("neither thread can enter Room 3").
MutualExclusion == \A p, q \in Critical : p = q

\* what the mutex as it is initialised keeps: one thread too many, never two
NeverThree == Cardinality(Critical) <= 2

\* the threads between the two updates of each room
Room1 == {p \in Procs : pc[p] \in {"post1", "turn1", "enter2", "entered2", "lock1",
                                  "leave1", "left1"}}
Room2 == {p \in Procs : pc[p] \in {"lock1", "leave1", "left1", "last1", "open2", "more1",
                                  "open1", "turn2", "leave2", "left2"}}

Room1Counted == room1 = Cardinality(Room1)
Room2Lost    == room2 # Cardinality(Room2)
==============================================================================
