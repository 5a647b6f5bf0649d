------------------------------ MODULE SemBuffer ------------------------------
(***************************************************************************)
(* threads-sema/producer_consumer_works.c: a ring buffer whose free and    *)
(* full slots are counted by two semaphores, with a third as the mutex.    *)
(* main creates one producer.                                              *)
(***************************************************************************)
EXTENDS Threads, FiniteSets

CONSTANTS Producers, Consumers,
          Procs,     (* the producers and consumers that main creates      *)
          Max,       (* max                                                *)
          Loops      (* loops                                              *)

\* one end marker per consumer
Ends == Cardinality(Procs \cap Consumers)

VARIABLES buffer, fill, use,
          empty, full, mutex,    (* the semaphores                         *)
          made,                  (* made[p]: calls of do_fill by p         *)
          tmp                    (* tmp[c]: the value c got last           *)

vars == <<pc, buffer, fill, use, empty, full, mutex, made, tmp>>

\* values in the buffer: those full counts, those a consumer has been
\* promised and not yet taken, those a producer has not yet announced
Stored == full + Cardinality({c \in Consumers : pc[c] \in {"lock", "access"}})
               + Cardinality({p \in Producers : pc[p] \in {"unlock", "post"}})

Contents == [i \in 1..Stored |-> buffer[(use + i - 1) % Max]]

Fifo == INSTANCE BoundedFifo WITH q <- Contents, max <- Max

\* the ring is advanced as do_fill and do_get do it
Advance(i) == IF i + 1 = Max THEN 0 ELSE i + 1

\* main, before it creates the threads
Init == /\ pc = [t \in Producers \cup Consumers |-> "wait"]
        /\ buffer = [i \in 0..(Max - 1) |-> <<"none", 0>>]
        /\ fill = 0 /\ use = 0
        /\ empty = Max /\ full = 0 /\ mutex = 1
        /\ made = [p \in Producers |-> 0]
        /\ tmp = [c \in Consumers |-> <<"none", 0>>]

------------------------------------------------------------------------------
\* sem_wait(&mutex) around do_fill and do_get
Enter(t) == /\ Goto(t, "lock", "access")
            /\ SemWait(mutex)
            /\ UNCHANGED <<buffer, fill, use, empty, full, made, tmp>>

\* sem_post(&mutex)
Leave(t) == /\ Goto(t, "unlock", "post")
            /\ SemPost(mutex)
            /\ UNCHANGED <<buffer, fill, use, empty, full, made, tmp>>

\* producer: sem_wait(&empty), for each item and each marker
WaitEmpty(p) == /\ made[p] < Loops + Ends
                /\ Goto(p, "wait", "lock")
                /\ SemWait(empty)
                /\ UNCHANGED <<buffer, fill, use, full, mutex, made, tmp>>

\* do_fill
do_fill(p) == /\ Goto(p, "access", "unlock")
              /\ buffer' = [buffer EXCEPT ![fill] = Fifo!Value(p, made[p])]
              /\ fill' = Advance(fill)
              /\ made' = [made EXCEPT ![p] = @ + 1]
              /\ UNCHANGED <<use, empty, full, mutex, tmp>>

\* sem_post(&full)
PostFull(p) == /\ Goto(p, "post", "wait")
               /\ SemPost(full)
               /\ UNCHANGED <<buffer, fill, use, empty, mutex, made, tmp>>

\* consumer: sem_wait(&full), until the marker has been seen
WaitFull(c) == /\ tmp[c] # Fifo!End
               /\ Goto(c, "wait", "lock")
               /\ SemWait(full)
               /\ UNCHANGED <<buffer, fill, use, empty, mutex, made, tmp>>

\* do_get
do_get(c) == /\ Goto(c, "access", "unlock")
             /\ tmp' = [tmp EXCEPT ![c] = buffer[use]]
             /\ use' = Advance(use)
             /\ UNCHANGED <<buffer, fill, empty, full, mutex, made>>

\* sem_post(&empty)
PostEmpty(c) == /\ Goto(c, "post", "wait")
                /\ SemPost(empty)
                /\ UNCHANGED <<buffer, fill, use, full, mutex, made, tmp>>

------------------------------------------------------------------------------
Step(t) == \/ Enter(t) \/ Leave(t)
           \/ t \in Producers /\ (WaitEmpty(t) \/ do_fill(t) \/ PostFull(t))
           \/ t \in Consumers /\ (WaitFull(t) \/ do_get(t) \/ PostEmpty(t))

Finished(t) == /\ pc[t] = "wait"
               /\ IF t \in Producers THEN made[t] = Loops + Ends
                                     ELSE tmp[t] = Fifo!End

Next == \E t \in Procs : Step(t)
==============================================================================
