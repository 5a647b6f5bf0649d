---------------------------- MODULE BoundedBuffer ----------------------------
(***************************************************************************)
(* The producer/consumer programs that share a ring buffer under a mutex   *)
(* and sleep on condition variables.  The actions name the statements of   *)
(* threads-cv/pc.c; a record tells the programs apart: their threads, the  *)
(* condition variables they use, how they wake, whether they test again    *)
(* after a wait and how their consumers end.  One behaviour runs one       *)
(* program.                                                                *)
(*                                                                         *)
(* Producers and consumers run the same statements around do_fill and      *)
(* do_get, which are one step each: they run under the mutex.  A slot      *)
(* holds the call of do_fill that filled it.                               *)
(***************************************************************************)
EXTENDS Integers, Sequences, FiniteSets

CONSTANTS Producers, Consumers,
          Loops,         (* items of each producer                         *)
          Programs,      (* the programs considered                        *)
          MaxSpurious    (* bound on wake-ups without a signal             *)

None    == "none"
Threads == Producers \cup Consumers

ASSUME ThreadsAssumption ==
    /\ IsFiniteSet(Producers) /\ IsFiniteSet(Consumers)
    /\ Producers \cap Consumers = {} /\ None \notin Threads
ASSUME SizesAssumption == Loops \in Nat /\ MaxSpurious \in Nat
ASSUME ProgramsAssumption ==
    \A g \in Programs :
        /\ g.threads \subseteq Threads /\ g.max \in Nat \ {0}
        /\ {g.broadcast, g.retest} \subseteq BOOLEAN
        /\ g.ends \in {"marker", "count", "never"}
\* the program that does not test again has one producer and one consumer
ASSUME RetestAssumption ==
    \A g \in Programs : ~g.retest =>
        \A s, t \in g.threads : (s \in Producers <=> t \in Producers) => s = t

VARIABLES program,
          buffer, fill_ptr, use_ptr, num_full,
          m,         (* owner of the mutex, or None                        *)
          sleepers,  (* sleepers[cv]: threads asleep on cv                 *)
          pc,
          made,      (* made[p]: calls of do_fill by producer p            *)
          tmp,       (* tmp[c]: what consumer c got last                   *)
          got,       (* got[c]: calls of do_get by consumer c              *)
          failed,    (* an assertion has ended the program                 *)
          spurious

bvars == <<buffer, fill_ptr, use_ptr, num_full>>
vars  == <<program, bvars, m, sleepers, pc, made, tmp, got, failed, spurious>>

Max        == program.max         \* size of the buffer
ProducerCV == program.producer    \* the condition variable producers wait on
ConsumerCV == program.consumer    \* the condition variable consumers wait on
CVs        == {ProducerCV, ConsumerCV}
\* end-of-production markers: one per consumer
Ends == IF program.ends = "marker" THEN Cardinality(program.threads \cap Consumers)
                                   ELSE 0

\* the queue the ring buffer stands for: num_full items from use_ptr on
Contents == [i \in 1..num_full |-> buffer[(use_ptr + i - 1) % Max]]

Fifo == INSTANCE BoundedFifo WITH q <- Contents, max <- Max,
                                  Ends <- Cardinality(Consumers)

\* the condition variable t waits on, and the one it signals
WaitsOn(t) == IF t \in Producers THEN ProducerCV ELSE ConsumerCV
Wakes(t)   == IF t \in Producers THEN ConsumerCV ELSE ProducerCV

Goto(t, from, to) == pc[t] = from /\ pc' = [pc EXCEPT ![t] = to]

------------------------------------------------------------------------------
\* main: the buffer is cleared before the threads are created
Init == /\ program \in Programs
        /\ buffer = [i \in 0..(Max - 1) |-> <<"none", 0>>]
        /\ fill_ptr = 0 /\ use_ptr = 0 /\ num_full = 0
        /\ m = None
        /\ sleepers = [cv \in CVs |-> {}]
        /\ pc = [t \in Threads |-> "lock"]
        /\ made = [p \in Producers |-> 0]
        /\ tmp = [c \in Consumers |-> <<"none", 0>>]
        /\ got = [c \in Consumers |-> 0]
        /\ failed = FALSE /\ spurious = 0

\* a producer's for loops; a consumer's while (tmp != -1), its for loop, or
\* while (true)
More(t) == /\ t \in program.threads
           /\ \/ t \in Producers /\ made[t] < Loops + Ends
              \/ t \in Consumers /\ CASE program.ends = "marker" -> tmp[t] # Fifo!End
                                      [] program.ends = "count"  -> got[t] < Loops
                                      [] program.ends = "never"  -> TRUE

\* Mutex_lock(&m)
Lock(t) == /\ More(t)
           /\ m = None /\ m' = t
           /\ Goto(t, "lock", "test")
           /\ UNCHANGED <<program, bvars, sleepers, made, tmp, got, failed, spurious>>

\* num_full == max for a producer, num_full == 0 for a consumer
Blocked(t) == IF t \in Producers THEN num_full = Max ELSE num_full = 0

\* while (...) Cond_wait(...)
Sleep(t) == /\ Blocked(t)
            /\ Goto(t, "test", "asleep")
            /\ sleepers' = [sleepers EXCEPT ![WaitsOn(t)] = @ \cup {t}]
            /\ m' = None
            /\ UNCHANGED <<program, bvars, made, tmp, got, failed, spurious>>

\* no program tests again
MutantWake(t) == /\ \A cv \in CVs : t \notin sleepers[cv]
                 /\ m = None /\ m' = t
                 /\ Goto(t, "asleep", "access")
                 /\ UNCHANGED <<program, bvars, sleepers, made, tmp, got, failed, spurious>>

\* Cond_wait returns with the mutex, to the while or past the if
Wake(t) == /\ \A cv \in CVs : t \notin sleepers[cv]
           /\ m = None /\ m' = t
           /\ Goto(t, "asleep", IF program.retest THEN "test" ELSE "access")
           /\ UNCHANGED <<program, bvars, sleepers, made, tmp, got, failed, spurious>>

\* the wait is over
Access(t) == /\ \/ pc[t] = "test" \/ pc[t] = "access"
             /\ ~Blocked(t)
             /\ pc' = [pc EXCEPT ![t] = "signal"]

\* the value is stored after the pointer has moved
MutantFillLate(p) == /\ Access(p)
                     /\ fill_ptr' = (fill_ptr + 1) % Max
                     /\ buffer' = [buffer EXCEPT ![fill_ptr'] = Fifo!Value(p, made[p])]
                     /\ num_full' = num_full + 1
                     /\ made' = [made EXCEPT ![p] = @ + 1]
                     /\ UNCHANGED <<program, use_ptr, m, sleepers, tmp, got, failed, spurious>>

\* do_fill(i), do_fill(-1)
Fill(p) == /\ Access(p)
           /\ buffer' = [buffer EXCEPT ![fill_ptr] = Fifo!Value(p, made[p])]
           /\ fill_ptr' = (fill_ptr + 1) % Max
           /\ num_full' = num_full + 1
           /\ made' = [made EXCEPT ![p] = @ + 1]
           /\ UNCHANGED <<program, use_ptr, m, sleepers, tmp, got, failed, spurious>>

\* tmp = do_get()
Get(c) == /\ Access(c)
          /\ tmp' = [tmp EXCEPT ![c] = buffer[use_ptr]]
          /\ got' = [got EXCEPT ![c] = @ + 1]
          /\ use_ptr' = (use_ptr + 1) % Max
          /\ num_full' = num_full - 1
          /\ UNCHANGED <<program, buffer, fill_ptr, m, sleepers, made, failed, spurious>>

\* assert(count == 0) in put, assert(count == 1) in get: the program aborts
Abort(t) == /\ pc[t] = "access" /\ Blocked(t)
            /\ failed' = TRUE
            /\ UNCHANGED <<program, bvars, m, sleepers, pc, made, tmp, got, spurious>>

\* a thread signals the condition variable it waits on itself
MutantSignalOwn(t) == /\ Goto(t, "signal", "unlock")
                      /\ LET cv == WaitsOn(t) IN
                           \/ sleepers[cv] = {} /\ UNCHANGED sleepers
                           \/ \E s \in sleepers[cv] :
                                sleepers' = [sleepers EXCEPT ![cv] = @ \ {s}]
                      /\ UNCHANGED <<program, bvars, m, made, tmp, got, failed, spurious>>

\* a broadcast wakes only one thread
MutantSignalOne(t) == /\ Goto(t, "signal", "unlock")
                      /\ LET cv == Wakes(t) IN
                           \/ sleepers[cv] = {} /\ UNCHANGED sleepers
                           \/ \E s \in sleepers[cv] :
                                sleepers' = [sleepers EXCEPT ![cv] = @ \ {s}]
                      /\ UNCHANGED <<program, bvars, m, made, tmp, got, failed, spurious>>

\* Cond_signal, or pthread_cond_broadcast
Signal(t) == /\ Goto(t, "signal", "unlock")
             /\ LET cv == Wakes(t) IN
                  \/ (program.broadcast \/ sleepers[cv] = {})
                     /\ sleepers' = [sleepers EXCEPT ![cv] = {}]
                  \/ ~program.broadcast /\ \E s \in sleepers[cv] :
                       sleepers' = [sleepers EXCEPT ![cv] = @ \ {s}]
             /\ UNCHANGED <<program, bvars, m, made, tmp, got, failed, spurious>>

\* Mutex_unlock(&m)
Unlock(t) == /\ Goto(t, "unlock", "lock")
             /\ m' = None
             /\ UNCHANGED <<program, bvars, sleepers, made, tmp, got, failed, spurious>>

\* pthread_cond_wait may return with no signal sent
Spurious(t) == /\ spurious < MaxSpurious /\ ~failed
               /\ t \in sleepers[WaitsOn(t)]
               /\ sleepers' = [sleepers EXCEPT ![WaitsOn(t)] = @ \ {t}]
               /\ spurious' = spurious + 1
               /\ UNCHANGED <<program, bvars, m, pc, made, tmp, got, failed>>

Step(t) == /\ ~failed
           /\ \/ Lock(t) \/ Sleep(t) \/ Wake(t) \/ Signal(t) \/ Unlock(t) \/ Abort(t)
              \/ t \in Producers /\ Fill(t)
              \/ t \in Consumers /\ Get(t)

Next == \E t \in Threads : Step(t) \/ Spurious(t)

Spec == Init /\ [][Next]_vars

------------------------------------------------------------------------------
(* Properties *)

\* threads that are awake inside the waiting loop, threads about to signal
Awake(S)      == {t \in S : \/ pc[t] \in {"test", "access"}
                            \/ pc[t] = "asleep" /\ \A cv \in CVs : t \notin sleepers[cv]}
Signalling(S) == {t \in S : pc[t] = "signal"}

\* No lost wake-up, in the programs with two condition variables: while a
\* consumer sleeps, every item is matched by a consumer that is awake to take
\* it or a producer that is about to signal; and the same for free slots.
NoLostWakeup ==
    ProducerCV # ConsumerCV =>
      /\ sleepers[ConsumerCV] # {} =>
           num_full <= Cardinality(Awake(Consumers)) + Cardinality(Signalling(Producers))
      /\ sleepers[ProducerCV] # {} =>
           Max - num_full <= Cardinality(Awake(Producers)) + Cardinality(Signalling(Consumers))

\* The assertions of put and get fail only in the program that does not test
\* again after a wait, and with its one producer and one consumer only after
\* a wake-up that nobody sent.
AssertsNeedSignals == failed => ~program.retest /\ spurious > 0

\* Everything is produced and consumed, and the threads that can end do.
AllDone == /\ \A t \in Threads : ~More(t) => pc[t] = "lock"
           /\ \A p \in Producers : ~More(p)
           /\ num_full = 0
           /\ program.ends # "never" => \A c \in Consumers : ~More(c)

\* both sides sleep on the one condition variable, and nobody is awake
WrongSideWoken == /\ ProducerCV = ConsumerCV /\ ~program.broadcast
                  /\ \A t \in Threads : More(t) => t \in sleepers[ProducerCV]
                  /\ \E p \in Producers, c \in Consumers :
                       {p, c} \subseteq sleepers[ProducerCV]
==============================================================================
