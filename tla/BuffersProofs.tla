---------------------------- MODULE BuffersProofs ----------------------------
(***************************************************************************)
(* The producer/consumer programs, for any finite sets of producers and    *)
(* consumers, any buffer size and any number of items and of wake-ups that *)
(* nobody sent: the ring buffer is a bounded first-in first-out queue, no  *)
(* wake-up is lost where the two sides have a condition variable each, and *)
(* an assertion fails only after a wake-up that nobody sent.               *)
(***************************************************************************)
EXTENDS MCBuffers, SequenceTheorems, FiniteSetTheorems, TLAPS

------------------------------------------------------------------------------
(* The programs over condition variables: the invariant *)

Items == (Producers \X Nat) \cup {<<"end", 0>>, <<"none", 0>>}

Types == /\ program \in Programs
         /\ buffer \in [0..(Max - 1) -> Items]
         /\ use_ptr \in 0..(Max - 1) /\ num_full \in 0..Max
         /\ fill_ptr = (use_ptr + num_full) % Max
         /\ sleepers \in [CVs -> SUBSET Threads]
         /\ pc \in [Threads -> {"lock", "test", "asleep", "access", "signal", "unlock"}]
         /\ made \in [Producers -> Nat] /\ tmp \in [Consumers -> Items]
         /\ failed \in BOOLEAN /\ spurious \in Nat

\* the mutex is owned by the thread between Mutex_lock and Mutex_unlock that
\* is not in Cond_wait
LockInv == \A t \in Threads : pc[t] \in {"test", "access", "signal", "unlock"} <=> m = t

\* a thread sleeps in Cond_wait, on the condition variable of its side
SleepInv == \A cv \in CVs : \A t \in sleepers[cv] : pc[t] = "asleep" /\ cv = WaitsOn(t)

\* the threads of the program run, and a producer that runs has an item or a
\* marker to put
LoopInv == \A t \in Threads :
    /\ pc[t] # "lock" => t \in program.threads
    /\ t \in Producers /\ pc[t] \in {"test", "asleep", "access"} => made[t] < Loops + Ends

\* what a thread has put or taken is still there, or gone, when it signals
SignalInv == \A t \in Threads :
    pc[t] = "signal" => IF t \in Producers THEN num_full > 0 ELSE num_full < Max

\* with if instead of while, a thread that was signalled finds what it waits for
WokenInv ==
    /\ \A t \in Threads : pc[t] = "access" => ~program.retest
    /\ ~program.retest /\ spurious = 0 =>
         \A t \in Threads : pc[t] = "access" \/ (pc[t] = "asleep" /\ t \notin sleepers[WaitsOn(t)])
                              => ~Blocked(t)

BInv == /\ Types /\ LockInv /\ SleepInv /\ LoopInv /\ SignalInv /\ WokenInv
        /\ AssertsNeedSignals

------------------------------------------------------------------------------
\* The program that runs is one of Programs, with finitely many threads and a
\* buffer of at least one place.
LEMMA Sides ==
  ASSUME Types
  PROVE  /\ Max \in Nat \ {0} /\ program.threads \subseteq Threads
         /\ program.retest \in BOOLEAN /\ program.broadcast \in BOOLEAN
         /\ Ends \in Nat /\ Ends <= Cardinality(Consumers) /\ Cardinality(Consumers) \in Nat
         /\ Loops \in Nat
<1>1. /\ program.threads \cap Consumers \subseteq Consumers /\ IsFiniteSet(Consumers)
  BY ThreadsAssumption
<1>2. /\ Cardinality(program.threads \cap Consumers) \in Nat
      /\ Cardinality(program.threads \cap Consumers) <= Cardinality(Consumers)
      /\ Cardinality(Consumers) \in Nat
  BY <1>1, FS_Subset, FS_CardinalityType
<1> QED
  BY <1>2, ProgramsAssumption, SizesAssumption DEF Types, Max, Ends

\* main clears the buffer and creates threads that hold nothing.
LEMMA InitBInv == Init => BInv
<1> SUFFICES ASSUME Init PROVE BInv
  OBVIOUS
<1>1. Max \in Nat \ {0}
  BY ProgramsAssumption DEF Init, Max
<1>2. /\ use_ptr \in 0..(Max - 1) /\ num_full \in 0..Max
      /\ fill_ptr = (use_ptr + num_full) % Max
  BY <1>1 DEF Init
<1>3. <<"none", 0>> \in Items
  BY DEF Items
<1>4. buffer \in [0..(Max - 1) -> Items] /\ tmp \in [Consumers -> Items]
  BY <1>3 DEF Init
<1>5. Types
  BY <1>2, <1>4 DEF Init, Types
<1>6. LockInv /\ SleepInv /\ LoopInv /\ SignalInv /\ AssertsNeedSignals
  BY ThreadsAssumption DEF Init, LockInv, SleepInv, LoopInv, SignalInv, AssertsNeedSignals,
     Threads
<1>7. WokenInv
  BY DEF Init, WokenInv
<1> QED
  BY <1>5, <1>6, <1>7 DEF BInv

\* a position of the ring, i steps after a
LEMMA Ring ==
  ASSUME NEW n \in Nat \ {0}, NEW a \in 0..(n - 1), NEW i \in 0..n
  PROVE  /\ (a + i) % n = IF a + i < n THEN a + i ELSE a + i - n
         /\ (a + i) % n \in 0..(n - 1)
<1>1. (a + i) % n = IF a + i < n THEN a + i ELSE a + i - n
  OBVIOUS
<1> QED
  BY <1>1

------------------------------------------------------------------------------
(* The steps keep the invariant *)

\* what a step that leaves the ring alone has to show
LEMMA KeepRing ==
  ASSUME BInv, UNCHANGED <<program, bvars, made, tmp>>
  PROVE  /\ Max' = Max /\ CVs' = CVs /\ Ends' = Ends
         /\ \A t \in Threads : WaitsOn(t)' = WaitsOn(t) /\ (Blocked(t)' <=> Blocked(t))
  BY DEF bvars, Max, CVs, Ends, WaitsOn, Blocked, ProducerCV, ConsumerCV

\* Mutex_lock keeps the invariant.
LEMMA LockBInv ==
  ASSUME BInv, NEW t \in Threads, Lock(t)
  PROVE  BInv'
<1>1. /\ m = None /\ m' = t /\ pc[t] = "lock" /\ pc' = [pc EXCEPT ![t] = "test"]
      /\ UNCHANGED <<program, bvars, sleepers, made, tmp, got, failed, spurious>>
  BY DEF Lock, Goto
<1> USE <1>1, KeepRing, ThreadsAssumption
<1>2. Types'
  BY DEF BInv, Types, bvars
<1>3. LockInv'
  BY DEF BInv, Types, LockInv
<1>4. SleepInv'
  BY DEF BInv, Types, SleepInv
<1>5. LoopInv'
  BY DEF BInv, Types, LoopInv, Lock, More
<1>6. SignalInv'
  BY DEF BInv, Types, SignalInv, bvars
<1>7. WokenInv' /\ AssertsNeedSignals'
  BY DEF BInv, Types, WokenInv, AssertsNeedSignals
<1> QED
  BY <1>2, <1>3, <1>4, <1>5, <1>6, <1>7 DEF BInv

\* Cond_wait is called only by a thread that cannot go on, and releases the
\* mutex as it falls asleep.
LEMMA SleepBInv ==
  ASSUME BInv, NEW t \in Threads, Sleep(t)
  PROVE  BInv'
<1>1. /\ m' = None /\ pc[t] = "test" /\ pc' = [pc EXCEPT ![t] = "asleep"]
      /\ sleepers' = [sleepers EXCEPT ![WaitsOn(t)] = @ \cup {t}]
      /\ UNCHANGED <<program, bvars, made, tmp, got, failed, spurious>>
  BY DEF Sleep, Goto
<1>0. WaitsOn(t) \in CVs
  BY DEF WaitsOn, CVs
<1> USE <1>0, <1>1, KeepRing, ThreadsAssumption
<1>2. Types'
  BY DEF BInv, Types, bvars
<1>3. LockInv'
  BY DEF BInv, Types, LockInv
<1>4. SleepInv'
  BY DEF BInv, Types, SleepInv
<1>5. LoopInv'
  BY DEF BInv, Types, LoopInv
<1>6. SignalInv'
  BY DEF BInv, Types, SignalInv, bvars
<1>7. WokenInv' /\ AssertsNeedSignals'
  BY DEF BInv, Types, WokenInv, AssertsNeedSignals
<1> QED
  BY <1>2, <1>3, <1>4, <1>5, <1>6, <1>7 DEF BInv

\* The return of Cond_wait takes the mutex; past an if, the thread still finds
\* what it waited for.
LEMMA WakeBInv ==
  ASSUME BInv, NEW t \in Threads, Wake(t)
  PROVE  BInv'
<1>1. /\ m = None /\ m' = t /\ pc[t] = "asleep"
      /\ pc' = [pc EXCEPT ![t] = IF program.retest THEN "test" ELSE "access"]
      /\ UNCHANGED <<program, bvars, sleepers, made, tmp, got, failed, spurious>>
  BY DEF Wake, Goto
<1>0. WaitsOn(t) \in CVs /\ \A cv \in CVs : t \notin sleepers[cv]
  BY DEF WaitsOn, CVs, Wake
<1> USE <1>0, <1>1, KeepRing, ThreadsAssumption
<1>2. Types'
  BY DEF BInv, Types, bvars
<1>3. LockInv'
  BY DEF BInv, Types, LockInv
<1>4. SleepInv'
  BY DEF BInv, Types, SleepInv
<1>5. LoopInv'
  BY DEF BInv, Types, LoopInv
<1>6. SignalInv'
  BY DEF BInv, Types, SignalInv, bvars
<1>7. WokenInv' /\ AssertsNeedSignals'
  BY DEF BInv, Types, WokenInv, AssertsNeedSignals
<1> QED
  BY <1>2, <1>3, <1>4, <1>5, <1>6, <1>7 DEF BInv

\* Mutex_unlock keeps the invariant.
LEMMA UnlockBInv ==
  ASSUME BInv, NEW t \in Threads, Unlock(t)
  PROVE  BInv'
<1>1. /\ m' = None /\ pc[t] = "unlock" /\ pc' = [pc EXCEPT ![t] = "lock"]
      /\ UNCHANGED <<program, bvars, sleepers, made, tmp, got, failed, spurious>>
  BY DEF Unlock, Goto
<1> USE <1>1, KeepRing, ThreadsAssumption
<1>2. Types'
  BY DEF BInv, Types, bvars
<1>3. LockInv'
  BY DEF BInv, Types, LockInv
<1>4. SleepInv'
  BY DEF BInv, Types, SleepInv
<1>5. LoopInv'
  BY DEF BInv, Types, LoopInv
<1>6. SignalInv'
  BY DEF BInv, Types, SignalInv, bvars
<1>7. WokenInv' /\ AssertsNeedSignals'
  BY DEF BInv, Types, WokenInv, AssertsNeedSignals
<1> QED
  BY <1>2, <1>3, <1>4, <1>5, <1>6, <1>7 DEF BInv

\* An assertion fails only past an if, and only after a wake-up that nobody
\* sent.
LEMMA AbortBInv ==
  ASSUME BInv, NEW t \in Threads, Abort(t)
  PROVE  BInv'
<1>1. /\ pc[t] = "access" /\ Blocked(t) /\ failed' = TRUE
      /\ UNCHANGED <<program, bvars, m, sleepers, pc, made, tmp, got, spurious>>
  BY DEF Abort
<1> USE <1>1, KeepRing
<1>2. Types'
  BY DEF BInv, Types, bvars
<1>3. LockInv' /\ LoopInv' /\ SignalInv'
  BY DEF BInv, LockInv, LoopInv, SignalInv, bvars
<1>4. SleepInv'
  BY DEF BInv, Types, SleepInv
<1>5. WokenInv' /\ AssertsNeedSignals'
  BY DEF BInv, Types, WokenInv, AssertsNeedSignals
<1> QED
  BY <1>2, <1>3, <1>4, <1>5 DEF BInv

\* in the program with if, two threads that run are on different sides
LEMMA Opposite ==
  ASSUME BInv, ~program.retest, NEW s \in Threads, NEW t \in Threads, s # t,
         pc[s] # "lock", pc[t] # "lock"
  PROVE  s \in Producers <=> t \notin Producers
  BY RetestAssumption DEF BInv, Types, LoopInv

\* Cond_signal and pthread_cond_broadcast wake threads of the other side only
\* when there is something for them, or wake threads that test again.
LEMMA SignalBInv ==
  ASSUME BInv, NEW t \in Threads, Signal(t)
  PROVE  BInv'
<1>1. /\ pc[t] = "signal" /\ pc' = [pc EXCEPT ![t] = "unlock"]
      /\ UNCHANGED <<program, bvars, m, made, tmp, got, failed, spurious>>
  BY DEF Signal, Goto
<1>0. /\ sleepers' \in [CVs -> SUBSET Threads]
      /\ \A cv \in CVs : sleepers'[cv] \subseteq sleepers[cv]
  <2>1. Wakes(t) \in CVs
    BY DEF Wakes, CVs
  <2> QED
    BY <2>1 DEF Signal, BInv, Types
<1> USE <1>0, <1>1, KeepRing, ThreadsAssumption
<1>2. Types'
  BY DEF BInv, Types, bvars
<1>3. LockInv'
  BY DEF BInv, Types, LockInv
<1>4. SleepInv'
  BY DEF BInv, Types, SleepInv
<1>5. LoopInv'
  BY DEF BInv, Types, LoopInv
<1>6. SignalInv'
  BY DEF BInv, Types, SignalInv, bvars
<1>7. AssertsNeedSignals'
  BY DEF BInv, AssertsNeedSignals
<1>8. WokenInv'
  <2>1. \A s \in Threads : pc'[s] = "access" => pc[s] = "access" /\ ~program.retest
    BY DEF BInv, Types, WokenInv
  <2>2. ASSUME ~program.retest, spurious = 0, NEW s \in Threads,
               pc'[s] = "asleep", s \notin sleepers'[WaitsOn(s)]
        PROVE  ~Blocked(s)
    <3>1. pc[s] = "asleep" /\ s # t
      BY <2>2 DEF BInv, Types
    <3>2. s \in Producers <=> t \notin Producers
      BY <2>2, <3>1, Opposite
    <3>3. Max \in Nat \ {0} /\ num_full \in 0..Max
      BY Sides DEF BInv, Types
    <3> QED
      BY <3>2, <3>3 DEF BInv, SignalInv, Blocked
  <2> QED
    BY <2>1, <2>2 DEF BInv, WokenInv
<1> QED
  BY <1>2, <1>3, <1>4, <1>5, <1>6, <1>7, <1>8 DEF BInv

\* A wake-up that nobody sent is counted.
LEMMA SpuriousBInv ==
  ASSUME BInv, NEW t \in Threads, Spurious(t)
  PROVE  BInv'
<1>1. /\ ~failed /\ spurious' = spurious + 1 /\ sleepers' = [sleepers EXCEPT ![WaitsOn(t)] = @ \ {t}]
      /\ UNCHANGED <<program, bvars, m, pc, made, tmp, got, failed>>
  BY DEF Spurious
<1>0. /\ sleepers' \in [CVs -> SUBSET Threads]
      /\ \A cv \in CVs : sleepers'[cv] \subseteq sleepers[cv]
  <2>1. WaitsOn(t) \in CVs
    BY DEF WaitsOn, CVs
  <2> QED
    BY <1>1, <2>1 DEF BInv, Types
<1> USE <1>0, <1>1, KeepRing
<1>2. Types'
  BY DEF BInv, Types, bvars
<1>3. LockInv' /\ LoopInv' /\ SignalInv'
  BY DEF BInv, LockInv, LoopInv, SignalInv, bvars
<1>4. SleepInv'
  BY DEF BInv, Types, SleepInv
<1>5. WokenInv' /\ AssertsNeedSignals'
  BY DEF BInv, Types, WokenInv, AssertsNeedSignals
<1> QED
  BY <1>2, <1>3, <1>4, <1>5 DEF BInv

\* do_fill keeps the pointers of the ring together, and leaves the threads
\* past an if what they wait for.
LEMMA FillBInv ==
  ASSUME BInv, NEW t \in Producers, Fill(t)
  PROVE  BInv'
<1>1. /\ pc[t] \in {"test", "access"} /\ pc' = [pc EXCEPT ![t] = "signal"] /\ t \in Threads
      /\ num_full # Max /\ num_full' = num_full + 1
      /\ made' = [made EXCEPT ![t] = @ + 1]
      /\ UNCHANGED <<program, use_ptr, m, sleepers, tmp, got, failed, spurious>>
  BY DEF Fill, Access, Blocked, Threads
<1>2. Max' = Max /\ CVs' = CVs /\ Ends' = Ends /\ \A s \in Threads : WaitsOn(s)' = WaitsOn(s)
  BY <1>1 DEF Max, CVs, Ends, WaitsOn, ProducerCV, ConsumerCV
<1>3. Max \in Nat \ {0} /\ num_full \in 0..Max /\ use_ptr \in 0..(Max - 1)
  BY Sides DEF BInv, Types
<1>4. fill_ptr' = (use_ptr + num_full') % Max /\ fill_ptr \in 0..(Max - 1)
  <2>1. fill_ptr' = (fill_ptr + 1) % Max /\ fill_ptr = (use_ptr + num_full) % Max
    BY DEF Fill, BInv, Types
  <2>2. /\ fill_ptr = IF use_ptr + num_full < Max THEN use_ptr + num_full
                      ELSE use_ptr + num_full - Max
        /\ fill_ptr \in 0..(Max - 1)
    BY <1>3, <2>1, Ring
  <2>3. num_full' \in 0..Max /\ 1 \in 0..Max
    BY <1>1, <1>3
  <2>4. (use_ptr + num_full') % Max = IF use_ptr + num_full' < Max THEN use_ptr + num_full'
                                      ELSE use_ptr + num_full' - Max
    BY <1>3, <2>3, Ring
  <2>5. (fill_ptr + 1) % Max = IF fill_ptr + 1 < Max THEN fill_ptr + 1 ELSE fill_ptr + 1 - Max
    BY <1>3, <2>2, <2>3, Ring
  <2> QED
    BY <1>1, <1>3, <2>1, <2>2, <2>4, <2>5
<1>5. buffer' \in [0..(Max - 1) -> Items]
  <2>1. Fifo!Value(t, made[t]) \in Items
    BY DEF Fifo!Value, Fifo!End, Items, BInv, Types
  <2> QED
    BY <1>4, <2>1 DEF Fill, BInv, Types
<1>6. Types'
  BY <1>1, <1>2, <1>3, <1>4, <1>5 DEF BInv, Types
<1>7. LockInv' /\ SleepInv'
  BY <1>1, <1>2 DEF BInv, Types, LockInv, SleepInv
<1>8. LoopInv'
  BY <1>1, <1>2 DEF BInv, Types, LoopInv
<1>9. SignalInv'
  <2>1. \A s \in Threads : pc[s] # "signal"
    BY <1>1 DEF BInv, LockInv
  <2> QED
    BY <1>1, <1>3, <2>1 DEF BInv, Types, SignalInv
<1>10. WokenInv'
  <2>1. \A s \in Threads : pc'[s] = "access" => pc[s] = "access" /\ ~program.retest
    BY <1>1 DEF BInv, Types, WokenInv
  <2>2. ASSUME ~program.retest, NEW s \in Threads, pc'[s] \in {"access", "asleep"}
        PROVE  ~Blocked(s)'
    <3>1. s # t /\ pc[s] # "lock" /\ pc[t] # "lock"
      BY <1>1, <2>2 DEF BInv, Types
    <3>2. s \notin Producers
      BY <1>1, <2>2, <3>1, Opposite
    <3> QED
      BY <1>1, <1>3, <3>2 DEF Blocked
  <2> QED
    BY <1>1, <2>1, <2>2 DEF WokenInv
<1>11. AssertsNeedSignals'
  BY <1>1 DEF BInv, AssertsNeedSignals
<1> QED
  BY <1>6, <1>7, <1>8, <1>9, <1>10, <1>11 DEF BInv

\* do_get keeps the pointers of the ring together, and leaves the threads past
\* an if what they wait for.
LEMMA GetBInv ==
  ASSUME BInv, NEW t \in Consumers, Get(t)
  PROVE  BInv'
<1>1. /\ pc[t] \in {"test", "access"} /\ pc' = [pc EXCEPT ![t] = "signal"] /\ t \in Threads
      /\ t \notin Producers /\ num_full # 0 /\ num_full' = num_full - 1
      /\ use_ptr' = (use_ptr + 1) % Max
      /\ tmp' = [tmp EXCEPT ![t] = buffer[use_ptr]]
      /\ UNCHANGED <<program, buffer, fill_ptr, m, sleepers, made, failed, spurious>>
  BY ThreadsAssumption DEF Get, Access, Blocked, Threads
<1>2. Max' = Max /\ CVs' = CVs /\ Ends' = Ends /\ \A s \in Threads : WaitsOn(s)' = WaitsOn(s)
  BY <1>1 DEF Max, CVs, Ends, WaitsOn, ProducerCV, ConsumerCV
<1>3. Max \in Nat \ {0} /\ num_full \in 0..Max /\ use_ptr \in 0..(Max - 1)
  BY Sides DEF BInv, Types
<1>4. fill_ptr = (use_ptr' + num_full') % Max /\ use_ptr' \in 0..(Max - 1)
  <2>1. fill_ptr = (use_ptr + num_full) % Max
    BY DEF BInv, Types
  <2>2. fill_ptr = IF use_ptr + num_full < Max THEN use_ptr + num_full
                   ELSE use_ptr + num_full - Max
    BY <1>3, <2>1, Ring
  <2>3. num_full' \in 0..Max /\ 1 \in 0..Max
    BY <1>1, <1>3
  <2>4. /\ use_ptr' = IF use_ptr + 1 < Max THEN use_ptr + 1 ELSE use_ptr + 1 - Max
        /\ use_ptr' \in 0..(Max - 1)
    BY <1>1, <1>3, <2>3, Ring
  <2>5. (use_ptr' + num_full') % Max = IF use_ptr' + num_full' < Max THEN use_ptr' + num_full'
                                       ELSE use_ptr' + num_full' - Max
    BY <1>3, <2>3, <2>4, Ring
  <2> QED
    BY <1>1, <1>3, <2>2, <2>4, <2>5
<1>5. tmp' \in [Consumers -> Items]
  BY <1>1, <1>3 DEF BInv, Types
<1>6. Types'
  <2>1. num_full' \in 0..Max
    BY <1>1, <1>3
  <2>2. pc' \in [Threads -> {"lock", "test", "asleep", "access", "signal", "unlock"}]
    BY <1>1 DEF BInv, Types
  <2>3. fill_ptr' = (use_ptr' + num_full') % Max /\ buffer' = buffer
    BY <1>1, <1>4
  <2> QED
    BY <1>1, <1>2, <1>4, <1>5, <2>1, <2>2, <2>3 DEF BInv, Types
<1>7. LockInv' /\ SleepInv'
  BY <1>1, <1>2 DEF BInv, Types, LockInv, SleepInv
<1>8. LoopInv'
  BY <1>1, <1>2 DEF BInv, Types, LoopInv
<1>9. SignalInv'
  <2>1. \A s \in Threads : pc[s] # "signal"
    BY <1>1 DEF BInv, LockInv
  <2> QED
    BY <1>1, <1>2, <1>3, <2>1 DEF BInv, Types, SignalInv
<1>10. WokenInv'
  <2>1. \A s \in Threads : pc'[s] = "access" => pc[s] = "access" /\ ~program.retest
    BY <1>1 DEF BInv, Types, WokenInv
  <2>2. ASSUME ~program.retest, NEW s \in Threads, pc'[s] \in {"access", "asleep"}
        PROVE  ~Blocked(s)'
    <3>1. s # t /\ pc[s] # "lock" /\ pc[t] # "lock"
      BY <1>1, <2>2 DEF BInv, Types
    <3>2. s \in Producers
      BY <1>1, <2>2, <3>1, Opposite
    <3> QED
      BY <1>1, <1>2, <1>3, <3>2 DEF Blocked
  <2> QED
    BY <1>1, <2>1, <2>2 DEF WokenInv
<1>11. AssertsNeedSignals'
  BY <1>1 DEF BInv, AssertsNeedSignals
<1> QED
  BY <1>6, <1>7, <1>8, <1>9, <1>10, <1>11 DEF BInv

\* Every step of the programs over condition variables keeps the invariant.
LEMMA NextBInv == BInv /\ Next => BInv'
  BY LockBInv, SleepBInv, WakeBInv, SignalBInv, UnlockBInv, AbortBInv, FillBInv, GetBInv,
     SpuriousBInv DEF Next, Step

------------------------------------------------------------------------------
(* No lost wake-up: n items, or slots, are covered by the threads that are   *)
(* awake to take them and those about to signal, if there are sleepers at all *)

Covered(asleep, awake, signalling, n) ==
    asleep # {} => n <= Cardinality(awake) + Cardinality(signalling)

\* More threads awake or about to signal, and no new sleeper, cover as many.
LEMMA CoverGrows ==
  ASSUME NEW z, NEW a, NEW g, NEW n \in Int, NEW z2, NEW a2, NEW g2, Covered(z, a, g, n),
         IsFiniteSet(a2), IsFiniteSet(g2), a \subseteq a2, g \subseteq g2, z2 # {} => z # {}
  PROVE  Covered(z2, a2, g2, n)
<1>1. /\ Cardinality(a) \in Nat /\ Cardinality(a2) \in Nat /\ Cardinality(a) <= Cardinality(a2)
      /\ Cardinality(g) \in Nat /\ Cardinality(g2) \in Nat /\ Cardinality(g) <= Cardinality(g2)
  BY FS_Subset, FS_CardinalityType
<1> QED
  BY <1>1 DEF Covered

\* A thread that was awake takes one.
LEMMA CoverTaken ==
  ASSUME NEW z, NEW a, NEW g, NEW n \in Int, Covered(z, a, g, n),
         IsFiniteSet(a), IsFiniteSet(g), NEW t \in a
  PROVE  Covered(z, a \ {t}, g, n - 1)
<1>1. /\ Cardinality(a) \in Nat /\ Cardinality(g) \in Nat
      /\ Cardinality(a \ {t}) = Cardinality(a) - 1
  BY FS_RemoveElement, FS_CardinalityType
<1> QED
  BY <1>1 DEF Covered

\* A thread that puts one is about to signal.
LEMMA CoverGiven ==
  ASSUME NEW z, NEW a, NEW g, NEW n \in Int, Covered(z, a, g, n),
         IsFiniteSet(a), IsFiniteSet(g), NEW t, t \notin g
  PROVE  Covered(z, a, g \cup {t}, n + 1)
<1>1. /\ Cardinality(a) \in Nat /\ Cardinality(g) \in Nat
      /\ Cardinality(g \cup {t}) = Cardinality(g) + 1
  BY FS_AddElement, FS_CardinalityType
<1> QED
  BY <1>1 DEF Covered

\* A signal passes the duty from the thread that sends it to the one it wakes.
LEMMA CoverPassed ==
  ASSUME NEW z, NEW a, NEW g, NEW n \in Int, Covered(z, a, g, n),
         IsFiniteSet(a), IsFiniteSet(g), NEW t \in g, NEW s, s \notin a, z # {}, NEW z2
  PROVE  Covered(z2, a \cup {s}, g \ {t}, n)
<1>1. /\ Cardinality(a) \in Nat /\ Cardinality(g) \in Nat
      /\ Cardinality(a \cup {s}) = Cardinality(a) + 1
      /\ Cardinality(g \ {t}) = Cardinality(g) - 1
  BY FS_AddElement, FS_RemoveElement, FS_CardinalityType
<1> QED
  BY <1>1 DEF Covered

ConsumersCovered ==
    Covered(sleepers[ConsumerCV], Awake(Consumers), Signalling(Producers), num_full)
ProducersCovered ==
    Covered(sleepers[ProducerCV], Awake(Producers), Signalling(Consumers), Max - num_full)

\* Awake in terms of the condition variable of the thread's own side
AwakeSide(T) == {t \in T : \/ pc[t] \in {"test", "access"}
                           \/ pc[t] = "asleep" /\ t \notin sleepers[WaitsOn(t)]}

\* A thread is awake when it does not sleep on the condition variable of its
\* side.
LEMMA AwakeIs ==
  ASSUME BInv, NEW T \in SUBSET Threads
  PROVE  Awake(T) = AwakeSide(T) /\ IsFiniteSet(Awake(T)) /\ IsFiniteSet(Signalling(T))
<1>1. \A t \in Threads : (\A cv \in CVs : t \notin sleepers[cv]) <=> t \notin sleepers[WaitsOn(t)]
  BY DEF BInv, SleepInv, CVs, WaitsOn
<1>2. Awake(T) = AwakeSide(T)
  BY <1>1 DEF Awake, AwakeSide
<1>3. IsFiniteSet(Threads) /\ Awake(T) \subseteq Threads /\ Signalling(T) \subseteq Threads
  BY ThreadsAssumption, FS_Union DEF Threads, Awake, Signalling
<1> QED
  BY <1>2, <1>3, FS_Subset

\* The same after a step.
LEMMA AwakeIsPrimed ==
  ASSUME BInv', NEW T \in SUBSET Threads
  PROVE  Awake(T)' = AwakeSide(T)' /\ IsFiniteSet(Awake(T)') /\ IsFiniteSet(Signalling(T)')
<1>1. \A t \in Threads : (\A cv \in CVs' : t \notin sleepers'[cv]) <=> t \notin sleepers'[WaitsOn(t)']
  BY DEF BInv, SleepInv, CVs, WaitsOn
<1>2. Awake(T)' = AwakeSide(T)'
  BY <1>1 DEF Awake, AwakeSide
<1>3. IsFiniteSet(Threads) /\ Awake(T)' \subseteq Threads /\ Signalling(T)' \subseteq Threads
  BY ThreadsAssumption, FS_Union DEF Threads, Awake, Signalling
<1> QED
  BY <1>2, <1>3, FS_Subset

\* A step changes neither the program nor its condition variables.
LEMMA StepKeepsProgram ==
  ASSUME Next
  PROVE  /\ UNCHANGED program
         /\ Max' = Max /\ ProducerCV' = ProducerCV /\ ConsumerCV' = ConsumerCV
         /\ \A t \in Threads : WaitsOn(t)' = WaitsOn(t)
<1>1. UNCHANGED program
  BY DEF Next, Step, Lock, Sleep, Wake, Signal, Unlock, Abort, Fill, Get, Spurious
<1> QED
  BY <1>1 DEF Max, ProducerCV, ConsumerCV, WaitsOn

\* Every step keeps the items and the free slots covered, where the two sides
\* have a condition variable each.
LEMMA NextCovered ==
  ASSUME BInv, BInv', Next, ProducerCV # ConsumerCV, ConsumersCovered, ProducersCovered
  PROVE  ConsumersCovered' /\ ProducersCovered'
<1> DEFINE AC == Awake(Consumers)
           AP == Awake(Producers)
           GC == Signalling(Consumers)
           GP == Signalling(Producers)
           ZC == sleepers[ConsumerCV]
           ZP == sleepers[ProducerCV]
<1>0. /\ Max' = Max /\ ProducerCV' = ProducerCV /\ ConsumerCV' = ConsumerCV
      /\ \A t \in Threads : WaitsOn(t)' = WaitsOn(t)
  BY StepKeepsProgram
<1>1. /\ num_full \in Int /\ Max \in Int /\ Max - num_full \in Int
      /\ Producers \in SUBSET Threads /\ Consumers \in SUBSET Threads
      /\ Producers \cap Consumers = {}
      /\ ProducerCV \in CVs /\ ConsumerCV \in CVs
      /\ \A t \in Producers : WaitsOn(t) = ProducerCV
      /\ \A t \in Consumers : WaitsOn(t) = ConsumerCV
  <2>1. num_full \in Int /\ Max \in Int
    BY Sides DEF BInv, Types
  <2> QED
    BY <2>1, ThreadsAssumption DEF Threads, CVs, WaitsOn
<1>2. /\ AC = AwakeSide(Consumers) /\ IsFiniteSet(AC) /\ IsFiniteSet(GC)
      /\ AP = AwakeSide(Producers) /\ IsFiniteSet(AP) /\ IsFiniteSet(GP)
  BY <1>1, AwakeIs
<1>3. /\ AC' = AwakeSide(Consumers)' /\ IsFiniteSet(AC') /\ IsFiniteSet(GC')
      /\ AP' = AwakeSide(Producers)' /\ IsFiniteSet(AP') /\ IsFiniteSet(GP')
  BY <1>1, AwakeIsPrimed
<1>4. /\ Covered(ZC, AC, GP, num_full) /\ Covered(ZP, AP, GC, Max - num_full)
  BY DEF ConsumersCovered, ProducersCovered
<1> HIDE DEF AC, AP, GC, GP, ZC, ZP
<1>5. SUFFICES Covered(ZC', AC', GP', num_full') /\ Covered(ZP', AP', GC', Max - num_full')
  BY <1>0 DEF ConsumersCovered, ProducersCovered, AC, AP, GC, GP, ZC, ZP
\* steps that put nobody to sleep and neither fill nor take
<1>6. ASSUME UNCHANGED num_full, AC \subseteq AC', AP \subseteq AP', GC = GC', GP = GP',
             ZC' # {} => ZC # {}, ZP' # {} => ZP # {}
      PROVE  Covered(ZC', AC', GP', num_full') /\ Covered(ZP', AP', GC', Max - num_full')
  BY <1>1, <1>2, <1>3, <1>4, <1>6, CoverGrows
<1>7. ASSUME NEW t \in Threads, Lock(t) \/ Wake(t) \/ Unlock(t) \/ Abort(t)
      PROVE  Covered(ZC', AC', GP', num_full') /\ Covered(ZP', AP', GC', Max - num_full')
  <2>1. UNCHANGED <<num_full, sleepers>>
    BY <1>7 DEF Lock, Wake, Unlock, Abort, bvars
  <2>2. \/ pc[t] = "lock" /\ pc' = [pc EXCEPT ![t] = "test"]
        \/ pc[t] = "asleep" /\ pc' = [pc EXCEPT ![t] = IF program.retest THEN "test" ELSE "access"]
        \/ pc[t] = "unlock" /\ pc' = [pc EXCEPT ![t] = "lock"]
        \/ pc' = pc
    BY <1>7 DEF Lock, Wake, Unlock, Abort, Goto
  <2>3. AC \subseteq AC' /\ AP \subseteq AP'
    BY <1>0, <1>1, <1>2, <1>3, <2>1, <2>2 DEF AwakeSide, BInv, Types
  <2>4. GC = GC' /\ GP = GP'
    BY <1>1, <2>2 DEF GC, GP, Signalling, BInv, Types
  <2> QED
    BY <1>0, <1>6, <2>1, <2>3, <2>4 DEF ZC, ZP
<1>8. ASSUME NEW t \in Threads, Spurious(t)
      PROVE  Covered(ZC', AC', GP', num_full') /\ Covered(ZP', AP', GC', Max - num_full')
  <2>1. /\ UNCHANGED <<num_full, pc>> /\ WaitsOn(t) \in CVs
        /\ sleepers' = [sleepers EXCEPT ![WaitsOn(t)] = @ \ {t}]
    BY <1>8 DEF Spurious, bvars, WaitsOn, CVs
  <2>2. AC \subseteq AC' /\ AP \subseteq AP'
    BY <1>0, <1>1, <1>2, <1>3, <2>1 DEF AwakeSide, BInv, Types
  <2>3. GC = GC' /\ GP = GP'
    BY <2>1 DEF GC, GP, Signalling
  <2>4. (ZC' # {} => ZC # {}) /\ (ZP' # {} => ZP # {})
    BY <1>0, <1>1, <2>1 DEF ZC, ZP, BInv, Types
  <2> QED
    BY <1>6, <2>1, <2>2, <2>3, <2>4
\* a thread goes to sleep when there is nothing to take, and the other side
\* is as it was
<1>9. ASSUME NEW t \in Threads, Sleep(t)
      PROVE  Covered(ZC', AC', GP', num_full') /\ Covered(ZP', AP', GC', Max - num_full')
  <2>1. /\ UNCHANGED num_full /\ pc[t] = "test" /\ pc' = [pc EXCEPT ![t] = "asleep"]
        /\ sleepers' = [sleepers EXCEPT ![WaitsOn(t)] = @ \cup {t}] /\ Blocked(t)
    BY <1>9 DEF Sleep, Goto, bvars
  <2>2. GC = GC' /\ GP = GP'
    BY <1>1, <2>1 DEF GC, GP, Signalling, BInv, Types
  <2>3. /\ Cardinality(AC') \in Nat /\ Cardinality(GC') \in Nat
        /\ Cardinality(AP') \in Nat /\ Cardinality(GP') \in Nat
    BY <1>3, FS_CardinalityType
  <2>4. CASE t \in Producers
    <3>1. AC' = AC
      BY <1>0, <1>1, <1>2, <1>3, <2>1, <2>4 DEF AwakeSide, BInv, Types
    <3>2. ZC' = ZC
      BY <1>0, <1>1, <2>1, <2>4 DEF ZC, BInv, Types
    <3>3. Max - num_full' = 0
      BY <1>1, <2>1, <2>4 DEF Blocked
    <3> QED
      BY <1>4, <2>1, <2>2, <2>3, <3>1, <3>2, <3>3 DEF Covered
  <2>5. CASE t \in Consumers
    <3>1. AP' = AP
      BY <1>0, <1>1, <1>2, <1>3, <2>1, <2>5 DEF AwakeSide, BInv, Types
    <3>2. ZP' = ZP
      BY <1>0, <1>1, <2>1, <2>5 DEF ZP, BInv, Types
    <3>3. num_full' = 0
      BY <1>1, <2>1, <2>5 DEF Blocked
    <3> QED
      BY <1>4, <2>1, <2>2, <2>3, <3>1, <3>2, <3>3 DEF Covered
  <2> QED
    BY <2>4, <2>5 DEF Threads
\* a producer takes a slot and gives an item that it is about to signal
<1>10. ASSUME NEW t \in Producers, Fill(t)
       PROVE  Covered(ZC', AC', GP', num_full') /\ Covered(ZP', AP', GC', Max - num_full')
  <2>1. /\ pc[t] \in {"test", "access"} /\ pc' = [pc EXCEPT ![t] = "signal"]
        /\ num_full' = num_full + 1 /\ UNCHANGED sleepers
    BY <1>10 DEF Fill, Access
  <2>2. ZC' = ZC /\ ZP' = ZP
    BY <1>0, <2>1 DEF ZC, ZP
  <2>3. AC' = AC /\ t \in AP /\ AP' = AP \ {t}
    BY <1>0, <1>1, <1>2, <1>3, <2>1 DEF AwakeSide, BInv, Types
  <2>4. GC' = GC /\ t \notin GP /\ GP' = GP \cup {t}
    BY <1>1, <2>1 DEF GC, GP, Signalling, BInv, Types
  <2>5. Covered(ZC, AC, GP \cup {t}, num_full + 1)
    BY <1>1, <1>2, <1>4, <2>4, CoverGiven
  <2>6. Covered(ZP, AP \ {t}, GC, (Max - num_full) - 1)
    BY <1>1, <1>2, <1>4, <2>3, CoverTaken
  <2>7. Max - num_full' = (Max - num_full) - 1
    BY <1>1, <2>1
  <2> QED
    BY <2>1, <2>2, <2>3, <2>4, <2>5, <2>6, <2>7
\* and a consumer the other way round
<1>11. ASSUME NEW t \in Consumers, Get(t)
       PROVE  Covered(ZC', AC', GP', num_full') /\ Covered(ZP', AP', GC', Max - num_full')
  <2>1. /\ pc[t] \in {"test", "access"} /\ pc' = [pc EXCEPT ![t] = "signal"]
        /\ num_full' = num_full - 1 /\ UNCHANGED sleepers
    BY <1>11 DEF Get, Access
  <2>2. ZC' = ZC /\ ZP' = ZP
    BY <1>0, <2>1 DEF ZC, ZP
  <2>3. AP' = AP /\ t \in AC /\ AC' = AC \ {t}
    BY <1>0, <1>1, <1>2, <1>3, <2>1 DEF AwakeSide, BInv, Types
  <2>4. GP' = GP /\ t \notin GC /\ GC' = GC \cup {t}
    BY <1>1, <2>1 DEF GC, GP, Signalling, BInv, Types
  <2>5. Covered(ZP, AP, GC \cup {t}, (Max - num_full) + 1)
    BY <1>1, <1>2, <1>4, <2>4, CoverGiven
  <2>6. Covered(ZC, AC \ {t}, GP, num_full - 1)
    BY <1>1, <1>2, <1>4, <2>3, CoverTaken
  <2>7. Max - num_full' = (Max - num_full) + 1
    BY <1>1, <2>1
  <2> QED
    BY <2>1, <2>2, <2>3, <2>4, <2>5, <2>6, <2>7
\* the signal hands the cover over to the thread it wakes, which is of the
\* other side
<1>12. ASSUME NEW t \in Threads, Signal(t)
       PROVE  Covered(ZC', AC', GP', num_full') /\ Covered(ZP', AP', GC', Max - num_full')
  <2>1. /\ UNCHANGED num_full /\ pc[t] = "signal" /\ pc' = [pc EXCEPT ![t] = "unlock"]
    BY <1>12 DEF Signal, Goto, bvars
  <2>2. /\ \/ sleepers' = [sleepers EXCEPT ![Wakes(t)] = {}]
           \/ \E s \in sleepers[Wakes(t)] : sleepers' = [sleepers EXCEPT ![Wakes(t)] = @ \ {s}]
    BY <1>12 DEF Signal
  <2>3. CASE t \in Producers
    <3>1. Wakes(t) = ConsumerCV /\ t \notin Consumers
      BY <1>1, <2>3 DEF Wakes
    <3>2. ZP' = ZP
      BY <1>0, <1>1, <2>2, <3>1 DEF ZP, BInv, Types
    <3>3. AP' = AP
      BY <1>0, <1>1, <1>2, <1>3, <2>1, <2>2, <3>1 DEF AwakeSide, BInv, Types
    <3>4. GC' = GC /\ t \in GP /\ GP' = GP \ {t}
      BY <1>1, <2>1, <2>3, <3>1 DEF GC, GP, Signalling, BInv, Types
    <3>5. CASE sleepers' = [sleepers EXCEPT ![Wakes(t)] = {}]
      <4>1. ZC' = {}
        BY <1>0, <1>1, <3>1, <3>5 DEF ZC, BInv, Types
      <4> QED
        BY <1>4, <2>1, <3>2, <3>3, <3>4, <4>1, <1>0 DEF Covered
    <3>6. ASSUME NEW s \in sleepers[Wakes(t)],
                 sleepers' = [sleepers EXCEPT ![Wakes(t)] = @ \ {s}]
          PROVE  Covered(ZC', AC', GP', num_full')
      <4>1. s \in Consumers /\ pc[s] = "asleep" /\ s \in sleepers[WaitsOn(s)] /\ ZC # {}
        BY <1>1, <3>1, <3>6 DEF BInv, Types, SleepInv, WaitsOn, Threads, ZC
      <4>2. s \notin AC /\ AC' = AC \cup {s}
        BY <1>0, <1>1, <1>2, <1>3, <2>1, <3>1, <3>6, <4>1 DEF AwakeSide, BInv, Types
      <4>3. Covered(ZC', AC \cup {s}, GP \ {t}, num_full)
        BY <1>1, <1>2, <1>4, <3>4, <4>1, <4>2, CoverPassed
      <4> QED
        BY <2>1, <3>4, <4>2, <4>3
    <3> QED
      BY <1>0, <1>4, <2>1, <2>2, <3>2, <3>3, <3>4, <3>5, <3>6
  <2>4. CASE t \in Consumers
    <3>1. Wakes(t) = ProducerCV /\ t \notin Producers
      BY <1>1, <2>4 DEF Wakes
    <3>2. ZC' = ZC
      BY <1>0, <1>1, <2>2, <3>1 DEF ZC, BInv, Types
    <3>3. AC' = AC
      BY <1>0, <1>1, <1>2, <1>3, <2>1, <2>2, <3>1 DEF AwakeSide, BInv, Types
    <3>4. GP' = GP /\ t \in GC /\ GC' = GC \ {t}
      BY <1>1, <2>1, <2>4, <3>1 DEF GC, GP, Signalling, BInv, Types
    <3>5. CASE sleepers' = [sleepers EXCEPT ![Wakes(t)] = {}]
      <4>1. ZP' = {}
        BY <1>0, <1>1, <3>1, <3>5 DEF ZP, BInv, Types
      <4> QED
        BY <1>4, <2>1, <3>2, <3>3, <3>4, <4>1, <1>0 DEF Covered
    <3>6. ASSUME NEW s \in sleepers[Wakes(t)],
                 sleepers' = [sleepers EXCEPT ![Wakes(t)] = @ \ {s}]
          PROVE  Covered(ZP', AP', GC', Max - num_full')
      <4>1. s \in Producers /\ pc[s] = "asleep" /\ s \in sleepers[WaitsOn(s)] /\ ZP # {}
        BY <1>1, <3>1, <3>6 DEF BInv, Types, SleepInv, WaitsOn, Threads, ZP
      <4>2. s \notin AP /\ AP' = AP \cup {s}
        BY <1>0, <1>1, <1>2, <1>3, <2>1, <3>1, <3>6, <4>1 DEF AwakeSide, BInv, Types
      <4>3. Covered(ZP', AP \cup {s}, GC \ {t}, Max - num_full)
        BY <1>1, <1>2, <1>4, <3>4, <4>1, <4>2, CoverPassed
      <4> QED
        BY <2>1, <3>4, <4>2, <4>3
    <3> QED
      BY <1>0, <1>4, <2>1, <2>2, <3>2, <3>3, <3>4, <3>5, <3>6
  <2> QED
    BY <2>3, <2>4 DEF Threads
<1> QED
  BY <1>7, <1>8, <1>9, <1>10, <1>11, <1>12 DEF Next, Step

------------------------------------------------------------------------------
(* The ring buffer is a queue *)

\* b is a ring of n places with values in S
IsRing(n, b, S) == n \in Nat \ {0} /\ b \in [0..(n - 1) -> S]

\* the position k places after u, and the ring with v at position i
Ahead(n, u, k)    == (u + k) % n
Written(b, i, v) == [b EXCEPT ![i] = v]

\* k values of the ring, from position u on
RingSeq(n, b, u, k) == [i \in 1..k |-> b[(u + i - 1) % n]]

\* The i-th place from u on, before and after the end of the ring.
LEMMA RingPosition ==
  ASSUME NEW n \in Nat \ {0}, NEW u \in 0..(n - 1), NEW i \in 1..(n + 1)
  PROVE  /\ (u + i - 1) % n = IF u + i - 1 < n THEN u + i - 1 ELSE u + i - 1 - n
         /\ (u + i - 1) % n \in 0..(n - 1)
<1>1. (u + i - 1) % n = IF u + i - 1 < n THEN u + i - 1 ELSE u + i - 1 - n
  OBVIOUS
<1> QED
  BY <1>1

\* A stretch of the ring is a sequence.
LEMMA RingIsSeq ==
  ASSUME NEW n, NEW S, NEW b, IsRing(n, b, S), NEW u \in 0..(n - 1), NEW k \in 0..n
  PROVE  RingSeq(n, b, u, k) \in Seq(S) /\ Len(RingSeq(n, b, u, k)) = k
<1> DEFINE q == RingSeq(n, b, u, k)
<1>r. n \in Nat \ {0} /\ b \in [0..(n - 1) -> S]
  BY DEF IsRing
<1> USE <1>r
<1>1. \A i \in 1..k : (u + i - 1) % n \in 0..(n - 1)
  <2> TAKE i \in 1..k
  <2>1. i \in 1..(n + 1)
    OBVIOUS
  <2> QED
    BY <2>1, RingPosition
<1>2. q \in [1..k -> S] /\ k \in Nat
  BY <1>1 DEF RingSeq
<1> HIDE DEF q
<1>3. q \in Seq(S)
  BY <1>2, SeqDef
<1>4. DOMAIN q = 1..k /\ DOMAIN q = 1..Len(q) /\ Len(q) \in Nat
  BY <1>2, <1>3, LenProperties
<1>5. Len(q) = k
  BY <1>2, <1>4
<1> QED
  BY <1>3, <1>5 DEF q

\* Storing behind a stretch that leaves a place free appends to it.
LEMMA RingPut ==
  ASSUME NEW n, NEW S, NEW b, IsRing(n, b, S), NEW v \in S,
         NEW u \in 0..(n - 1), NEW k \in 0..(n - 1)
  PROVE  RingSeq(n, Written(b, Ahead(n, u, k), v), u, k + 1) = Append(RingSeq(n, b, u, k), v)
<1> DEFINE b2 == Written(b, Ahead(n, u, k), v)
           q  == RingSeq(n, b, u, k)
           q2 == RingSeq(n, b2, u, k + 1)
<1>r. n \in Nat \ {0} /\ b \in [0..(n - 1) -> S]
  BY DEF IsRing
<1> USE <1>r
<1>0. k \in 0..n /\ k + 1 \in 0..n
  OBVIOUS
<1>1. (u + k) % n = (IF u + k < n THEN u + k ELSE u + k - n) /\ (u + k) % n \in 0..(n - 1)
  BY <1>0, Ring
<1>9. b2 = [b EXCEPT ![(u + k) % n] = v]
  BY DEF Written, Ahead
<1>2. IsRing(n, b2, S)
  BY <1>1, <1>9 DEF IsRing
<1> HIDE DEF b2
<1>3. q \in Seq(S) /\ Len(q) = k
  <2>1. k \in 0..n /\ u \in 0..(n - 1) /\ IsRing(n, b, S)
    BY <1>0
  <2> HIDE <1>r
  <2> QED
    BY <2>1, RingIsSeq
<1>4. q2 \in Seq(S) /\ Len(q2) = k + 1
  BY <1>0, <1>2, RingIsSeq
<1>7. /\ q = [i \in 1..k |-> b[(u + i - 1) % n]]
      /\ q2 = [i \in 1..(k + 1) |-> b2[(u + i - 1) % n]]
  BY DEF RingSeq
<1> HIDE DEF q, q2
<1>5. ASSUME NEW i \in 1..(k + 1) PROVE q2[i] = Append(q, v)[i]
  <2>0. i \in 1..(n + 1)
    OBVIOUS
  <2>1. /\ (u + i - 1) % n = IF u + i - 1 < n THEN u + i - 1 ELSE u + i - 1 - n
        /\ (u + i - 1) % n \in 0..(n - 1)
    BY <2>0, RingPosition
  <2>2. CASE i = k + 1
    <3>1. (u + i - 1) % n = (u + k) % n
      BY <2>2
    <3>2. q2[i] = v
      BY <1>1, <1>7, <1>9, <3>1
    <3> QED
      BY <1>3, <2>2, <3>2
  <2>3. CASE i # k + 1
    <3>1. (u + i - 1) % n # (u + k) % n
      <4> DEFINE x == (u + i - 1) % n
                 y == (u + k) % n
      <4>1. x = IF u + i - 1 < n THEN u + i - 1 ELSE u + i - 1 - n
        BY <2>1
      <4>2. y = IF u + k < n THEN u + k ELSE u + k - n
        BY <1>1
      <4>3. i - 1 < k /\ k < n /\ i \in Int /\ i >= 1 /\ u \in Nat
        BY <2>3
      <4> HIDE DEF x, y
      <4>4. x # y
        BY <4>1, <4>2, <4>3
      <4> QED
        BY <4>4 DEF x, y
    <3>2. q2[i] = b[(u + i - 1) % n]
      BY <1>7, <1>9, <2>1, <3>1
    <3>3. i \in 1..k /\ q2[i] = q[i]
      BY <1>7, <2>3, <3>2
    <3> QED
      BY <1>3, <3>3
  <2> QED
    BY <2>2, <2>3
<1>6. Append(q, v) \in Seq(S) /\ Len(Append(q, v)) = k + 1
  BY <1>3
<1>8. q2 = Append(q, v)
  BY <1>4, <1>5, <1>6, SeqEqual
<1> QED
  BY <1>8 DEF q, q2, b2

\* The first place of a stretch is its head, and advancing the start leaves
\* its tail.
LEMMA RingGet ==
  ASSUME NEW n, NEW S, NEW b, IsRing(n, b, S), NEW u \in 0..(n - 1), NEW k \in 1..n
  PROVE  /\ RingSeq(n, b, u, k) # <<>> /\ Head(RingSeq(n, b, u, k)) = b[u]
         /\ RingSeq(n, b, Ahead(n, u, 1), k - 1) = Tail(RingSeq(n, b, u, k))
<1> DEFINE u2 == Ahead(n, u, 1)
           q  == RingSeq(n, b, u, k)
           q2 == RingSeq(n, b, u2, k - 1)
<1>r. n \in Nat \ {0} /\ b \in [0..(n - 1) -> S]
  BY DEF IsRing
<1> USE <1>r
<1>0. k \in 0..n /\ k - 1 \in 0..n /\ 1 \in 0..n /\ 1 \in 1..k
  OBVIOUS
<1>1. u2 = (IF u + 1 < n THEN u + 1 ELSE u + 1 - n) /\ u2 \in 0..(n - 1)
  BY <1>0, Ring DEF Ahead
<1> HIDE DEF u2
<1>2. q \in Seq(S) /\ Len(q) = k
  <2>1. k \in 0..n /\ u \in 0..(n - 1) /\ IsRing(n, b, S)
    BY <1>0
  <2> HIDE <1>r
  <2> QED
    BY <2>1, RingIsSeq
<1>3. q2 \in Seq(S) /\ Len(q2) = k - 1
  <2>1. k - 1 \in 0..n /\ u2 \in 0..(n - 1) /\ IsRing(n, b, S)
    BY <1>0, <1>1
  <2> HIDE <1>r
  <2> QED
    BY <2>1, RingIsSeq
<1>10. /\ q = [i \in 1..k |-> b[(u + i - 1) % n]]
       /\ q2 = [i \in 1..(k - 1) |-> b[(u2 + i - 1) % n]]
  BY DEF RingSeq
<1> HIDE DEF q, q2
<1>8. q # <<>>
  BY <1>2, Len(<<>>) = 0
<1>4. Head(q) = b[u]
  <2>1. u + 1 - 1 = u /\ u % n = u
    <3>1. 0 \in 0..n /\ u + 0 = u /\ u < n /\ u + 1 - 1 = u
      OBVIOUS
    <3>2. (u + 0) % n = IF u + 0 < n THEN u + 0 ELSE u + 0 - n
      BY <3>1, Ring
    <3> QED
      BY <3>1, <3>2
  <2>2. q[1] = b[u]
    BY <1>0, <1>10, <2>1
  <2> QED
    BY <1>2, <1>8, <2>2, HeadTailProperties
<1>5. ASSUME NEW i \in 1..(k - 1) PROVE q2[i] = q[i + 1]
  <2>0. i \in 1..(n + 1) /\ i + 1 \in 1..(n + 1) /\ i + 1 \in 1..k
    OBVIOUS
  <2>1. (u2 + i - 1) % n = IF u2 + i - 1 < n THEN u2 + i - 1 ELSE u2 + i - 1 - n
    BY <1>1, <2>0, RingPosition
  <2>2. (u + (i + 1) - 1) % n = IF u + (i + 1) - 1 < n THEN u + (i + 1) - 1
                                ELSE u + (i + 1) - 1 - n
    BY <2>0, RingPosition
  <2>3. (u2 + i - 1) % n = (u + (i + 1) - 1) % n
    <3> DEFINE x == (u2 + i - 1) % n
               y == (u + (i + 1) - 1) % n
    <3>1. x = IF u2 + i - 1 < n THEN u2 + i - 1 ELSE u2 + i - 1 - n
      BY <2>1
    <3>2. y = IF u + (i + 1) - 1 < n THEN u + (i + 1) - 1 ELSE u + (i + 1) - 1 - n
      BY <2>2
    <3>3. u2 = (IF u + 1 < n THEN u + 1 ELSE u + 1 - n) /\ u \in Nat /\ u < n
      BY <1>1
    <3> HIDE DEF x, y
    <3>4. x = y
      BY <2>0, <3>1, <3>2, <3>3
    <3> QED
      BY <3>4 DEF x, y
  <2> QED
    BY <1>10, <2>0, <2>3
<1>6. Tail(q) \in Seq(S) /\ Len(Tail(q)) = k - 1 /\ \A i \in 1..(k - 1) : Tail(q)[i] = q[i + 1]
  BY <1>2, <1>8, HeadTailProperties
<1>9. ASSUME NEW i \in 1..Len(q2) PROVE q2[i] = Tail(q)[i]
  BY <1>3, <1>5, <1>6
<1>7. q2 = Tail(q)
  <2> QED
    BY <1>3, <1>6, <1>9, SeqEqual
<1> QED
  BY <1>8, <1>4, <1>7 DEF q, q2, u2

------------------------------------------------------------------------------
(* The programs over condition variables refine the queue *)

\* what the specification of the queue sees of a step of these programs
LEMMA QueueIsContents ==
  ASSUME ~Semaphores, program' = program
  PROVE  /\ ~Semaphores' /\ Max' = Max
         /\ (IF Semaphores THEN SB!Contents ELSE Contents) = Contents
         /\ (IF Semaphores THEN SB!Contents ELSE Contents)' = Contents'
  BY DEF Semaphores, Max

\* The ring buffer holds num_full items.
LEMMA ContentsIsSeq ==
  ASSUME Types
  PROVE  Contents \in Seq(Items) /\ Len(Contents) = num_full
<1>1. IsRing(Max, buffer, Items) /\ use_ptr \in 0..(Max - 1) /\ num_full \in 0..Max
  BY Sides DEF Types, IsRing
<1>2. Contents = RingSeq(Max, buffer, use_ptr, num_full)
  BY DEF Contents, RingSeq
<1> QED
  BY <1>1, <1>2, RingIsSeq

\* do_fill appends what it stores to the queue
LEMMA FillIsPut ==
  ASSUME BInv, ~Semaphores, NEW p \in Producers, Fill(p)
  PROVE  Queue!Put(p)
<1>1. /\ ~Blocked(p) /\ pc[p] \in {"test", "access"}
      /\ UNCHANGED <<program, use_ptr, tmp>>
      /\ num_full' = num_full + 1
      /\ made' = [made EXCEPT ![p] = @ + 1]
      /\ buffer' = [buffer EXCEPT ![fill_ptr] = Fifo!Value(p, made[p])]
  BY DEF Fill, Access
<1>2. /\ Max \in Nat \ {0} /\ IsRing(Max, buffer, Items) /\ use_ptr \in 0..(Max - 1)
      /\ num_full \in 0..Max /\ fill_ptr = (use_ptr + num_full) % Max
      /\ made \in [Producers -> Nat]
  BY Sides DEF BInv, Types, IsRing
<1>3. num_full \in 0..(Max - 1)
  BY <1>1, <1>2 DEF Blocked
<1>4. Fifo!Value(p, made[p]) \in Items /\ Fifo!Value(p, made[p]) = Queue!Value(p, made[p])
  BY <1>2 DEF Fifo!Value, Queue!Value, Fifo!End, Queue!End, Items
<1>5. /\ Contents = RingSeq(Max, buffer, use_ptr, num_full)
      /\ Contents' = RingSeq(Max, buffer', use_ptr, num_full + 1)
  BY <1>1, QueueIsContents DEF Contents, RingSeq
<1> DEFINE v == Fifo!Value(p, made[p])
<1>6. buffer' = Written(buffer, Ahead(Max, use_ptr, num_full), v) /\ v \in Items
  BY <1>1, <1>2, <1>4 DEF Written, Ahead
<1> HIDE DEF v
<1>8. Contents' = Append(Contents, v)
  BY <1>2, <1>3, <1>5, <1>6, RingPut
<1>9. Len(Contents) < Max
  BY <1>3, <1>2, ContentsIsSeq DEF BInv
<1>10. made[p] < Loops + Cardinality(Consumers)
  <2>1. made[p] < Loops + Ends /\ made[p] \in Nat
    BY <1>1, <1>2 DEF BInv, LoopInv, Threads
  <2>2. Types
    BY DEF BInv
  <2> QED
    BY <2>1, <2>2, Sides
<1>11. v = Queue!Value(p, made[p])
  BY <1>4 DEF v
<1> QED
  BY <1>1, <1>8, <1>9, <1>10, <1>11, QueueIsContents DEF Queue!Put

\* do_get takes the head of the queue
LEMMA GetIsGet ==
  ASSUME BInv, ~Semaphores, NEW c \in Consumers, Get(c)
  PROVE  Queue!Get(c)
<1>1. /\ ~Blocked(c)
      /\ UNCHANGED <<program, buffer, made>>
      /\ use_ptr' = (use_ptr + 1) % Max
      /\ num_full' = num_full - 1
      /\ tmp' = [tmp EXCEPT ![c] = buffer[use_ptr]]
  BY DEF Get, Access
<1>2. /\ Max \in Nat \ {0} /\ IsRing(Max, buffer, Items) /\ use_ptr \in 0..(Max - 1)
      /\ num_full \in 0..Max
  BY Sides DEF BInv, Types, IsRing
<1>3. num_full \in 1..Max
  BY <1>1, <1>2, ThreadsAssumption DEF Blocked
<1>4. /\ Contents = RingSeq(Max, buffer, use_ptr, num_full)
      /\ Contents' = RingSeq(Max, buffer, Ahead(Max, use_ptr, 1), num_full - 1)
  BY <1>1, QueueIsContents DEF Contents, RingSeq, Ahead
<1>5. Contents # <<>> /\ Head(Contents) = buffer[use_ptr] /\ Contents' = Tail(Contents)
  BY <1>2, <1>3, <1>4, RingGet
<1> QED
  BY <1>1, <1>5, QueueIsContents DEF Queue!Get

\* every other step leaves the queue alone
LEMMA OthersStutter ==
  ASSUME BInv, ~Semaphores, UNCHANGED <<program, bvars, made, tmp>>
  PROVE  UNCHANGED Queue!vars
<1>1. Contents' = Contents
  BY QueueIsContents DEF Contents, bvars
<1> QED
  BY <1>1, QueueIsContents DEF Queue!vars

\* Every step of the programs over condition variables is a step of the queue
\* or invisible to it.
LEMMA NextRefines ==
  ASSUME BInv, ~Semaphores, Next
  PROVE  [Queue!Next]_(Queue!vars)
<1>1. PICK t \in Threads : Step(t) \/ Spurious(t)
  BY DEF Next
<1>2. CASE t \in Producers /\ Fill(t)
  BY <1>2, FillIsPut DEF Queue!Next
<1>3. CASE t \in Consumers /\ Get(t)
  BY <1>3, GetIsGet DEF Queue!Next
<1>4. CASE Lock(t) \/ Sleep(t) \/ Wake(t) \/ Signal(t) \/ Unlock(t) \/ Abort(t) \/ Spurious(t)
  <2>1. UNCHANGED <<program, bvars, made, tmp>>
    BY <1>4 DEF Lock, Sleep, Wake, Signal, Unlock, Abort, Spurious
  <2> QED
    BY <2>1, OthersStutter
<1> QED
  BY <1>1, <1>2, <1>3, <1>4 DEF Step

------------------------------------------------------------------------------
(* The program over semaphores: the invariant *)

\* how many of the threads U are at one of the statements L
At(at, U, L) == Cardinality({t \in U : at[t] \in L})

SemLabels == {"wait", "lock", "access", "unlock", "post"}
Hold == {"lock", "access"}     (* after the wait for a slot or a value     *)
Done == {"unlock", "post"}     (* after do_fill or do_get                  *)

SemTypes == /\ Semaphores
            /\ buffer \in [0..1 -> Items] /\ use_ptr \in 0..1
            /\ pc \in [Threads -> SemLabels]
            /\ empty \in Nat /\ full \in Nat
            /\ made \in [Producers -> Nat]

\* each of the two slots is free, promised to a producer, full, or emptied by
\* a consumer that has not yet said so
SlotsInv == empty + At(pc, Producers, Hold) + SB!Stored + At(pc, Consumers, Done) = 2

\* the fill pointer is behind the values that are stored
PointerInv == fill_ptr = Ahead(2, use_ptr, SB!Stored)

SemLoopInv == \A p \in Producers : pc[p] \in Hold => made[p] < Loops + SB!Ends

\* nobody uses the condition variables
SemRest == /\ sleepers = [cv \in CVs |-> {}] /\ failed = FALSE

SemInv == SemTypes /\ SlotsInv /\ PointerInv /\ SemLoopInv /\ SemRest

------------------------------------------------------------------------------
\* A count of finitely many threads is a natural number.
LEMMA AtIsNat ==
  ASSUME NEW U, IsFiniteSet(U), NEW at, NEW L
  PROVE  At(at, U, L) \in Nat
<1>1. IsFiniteSet({x \in U : at[x] \in L})
  BY FS_Subset
<1> QED
  BY <1>1, FS_CardinalityType DEF At

\* a thread that goes to another statement leaves and enters at most one count
LEMMA CountMove ==
  ASSUME NEW U, IsFiniteSet(U), NEW W, NEW V, U \subseteq W, NEW at \in [W -> V],
         NEW t \in W, NEW l \in V, NEW L
  PROVE  At(Written(at, t, l), U, L) = At(at, U, L)
           - (IF t \in U /\ at[t] \in L THEN 1 ELSE 0) + (IF t \in U /\ l \in L THEN 1 ELSE 0)
<1> DEFINE before == {x \in U : at[x] \in L}
           after  == {x \in U : Written(at, t, l)[x] \in L}
           rest   == {x \in U \ {t} : at[x] \in L}
<1>1. /\ before = IF t \in U /\ at[t] \in L THEN rest \cup {t} ELSE rest
      /\ after = IF t \in U /\ l \in L THEN rest \cup {t} ELSE rest
  BY DEF Written
<1>2. IsFiniteSet(rest) /\ t \notin rest
  BY FS_Subset
<1>3. Cardinality(rest) \in Nat /\ Cardinality(rest \cup {t}) = Cardinality(rest) + 1
  <2> HIDE DEF rest
  <2> QED
    BY <1>2, FS_AddElement, FS_CardinalityType
<1>4. At(at, U, L) = Cardinality(before) /\ At(Written(at, t, l), U, L) = Cardinality(after)
  BY DEF At
<1> HIDE DEF before, after, rest
<1> QED
  BY <1>1, <1>3, <1>4

\* Module SemBuffer counts as this one does.
LEMMA SameCardinality == ASSUME NEW X PROVE SB!Cardinality(X) = Cardinality(X)
  BY DEF SB!Cardinality, Cardinality

\* The threads of producer_consumer_works.c are threads, and it has no more
\* end markers than there are consumers.
LEMMA SemSides ==
  /\ producer_consumer_works.threads = {p1, c1, c2}
  /\ {p1, c1, c2} \subseteq Threads
  /\ SB!Ends \in Nat /\ SB!Ends <= Cardinality(Consumers) /\ Cardinality(Consumers) \in Nat
  /\ Loops \in Nat
<1>1. producer_consumer_works.threads = {p1, c1, c2}
  BY DEF producer_consumer_works
<1>2. {p1, c1, c2} \subseteq Threads
  BY WorksAssumption DEF Threads
<1>3. {p1, c1, c2} \cap Consumers \subseteq Consumers /\ IsFiniteSet(Consumers)
  BY ThreadsAssumption
<1>4. /\ Cardinality({p1, c1, c2} \cap Consumers) \in Nat
      /\ Cardinality({p1, c1, c2} \cap Consumers) <= Cardinality(Consumers)
      /\ Cardinality(Consumers) \in Nat
  BY <1>3, FS_Subset, FS_CardinalityType
<1>5. SB!Ends = Cardinality({p1, c1, c2} \cap Consumers)
  BY <1>1, SameCardinality DEF SB!Ends
<1> QED
  BY <1>1, <1>2, <1>4, <1>5, SizesAssumption

\* The stored values in terms of the counts, before and after a step.
LEMMA StoredIs ==
  /\ SB!Stored = full + At(pc, Consumers, Hold) + At(pc, Producers, Done)
  /\ SB!Stored' = full' + At(pc', Consumers, Hold) + At(pc', Producers, Done)
  BY SameCardinality DEF SB!Stored, At, Hold, Done

\* main of producer_consumer_works.c leaves two free slots and an empty queue.
LEMMA InitSemInv ==
  ASSUME RunInit, Semaphores
  PROVE  SemInv /\ SB!Contents = <<>>
<1>1. /\ SB!Init /\ program = producer_consumer_works
      /\ sleepers = [cv \in CVs |-> {}] /\ failed = FALSE
  BY WorksAssumption DEF RunInit, Init, Semaphores
<1>2. /\ pc = [t \in Threads |-> "wait"] /\ fill_ptr = 0 /\ use_ptr = 0
      /\ buffer = [i \in 0..1 |-> <<"none", 0>>]
      /\ empty = 2 /\ full = 0 /\ made = [p \in Producers |-> 0]
  BY <1>1 DEF SB!Init, Threads
<1>3. SemTypes
  BY <1>2 DEF SemTypes, SemLabels, Items
<1>4. /\ {t \in Producers : pc[t] \in Hold} = {} /\ {t \in Consumers : pc[t] \in Hold} = {}
      /\ {t \in Producers : pc[t] \in Done} = {} /\ {t \in Consumers : pc[t] \in Done} = {}
  BY <1>2 DEF Threads, Hold, Done
<1>5. /\ At(pc, Producers, Hold) = 0 /\ At(pc, Producers, Done) = 0
      /\ At(pc, Consumers, Hold) = 0 /\ At(pc, Consumers, Done) = 0
  BY <1>4, FS_EmptySet DEF At
<1>6. SB!Stored = 0
  BY <1>2, <1>5, StoredIs
<1>7. SlotsInv /\ PointerInv
  BY <1>2, <1>5, <1>6 DEF SlotsInv, PointerInv, Ahead
<1>8. SemLoopInv /\ SemRest
  BY <1>1, <1>2 DEF SemLoopInv, SemRest, Threads, Hold
<1>9. SB!Contents = <<>>
  BY <1>6 DEF SB!Contents
<1> QED
  BY <1>3, <1>7, <1>8, <1>9 DEF SemInv

------------------------------------------------------------------------------
(* The program over semaphores: its steps keep the invariant and refine the *)
(* queue                                                                   *)

Moves(t, l) == l \in SemLabels /\ pc' = [pc EXCEPT ![t] = l]

\* what a thread that goes to statement l does to a count
LEMMA SemMove ==
  ASSUME SemTypes, NEW t \in Threads, NEW l, Moves(t, l),
         NEW U, U \subseteq Threads, IsFiniteSet(U), NEW L
  PROVE  /\ At(pc, U, L) \in Nat /\ At(pc', U, L) \in Nat
         /\ At(pc', U, L) = At(pc, U, L)
              - (IF t \in U /\ pc[t] \in L THEN 1 ELSE 0) + (IF t \in U /\ l \in L THEN 1 ELSE 0)
<1>2. pc' = Written(pc, t, l) /\ l \in SemLabels
  BY DEF Written, Moves
<1>3. pc \in [Threads -> SemLabels]
  BY DEF SemTypes
<1>4. At(Written(pc, t, l), U, L) = At(pc, U, L)
        - (IF t \in U /\ pc[t] \in L THEN 1 ELSE 0) + (IF t \in U /\ l \in L THEN 1 ELSE 0)
  BY <1>2, <1>3, CountMove
<1> QED
  BY <1>2, <1>4, AtIsNat

\* the four counts, before and after
Counts(ph, pd, ch, cd) == /\ ph = At(pc, Producers, Hold) /\ pd = At(pc, Producers, Done)
                          /\ ch = At(pc, Consumers, Hold) /\ cd = At(pc, Consumers, Done)

\* A producer changes the counts of the producers only.
LEMMA ProducerMove ==
  ASSUME SemTypes, NEW t \in Producers, NEW l, Moves(t, l),
         NEW ph, NEW pd, NEW ch, NEW cd, Counts(ph, pd, ch, cd)
  PROVE  /\ ph \in Nat /\ pd \in Nat /\ ch \in Nat /\ cd \in Nat
         /\ At(pc', Producers, Hold) = ph - (IF pc[t] \in Hold THEN 1 ELSE 0)
                                          + (IF l \in Hold THEN 1 ELSE 0)
         /\ At(pc', Producers, Done) = pd - (IF pc[t] \in Done THEN 1 ELSE 0)
                                          + (IF l \in Done THEN 1 ELSE 0)
         /\ At(pc', Consumers, Hold) = ch /\ At(pc', Consumers, Done) = cd
         /\ At(pc', Producers, Hold) \in Nat /\ At(pc', Producers, Done) \in Nat
<1>1. /\ t \in Threads /\ t \notin Consumers
      /\ Producers \subseteq Threads /\ IsFiniteSet(Producers)
      /\ Consumers \subseteq Threads /\ IsFiniteSet(Consumers)
  BY ThreadsAssumption DEF Threads
<1>2. /\ At(pc, Producers, Hold) \in Nat /\ At(pc', Producers, Hold) \in Nat
      /\ At(pc', Producers, Hold) = At(pc, Producers, Hold)
           - (IF pc[t] \in Hold THEN 1 ELSE 0) + (IF l \in Hold THEN 1 ELSE 0)
  BY <1>1, SemMove
<1>3. /\ At(pc, Producers, Done) \in Nat /\ At(pc', Producers, Done) \in Nat
      /\ At(pc', Producers, Done) = At(pc, Producers, Done)
           - (IF pc[t] \in Done THEN 1 ELSE 0) + (IF l \in Done THEN 1 ELSE 0)
  BY <1>1, SemMove
<1>4. /\ At(pc, Consumers, Hold) \in Nat
      /\ At(pc', Consumers, Hold) = At(pc, Consumers, Hold) - 0 + 0
  BY <1>1, SemMove
<1>5. /\ At(pc, Consumers, Done) \in Nat
      /\ At(pc', Consumers, Done) = At(pc, Consumers, Done) - 0 + 0
  BY <1>1, SemMove
<1> QED
  BY <1>2, <1>3, <1>4, <1>5 DEF Counts

\* A consumer changes the counts of the consumers only.
LEMMA ConsumerMove ==
  ASSUME SemTypes, NEW t \in Consumers, NEW l, Moves(t, l),
         NEW ph, NEW pd, NEW ch, NEW cd, Counts(ph, pd, ch, cd)
  PROVE  /\ ph \in Nat /\ pd \in Nat /\ ch \in Nat /\ cd \in Nat
         /\ At(pc', Consumers, Hold) = ch - (IF pc[t] \in Hold THEN 1 ELSE 0)
                                          + (IF l \in Hold THEN 1 ELSE 0)
         /\ At(pc', Consumers, Done) = cd - (IF pc[t] \in Done THEN 1 ELSE 0)
                                          + (IF l \in Done THEN 1 ELSE 0)
         /\ At(pc', Producers, Hold) = ph /\ At(pc', Producers, Done) = pd
         /\ At(pc', Consumers, Hold) \in Nat /\ At(pc', Consumers, Done) \in Nat
<1>1. /\ t \in Threads /\ t \notin Producers
      /\ Producers \subseteq Threads /\ IsFiniteSet(Producers)
      /\ Consumers \subseteq Threads /\ IsFiniteSet(Consumers)
  BY ThreadsAssumption DEF Threads
<1>2. /\ At(pc, Consumers, Hold) \in Nat /\ At(pc', Consumers, Hold) \in Nat
      /\ At(pc', Consumers, Hold) = At(pc, Consumers, Hold)
           - (IF pc[t] \in Hold THEN 1 ELSE 0) + (IF l \in Hold THEN 1 ELSE 0)
  BY <1>1, SemMove
<1>3. /\ At(pc, Consumers, Done) \in Nat /\ At(pc', Consumers, Done) \in Nat
      /\ At(pc', Consumers, Done) = At(pc, Consumers, Done)
           - (IF pc[t] \in Done THEN 1 ELSE 0) + (IF l \in Done THEN 1 ELSE 0)
  BY <1>1, SemMove
<1>4. /\ At(pc, Producers, Hold) \in Nat
      /\ At(pc', Producers, Hold) = At(pc, Producers, Hold) - 0 + 0
  BY <1>1, SemMove
<1>5. /\ At(pc, Producers, Done) \in Nat
      /\ At(pc', Producers, Done) = At(pc, Producers, Done) - 0 + 0
  BY <1>1, SemMove
<1> QED
  BY <1>2, <1>3, <1>4, <1>5 DEF Counts


\* the invariant after a step that leaves the ring alone: the counts are all
\* that is left to show
LEMMA SemQuiet ==
  ASSUME SemInv, SemTypes', SlotsInv', SemLoopInv', SB!Stored' = SB!Stored,
         UNCHANGED <<program, buffer, fill_ptr, use_ptr, made, tmp, sleepers, failed>>
  PROVE  SemInv' /\ UNCHANGED Queue!vars
<1>1. Semaphores /\ Semaphores' /\ Max' = Max /\ CVs' = CVs
  BY DEF SemInv, SemTypes, Semaphores, Max, CVs, ProducerCV, ConsumerCV
<1>2. PointerInv' /\ SemRest'
  BY <1>1 DEF SemInv, PointerInv, SemRest
<1>3. SB!Contents' = SB!Contents
  BY DEF SB!Contents
<1> QED
  BY <1>1, <1>2, <1>3 DEF SemInv, Queue!vars

\* sem_wait(&mutex), sem_post(&mutex): between do_fill, do_get and the waits
LEMMA MutexStep ==
  ASSUME SemInv, NEW t \in {p1, c1, c2}, SB!Enter(t) \/ SB!Leave(t),
         UNCHANGED <<program, sleepers, failed>>
  PROVE  SemInv' /\ UNCHANGED Queue!vars
<1>1. /\ UNCHANGED <<buffer, fill_ptr, use_ptr, empty, full, made, tmp>>
      /\ \E from, to : /\ pc[t] = from /\ pc' = [pc EXCEPT ![t] = to]
                       /\ <<from, to>> \in {<<"lock", "access">>, <<"unlock", "post">>}
  BY DEF SB!Enter, SB!Leave, SB!Goto
<1>2. PICK l \in SemLabels : Moves(t, l) /\ (pc[t] \in Hold <=> l \in Hold)
                                         /\ (pc[t] \in Done <=> l \in Done)
  BY <1>1 DEF Moves, SemLabels, Hold, Done
<1>3. t \in Threads /\ SemTypes
  BY SemSides DEF SemInv
<1>4. /\ At(pc', Producers, Hold) = At(pc, Producers, Hold)
      /\ At(pc', Producers, Done) = At(pc, Producers, Done)
      /\ At(pc', Consumers, Hold) = At(pc, Consumers, Hold)
      /\ At(pc', Consumers, Done) = At(pc, Consumers, Done)
  <2>1. ASSUME NEW U \in {Producers, Consumers}, NEW L \in {Hold, Done}
        PROVE  At(pc', U, L) = At(pc, U, L)
    <3>1. U \subseteq Threads /\ IsFiniteSet(U)
      BY ThreadsAssumption DEF Threads
    <3>2. pc[t] \in L <=> l \in L
      BY <1>2
    <3>3. /\ At(pc, U, L) \in Nat
          /\ At(pc', U, L) = At(pc, U, L)
               - (IF t \in U /\ pc[t] \in L THEN 1 ELSE 0) + (IF t \in U /\ l \in L THEN 1 ELSE 0)
      BY <1>2, <1>3, <3>1, SemMove
    <3> QED
      BY <3>2, <3>3
  <2> QED
    BY <2>1
<1>5. SB!Stored' = full' + At(pc', Consumers, Hold) + At(pc', Producers, Done)
  BY StoredIs
<1>6. SB!Stored' = SB!Stored
  BY <1>1, <1>4, <1>5, StoredIs
<1>7. SlotsInv'
  BY <1>1, <1>4, <1>6 DEF SemInv, SlotsInv
<1>8. SemTypes'
  BY <1>1, <1>2 DEF SemInv, SemTypes, Moves, Semaphores
<1>9. SemLoopInv'
  BY <1>1, <1>2, <1>3 DEF SemInv, SemLoopInv, SemTypes, Moves, Threads
<1> QED
  BY <1>1, <1>6, <1>7, <1>8, <1>9, SemQuiet


\* the semaphores' side of a wait or a post: the slot changes its state
LEMMA SlotStep ==
  ASSUME SemInv, NEW t \in {p1, c1, c2},
         \/ t \in Producers /\ (SB!WaitEmpty(t) \/ SB!PostFull(t))
         \/ t \in Consumers /\ (SB!WaitFull(t) \/ SB!PostEmpty(t)),
         UNCHANGED <<program, sleepers, failed>>
  PROVE  SemInv' /\ UNCHANGED Queue!vars
<1> DEFINE ph == At(pc, Producers, Hold)
           pd == At(pc, Producers, Done)
           ch == At(pc, Consumers, Hold)
           cd == At(pc, Consumers, Done)
<1>1. SemTypes /\ empty \in Nat /\ full \in Nat /\ Counts(ph, pd, ch, cd) /\ t \in Threads
      /\ empty + ph + SB!Stored + cd = 2
  BY SemSides DEF SemInv, SemTypes, SlotsInv, Counts
<1>2. UNCHANGED <<buffer, fill_ptr, use_ptr, made, tmp>>
  BY DEF SB!WaitEmpty, SB!PostFull, SB!WaitFull, SB!PostEmpty
<1>3. /\ SB!Stored = full + ch + pd
      /\ SB!Stored' = full' + At(pc', Consumers, Hold) + At(pc', Producers, Done)
  BY StoredIs
<1>4. /\ SemTypes' /\ SB!Stored' = SB!Stored /\ SemLoopInv'
      /\ empty' + At(pc', Producers, Hold) + SB!Stored' + At(pc', Consumers, Done) = 2
  <2>1. CASE t \in Producers /\ SB!WaitEmpty(t)
    <3>1. /\ made[t] < Loops + SB!Ends /\ pc[t] = "wait" /\ pc' = [pc EXCEPT ![t] = "lock"]
          /\ empty > 0 /\ empty' = empty - 1 /\ full' = full
      BY <2>1 DEF SB!WaitEmpty, SB!Goto, SB!SemWait
    <3>2. Moves(t, "lock")
      BY <3>1 DEF Moves, SemLabels
    <3>3. /\ pc[t] \notin Hold /\ pc[t] \notin Done /\ "lock" \in Hold /\ "lock" \notin Done
      BY <3>1 DEF Hold, Done
    <3>4. /\ ph \in Nat /\ pd \in Nat /\ ch \in Nat /\ cd \in Nat
          /\ At(pc', Producers, Hold) = ph + 1 /\ At(pc', Producers, Done) = pd
          /\ At(pc', Consumers, Hold) = ch /\ At(pc', Consumers, Done) = cd
      BY <1>1, <2>1, <3>2, <3>3, ProducerMove
    <3>5. SemTypes'
      BY <1>1, <1>2, <3>1, <3>2 DEF SemTypes, Semaphores, Moves
    <3>6. SemLoopInv'
      BY <1>1, <1>2, <3>1 DEF SemInv, SemLoopInv, SemTypes, Threads
    <3> HIDE DEF ph, pd, ch, cd
    <3> QED
      BY <1>1, <1>3, <3>1, <3>4, <3>5, <3>6
  <2>2. CASE t \in Producers /\ SB!PostFull(t)
    <3>1. /\ pc[t] = "post" /\ pc' = [pc EXCEPT ![t] = "wait"]
          /\ empty' = empty /\ full' = full + 1
      BY <2>2 DEF SB!PostFull, SB!Goto, SB!SemPost
    <3>2. Moves(t, "wait")
      BY <3>1 DEF Moves, SemLabels
    <3>3. pc[t] \notin Hold /\ pc[t] \in Done /\ "wait" \notin Hold /\ "wait" \notin Done
      BY <3>1 DEF Hold, Done
    <3>4. /\ ph \in Nat /\ pd \in Nat /\ ch \in Nat /\ cd \in Nat
          /\ At(pc', Producers, Hold) = ph /\ At(pc', Producers, Done) = pd - 1
          /\ At(pc', Consumers, Hold) = ch /\ At(pc', Consumers, Done) = cd
      BY <1>1, <2>2, <3>2, <3>3, ProducerMove
    <3>5. SemTypes'
      BY <1>1, <1>2, <3>1, <3>2 DEF SemTypes, Semaphores, Moves
    <3>6. SemLoopInv'
      BY <1>1, <1>2, <3>1, <3>3 DEF SemInv, SemLoopInv, SemTypes, Threads
    <3> HIDE DEF ph, pd, ch, cd
    <3> QED
      BY <1>1, <1>3, <3>1, <3>4, <3>5, <3>6
  <2>3. CASE t \in Consumers /\ SB!WaitFull(t)
    <3>1. /\ pc[t] = "wait" /\ pc' = [pc EXCEPT ![t] = "lock"]
          /\ empty' = empty /\ full > 0 /\ full' = full - 1
      BY <2>3 DEF SB!WaitFull, SB!Goto, SB!SemWait
    <3>2. Moves(t, "lock") /\ t \notin Producers
      BY <2>3, <3>1, ThreadsAssumption DEF Moves, SemLabels
    <3>3. /\ pc[t] \notin Hold /\ pc[t] \notin Done /\ "lock" \in Hold /\ "lock" \notin Done
      BY <3>1 DEF Hold, Done
    <3>4. /\ ph \in Nat /\ pd \in Nat /\ ch \in Nat /\ cd \in Nat
          /\ At(pc', Producers, Hold) = ph /\ At(pc', Producers, Done) = pd
          /\ At(pc', Consumers, Hold) = ch + 1 /\ At(pc', Consumers, Done) = cd
      BY <1>1, <2>3, <3>2, <3>3, ConsumerMove
    <3>5. SemTypes'
      BY <1>1, <1>2, <3>1, <3>2 DEF SemTypes, Semaphores, Moves
    <3>6. SemLoopInv'
      BY <1>1, <1>2, <3>1, <3>2 DEF SemInv, SemLoopInv, SemTypes, Threads
    <3> HIDE DEF ph, pd, ch, cd
    <3> QED
      BY <1>1, <1>3, <3>1, <3>4, <3>5, <3>6
  <2>4. CASE t \in Consumers /\ SB!PostEmpty(t)
    <3>1. /\ pc[t] = "post" /\ pc' = [pc EXCEPT ![t] = "wait"]
          /\ empty' = empty + 1 /\ full' = full
      BY <2>4 DEF SB!PostEmpty, SB!Goto, SB!SemPost
    <3>2. Moves(t, "wait") /\ t \notin Producers
      BY <2>4, <3>1, ThreadsAssumption DEF Moves, SemLabels
    <3>3. pc[t] \notin Hold /\ pc[t] \in Done /\ "wait" \notin Hold /\ "wait" \notin Done
      BY <3>1 DEF Hold, Done
    <3>4. /\ ph \in Nat /\ pd \in Nat /\ ch \in Nat /\ cd \in Nat
          /\ At(pc', Producers, Hold) = ph /\ At(pc', Producers, Done) = pd
          /\ At(pc', Consumers, Hold) = ch /\ At(pc', Consumers, Done) = cd - 1
      BY <1>1, <2>4, <3>2, <3>3, ConsumerMove
    <3>5. SemTypes'
      BY <1>1, <1>2, <3>1, <3>2 DEF SemTypes, Semaphores, Moves
    <3>6. SemLoopInv'
      BY <1>1, <1>2, <3>1, <3>2 DEF SemInv, SemLoopInv, SemTypes, Threads
    <3> HIDE DEF ph, pd, ch, cd
    <3> QED
      BY <1>1, <1>3, <3>1, <3>4, <3>5, <3>6
  <2> QED
    BY <2>1, <2>2, <2>3, <2>4
<1>5. SlotsInv'
  BY <1>4 DEF SlotsInv
<1> QED
  BY <1>2, <1>4, <1>5, SemQuiet


\* do_fill stores behind the values that are there and appends to the queue
LEMMA SemFill ==
  ASSUME SemInv, NEW t \in {p1, c1, c2}, t \in Producers, SB!do_fill(t),
         UNCHANGED <<program, sleepers, failed>>
  PROVE  SemInv' /\ Queue!Put(t)
<1> DEFINE ph == At(pc, Producers, Hold)
           pd == At(pc, Producers, Done)
           ch == At(pc, Consumers, Hold)
           cd == At(pc, Consumers, Done)
           v  == Queue!Value(t, made[t])
           k  == SB!Stored
<1>1. SemTypes /\ empty \in Nat /\ full \in Nat /\ Counts(ph, pd, ch, cd) /\ t \in Threads
      /\ empty + ph + k + cd = 2
  BY SemSides DEF SemInv, SemTypes, SlotsInv, Counts
<1>2. /\ pc[t] = "access" /\ pc' = [pc EXCEPT ![t] = "unlock"]
      /\ buffer' = [buffer EXCEPT ![fill_ptr] = SB!Fifo!Value(t, made[t])]
      /\ fill_ptr' = (IF fill_ptr + 1 = 2 THEN 0 ELSE fill_ptr + 1)
      /\ made' = [made EXCEPT ![t] = @ + 1]
      /\ UNCHANGED <<use_ptr, empty, full, tmp>>
  BY DEF SB!do_fill, SB!Goto, SB!Advance
<1>3. Moves(t, "unlock")
  BY <1>2 DEF Moves, SemLabels
<1>4. pc[t] \in Hold /\ pc[t] \notin Done /\ "unlock" \notin Hold /\ "unlock" \in Done
  BY <1>2 DEF Hold, Done
<1>5. /\ ph \in Nat /\ pd \in Nat /\ ch \in Nat /\ cd \in Nat
      /\ At(pc', Producers, Hold) = ph - 1 /\ At(pc', Producers, Done) = pd + 1
      /\ At(pc', Consumers, Hold) = ch /\ At(pc', Consumers, Done) = cd
      /\ At(pc', Producers, Hold) \in Nat
  BY <1>1, <1>3, <1>4, ProducerMove
<1>6. /\ k = full + ch + pd
      /\ SB!Stored' = full' + At(pc', Consumers, Hold) + At(pc', Producers, Done)
  BY StoredIs
<1>7. k \in 0..1 /\ SB!Stored' = k + 1
  <2> HIDE DEF ph, pd, ch, cd, k
  <2> QED
    BY <1>1, <1>2, <1>5, <1>6
<1>8. SlotsInv'
  <2>1. empty' + At(pc', Producers, Hold) + SB!Stored' + At(pc', Consumers, Done) = 2
    <3> HIDE DEF ph, pd, ch, cd, k
    <3> QED
      BY <1>1, <1>2, <1>5, <1>7
  <2> QED
    BY <2>1 DEF SlotsInv
<1>9. made[t] \in Nat /\ made[t] < Loops + SB!Ends
  BY <1>1, <1>4 DEF SemInv, SemLoopInv, SemTypes
<1>10. v \in Items /\ v = SB!Fifo!Value(t, made[t])
  BY <1>9 DEF SB!Fifo!Value, Queue!Value, SB!Fifo!End, Queue!End, Items
<1>11. IsRing(2, buffer, Items) /\ use_ptr \in 0..(2 - 1) /\ fill_ptr = Ahead(2, use_ptr, k)
  BY <1>1 DEF IsRing, SemTypes, SemInv, PointerInv
<1>12. PointerInv'
  <2>1. fill_ptr = (use_ptr + k) % 2
    BY <1>11 DEF Ahead
  <2>2. fill_ptr' = (use_ptr + (k + 1)) % 2
    <3> HIDE DEF k
    <3> QED
      BY <1>2, <1>7, <1>11, <2>1
  <2> QED
    BY <1>2, <1>7, <2>2 DEF PointerInv, Ahead
<1>13. SemTypes'
  <2>1. fill_ptr \in 0..1
    BY <1>7, <1>11 DEF Ahead
  <2> HIDE DEF v
  <2>2. buffer' \in [0..1 -> Items]
    BY <1>1, <1>2, <1>10, <2>1 DEF SemTypes
  <2> QED
    BY <1>1, <1>2, <1>3, <2>2 DEF SemTypes, Semaphores, Moves
<1>14. SemLoopInv'
  BY <1>1, <1>2, <1>4 DEF SemInv, SemLoopInv, SemTypes, Threads
<1>15. SemRest' /\ Max = 2 /\ Max' = 2 /\ Semaphores /\ Semaphores'
  BY DEF SemInv, SemRest, SemTypes, Semaphores, Max, CVs, ProducerCV, ConsumerCV,
     producer_consumer_works
<1>16. buffer' = Written(buffer, Ahead(2, use_ptr, k), v)
  BY <1>2, <1>10, <1>11 DEF Written
<1>17. /\ SB!Contents = RingSeq(2, buffer, use_ptr, k)
       /\ SB!Contents' = RingSeq(2, buffer', use_ptr, k + 1)
  BY <1>2, <1>7 DEF SB!Contents, RingSeq
<1>18. SB!Contents' = Append(SB!Contents, v) /\ Len(SB!Contents) = k
  <2> HIDE DEF v, k
  <2>1. k \in 0..(2 - 1) /\ k \in 0..2
    BY <1>7
  <2>2. Len(RingSeq(2, buffer, use_ptr, k)) = k
    BY <1>11, <2>1, RingIsSeq
  <2>3. RingSeq(2, Written(buffer, Ahead(2, use_ptr, k), v), use_ptr, k + 1)
          = Append(RingSeq(2, buffer, use_ptr, k), v)
    BY <1>10, <1>11, <2>1, RingPut
  <2> QED
    BY <1>16, <1>17, <2>2, <2>3
<1>19. made[t] < Loops + Cardinality(Consumers)
  BY <1>9, SemSides
<1>20. Queue!Put(t)
  <2> HIDE DEF v, k
  <2>1. (IF Semaphores THEN SB!Contents ELSE Contents) = SB!Contents
        /\ (IF Semaphores THEN SB!Contents ELSE Contents)' = SB!Contents'
    BY <1>15
  <2> QED
    BY <1>2, <1>7, <1>15, <1>18, <1>19, <2>1 DEF Queue!Put, v
<1> QED
  BY <1>8, <1>12, <1>13, <1>14, <1>15, <1>20 DEF SemInv

\* do_get takes the value that has been there longest
LEMMA SemGet ==
  ASSUME SemInv, NEW t \in {p1, c1, c2}, t \in Consumers, SB!do_get(t),
         UNCHANGED <<program, sleepers, failed>>
  PROVE  SemInv' /\ Queue!Get(t)
<1> DEFINE ph == At(pc, Producers, Hold)
           pd == At(pc, Producers, Done)
           ch == At(pc, Consumers, Hold)
           cd == At(pc, Consumers, Done)
           k  == SB!Stored
<1>1. SemTypes /\ empty \in Nat /\ full \in Nat /\ Counts(ph, pd, ch, cd) /\ t \in Threads
      /\ empty + ph + k + cd = 2 /\ t \notin Producers
  BY SemSides, ThreadsAssumption DEF SemInv, SemTypes, SlotsInv, Counts
<1>2. /\ pc[t] = "access" /\ pc' = [pc EXCEPT ![t] = "unlock"]
      /\ tmp' = [tmp EXCEPT ![t] = buffer[use_ptr]]
      /\ use_ptr' = (IF use_ptr + 1 = 2 THEN 0 ELSE use_ptr + 1)
      /\ UNCHANGED <<buffer, fill_ptr, empty, full, made>>
  BY DEF SB!do_get, SB!Goto, SB!Advance
<1>3. Moves(t, "unlock")
  BY <1>2 DEF Moves, SemLabels
<1>4. pc[t] \in Hold /\ pc[t] \notin Done /\ "unlock" \notin Hold /\ "unlock" \in Done
  BY <1>2 DEF Hold, Done
<1>5. /\ ph \in Nat /\ pd \in Nat /\ ch \in Nat /\ cd \in Nat
      /\ At(pc', Producers, Hold) = ph /\ At(pc', Producers, Done) = pd
      /\ At(pc', Consumers, Hold) = ch - 1 /\ At(pc', Consumers, Done) = cd + 1
      /\ At(pc', Consumers, Hold) \in Nat
  BY <1>1, <1>3, <1>4, ConsumerMove
<1>6. /\ k = full + ch + pd
      /\ SB!Stored' = full' + At(pc', Consumers, Hold) + At(pc', Producers, Done)
  BY StoredIs
<1>7. k \in 1..2 /\ SB!Stored' = k - 1
  <2> HIDE DEF ph, pd, ch, cd, k
  <2> QED
    BY <1>1, <1>2, <1>5, <1>6
<1>8. SlotsInv'
  <2>1. empty' + At(pc', Producers, Hold) + SB!Stored' + At(pc', Consumers, Done) = 2
    <3> HIDE DEF ph, pd, ch, cd, k
    <3> QED
      BY <1>1, <1>2, <1>5, <1>7
  <2> QED
    BY <2>1 DEF SlotsInv
<1>9. IsRing(2, buffer, Items) /\ use_ptr \in 0..(2 - 1) /\ fill_ptr = Ahead(2, use_ptr, k)
  BY <1>1 DEF IsRing, SemTypes, SemInv, PointerInv
<1>10. use_ptr' = Ahead(2, use_ptr, 1) /\ use_ptr' \in 0..1
  BY <1>2, <1>9 DEF Ahead
<1>11. PointerInv'
  <2>1. fill_ptr = (use_ptr + k) % 2
    BY <1>9 DEF Ahead
  <2>2. fill_ptr = (use_ptr' + (k - 1)) % 2
    <3> HIDE DEF k
    <3> QED
      BY <1>2, <1>7, <1>9, <2>1
  <2> QED
    BY <1>2, <1>7, <2>2 DEF PointerInv, Ahead
<1>12. SemTypes'
  BY <1>1, <1>2, <1>3, <1>10 DEF SemTypes, Semaphores, Moves
<1>13. SemLoopInv'
  BY <1>1, <1>2 DEF SemInv, SemLoopInv, SemTypes, Threads
<1>14. SemRest' /\ Max' = Max /\ Semaphores /\ Semaphores'
  BY DEF SemInv, SemRest, SemTypes, Semaphores, Max, CVs, ProducerCV, ConsumerCV
<1>15. /\ SB!Contents = RingSeq(2, buffer, use_ptr, k)
       /\ SB!Contents' = RingSeq(2, buffer, Ahead(2, use_ptr, 1), k - 1)
  BY <1>2, <1>7, <1>10 DEF SB!Contents, RingSeq
<1>16. /\ SB!Contents # <<>> /\ Head(SB!Contents) = buffer[use_ptr]
       /\ SB!Contents' = Tail(SB!Contents)
  <2> HIDE DEF k
  <2> QED
    BY <1>7, <1>9, <1>15, RingGet
<1>17. Queue!Get(t)
  <2>1. (IF Semaphores THEN SB!Contents ELSE Contents) = SB!Contents
        /\ (IF Semaphores THEN SB!Contents ELSE Contents)' = SB!Contents'
    BY <1>14
  <2> QED
    BY <1>2, <1>14, <1>16, <2>1 DEF Queue!Get
<1> QED
  BY <1>8, <1>11, <1>12, <1>13, <1>14, <1>17 DEF SemInv


------------------------------------------------------------------------------
(* The theorems *)

\* what holds in every state of the program that runs
RunInv == IF Semaphores
            THEN SemInv
            ELSE BInv /\ (ProducerCV # ConsumerCV => ConsumersCovered /\ ProducersCovered)

\* Every program starts in its invariant, with an empty queue.
LEMMA InitRunInv == RunInit => RunInv /\ Queue!Init
<1> SUFFICES ASSUME RunInit PROVE RunInv /\ Queue!Init
  OBVIOUS
<1>1. CASE Semaphores
  <2>1. SemInv /\ SB!Contents = <<>>
    BY <1>1, InitSemInv
  <2>2. /\ made = [p \in Producers |-> 0] /\ tmp = [c \in Consumers |-> <<"none", 0>>]
        /\ Max = 2
    BY <1>1, WorksAssumption DEF RunInit, Init, Semaphores, SB!Init, Max,
       producer_consumer_works
  <2> QED
    BY <1>1, <2>1, <2>2 DEF RunInv, Queue!Init
<1>2. CASE ~Semaphores
  <2>1. Init
    BY <1>2 DEF RunInit, Semaphores
  <2>2. BInv
    BY <2>1, InitBInv
  <2>3. sleepers[ConsumerCV] = {} /\ sleepers[ProducerCV] = {}
    BY <2>1 DEF Init, CVs
  <2>4. ConsumersCovered /\ ProducersCovered
    BY <2>3 DEF ConsumersCovered, ProducersCovered, Covered
  <2>5. Contents = <<>> /\ Max \in Nat
    BY <2>1, <2>2, Sides DEF BInv, Init, Contents
  <2>6. made = [p \in Producers |-> 0] /\ tmp = [c \in Consumers |-> <<"none", 0>>]
    BY <2>1 DEF Init
  <2> QED
    BY <1>2, <2>2, <2>4, <2>5, <2>6 DEF RunInv, Queue!Init
<1> QED
  BY <1>1, <1>2

\* Every step of every program keeps the invariant and is a step of the queue
\* or invisible to it.
LEMMA RunStepKeeps ==
  ASSUME RunInv, RunNext
  PROVE  RunInv' /\ [Queue!Next]_(Queue!vars)
<1>1. CASE Semaphores
  <2>1. SemInv
    BY <1>1 DEF RunInv
  <2>2. PICK t \in {p1, c1, c2} : SB!Step(t) /\ UNCHANGED <<program, sleepers, failed>>
    <3>1. PICK t \in Threads : RunStep(t) \/ Spurious(t)
      BY DEF RunNext
    <3>2. ~Spurious(t)
      <4>1. sleepers[WaitsOn(t)] = {}
        BY <2>1 DEF SemInv, SemRest, WaitsOn, CVs
      <4> QED
        BY <4>1 DEF Spurious
    <3>3. t \in program.threads /\ SB!Step(t) /\ UNCHANGED <<program, sleepers, failed>>
      BY <1>1, <3>1, <3>2 DEF RunStep
    <3>4. t \in {p1, c1, c2}
      BY <1>1, <3>3, SemSides DEF Semaphores
    <3> QED
      BY <3>3, <3>4
  <2>3. SemInv' /\ [Queue!Next]_(Queue!vars)
    <3>1. CASE SB!Enter(t) \/ SB!Leave(t)
      BY <2>1, <2>2, <3>1, MutexStep
    <3>2. CASE \/ t \in Producers /\ (SB!WaitEmpty(t) \/ SB!PostFull(t))
               \/ t \in Consumers /\ (SB!WaitFull(t) \/ SB!PostEmpty(t))
      BY <2>1, <2>2, <3>2, SlotStep
    <3>3. CASE t \in Producers /\ SB!do_fill(t)
      <4>1. SemInv' /\ Queue!Put(t)
        BY <2>1, <2>2, <3>3, SemFill
      <4> QED
        BY <3>3, <4>1 DEF Queue!Next
    <3>4. CASE t \in Consumers /\ SB!do_get(t)
      <4>1. SemInv' /\ Queue!Get(t)
        BY <2>1, <2>2, <3>4, SemGet
      <4> QED
        BY <3>4, <4>1 DEF Queue!Next
    <3> QED
      BY <2>2, <3>1, <3>2, <3>3, <3>4 DEF SB!Step
  <2>4. Semaphores'
    BY <2>3 DEF SemInv, SemTypes
  <2> QED
    BY <2>3, <2>4 DEF RunInv
<1>2. CASE ~Semaphores
  <2>1. BInv /\ (ProducerCV # ConsumerCV => ConsumersCovered /\ ProducersCovered)
    BY <1>2 DEF RunInv
  <2>2. Next
    BY <1>2 DEF RunNext, RunStep, Next
  <2>3. BInv' /\ [Queue!Next]_(Queue!vars)
    BY <1>2, <2>1, <2>2, NextBInv, NextRefines
  <2>4. program' = program
    BY <2>1, <2>2, StepKeepsProgram
  <2>5. ~Semaphores' /\ ProducerCV' = ProducerCV /\ ConsumerCV' = ConsumerCV
    BY <1>2, <2>4 DEF Semaphores, ProducerCV, ConsumerCV
  <2>6. ProducerCV # ConsumerCV => ConsumersCovered' /\ ProducersCovered'
    BY <2>1, <2>2, <2>3, NextCovered
  <2> QED
    BY <2>3, <2>5, <2>6 DEF RunInv
<1> QED
  BY <1>1, <1>2

\* A step that changes nothing keeps the invariant and the queue.
LEMMA RunStutters ==
  ASSUME RunInv, UNCHANGED <<vars, svars>>
  PROVE  RunInv' /\ UNCHANGED Queue!vars
<1>1. UNCHANGED <<program, buffer, fill_ptr, use_ptr, num_full, m, sleepers, pc, made, tmp,
                  got, failed, spurious, empty, full, mutex>>
  BY DEF vars, svars, bvars
<1>2. /\ (Semaphores' <=> Semaphores) /\ Max' = Max /\ CVs' = CVs /\ Ends' = Ends
      /\ ProducerCV' = ProducerCV /\ ConsumerCV' = ConsumerCV
      /\ SB!Stored' = SB!Stored /\ SB!Contents' = SB!Contents /\ Contents' = Contents
  <2>1. /\ (Semaphores' <=> Semaphores) /\ Max' = Max /\ CVs' = CVs /\ Ends' = Ends
        /\ ProducerCV' = ProducerCV /\ ConsumerCV' = ConsumerCV
    BY <1>1 DEF Semaphores, Max, CVs, Ends, ProducerCV, ConsumerCV
  <2>2. SB!Stored' = SB!Stored
    BY <1>1, StoredIs
  <2> QED
    BY <1>1, <2>1, <2>2 DEF SB!Contents, Contents
<1>3. UNCHANGED Queue!vars
  BY <1>1, <1>2 DEF Queue!vars
<1>4. CASE Semaphores
  BY <1>1, <1>2, <1>3, <1>4 DEF RunInv, SemInv, SemTypes, SlotsInv, PointerInv, SemLoopInv, SemRest
<1>5. CASE ~Semaphores
  <2>1. /\ \A t \in Threads : WaitsOn(t)' = WaitsOn(t) /\ (Blocked(t)' <=> Blocked(t))
        /\ \A T \in SUBSET Threads : Awake(T)' = Awake(T) /\ Signalling(T)' = Signalling(T)
    BY <1>1, <1>2 DEF WaitsOn, Blocked, Awake, Signalling
  <2>2. BInv'
    <3>1. Types' /\ LockInv' /\ AssertsNeedSignals'
      BY <1>1, <1>2, <1>5 DEF RunInv, BInv, Types, LockInv, AssertsNeedSignals
    <3>2. SleepInv'
      BY <1>1, <1>2, <1>5, <2>1 DEF RunInv, BInv, SleepInv, WaitsOn
    <3>3. LoopInv' /\ SignalInv' /\ WokenInv'
      BY <1>1, <1>2, <1>5, <2>1 DEF RunInv, BInv, LoopInv, SignalInv, WokenInv
    <3> QED
      BY <3>1, <3>2, <3>3 DEF BInv
  <2>3. Producers \in SUBSET Threads /\ Consumers \in SUBSET Threads
    BY DEF Threads
  <2>4. /\ ConsumersCovered => ConsumersCovered'
        /\ ProducersCovered => ProducersCovered'
    BY <1>1, <1>2, <2>1, <2>3 DEF ConsumersCovered, ProducersCovered
  <2> QED
    BY <1>2, <1>3, <1>5, <2>2, <2>4 DEF RunInv
<1> QED
  BY <1>3, <1>4, <1>5


\* In every program RunInv holds, whichever program runs.
THEOREM Invariant == RunSpec => []RunInv
<1>1. RunInit => RunInv
  BY InitRunInv
<1>2. RunInv /\ [RunNext]_<<vars, svars>> => RunInv'
  BY RunStepKeeps, RunStutters
<1> QED
  BY <1>1, <1>2, PTL DEF RunSpec

\* A wake-up is never lost in the programs whose sides have a condition
\* variable each: for any number of producers and consumers and any buffer,
\* Cond_signal after do_fill or do_get is enough, however the threads
\* interleave and however often Cond_wait returns without a signal.
THEOREM WakeupsAreKept == RunSpec => []NoLostWakeup
<1>1. RunInv => NoLostWakeup
  <2> SUFFICES ASSUME RunInv PROVE NoLostWakeup
    OBVIOUS
  <2>1. CASE Semaphores
    <3>1. ProducerCV = ConsumerCV
      BY <2>1 DEF Semaphores, ProducerCV, ConsumerCV, producer_consumer_works
    <3> QED
      BY <3>1 DEF NoLostWakeup
  <2>2. CASE ~Semaphores
    BY <2>2 DEF RunInv, NoLostWakeup, ConsumersCovered, ProducersCovered, Covered
  <2> QED
    BY <2>1, <2>2
<1> QED
  BY <1>1, Invariant, PTL

\* The assertions of put and get fail only in the program that does not test
\* again after a wait, and only after a wake-up that nobody sent.
THEOREM AssertionsHold == RunSpec => []AssertsNeedSignals
<1>1. RunInv => AssertsNeedSignals
  BY DEF RunInv, SemInv, SemRest, BInv, AssertsNeedSignals
<1> QED
  BY <1>1, Invariant, PTL

\* Every producer/consumer program implements the bounded queue: do_fill
\* appends, do_get takes the head, and no other statement changes what the
\* ring buffer holds.
THEOREM Refinement == RunSpec => ImplementsFifo
<1>1. RunInit => Queue!Init
  BY InitRunInv
<1>2. RunInv /\ [RunNext]_<<vars, svars>> => [Queue!Next]_(Queue!vars)
  BY RunStepKeeps, RunStutters
<1> QED
  BY <1>1, <1>2, Invariant, PTL DEF RunSpec, ImplementsFifo, Queue!Spec

==============================================================================
