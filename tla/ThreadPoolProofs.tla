-------------------------- MODULE ThreadPoolProofs --------------------------
(***************************************************************************)
(* The thread pool neither loses a job nor runs one twice, for any numbers *)
(* of workers and clients, any queue size and either policy when full.     *)
(*                                                                         *)
(* JobsConserved counts the copies of a job.  The invariant says where the *)
(* copies are instead: no two positions of the queue and no two workers    *)
(* have the same job, and a job is in one of the places at most.           *)
(***************************************************************************)
EXTENDS ThreadPool, SequenceTheorems, FiniteSetTheorems, TLAPS

InQueue(c) == \E i \in 1..Len(m_jobs_que) : m_jobs_que[i] = c
Held(c)    == \E w \in Workers : job[w] = c
Nowhere(c) == ~InQueue(c) /\ ~Held(c) /\ ran[c] = 0

Types == /\ m_block_when_full \in BOOLEAN
         /\ m_jobs_que \in Seq(Clients)
         /\ pc \in [Procs -> {"loop", "run", "call", "wait", "notify", "notify2", "join",
                              "returned"}]
         /\ job \in [Workers -> Clients \cup {None}]
         /\ ran \in [Clients -> {0, 1}]
         /\ result \in [Clients -> {None, "true", "false"}]

\* a worker holds a job while it runs it, and no job otherwise
WorkerInv == \A w \in Workers : pc[w] = "run" <=> job[w] \in Clients

\* QueueJob has returned when there is a result
ClientInv == \A c \in Clients : result[c] # None => pc[c] = "returned"

\* every place holds a job once
UniqueInv == /\ \A i, j \in 1..Len(m_jobs_que) : m_jobs_que[i] = m_jobs_que[j] => i = j
             /\ \A v, w \in Workers : job[v] = job[w] /\ job[v] \in Clients => v = w

\* and is the only place the job is in
PlaceInv == \A c \in Clients : /\ ~(InQueue(c) /\ Held(c))
                               /\ ran[c] = 1 => ~InQueue(c) /\ ~Held(c)

\* jobs that were not pushed are nowhere, those that were are somewhere
PushInv == \A c \in Clients :
    /\ pc[c] \in {"call", "wait"} \/ result[c] = "false" => Nowhere(c)
    /\ pc[c] = "notify" \/ (result[c] = "true" /\ ~m_block_when_full) => ~Nowhere(c)

IInv == Types /\ WorkerInv /\ ClientInv /\ UniqueInv /\ PlaceInv /\ PushInv

------------------------------------------------------------------------------
(* The invariant says what JobsConserved says *)

\* A set whose members are all the same has one member or none.
LEMMA OneOrNone ==
  ASSUME NEW A, \A x, y \in A : x = y
  PROVE  Cardinality(A) = IF A = {} THEN 0 ELSE 1
<1>1. CASE A = {}
  BY <1>1, FS_EmptySet
<1>2. CASE A # {}
  <2>1. PICK x : A = {x}
    BY <1>2
  <2> QED
    BY <1>2, <2>1, FS_Singleton
<1> QED
  BY <1>1, <1>2

\* When every job is in one place at most, its copies number one at most.
LEMMA InvConserved == IInv => JobsConserved
<1> SUFFICES ASSUME IInv, NEW c \in Clients
             PROVE  /\ pc[c] \in {"call", "wait"} \/ result[c] = "false" => Copies(c) = 0
                    /\ pc[c] = "notify" \/ (result[c] = "true" /\ ~m_block_when_full)
                         => Copies(c) = 1
                    /\ Copies(c) <= 1
  BY DEF JobsConserved
<1> DEFINE Q == {i \in DOMAIN m_jobs_que : m_jobs_que[i] = c}
           H == {w \in Workers : job[w] = c}
<1>1. Cardinality(Q) = IF InQueue(c) THEN 1 ELSE 0
  <2>1. DOMAIN m_jobs_que = 1..Len(m_jobs_que)
    BY LenProperties DEF IInv, Types
  <2>2. (Q = {} <=> ~InQueue(c)) /\ \A x, y \in Q : x = y
    BY <2>1 DEF InQueue, IInv, UniqueInv
  <2> QED
    BY <2>2, OneOrNone
<1>2. Cardinality(H) = IF Held(c) THEN 1 ELSE 0
  <2>1. (H = {} <=> ~Held(c)) /\ \A x, y \in H : x = y
    BY DEF Held, IInv, UniqueInv
  <2> QED
    BY <2>1, OneOrNone
<1>3. ran[c] \in {0, 1}
  BY DEF IInv, Types
<1> QED
  BY <1>1, <1>2, <1>3 DEF IInv, PlaceInv, PushInv, Nowhere, Copies

------------------------------------------------------------------------------
(* The invariant holds *)

\* The constructor leaves the queue empty and no job anywhere.
LEMMA InitIInv == Init => IInv
<1> SUFFICES ASSUME Init PROVE IInv
  OBVIOUS
<1>1. Types
  BY DEF Init, Types, Procs
<1>2. /\ None \notin Clients /\ Workers \cap Clients = {} /\ Len(m_jobs_que) = 0
      /\ Workers \subseteq Procs /\ Clients \subseteq Procs
  BY SetsAssumption DEF Init, None, Procs
<1>3. \A c \in Clients : Nowhere(c)
  BY <1>2 DEF Init, Nowhere, InQueue, Held
<1>4. WorkerInv /\ ClientInv /\ UniqueInv
  BY <1>2 DEF Init, WorkerInv, ClientInv, UniqueInv
<1>5. PlaceInv
  BY <1>3 DEF PlaceInv, Nowhere
<1>6. PushInv
  <2>1. \A c \in Clients : pc[c] = "call" /\ result[c] = None
    BY <1>2 DEF Init
  <2> QED
    BY <1>3, <2>1 DEF PushInv, None
<1> QED
  BY <1>1, <1>4, <1>5, <1>6 DEF IInv

\* what a step leaves alone when it moves one thread and no job
LEMMA NoJobMoves ==
  ASSUME IInv, UNCHANGED <<m_block_when_full, m_jobs_que, job, ran>>
  PROVE  /\ UniqueInv' /\ PlaceInv'
         /\ \A c \in Clients : Nowhere(c)' <=> Nowhere(c)
  BY DEF IInv, UniqueInv, PlaceInv, Nowhere, InQueue, Held

\* Workers, clients and the thread that calls Stop are different threads.
LEMMA Sorts == /\ None \notin Clients /\ Workers \cap Clients = {}
               /\ Stopper \notin Workers /\ Stopper \notin Clients
               /\ Workers \subseteq Procs /\ Clients \subseteq Procs /\ Stopper \in Procs
  BY SetsAssumption DEF None, Stopper, Procs

\* ThreadLoop moves the job at the front from the queue to one worker, and
\* runs it.
LEMMA WorkerIInv ==
  ASSUME IInv, NEW w \in Workers, ThreadLoop(w)
  PROVE  IInv'
<1> USE Sorts
<1>0. UNCHANGED m_block_when_full
  BY DEF ThreadLoop
<1>1. CASE WorkerSleep(w) \/ WorkerReturn(w)
  <2>1. UNCHANGED <<m_block_when_full, m_jobs_que, job, ran, result>>
    BY <1>0, <1>1 DEF WorkerSleep, WorkerReturn
  <2>2. Types' /\ WorkerInv' /\ \A c \in Clients : pc'[c] = pc[c]
    BY <1>1, <2>1 DEF IInv, Types, WorkerInv, WorkerSleep, WorkerReturn, Goto
  <2>3. ClientInv' /\ PushInv'
    BY <2>1, <2>2, NoJobMoves DEF IInv, ClientInv, PushInv
  <2> QED
    BY <2>1, <2>2, <2>3, NoJobMoves DEF IInv
<1>2. CASE WorkerTake(w)
  <2> DEFINE h == Head(m_jobs_que)
  <2>1. /\ m_jobs_que # <<>> /\ m_jobs_que' = Tail(m_jobs_que)
        /\ job' = [job EXCEPT ![w] = h] /\ UNCHANGED <<ran, result>>
        /\ pc[w] = "loop" /\ pc' = [pc EXCEPT ![w] = "run"]
    BY <1>2 DEF WorkerTake, Goto
  <2>2. /\ h \in Clients /\ h = m_jobs_que[1] /\ Len(m_jobs_que) \in Nat \ {0}
        /\ m_jobs_que' \in Seq(Clients) /\ Len(m_jobs_que') = Len(m_jobs_que) - 1
        /\ \A i \in 1..Len(m_jobs_que') : m_jobs_que'[i] = m_jobs_que[i + 1]
    BY <2>1 DEF IInv, Types
  <2>3. Types' /\ \A c \in Clients : pc'[c] = pc[c]
    BY <1>0, <2>1, <2>2 DEF IInv, Types
  <2>4. WorkerInv' /\ ClientInv'
    BY <2>1, <2>2, <2>3 DEF IInv, Types, WorkerInv, ClientInv
  <2>5. InQueue(h) /\ ~Held(h) /\ ran[h] = 0
    BY <2>2 DEF IInv, PlaceInv, InQueue, Types
  <2>6. \A c \in Clients : InQueue(c)' <=> InQueue(c) /\ c # h
    <3> TAKE c \in Clients
    <3>1. ASSUME NEW i \in 1..Len(m_jobs_que'), m_jobs_que'[i] = c
          PROVE  InQueue(c) /\ c # h
      <4>1. i + 1 \in 1..Len(m_jobs_que) /\ 1 \in 1..Len(m_jobs_que) /\ i + 1 # 1
        BY <2>2
      <4>2. m_jobs_que[i + 1] = c
        BY <2>2, <3>1
      <4> QED
        BY <2>2, <4>1, <4>2 DEF IInv, UniqueInv, InQueue
    <3>2. ASSUME NEW i \in 1..Len(m_jobs_que), m_jobs_que[i] = c, c # h
          PROVE  InQueue(c)'
      <4>1. i - 1 \in 1..Len(m_jobs_que') /\ (i - 1) + 1 = i
        BY <2>2, <3>2
      <4>2. m_jobs_que'[i - 1] = c
        BY <2>2, <3>2, <4>1
      <4> QED
        BY <4>1, <4>2 DEF InQueue
    <3> QED
      BY <3>1, <3>2 DEF InQueue
  <2>7. \A c \in Clients : Held(c)' <=> Held(c) \/ c = h
    BY <2>1 DEF IInv, Types, WorkerInv, Held
  <2>8. UniqueInv'
    <3>1. \A i, j \in 1..Len(m_jobs_que') : m_jobs_que'[i] = m_jobs_que'[j] => i = j
      BY <2>2 DEF IInv, UniqueInv
    <3>2. \A u, v \in Workers : job'[u] = job'[v] /\ job'[u] \in Clients => u = v
      BY <2>1, <2>5 DEF IInv, Types, UniqueInv, Held
    <3> QED
      BY <3>1, <3>2 DEF UniqueInv
  <2>9. \A c \in Clients : Nowhere(c)' <=> Nowhere(c)
    BY <2>1, <2>5, <2>6, <2>7 DEF Nowhere
  <2>10. PlaceInv' /\ PushInv'
    BY <1>0, <2>1, <2>3, <2>5, <2>6, <2>7, <2>9 DEF IInv, PlaceInv, PushInv
  <2> QED
    BY <2>3, <2>4, <2>8, <2>10 DEF IInv
<1>3. CASE WorkerRun(w)
  <2> DEFINE h == job[w]
  <2>1. /\ pc[w] = "run" /\ pc' = [pc EXCEPT ![w] = "loop"]
        /\ ran' = [ran EXCEPT ![h] = @ + 1] /\ job' = [job EXCEPT ![w] = None]
        /\ UNCHANGED <<m_jobs_que, result>>
    BY <1>3 DEF WorkerRun, Goto
  <2>2. h \in Clients /\ Held(h) /\ ~InQueue(h) /\ ran[h] = 0
    BY <2>1 DEF IInv, WorkerInv, PlaceInv, Held, Types
  <2>3. Types' /\ \A c \in Clients : pc'[c] = pc[c]
    BY <1>0, <2>1, <2>2 DEF IInv, Types
  <2>4. WorkerInv' /\ ClientInv'
    BY <2>1, <2>3 DEF IInv, Types, WorkerInv, ClientInv
  <2>5. \A c \in Clients : InQueue(c)' <=> InQueue(c)
    BY <2>1 DEF InQueue
  <2>6. \A c \in Clients : Held(c)' <=> Held(c) /\ c # h
    BY <2>1, <2>2 DEF IInv, Types, UniqueInv, Held
  <2>7. \A c \in Clients : ran'[c] = IF c = h THEN 1 ELSE ran[c]
    BY <2>1, <2>2 DEF IInv, Types
  <2>8. UniqueInv'
    BY <2>1 DEF IInv, Types, UniqueInv
  <2>9. \A c \in Clients : Nowhere(c)' <=> Nowhere(c)
    BY <2>2, <2>5, <2>6, <2>7 DEF Nowhere
  <2>10. PlaceInv' /\ PushInv'
    BY <1>0, <2>1, <2>2, <2>3, <2>5, <2>6, <2>7, <2>9 DEF IInv, PlaceInv, PushInv
  <2> QED
    BY <2>3, <2>4, <2>8, <2>10 DEF IInv
<1> QED
  BY <1>1, <1>2, <1>3 DEF ThreadLoop

\* QueueJob pushes its job once, or drops it when the queue is full or
\* stopped.
LEMMA ClientIInv ==
  ASSUME IInv, NEW c \in Clients, QueueJob(c)
  PROVE  IInv'
<1> USE Sorts
<1>0. UNCHANGED <<m_block_when_full, job, ran>> /\ pc[c] \in {"call", "wait", "notify"}
  BY DEF QueueJob, QueueReject, QueueSleep, QueueStopped, QueuePush, QueueNotify, AtTest, Goto
<1>1. ASSUME NEW to \in {"wait", "returned", "notify"}, pc' = [pc EXCEPT ![c] = to],
             NEW r \in {None, "true", "false"}, result' = [result EXCEPT ![c] = r],
             r # None => to = "returned", UNCHANGED m_jobs_que,
             to = "wait" \/ r = "false" => Nowhere(c),
             to = "notify" \/ (r = "true" /\ ~m_block_when_full) => ~Nowhere(c)
      PROVE  IInv'
  <2>1. Types' /\ WorkerInv' /\ ClientInv'
    BY <1>0, <1>1 DEF IInv, Types, WorkerInv, ClientInv
  <2>2. PushInv'
    BY <1>0, <1>1, NoJobMoves DEF IInv, PushInv, Types
  <2> QED
    BY <1>0, <1>1, <2>1, <2>2, NoJobMoves DEF IInv
<1>2. CASE QueueReject(c)
  <2>1. /\ pc' = [pc EXCEPT ![c] = "returned"] /\ result' = [result EXCEPT ![c] = "true"]
        /\ UNCHANGED m_jobs_que /\ m_block_when_full
    BY <1>2 DEF QueueReject, Goto
  <2> QED
    BY <1>1, <2>1
<1>3. CASE QueueSleep(c)
  <2>1. /\ pc' = [pc EXCEPT ![c] = "wait"] /\ result' = result /\ result[c] = None
        /\ UNCHANGED m_jobs_que /\ Nowhere(c)
    BY <1>3 DEF QueueSleep, AtTest, IInv, ClientInv, PushInv
  <2>2. result' = [result EXCEPT ![c] = None]
    BY <2>1 DEF IInv, Types
  <2>3. "wait" \in {"wait", "returned", "notify"} /\ None \in {None, "true", "false"}
        /\ None # "false" /\ None # "true"
    BY DEF None
  <2> QED
    BY <1>1, <2>1, <2>2, <2>3
<1>4. CASE QueueStopped(c)
  <2>1. /\ pc' = [pc EXCEPT ![c] = "returned"] /\ result' = [result EXCEPT ![c] = "false"]
        /\ UNCHANGED m_jobs_que /\ Nowhere(c)
    BY <1>4 DEF QueueStopped, AtTest, IInv, PushInv
  <2> QED
    BY <1>1, <2>1
<1>5. CASE QueueNotify(c)
  <2>1. /\ pc' = [pc EXCEPT ![c] = "returned"] /\ result' = [result EXCEPT ![c] = "true"]
        /\ UNCHANGED m_jobs_que /\ ~Nowhere(c)
    BY <1>5 DEF QueueNotify, Goto, IInv, PushInv
  <2> QED
    BY <1>1, <2>1
<1>6. CASE QueuePush(c)
  <2>1. /\ pc' = [pc EXCEPT ![c] = "notify"] /\ m_jobs_que' = Append(m_jobs_que, c)
        /\ result' = result /\ result[c] = None /\ Nowhere(c)
    BY <1>6 DEF QueuePush, AtTest, IInv, ClientInv, PushInv
  <2>2. /\ m_jobs_que' \in Seq(Clients) /\ Len(m_jobs_que) \in Nat
        /\ Len(m_jobs_que') = Len(m_jobs_que) + 1 /\ m_jobs_que'[Len(m_jobs_que')] = c
        /\ \A i \in 1..Len(m_jobs_que) : m_jobs_que'[i] = m_jobs_que[i]
    BY <2>1 DEF IInv, Types
  <2>3. Types' /\ WorkerInv' /\ ClientInv'
    BY <1>0, <2>1, <2>2 DEF IInv, Types, WorkerInv, ClientInv
  <2>4. \A i \in 1..Len(m_jobs_que') : i = Len(m_jobs_que') \/ i \in 1..Len(m_jobs_que)
    BY <2>2
  <2>5. \A d \in Clients : InQueue(d)' <=> InQueue(d) \/ d = c
    BY <2>2, <2>4 DEF InQueue
  <2>6. UniqueInv'
    <3>1. \A i \in 1..Len(m_jobs_que) : m_jobs_que[i] # c
      BY <2>1 DEF Nowhere, InQueue
    <3> QED
      BY <1>0, <2>2, <2>4, <3>1 DEF IInv, UniqueInv
  <2>7. \A d \in Clients : Held(d)' <=> Held(d)
    BY <1>0 DEF Held
  <2>8. PlaceInv'
    BY <1>0, <2>1, <2>5, <2>7 DEF IInv, PlaceInv, Nowhere
  <2>9. PushInv'
    <3>1. \A d \in Clients : Nowhere(d)' <=> Nowhere(d) /\ d # c
      BY <1>0, <2>5, <2>7 DEF Nowhere
    <3>2. \A d \in Clients \ {c} : pc'[d] = pc[d] /\ result'[d] = result[d]
      BY <2>1 DEF IInv, Types
    <3>3. pc'[c] = "notify" /\ result'[c] = None /\ None # "false"
      BY <2>1 DEF IInv, Types, None
    <3> QED
      BY <1>0, <3>1, <3>2, <3>3 DEF IInv, PushInv
  <2> QED
    BY <2>3, <2>6, <2>8, <2>9 DEF IInv
<1> QED
  BY <1>2, <1>3, <1>4, <1>5, <1>6 DEF QueueJob

\* Every step, Stop and wake-ups that nobody sent included, keeps the
\* invariant.
LEMMA NextIInv == IInv /\ [Next]_vars => IInv'
<1> SUFFICES ASSUME IInv, [Next]_vars
             PROVE  IInv'
  OBVIOUS
<1> USE Sorts
<1>1. CASE Stop \/ Spurious \/ UNCHANGED vars
  <2>1. /\ UNCHANGED <<m_block_when_full, m_jobs_que, job, ran, result>>
        /\ \A p \in Procs : p # Stopper => pc'[p] = pc[p]
        /\ Types'
    BY <1>1 DEF Stop, StopGoesOn, StopFlag, StopNotify, StopJoin, Spurious, vars, Goto,
       IInv, Types
  <2>2. \A p \in Workers \cup Clients : pc'[p] = pc[p]
    BY <2>1
  <2>3. WorkerInv' /\ ClientInv' /\ PushInv'
    BY <2>1, <2>2, NoJobMoves DEF IInv, WorkerInv, ClientInv, PushInv
  <2> QED
    BY <2>1, <2>3, NoJobMoves DEF IInv
<1> QED
  BY <1>1, WorkerIInv, ClientIInv DEF Next

\* In every reachable state of the pool every job is in one place at most.
THEOREM Invariant == Spec => []IInv
<1> QED
  BY InitIInv, NextIInv, PTL DEF Spec

\* thread-pool.cpp: a job that QueueJob pushed is in the queue, with one
\* worker, or has run, once and in one place; a job that was turned away is
\* nowhere.
THEOREM Conservation == Spec => []JobsConserved
<1> QED
  BY InvConserved, Invariant, PTL

==============================================================================
