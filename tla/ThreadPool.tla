----------------------------- MODULE ThreadPool -----------------------------
(***************************************************************************)
(* threads-locks/thread-pool: worker threads that take jobs from a bounded *)
(* queue, callers of QueueJob, and one caller of Stop.                     *)
(*                                                                         *)
(* Everything shared is accessed under m_queue_mutex, so what runs between *)
(* taking the mutex (or waking up with it) and releasing it (or going to   *)
(* sleep) is one step.  QueueJob and Stop notify after they have released  *)
(* the mutex: those are steps of their own.  A job is named by the client  *)
(* that queues it.                                                         *)
(***************************************************************************)
EXTENDS Integers, Sequences, FiniteSets

CONSTANTS Workers,           (* the m_num_threads threads of Start         *)
          Clients,           (* callers of QueueJob, one job each          *)
          m_max_que_size,
          MaxSpurious        (* bound on wake-ups without a notification   *)

ASSUME SetsAssumption == /\ IsFiniteSet(Workers) /\ IsFiniteSet(Clients)
                         /\ Workers \cap Clients = {}
                         /\ {"stop", "none"} \cap (Workers \cup Clients) = {}
ASSUME SizeAssumption == m_max_que_size \in Nat /\ MaxSpurious \in Nat

Stopper == "stop"            (* the thread that calls Stop                 *)
Procs   == Workers \cup Clients \cup {Stopper}
None    == "none"

VARIABLES m_block_when_full,    (* the constructor's flag, never changed   *)
          m_jobs_que,
          m_should_terminate,
          notEmpty,    (* threads asleep on m_queue_not_empty              *)
          notFull,     (* threads asleep on m_queue_not_full               *)
          pc,
          job,         (* job[w]: the job worker w holds, or None          *)
          ran,         (* ran[c]: how often the job of client c has run    *)
          result,      (* result[c]: what QueueJob returned to c           *)
          spurious

vars == <<m_block_when_full, m_jobs_que, m_should_terminate, notEmpty, notFull,
          pc, job, ran, result, spurious>>

Goto(p, from, to) == pc[p] = from /\ pc' = [pc EXCEPT ![p] = to]

\* notify_one
NotifyOne(sleepers) == IF sleepers = {} THEN {{}}
                                        ELSE {sleepers \ {s} : s \in sleepers}

\* the constructor and Start
Init == /\ m_block_when_full \in BOOLEAN
        /\ m_jobs_que = <<>>
        /\ m_should_terminate = FALSE
        /\ notEmpty = {} /\ notFull = {}
        /\ pc = [p \in Procs |-> IF p \in Workers THEN "loop" ELSE "call"]
        /\ job = [w \in Workers |-> None]
        /\ ran = [c \in Clients |-> 0]
        /\ result = [c \in Clients |-> None]
        /\ spurious = 0

------------------------------------------------------------------------------
(* ThreadLoop *)

\* m_queue_not_empty.wait with the predicate false
WorkerSleep(w) == /\ pc[w] = "loop" /\ w \notin notEmpty
                  /\ m_jobs_que = <<>> /\ ~m_should_terminate
                  /\ notEmpty' = notEmpty \cup {w}
                  /\ UNCHANGED <<m_jobs_que, m_should_terminate, notFull, pc, job,
                                 ran, result, spurious>>

\* if (m_should_terminate) return
WorkerReturn(w) == /\ w \notin notEmpty
                   /\ m_should_terminate
                   /\ Goto(w, "loop", "returned")
                   /\ UNCHANGED <<m_jobs_que, m_should_terminate, notEmpty, notFull,
                                  job, ran, result, spurious>>

\* the job is copied and left in the queue
MutantWorkerTakeNoPop(w) ==
    /\ w \notin notEmpty
    /\ m_jobs_que # <<>> /\ ~m_should_terminate
    /\ Goto(w, "loop", "run")
    /\ job' = [job EXCEPT ![w] = Head(m_jobs_que)]
    /\ notFull' \in NotifyOne(notFull)
    /\ UNCHANGED <<m_jobs_que, m_should_terminate, notEmpty, ran, result, spurious>>

\* job = front(); pop(); m_queue_not_full.notify_one()
WorkerTake(w) == /\ w \notin notEmpty
                 /\ m_jobs_que # <<>> /\ ~m_should_terminate
                 /\ Goto(w, "loop", "run")
                 /\ job' = [job EXCEPT ![w] = Head(m_jobs_que)]
                 /\ m_jobs_que' = Tail(m_jobs_que)
                 /\ notFull' \in NotifyOne(notFull)
                 /\ UNCHANGED <<m_should_terminate, notEmpty, ran, result, spurious>>

\* job(), without the mutex
WorkerRun(w) == /\ Goto(w, "run", "loop")
                /\ ran' = [ran EXCEPT ![job[w]] = @ + 1]
                /\ job' = [job EXCEPT ![w] = None]
                /\ UNCHANGED <<m_jobs_que, m_should_terminate, notEmpty, notFull,
                               result, spurious>>

------------------------------------------------------------------------------
(* QueueJob *)

Full == Len(m_jobs_que) = m_max_que_size

\* if (full && m_block_when_full) return -1, which is true as a bool
QueueReject(c) == /\ Full /\ m_block_when_full
                  /\ Goto(c, "call", "returned")
                  /\ result' = [result EXCEPT ![c] = "true"]
                  /\ UNCHANGED <<m_jobs_que, m_should_terminate, notEmpty, notFull,
                                 job, ran, spurious>>

\* c has the mutex at the test of m_queue_not_full.wait
AtTest(c) == \/ pc[c] = "call" /\ ~(Full /\ m_block_when_full)
             \/ pc[c] = "wait" /\ c \notin notFull

\* the predicate is false: size >= max and not terminating
QueueSleep(c) == /\ AtTest(c)
                 /\ Len(m_jobs_que) >= m_max_que_size /\ ~m_should_terminate
                 /\ pc' = [pc EXCEPT ![c] = "wait"]
                 /\ notFull' = notFull \cup {c}
                 /\ UNCHANGED <<m_jobs_que, m_should_terminate, notEmpty, job, ran,
                                result, spurious>>

\* if (m_should_terminate) return false
QueueStopped(c) == /\ AtTest(c)
                   /\ m_should_terminate
                   /\ pc' = [pc EXCEPT ![c] = "returned"]
                   /\ result' = [result EXCEPT ![c] = "false"]
                   /\ UNCHANGED <<m_jobs_que, m_should_terminate, notEmpty, notFull,
                                  job, ran, spurious>>

\* m_jobs_que.push(job)
QueuePush(c) == /\ AtTest(c)
                /\ Len(m_jobs_que) < m_max_que_size /\ ~m_should_terminate
                /\ pc' = [pc EXCEPT ![c] = "notify"]
                /\ m_jobs_que' = Append(m_jobs_que, c)
                /\ UNCHANGED <<m_should_terminate, notEmpty, notFull, job, ran,
                               result, spurious>>

\* the workers are not told
MutantQueueNotify(c) == /\ Goto(c, "notify", "returned")
                        /\ result' = [result EXCEPT ![c] = "true"]
                        /\ UNCHANGED <<m_jobs_que, m_should_terminate, notEmpty,
                                       notFull, job, ran, spurious>>

\* m_queue_not_empty.notify_one(); return true
QueueNotify(c) == /\ Goto(c, "notify", "returned")
                  /\ notEmpty' \in NotifyOne(notEmpty)
                  /\ result' = [result EXCEPT ![c] = "true"]
                  /\ UNCHANGED <<m_jobs_que, m_should_terminate, notFull, job, ran,
                                 spurious>>

------------------------------------------------------------------------------
(* Stop *)

\* m_should_terminate = true
StopFlag == /\ Goto(Stopper, "call", "notify")
            /\ m_should_terminate' = TRUE
            /\ UNCHANGED <<m_jobs_que, notEmpty, notFull, job, ran, result, spurious>>

\* only one worker is woken
MutantStopNotify == /\ \/ /\ Goto(Stopper, "notify", "notify2")
                          /\ notEmpty' \in NotifyOne(notEmpty) /\ UNCHANGED notFull
                       \/ /\ Goto(Stopper, "notify2", "join")
                          /\ notFull' = {} /\ UNCHANGED notEmpty
                    /\ UNCHANGED <<m_jobs_que, m_should_terminate, job, ran, result,
                                   spurious>>

\* m_queue_not_empty.notify_all(); m_queue_not_full.notify_all()
StopNotify == /\ \/ /\ Goto(Stopper, "notify", "notify2")
                    /\ notEmpty' = {} /\ UNCHANGED notFull
                 \/ /\ Goto(Stopper, "notify2", "join")
                    /\ notFull' = {} /\ UNCHANGED notEmpty
              /\ UNCHANGED <<m_jobs_que, m_should_terminate, job, ran, result,
                             spurious>>

\* join every worker; m_threads.clear()
StopJoin == /\ \A w \in Workers : pc[w] = "returned"
            /\ Goto(Stopper, "join", "returned")
            /\ UNCHANGED <<m_jobs_que, m_should_terminate, notEmpty, notFull, job,
                           ran, result, spurious>>

------------------------------------------------------------------------------
\* a condition variable may wake a thread that nobody notified
Spurious == /\ spurious < MaxSpurious
            /\ \/ /\ \E w \in notEmpty : notEmpty' = notEmpty \ {w}
                  /\ UNCHANGED notFull
               \/ /\ \E c \in notFull : notFull' = notFull \ {c}
                  /\ UNCHANGED notEmpty
            /\ spurious' = spurious + 1
            /\ UNCHANGED <<m_block_when_full, m_jobs_que, m_should_terminate, pc, job,
                           ran, result>>

ThreadLoop(w) == /\ WorkerSleep(w) \/ WorkerReturn(w) \/ WorkerTake(w) \/ WorkerRun(w)
                 /\ UNCHANGED m_block_when_full
QueueJob(c)   == /\ \/ QueueReject(c) \/ QueueSleep(c) \/ QueueStopped(c)
                    \/ QueuePush(c) \/ QueueNotify(c)
                 /\ UNCHANGED m_block_when_full
StopGoesOn    == (StopNotify \/ StopJoin) /\ UNCHANGED m_block_when_full
Stop          == (StopFlag /\ UNCHANGED m_block_when_full) \/ StopGoesOn

Next == \/ \E w \in Workers : ThreadLoop(w)
        \/ \E c \in Clients : QueueJob(c)
        \/ Stop
        \/ Spurious

Spec == Init /\ [][Next]_vars

\* threads that can run do run; a Stop that has begun goes on, but nobody is
\* obliged to call it
FairSpec == /\ Spec
            /\ \A w \in Workers : WF_vars(ThreadLoop(w))
            /\ \A c \in Clients : WF_vars(QueueJob(c))
            /\ WF_vars(StopGoesOn)

------------------------------------------------------------------------------
(* Properties *)

\* where the job of client c is: how often queued, held by a worker, or run
Copies(c) == Cardinality({i \in DOMAIN m_jobs_que : m_jobs_que[i] = c})
             + Cardinality({w \in Workers : job[w] = c})
             + ran[c]

\* A job that QueueJob pushed is in exactly one place: in the queue, with one
\* worker, or run once.  A job it turned away is nowhere, and a caller that
\* is told true has its job queued, unless m_block_when_full turned it away.
\* So no job is lost in the queue or run twice, whoever is stopped or woken in
\* between.
JobsConserved ==
    \A c \in Clients :
        /\ pc[c] \in {"call", "wait"} \/ result[c] = "false" => Copies(c) = 0
        /\ pc[c] = "notify" \/ (result[c] = "true" /\ ~m_block_when_full)
             => Copies(c) = 1
        /\ Copies(c) <= 1

\* A job in the queue is run, unless the pool is stopped before.
JobsRun == \A c \in Clients : Copies(c) = 1 ~> ran[c] = 1 \/ m_should_terminate

\* Every call returns: a caller of QueueJob that waits for room is woken by the
\* worker that makes it, or by Stop, and Stop returns because every worker,
\* asleep or running, notices the flag.
CallsReturn == /\ \A c \in Clients : <>(pc[c] = "returned")
               /\ m_should_terminate ~> pc[Stopper] = "returned"
==============================================================================
