---------------------------- MODULE DispatchQueue ----------------------------
(***************************************************************************)
(* threads-locks/other-problems/call-backs/dispatch-que.cpp: a queue of    *)
(* operations, threads that run them, and a destructor that stops them.    *)
(* main dispatches operations 1, 2, ... and then destroys the queue.       *)
(*                                                                         *)
(* Every access to the queue is under lock_, so a step is a critical       *)
(* section: from taking lock_ to giving it up, in cv_.wait included.       *)
(***************************************************************************)
EXTENDS Integers, Sequences, FiniteSets

CONSTANTS Workers,       (* the threads_ of the queue                      *)
          Ops,           (* number of operations main dispatches           *)
          MaxSpurious    (* bound on wake-ups without a signal             *)

ASSUME WorkersAssumption == IsFiniteSet(Workers)
ASSUME BoundsAssumption  == Ops \in Nat /\ MaxSpurious \in Nat

VARIABLES q_, quit_,
          asleep,      (* workers asleep on cv_                            *)
          worker,      (* worker[w]: "wait", "run" or "returned"           *)
          op,          (* op[w]: the operation w runs, or 0                *)
          main,        (* "dispatch", "join" or "returned"                 *)
          dispatched,  (* calls of dispatch so far                         *)
          started,     (* operations in the order they were started        *)
          finished,    (* operations that have run to their end            *)
          spurious

vars == <<q_, quit_, asleep, worker, op, main, dispatched, started, finished, spurious>>

\* the constructor
Init == /\ q_ = <<>> /\ quit_ = FALSE
        /\ asleep = {}
        /\ worker = [w \in Workers |-> "wait"]
        /\ op = [w \in Workers |-> 0]
        /\ main = "dispatch"
        /\ dispatched = 0 /\ started = <<>> /\ finished = {}
        /\ spurious = 0

------------------------------------------------------------------------------
(* dispatch_thread_handler *)

AtWait(w) == worker[w] = "wait" /\ w \notin asleep

\* the predicate of cv_.wait is false
Sleep(w) == /\ AtWait(w)
            /\ q_ = <<>> /\ ~quit_
            /\ asleep' = asleep \cup {w}
            /\ UNCHANGED <<q_, quit_, worker, op, main, dispatched, started, finished, spurious>>

\* the operation stays in the queue
MutantTakeNoPop(w) == /\ AtWait(w)
                      /\ q_ # <<>> /\ ~quit_
                      /\ op' = [op EXCEPT ![w] = Head(q_)]
                      /\ started' = Append(started, Head(q_))
                      /\ worker' = [worker EXCEPT ![w] = "run"]
                      /\ UNCHANGED <<q_, quit_, asleep, main, dispatched, finished, spurious>>

\* op = std::move(q_.front()); q_.pop(); lock.unlock()
Take(w) == /\ AtWait(w)
           /\ q_ # <<>> /\ ~quit_
           /\ op' = [op EXCEPT ![w] = Head(q_)]
           /\ q_' = Tail(q_)
           /\ started' = Append(started, Head(q_))
           /\ worker' = [worker EXCEPT ![w] = "run"]
           /\ UNCHANGED <<quit_, asleep, main, dispatched, finished, spurious>>

\* op(); lock.lock(), and the loop ends if quit_ is set
Run(w) == /\ worker[w] = "run"
          /\ finished' = finished \cup {op[w]}
          /\ op' = [op EXCEPT ![w] = 0]
          /\ worker' = [worker EXCEPT ![w] = IF quit_ THEN "returned" ELSE "wait"]
          /\ UNCHANGED <<q_, quit_, asleep, main, dispatched, started, spurious>>

\* quit_ is set: the operations that are still queued are not taken
Return(w) == /\ AtWait(w)
             /\ quit_
             /\ worker' = [worker EXCEPT ![w] = "returned"]
             /\ UNCHANGED <<q_, quit_, asleep, op, main, dispatched, started, finished, spurious>>

\* cv_.wait tests its predicate again after a wake-up that nobody sent
Spurious(w) == /\ w \in asleep /\ spurious < MaxSpurious
               /\ asleep' = asleep \ {w}
               /\ spurious' = spurious + 1
               /\ UNCHANGED <<q_, quit_, worker, op, main, dispatched, started, finished>>

------------------------------------------------------------------------------
(* main *)

\* dispatch: push and notify_one
Dispatch == /\ main = "dispatch" /\ dispatched < Ops
            /\ dispatched' = dispatched + 1
            /\ q_' = Append(q_, dispatched')
            /\ \/ asleep = {} /\ UNCHANGED asleep
               \/ \E w \in asleep : asleep' = asleep \ {w}
            /\ UNCHANGED <<quit_, worker, op, main, started, finished, spurious>>

\* notify_one instead of notify_all
MutantQuit == /\ main = "dispatch" /\ dispatched = Ops
              /\ main' = "join"
              /\ quit_' = TRUE
              /\ \/ asleep = {} /\ UNCHANGED asleep
                 \/ \E w \in asleep : asleep' = asleep \ {w}
              /\ UNCHANGED <<q_, worker, op, dispatched, started, finished, spurious>>

\* ~dispatch_queue: quit_ = true and notify_all, under lock_
Quit == /\ main = "dispatch" /\ dispatched = Ops
        /\ main' = "join"
        /\ quit_' = TRUE
        /\ asleep' = {}
        /\ UNCHANGED <<q_, worker, op, dispatched, started, finished, spurious>>

\* the threads are detached
MutantJoin == /\ main = "join"
              /\ main' = "returned"
              /\ UNCHANGED <<q_, quit_, asleep, worker, op, dispatched, started, finished, spurious>>

\* the joins
Join == /\ main = "join"
        /\ \A w \in Workers : worker[w] = "returned"
        /\ main' = "returned"
        /\ UNCHANGED <<q_, quit_, asleep, worker, op, dispatched, started, finished, spurious>>

------------------------------------------------------------------------------
dispatch_thread_handler(w) == Sleep(w) \/ Take(w) \/ Run(w) \/ Return(w)
MainStep == Dispatch \/ Quit \/ Join

------------------------------------------------------------------------------
(* Properties *)

\* Operations are started once each and in the order of the calls of
\* dispatch: what has been started and what is queued are together what was
\* dispatched, in order.
StartedInOrder == started \o q_ = [i \in 1..dispatched |-> i]

\* When the destructor returns no operation is running: no thread uses the
\* queue any more.
NothingRunsAfter ==
    main = "returned" => finished = {started[i] : i \in DOMAIN started}

\* A dispatched operation is run, unless the queue is destroyed: a wake-up
\* that comes while all threads run operations is not lost.
OpsRun == \A i \in 1..Ops : dispatched >= i ~> i \in finished \/ quit_
==============================================================================
