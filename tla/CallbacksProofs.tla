--------------------------- MODULE CallbacksProofs ---------------------------
(***************************************************************************)
(* The programs that call back, for any number of operations, threads,     *)
(* posters, posts and subscribers: the dispatch queue starts operations in *)
(* order and its destructor leaves none running, the event queue forgets   *)
(* no event, and the callback after two tasks is called once.              *)
(***************************************************************************)
EXTENDS MCCallbacks, SequenceTheorems, TLAPS

------------------------------------------------------------------------------
(* The dispatch queue *)

\* the operations that are being run
Running == {op[w] : w \in {v \in Workers : worker[v] = "run"}}

\* operation i is the i-th to start, and the others are queued in their order
OrderInv == /\ dispatched \in Nat
            /\ q_ \in Seq(Nat) /\ started \in Seq(Nat)
            /\ Len(started) + Len(q_) = dispatched
            /\ \A i \in 1..Len(started) : started[i] = i
            /\ \A i \in 1..Len(q_) : q_[i] = Len(started) + i

\* an operation that was started is being run or has run
RunInv == /\ worker \in [Workers -> {"wait", "run", "returned"}]
          /\ op \in [Workers -> Nat]
          /\ finished \cup Running = 1..Len(started)
          /\ main = "returned" => \A w \in Workers : worker[w] = "returned"

DispatchInv == OrderInv /\ RunInv

\* The constructor leaves the queue empty and nothing started.
LEMMA DispatchInit == Init => DispatchInv
<1> SUFFICES ASSUME Init PROVE DispatchInv
  OBVIOUS
<1>1. OrderInv
  BY DEF Init, OrderInv
<1>2. Running = {}
  BY DEF Init, Running
<1> QED
  BY <1>1, <1>2 DEF Init, DispatchInv, RunInv

\* dispatch, the handler threads and the destructor keep the order and lose no
\* operation.
LEMMA DispatchNext ==
  ASSUME DispatchInv, \/ \E w \in Workers : dispatch_thread_handler(w) \/ Spurious(w)
                      \/ MainStep
  PROVE  DispatchInv'
<1>1. ASSUME NEW w \in Workers, Sleep(w) \/ Spurious(w)
      PROVE  DispatchInv'
  <2>1. UNCHANGED <<q_, worker, op, main, dispatched, started, finished>>
    BY <1>1 DEF Sleep, Spurious
  <2>2. Running' = Running
    BY <2>1 DEF Running
  <2>3. OrderInv'
    BY <2>1 DEF DispatchInv, OrderInv
  <2> QED
    BY <2>1, <2>2, <2>3 DEF DispatchInv, RunInv
<1>2. ASSUME NEW w \in Workers, Take(w)
      PROVE  DispatchInv'
  <2> USE DEF DispatchInv
  <2>1. /\ q_ \in Seq(Nat) /\ q_ # <<>> /\ Len(q_) \in Nat \ {0}
        /\ Head(q_) = Len(started) + 1 /\ Len(started) \in Nat
    BY <1>2 DEF Take, OrderInv
  <2>2. /\ q_' \in Seq(Nat) /\ Len(q_') = Len(q_) - 1
        /\ \A i \in 1..Len(q_') : q_'[i] = q_[i + 1]
    BY <1>2, <2>1 DEF Take
  <2>3. /\ started' \in Seq(Nat) /\ Len(started') = Len(started) + 1
        /\ \A i \in 1..Len(started') :
             started'[i] = IF i = Len(started') THEN Head(q_) ELSE started[i]
    BY <1>2, <2>1 DEF Take, OrderInv
  <2>4. OrderInv'
    <3>1. \A i \in 1..Len(q_') : q_'[i] = Len(started') + i
      BY <2>1, <2>2, <2>3 DEF OrderInv
    <3>2. \A i \in 1..Len(started') : started'[i] = i
      <4> SUFFICES ASSUME NEW i \in 1..Len(started') PROVE started'[i] = i
        OBVIOUS
      <4>1. CASE i = Len(started')
        BY <2>1, <2>3, <4>1
      <4>2. CASE i # Len(started')
        <5>1. i \in 1..Len(started)
          BY <2>1, <2>3, <4>2
        <5> QED
          BY <2>3, <4>2, <5>1 DEF OrderInv
      <4> QED
        BY <4>1, <4>2
    <3>3. Len(started) + Len(q_) = dispatched /\ dispatched \in Nat /\ dispatched' = dispatched
      BY <1>2 DEF OrderInv, Take
    <3>4. Len(started') + Len(q_') = dispatched' /\ dispatched' \in Nat
      <4>1. /\ Len(started') = Len(started) + 1 /\ Len(q_') = Len(q_) - 1
            /\ Len(started) \in Int /\ Len(q_) \in Int
        BY <2>1, <2>2, <2>3
      <4> QED
        BY <3>3, <4>1
    <3> QED
      BY <2>2, <2>3, <3>1, <3>2, <3>4 DEF OrderInv
  <2>5. Running' = Running \cup {Len(started')}
    BY <1>2, <2>1, <2>3 DEF Running, RunInv, Take, AtWait
  <2>6. 1..Len(started') = 1..Len(started) \cup {Len(started')}
    BY <2>1, <2>3
  <2>7. finished' \cup Running' = 1..Len(started')
    BY <1>2, <2>5, <2>6 DEF RunInv, Take
  <2>8. RunInv'
    BY <1>2, <2>1, <2>7 DEF RunInv, Take, AtWait
  <2> QED
    BY <2>4, <2>8
<1>3. ASSUME NEW w \in Workers, Run(w)
      PROVE  DispatchInv'
  <2>1. finished' \cup Running' = finished \cup Running
    <3>1. Running = Running' \cup {op[w]}
      BY <1>3 DEF Running, Run, DispatchInv, RunInv
    <3> QED
      BY <1>3, <3>1 DEF Run
  <2> QED
    BY <1>3, <2>1 DEF DispatchInv, OrderInv, RunInv, Run
<1>4. ASSUME NEW w \in Workers, Return(w)
      PROVE  DispatchInv'
  <2>1. Running' = Running
    BY <1>4 DEF Running, Return, AtWait, DispatchInv, RunInv
  <2> QED
    BY <1>4, <2>1 DEF DispatchInv, OrderInv, RunInv, Return, AtWait
<1>5. CASE Dispatch
  <2>1. /\ q_' \in Seq(Nat) /\ Len(q_') = Len(q_) + 1
        /\ \A i \in 1..Len(q_') :
             q_'[i] = IF i = Len(q_') THEN dispatched + 1 ELSE q_[i]
    BY <1>5 DEF Dispatch, DispatchInv, OrderInv
  <2>2. OrderInv'
    <3>1. /\ Len(started) \in Nat /\ Len(q_) \in Nat /\ started' = started
          /\ dispatched \in Nat /\ dispatched' = dispatched + 1
          /\ Len(started) + Len(q_) = dispatched
      BY <1>5 DEF Dispatch, DispatchInv, OrderInv
    <3>2. \A i \in 1..Len(q_') : q_'[i] = Len(started) + i
      <4> SUFFICES ASSUME NEW i \in 1..Len(q_') PROVE q_'[i] = Len(started) + i
        OBVIOUS
      <4>1. CASE i = Len(q_')
        BY <2>1, <3>1, <4>1
      <4>2. CASE i # Len(q_')
        <5>1. i \in 1..Len(q_)
          BY <2>1, <3>1, <4>2
        <5> QED
          BY <2>1, <4>2, <5>1 DEF DispatchInv, OrderInv
      <4> QED
        BY <4>1, <4>2
    <3> QED
      BY <2>1, <3>1, <3>2 DEF DispatchInv, OrderInv
  <2> QED
    BY <1>5, <2>2 DEF Dispatch, DispatchInv, RunInv, Running
<1>6. CASE Quit \/ Join
  <2>1. /\ UNCHANGED <<q_, worker, op, dispatched, started, finished>>
        /\ main' = "returned" => \A w \in Workers : worker[w] = "returned"
    BY <1>6 DEF Quit, Join
  <2>2. Running' = Running
    BY <2>1 DEF Running
  <2>3. OrderInv'
    BY <2>1 DEF DispatchInv, OrderInv
  <2> QED
    BY <2>1, <2>2, <2>3 DEF DispatchInv, RunInv
<1> QED
  BY <1>1, <1>2, <1>3, <1>4, <1>5, <1>6 DEF dispatch_thread_handler, MainStep

\* The order of the queue gives the order of the starts.
LEMMA InvInOrder == DispatchInv => StartedInOrder
<1> SUFFICES ASSUME DispatchInv PROVE StartedInOrder
  OBVIOUS
<1> DEFINE s == started \o q_
<1>1. /\ s \in Seq(Nat) /\ Len(s) = dispatched
      /\ \A i \in 1..dispatched : s[i] = IF i <= Len(started) THEN started[i]
                                         ELSE q_[i - Len(started)]
  BY DEF DispatchInv, OrderInv
<1>2. \A i \in 1..dispatched : s[i] = i
  BY <1>1 DEF DispatchInv, OrderInv
<1>3. s \in [1..Len(s) -> Nat]
  BY <1>1, LenProperties
<1>4. s = [i \in 1..dispatched |-> i]
  BY <1>1, <1>2, <1>3
<1> QED
  BY <1>4 DEF StartedInOrder

\* Once the handlers have returned, what was started is finished.
LEMMA InvNothingRuns == DispatchInv => NothingRunsAfter
<1> SUFFICES ASSUME DispatchInv, main = "returned"
             PROVE  finished = {started[i] : i \in DOMAIN started}
  BY DEF NothingRunsAfter
<1>1. Running = {}
  BY DEF DispatchInv, RunInv, Running
<1>2. /\ DOMAIN started = 1..Len(started)
      /\ \A i \in 1..Len(started) : started[i] = i
  BY DEF DispatchInv, OrderInv
<1>3. {started[i] : i \in DOMAIN started} = 1..Len(started)
  BY <1>2
<1> QED
  BY <1>1, <1>3 DEF DispatchInv, RunInv

------------------------------------------------------------------------------
(* The event queue *)

\* whoever is owed a call is subscribed; an event it was posted is pending, or
\* the forwarder has taken it and has yet to come to the subscriber
EventInv == /\ owed \subseteq subscribers_ \cap handlers
            /\ \A s \in owed : \/ pending_event_
                               \/ fwd = "trigger"
                               \/ fwd = "call" /\ s \in todo

\* Posting, forwarding, subscribing and halting keep the event of everybody
\* who is owed a call.
LEMMA EventNext ==
  ASSUME EventInv, \/ E!run_forwardThread
                   \/ \E p \in Posters : E!PostEvent(p)
                   \/ \E s \in Subscribers : E!SubscribeToEvent(s) \/ E!LetGo(s)
                   \/ E!Halt \/ E!HaltNotify \/ E!HaltJoin
  PROVE  EventInv'
<1> USE DEF EventInv, E!qvars, E!fvars, E!cvars, E!Goto
<1>1. CASE E!Lock \/ E!Loop \/ E!Pred \/ E!Sleep \/ E!Woken \/ E!Timeout
  BY <1>1 DEF E!Lock, E!Loop, E!Pred, E!Sleep, E!Woken, E!Timeout
<1>2. CASE E!Check
  BY <1>2 DEF E!Check
<1>3. CASE E!Remove
  BY <1>3 DEF E!Remove
<1>4. CASE E!Call
  BY <1>4 DEF E!Call
<1>5. CASE E!Called
  BY <1>5 DEF E!Called
<1>6. ASSUME NEW p \in Posters, E!PostEvent(p)
      PROVE  EventInv'
  BY <1>6 DEF E!PostEvent, E!PostFlag, E!PostNotify
<1>7. ASSUME NEW s \in Subscribers, E!SubscribeToEvent(s) \/ E!LetGo(s)
      PROVE  EventInv'
  BY <1>7 DEF E!SubscribeToEvent, E!LetGo
<1>8. CASE E!Halt \/ E!HaltNotify \/ E!HaltJoin
  BY <1>8 DEF E!Halt, E!HaltNotify, E!HaltJoin
<1> QED
  BY <1>1, <1>2, <1>3, <1>4, <1>5, <1>6, <1>7, <1>8 DEF E!run_forwardThread

------------------------------------------------------------------------------
(* The callback after two tasks *)

\* the second task starts when the first has ended, so that the first finds 1
\* and the second 0
TaskInv ==
    /\ task \in [T!Tasks -> {"new", "decrement", "load", "call", "end"}]
    /\ \/ /\ starting = 1 /\ task[2] = "new" /\ called = 0
          /\ task[1] # "call"
          /\ counter = IF task[1] \in {"new", "decrement"} THEN 2 ELSE 1
       \/ /\ starting = 2 /\ task[1] = "end"
          /\ counter = IF task[2] \in {"new", "decrement"} THEN 1 ELSE 0
          /\ called = IF task[2] = "end" THEN 1 ELSE 0
       \/ /\ starting = 3 /\ task[1] = "end" /\ task[2] = "end" /\ called = 1

\* The steps of StartTwoTasks and of its two tasks keep the counter and the
\* count of the calls.
LEMMA TaskNext ==
  ASSUME TaskInv, NEW t \in T!Tasks, T!Step(t)
  PROVE  TaskInv'
<1>1. t = 1 \/ t = 2
  BY DEF T!Tasks
<1> USE DEF TaskInv, T!Tasks, T!Goto
<1>2. CASE T!StartTask(t)
  BY <1>1, <1>2 DEF T!StartTask
<1>3. CASE T!AsyncReturns(t)
  BY <1>1, <1>3 DEF T!AsyncReturns
<1>4. CASE T!Decrement(t)
  BY <1>1, <1>4 DEF T!Decrement
<1>5. CASE T!Load(t)
  BY <1>1, <1>5 DEF T!Load
<1>6. CASE T!Call(t)
  BY <1>1, <1>6 DEF T!Call
<1> QED
  BY <1>2, <1>3, <1>4, <1>5, <1>6 DEF T!Step

------------------------------------------------------------------------------
(* The three programs *)

IInv == DispatchInv /\ EventInv /\ TaskInv

\* The three programs start in the invariant.
LEMMA InitIInv == RunInit => IInv
<1> SUFFICES ASSUME RunInit PROVE IInv
  OBVIOUS
<1>1. DispatchInv
  BY DispatchInit DEF RunInit
<1>2. EventInv
  BY DEF RunInit, E!Init, EventInv
<1>3. TaskInv
  BY DEF RunInit, T!Init, T!Tasks, TaskInv
<1> QED
  BY <1>1, <1>2, <1>3 DEF IInv

\* A step of one program keeps the invariants of all three.
LEMMA NextIInv == IInv /\ [RunNext]_all => IInv'
<1> SUFFICES ASSUME IInv, [RunNext]_all
             PROVE  IInv'
  OBVIOUS
<1>1. UNCHANGED vars => DispatchInv'
  BY DEF vars, IInv, DispatchInv, OrderInv, RunInv, Running
<1>2. UNCHANGED evars => EventInv'
  BY DEF evars, IInv, EventInv
<1>3. UNCHANGED tvars => TaskInv'
  BY DEF tvars, IInv, TaskInv
<1>4. CASE \/ \E w \in Workers : Handler(w) \/ DispatchOnly(Spurious(w))
           \/ DispatchOnly(MainStep)
  <2>1. /\ \/ \E w \in Workers : dispatch_thread_handler(w) \/ Spurious(w)
           \/ MainStep
        /\ UNCHANGED evars /\ UNCHANGED tvars
    BY <1>4 DEF Handler, DispatchOnly
  <2> QED
    BY <1>2, <1>3, <2>1, DispatchNext DEF IInv
<1>5. CASE \/ Forwarder
           \/ \E p \in Posters : EventOnly(E!PostEvent(p))
           \/ \E s \in Subscribers : EventOnly(E!SubscribeToEvent(s) \/ E!LetGo(s))
           \/ EventOnly(E!Halt \/ E!HaltNotify \/ E!HaltJoin)
  <2>1. /\ \/ E!run_forwardThread
           \/ \E p \in Posters : E!PostEvent(p)
           \/ \E s \in Subscribers : E!SubscribeToEvent(s) \/ E!LetGo(s)
           \/ E!Halt \/ E!HaltNotify \/ E!HaltJoin
        /\ UNCHANGED vars /\ UNCHANGED tvars
    BY <1>5 DEF Forwarder, EventOnly
  <2> QED
    BY <1>1, <1>3, <2>1, EventNext DEF IInv
<1>6. CASE \E t \in T!Tasks : TaskOnly(T!Step(t))
  <2>1. /\ \E t \in T!Tasks : T!Step(t)
        /\ UNCHANGED vars /\ UNCHANGED evars
    BY <1>6 DEF TaskOnly
  <2> QED
    BY <1>1, <1>2, <2>1, TaskNext DEF IInv
<1>7. CASE UNCHANGED all
  BY <1>1, <1>2, <1>3, <1>7 DEF all, IInv
<1> QED
  BY <1>4, <1>5, <1>6, <1>7 DEF RunNext

\* In every reachable state the queue is in order, owed events are kept, and
\* the two tasks count down in turn.
THEOREM Invariant == RunSpec => []IInv
<1> QED
  BY InitIInv, NextIInv, PTL DEF RunSpec

\* dispatch-que.cpp: operations are started once each, in the order dispatch
\* was called, whichever threads take them.
THEOREM OperationsInOrder == RunSpec => []StartedInOrder
<1>1. IInv => StartedInOrder
  BY InvInOrder DEF IInv
<1> QED
  BY <1>1, Invariant, PTL

\* dispatch-que.cpp: when ~dispatch_queue returns, every operation that was
\* started has run to its end.
THEOREM DestructorIsLast == RunSpec => []NothingRunsAfter
<1>1. IInv => NothingRunsAfter
  BY InvNothingRuns DEF IInv
<1> QED
  BY <1>1, Invariant, PTL

\* EventQueue: when the forwarder has returned, a subscriber that it has not
\* called since an event was posted has that event pending; what the forwarder
\* took it has delivered, although events are posted without the mutex.
THEOREM TakenIsDelivered ==
  RunSpec => [](\A s \in Subscribers : fwd = "returned" /\ s \in owed => pending_event_)
<1>1. IInv => \A s \in Subscribers : fwd = "returned" /\ s \in owed => pending_event_
  BY DEF IInv, EventInv
<1> QED
  BY <1>1, Invariant, PTL

\* thraed-safe-callback.cpp: the callback is called exactly once by the time
\* StartTwoTasks returns.
THEOREM OneCallback == RunSpec => []CalledBackOnce
<1>1. IInv => CalledBackOnce
  BY DEF IInv, TaskInv, CalledBackOnce, T!CalledBackOnce
<1> QED
  BY <1>1, Invariant, PTL

==============================================================================
