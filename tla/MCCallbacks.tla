----------------------------- MODULE MCCallbacks -----------------------------
(***************************************************************************)
(* The programs that call back: the dispatch queue, the event queue and    *)
(* the callback after two tasks.  One behaviour runs one of them.          *)
(***************************************************************************)
EXTENDS DispatchQueue

CONSTANTS Posters, Subscribers, Posts, MaxSleeps

VARIABLES program,
          pending_event_, halting_, subscribers_, handlers, gone, fwd, notified,
          todo, poster, posts, destroyer, owed, sleeps,
          counter, task, starting, called

T == INSTANCE TwoTasks
E == INSTANCE EventQueue

ASSUME EventAssumption == /\ IsFiniteSet(Posters) /\ IsFiniteSet(Subscribers)
                          /\ Posts \in Nat /\ MaxSleeps \in Nat

evars == <<pending_event_, halting_, subscribers_, handlers, gone, fwd, notified,
           todo, poster, posts, destroyer, owed, sleeps>>
tvars == <<counter, task, starting, called>>
all   == <<program, vars, evars, tvars>>

------------------------------------------------------------------------------
RunInit == /\ program \in {"dispatch-que.cpp", "EventQueue", "thraed-safe-callback.cpp"}
           /\ Init /\ E!Init /\ T!Init

DispatchOnly(A) == program = "dispatch-que.cpp" /\ A /\ UNCHANGED <<program, evars, tvars>>
EventOnly(A)    == program = "EventQueue" /\ A /\ UNCHANGED <<program, vars, tvars>>
TaskOnly(A)     == program = "thraed-safe-callback.cpp" /\ A /\ UNCHANGED <<program, vars, evars>>

Handler(w) == DispatchOnly(dispatch_thread_handler(w))
Forwarder  == EventOnly(E!run_forwardThread)

RunNext == \/ \E w \in Workers : Handler(w) \/ DispatchOnly(Spurious(w))
           \/ DispatchOnly(MainStep)
           \/ Forwarder
           \/ \E p \in Posters : EventOnly(E!PostEvent(p))
           \/ \E s \in Subscribers : EventOnly(E!SubscribeToEvent(s) \/ E!LetGo(s))
           \/ EventOnly(E!Halt \/ E!HaltNotify \/ E!HaltJoin)
           \/ \E t \in T!Tasks : TaskOnly(T!Step(t))

\* The threads of the queues keep running, every operation ends, the timer of
\* wait_for fires, and a call of PostEvent or of a destructor that has begun
\* goes on.  Nobody has to dispatch, post, subscribe or destroy a queue.
RunSpec == /\ RunInit /\ [][RunNext]_all
           /\ \A w \in Workers : WF_all(Handler(w))
           /\ WF_all(DispatchOnly(Join))
           /\ WF_all(Forwarder)
           /\ \A p \in Posters : WF_all(EventOnly(E!PostNotify(p)))
           /\ WF_all(EventOnly(E!HaltNotify \/ E!HaltJoin))

------------------------------------------------------------------------------
(* Properties *)

\* The callback of two tasks is called once, by the time StartTwoTasks
\* returns, although each task counts down and looks in two steps.
CalledBackOnce == T!CalledBackOnce

\* "order is important": an event that is posted while the subscribers are
\* being called, or just before the forwarder sleeps, is not lost.  Every
\* subscriber it was meant for is called, unless it lets go of its handler or
\* the queue is destroyed.  Even then what the forwarder has begun it ends:
\* the only event it leaves undelivered is one it has never taken.
EventsDelivered == \A s \in Subscribers :
                       /\ s \in owed ~> s \notin owed \/ halting_
                       /\ s \in owed \cap todo ~> s \notin owed
                       /\ [](fwd = "returned" /\ s \in owed => pending_event_)

\* A dispatched operation is run and a posted event is delivered, as above.
CallbacksRun == OpsRun /\ EventsDelivered

\* Both destructors return: every handler thread sees quit_, and the forwarder
\* sees halting_ although the notification may come between its test and its
\* sleep, because the timer ends the sleep.
DestructorReturns == /\ quit_ ~> main = "returned"
                     /\ halting_ ~> destroyer = "returned"
==============================================================================
