----------------------------- MODULE EventQueue -----------------------------
(***************************************************************************)
(* threads-locks/other-problems/call-backs/EventQueue: events are posted   *)
(* without a lock, a forwarder thread calls the subscribers back, and a    *)
(* subscriber that lets go of its handler is unsubscribed.                 *)
(*                                                                         *)
(* The forwarder holds the mutex whenever it is not asleep in wait_for.    *)
(* PostEvent and the destructor do not take it, so their two stores and    *)
(* notifications fall between any two steps of the forwarder.              *)
(***************************************************************************)
EXTENDS Integers, FiniteSets

CONSTANTS Posters, Subscribers,
          Posts,       (* calls of PostEvent by each poster                *)
          MaxSleeps    (* bound on the sleeps that end without need        *)

VARIABLES pending_event_, halting_,
          subscribers_,   (* the list of weak handlers                     *)
          handlers,       (* subscribers that still hold their handler     *)
          gone,           (* subscribers that have let go of it            *)
          fwd,            (* program counter of the forwarder              *)
          notified,       (* the sleeping forwarder has been notified      *)
          todo,           (* what for_each has still to visit              *)
          poster,         (* poster[p]: "idle" or "notify"                 *)
          posts,          (* posts[p]: calls of PostEvent by p             *)
          destroyer,      (* "idle", "notify", "join" or "returned"        *)
          owed,           (* subscribed when an event was posted, and not  *)
                          (* called since                                  *)
          sleeps          (* sleeps that ended without need                *)

qvars == <<pending_event_, halting_, subscribers_, handlers, gone>>
fvars == <<fwd, notified, todo, sleeps>>
cvars == <<poster, posts, destroyer>>
vars  == <<qvars, fvars, cvars, owed>>

\* the constructor
Init == /\ pending_event_ = FALSE /\ halting_ = FALSE
        /\ subscribers_ = {} /\ handlers = {} /\ gone = {}
        /\ fwd = "start" /\ notified = FALSE /\ todo = {} /\ sleeps = 0
        /\ poster = [p \in Posters |-> "idle"]
        /\ posts = [p \in Posters |-> 0]
        /\ destroyer = "idle"
        /\ owed = {}

Goto(from, to) == fwd = from /\ fwd' = to

\* the mutex is free
Unlocked == fwd \in {"start", "asleep", "returned"}

------------------------------------------------------------------------------
(* run_forwardThread *)

Lock == /\ Goto("start", "loop")
        /\ UNCHANGED <<qvars, notified, todo, sleeps, cvars, owed>>

\* while (!halting_)
Loop == /\ \/ ~halting_ /\ Goto("loop", "pred")
           \/ halting_ /\ Goto("loop", "returned")
        /\ UNCHANGED <<qvars, notified, todo, sleeps, cvars, owed>>

\* wait_for tests its predicate
Pred == /\ \/ (pending_event_ \/ halting_) /\ Goto("pred", "check")
           \/ ~(pending_event_ \/ halting_) /\ Goto("pred", "sleep")
        /\ UNCHANGED <<qvars, notified, todo, sleeps, cvars, owed>>

\* and sleeps; what was notified since the test is missed
Sleep == /\ Goto("sleep", "asleep")
         /\ notified' = FALSE
         /\ UNCHANGED <<qvars, todo, sleeps, cvars, owed>>

\* it was notified, or woke up for no reason, and tests again
Woken == /\ Goto("asleep", "pred")
         /\ \/ notified /\ UNCHANGED sleeps
            \/ sleeps < MaxSleeps /\ sleeps' = sleeps + 1
         /\ UNCHANGED <<qvars, notified, todo, cvars, owed>>

\* max_sleep_interval_ is over: wait_for returns, whatever the predicate is.
\* The bound leaves out only time-outs with nothing to do.
Timeout == /\ Goto("asleep", "check")
           /\ IF pending_event_ \/ halting_ THEN UNCHANGED sleeps
              ELSE sleeps < MaxSleeps /\ sleeps' = sleeps + 1
           /\ UNCHANGED <<qvars, notified, todo, cvars, owed>>

\* if (pending_event_) pending_event_ = false
Check == /\ \/ /\ pending_event_ /\ Goto("check", "trigger")
               /\ pending_event_' = FALSE
            \/ /\ ~pending_event_ /\ Goto("check", "loop")
               /\ UNCHANGED pending_event_
         /\ UNCHANGED <<halting_, subscribers_, handlers, gone,
                        notified, todo, sleeps, cvars, owed>>

\* triggerSubscribers: remove_if(expired), then for_each
Remove == /\ Goto("trigger", "call")
          /\ subscribers_' = subscribers_ \cap handlers
          /\ todo' = subscribers_'
          /\ UNCHANGED <<pending_event_, halting_, handlers, gone,
                         notified, sleeps, cvars, owed>>

\* weak_handler.lock(), and the call if the handler is still there
Call == /\ fwd = "call"
        /\ \E s \in todo : /\ todo' = todo \ {s}
                           /\ owed' = IF s \in handlers THEN owed \ {s} ELSE owed
        /\ UNCHANGED <<qvars, fwd, notified, sleeps, cvars>>

\* the event is reset after the subscribers were called
MutantCalled == /\ todo = {}
                /\ Goto("call", "loop")
                /\ pending_event_' = FALSE
                /\ UNCHANGED <<halting_, subscribers_, handlers, gone,
                               notified, todo, sleeps, cvars, owed>>

\* for_each has visited all
Called == /\ todo = {}
          /\ Goto("call", "loop")
          /\ UNCHANGED <<qvars, notified, todo, sleeps, cvars, owed>>

run_forwardThread == \/ Lock \/ Loop \/ Pred \/ Sleep \/ Woken \/ Timeout
                     \/ Check \/ Remove \/ Call \/ Called

------------------------------------------------------------------------------
(* The other threads *)

\* PostEvent: pending_event_ = true
PostFlag(p) == /\ poster[p] = "idle" /\ posts[p] < Posts /\ destroyer = "idle"
               /\ poster' = [poster EXCEPT ![p] = "notify"]
               /\ posts' = [posts EXCEPT ![p] = @ + 1]
               /\ pending_event_' = TRUE
               /\ owed' = owed \cup (subscribers_ \cap handlers)
               /\ UNCHANGED <<halting_, subscribers_, handlers, gone, fvars, destroyer>>

\* cv_.notify_all()
PostNotify(p) == /\ poster[p] = "notify"
                 /\ poster' = [poster EXCEPT ![p] = "idle"]
                 /\ notified' = (notified \/ fwd = "asleep")
                 /\ UNCHANGED <<qvars, fwd, todo, sleeps, posts, destroyer, owed>>

\* SubscribeToEvent
SubscribeToEvent(s) == /\ s \notin handlers \cup gone /\ destroyer = "idle"
                       /\ Unlocked
                       /\ subscribers_' = subscribers_ \cup {s}
                       /\ handlers' = handlers \cup {s}
                       /\ UNCHANGED <<pending_event_, halting_, gone, fvars, cvars, owed>>

\* the handler of s goes out of scope
LetGo(s) == /\ s \in handlers
            /\ handlers' = handlers \ {s}
            /\ gone' = gone \cup {s}
            /\ owed' = owed \ {s}
            /\ UNCHANGED <<pending_event_, halting_, subscribers_, fvars, cvars>>

\* ~EventQueue, when no other call is in progress: halting_ = true
Halt == /\ destroyer = "idle"
        /\ \A p \in Posters : poster[p] = "idle"
        /\ destroyer' = "notify"
        /\ halting_' = TRUE
        /\ UNCHANGED <<pending_event_, subscribers_, handlers, gone, fvars, poster, posts, owed>>

HaltNotify == /\ destroyer = "notify"
              /\ destroyer' = "join"
              /\ notified' = (notified \/ fwd = "asleep")
              /\ UNCHANGED <<qvars, fwd, todo, sleeps, poster, posts, owed>>

HaltJoin == /\ destroyer = "join" /\ fwd = "returned"
            /\ destroyer' = "returned"
            /\ UNCHANGED <<qvars, fvars, poster, posts, owed>>

PostEvent(p) == PostFlag(p) \/ PostNotify(p)
==============================================================================
