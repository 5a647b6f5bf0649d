------------------------------ MODULE TwoTasks ------------------------------
(***************************************************************************)
(* threads-locks/other-problems/call-backs/thraed-safe-callback.cpp: two   *)
(* tasks count down a shared counter, and the one that finds zero calls    *)
(* the callback.  The decrement and the load are two operations.           *)
(*                                                                         *)
(* asyncCall throws away the future that std::async returns, and the       *)
(* destructor of such a future waits for the task: StartTwoTasks starts    *)
(* the second task when the first one has ended.                           *)
(***************************************************************************)
EXTENDS Integers

Tasks == {1, 2}

VARIABLES counter,   (* the atomic both tasks share                        *)
          task,      (* task[t]: "new", "decrement", "load", "call", "end" *)
          starting,  (* the task StartTwoTasks is at, 3 after the last     *)
          called     (* how often the callback was called                  *)

vars == <<counter, task, starting, called>>

Init == /\ counter = 2
        /\ task = [t \in Tasks |-> "new"]
        /\ starting = 1
        /\ called = 0

Goto(t, from, to) == task[t] = from /\ task' = [task EXCEPT ![t] = to]

\* startTask1, startTask2: std::async starts a thread
StartTask(t) == /\ starting = t
                /\ Goto(t, "new", "decrement")
                /\ UNCHANGED <<counter, starting, called>>

\* the future is kept, and the next task started at once
MutantAsyncReturns(t) == /\ starting = t /\ task[t] # "new"
                         /\ starting' = t + 1
                         /\ UNCHANGED <<counter, task, called>>

\* the future is destroyed when the task has ended, and asyncCall returns
AsyncReturns(t) == /\ starting = t /\ task[t] = "end"
                   /\ starting' = t + 1
                   /\ UNCHANGED <<counter, task, called>>

\* --(*counter)
Decrement(t) == /\ Goto(t, "decrement", "load")
                /\ counter' = counter - 1
                /\ UNCHANGED <<starting, called>>

\* counter->load() == 0
Load(t) == /\ Goto(t, "load", IF counter = 0 THEN "call" ELSE "end")
           /\ UNCHANGED <<counter, starting, called>>

\* callback()
Call(t) == /\ Goto(t, "call", "end")
           /\ called' = called + 1
           /\ UNCHANGED <<counter, starting>>

Step(t) == StartTask(t) \/ AsyncReturns(t) \/ Decrement(t) \/ Load(t) \/ Call(t)

\* The callback is called once, by the time StartTwoTasks returns: the two
\* loads never both find zero, and one of them does.
CalledBackOnce == called <= 1 /\ (starting > 2 => called = 1)
==============================================================================
