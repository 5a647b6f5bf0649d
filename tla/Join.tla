-------------------------------- MODULE Join --------------------------------
(***************************************************************************)
(* The programs in which one thread waits for one thing another thread     *)
(* does: the fork/join programs of threads-cv, the join of                 *)
(* threads-locks/condition variable, threads-bugs/ordering_fixed.c and the *)
(* senders and receivers of threads-locks/c++11-Producer-consumer.         *)
(* They run the same two threads and differ in whether there is a state    *)
(* variable (state), in how the waiter waits (wait: "cv" on a condition    *)
(* variable, "spin", or "library" for atomic_flag::wait and future::wait,  *)
(* which test and sleep in one step), in a reset after the wait (reset)    *)
(* and in what the other thread does, in order (does).                     *)
(*                                                                         *)
(* One behaviour runs one of the programs.  A test of done that another    *)
(* thread changes at the same time sees the old or the new value.          *)
(***************************************************************************)
EXTENDS Integers, Sequences

CONSTANT MaxSpurious     (* bound on wake-ups without a signal             *)

ASSUME SpuriousAssumption == MaxSpurious \in Nat

join == [name |-> "join", state |-> TRUE, wait |-> "cv", reset |-> FALSE,
         does |-> <<"work", "lock", "set", "signal", "unlock">>]

join_modular == [join EXCEPT !.name = "join_modular", !.reset = TRUE]

join_spin == [join EXCEPT !.name = "join_spin", !.wait = "spin",
                          !.does = <<"work", "set">>]

join_no_lock == [join EXCEPT !.name = "join_no_lock", !.does = <<"work", "set", "signal">>]

join_no_state_var == [join EXCEPT !.name = "join_no_state_var", !.state = FALSE,
                                  !.does = <<"work", "lock", "signal", "unlock">>]

condition_varaible == [join EXCEPT !.name = "condition_varaible"]

\* here the creating thread signals and the created one waits
ordering_fixed == [join EXCEPT !.name = "ordering_fixed"]

\* the state is that my_vec is not empty; notify_one comes after the lock
conditional_variable == [join EXCEPT !.name = "conditional_variable",
                         !.does = <<"lock", "work", "set", "unlock", "signal">>]

atomic_flag == [join EXCEPT !.name = "atomic_flag", !.wait = "library",
                            !.does = <<"work", "set", "signal">>]

\* PrepareWork never sets its promise: the promise is destroyed when it
\* returns, which makes the future ready
promise_future == [atomic_flag EXCEPT !.name = "promise_future"]

\* the READMEs and comments call these working, or fixed
Working  == {join, join_modular, join_spin, condition_varaible, ordering_fixed,
             conditional_variable, atomic_flag, promise_future}
Programs == Working \cup {join_no_lock, join_no_state_var}

VARIABLES program,    (* the program that runs                             *)
          done,       (* done, or mtInit                                   *)
          m,          (* owner of the mutex: "waiter", "signaller", "none" *)
          asleep,     (* the waiter sleeps on the condition variable       *)
          waiter,     (* program counter                                   *)
          signaller,  (* the number of the signaller's next operation      *)
          missed,     (* the signal found nobody asleep                    *)
          spurious

vars == <<program, done, m, asleep, waiter, signaller, missed, spurious>>

Init == /\ program \in Programs
        /\ done = 0 /\ m = "none" /\ asleep = FALSE
        /\ waiter = "lock" /\ signaller = 1
        /\ missed = FALSE /\ spurious = 0

Goto(from, to) == waiter = from /\ waiter' = to

Acquire(who) == m = "none" /\ m' = who

Sleeps == program.wait # "spin"

------------------------------------------------------------------------------
(* The waiter *)

WaiterLock == /\ Goto("lock", IF program.state THEN "test" ELSE "wait")
              /\ IF program.wait = "cv" THEN Acquire("waiter") ELSE UNCHANGED m
              /\ UNCHANGED <<program, done, asleep, signaller, missed, spurious>>

\* while (done == 0)
Test == /\ \/ done = 1 /\ Goto("test", "unlock") /\ UNCHANGED asleep
           \/ /\ done = 0 /\ program.wait # "library"
              /\ Goto("test", IF Sleeps THEN "wait" ELSE "test") /\ UNCHANGED asleep
           \/ done = 0 /\ program.wait = "library" /\ Goto("test", "asleep") /\ asleep' = TRUE
        /\ UNCHANGED <<program, done, m, signaller, missed, spurious>>

\* Cond_wait, until it sleeps
Wait == /\ Goto("wait", "asleep")
        /\ asleep' = TRUE
        /\ m' = "none"
        /\ UNCHANGED <<program, done, signaller, missed, spurious>>

\* if instead of while
MutantWake == /\ ~asleep
              /\ Goto("asleep", "unlock")
              /\ IF program.wait = "cv" THEN Acquire("waiter") ELSE UNCHANGED m
              /\ UNCHANGED <<program, done, asleep, signaller, missed, spurious>>

\* Cond_wait returns with the mutex
Wake == /\ ~asleep
        /\ Goto("asleep", IF program.state THEN "test" ELSE "unlock")
        /\ IF program.wait = "cv" THEN Acquire("waiter") ELSE UNCHANGED m
        /\ UNCHANGED <<program, done, asleep, signaller, missed, spurious>>

\* sync_wait resets done; Mutex_unlock
WaiterUnlock == /\ Goto("unlock", "end")
                /\ done' = IF program.reset THEN 0 ELSE done
                /\ m' = IF program.wait = "cv" THEN "none" ELSE m
                /\ UNCHANGED <<program, asleep, signaller, missed, spurious>>

\* pthread_cond_wait may return without a signal
Spurious == /\ asleep /\ spurious < MaxSpurious
            /\ asleep' = FALSE
            /\ spurious' = spurious + 1
            /\ UNCHANGED <<program, done, m, waiter, signaller, missed>>

------------------------------------------------------------------------------
(* The signaller *)

Returned == signaller > Len(program.does)

\* the signaller is at this operation and goes on to the next
Does(op) == /\ ~Returned
            /\ program.does[signaller] = op
            /\ signaller' = signaller + 1

\* what the other thread waits for
Work == /\ Does("work")
        /\ UNCHANGED <<program, done, m, asleep, waiter, missed, spurious>>

SignallerLock == /\ Does("lock")
                 /\ Acquire("signaller")
                 /\ UNCHANGED <<program, done, asleep, waiter, missed, spurious>>

\* the signal alone tells
MutantSetDone == /\ Does("set")
                 /\ UNCHANGED <<program, done, m, asleep, waiter, missed, spurious>>

\* done = 1
SetDone == /\ Does("set")
           /\ done' = 1
           /\ UNCHANGED <<program, m, asleep, waiter, missed, spurious>>

\* no signal
MutantSignal == /\ Does("signal")
                /\ UNCHANGED <<program, done, m, asleep, waiter, missed, spurious>>

\* Cond_signal, notify_one
Signal == /\ Does("signal")
          /\ asleep' = FALSE
          /\ missed' = ~asleep
          /\ UNCHANGED <<program, done, m, waiter, spurious>>

SignallerUnlock == /\ Does("unlock")
                   /\ m' = "none"
                   /\ UNCHANGED <<program, done, asleep, waiter, missed, spurious>>

------------------------------------------------------------------------------
WaiterStep    == WaiterLock \/ Test \/ Wait \/ Wake \/ WaiterUnlock
SignallerStep == Work \/ SignallerLock \/ SetDone \/ Signal \/ SignallerUnlock

------------------------------------------------------------------------------
(* Properties *)

Worked == \E i \in 1..(signaller - 1) : program.does[i] = "work"

\* The wait is not over before the work is done, except in the program
\* without a state variable after a wake-up that nobody sent.
WaitsForWork == waiter = "end" => Worked \/ (~program.state /\ spurious > 0)

\* A waiter sleeps for ever only when the signal came before it slept, and
\* only in the programs that test the state without the lock or not at all.
StuckIsMissed == (asleep /\ Returned) => missed /\ program \notin Working
==============================================================================
