------------------------------ MODULE Zemaphore ------------------------------
(***************************************************************************)
(* threads-sema/zemaphore.h: a counting semaphore built from one mutex,    *)
(* one condition variable and an integer.  Every process runs the          *)
(* operations of its Script, as the callers in zemaphore.c, join.c,        *)
(* binary.c and throttle.c do.                                             *)
(*                                                                         *)
(* One action per statement of Zem_wait and Zem_post.  The condition       *)
(* variable is the set of its sleepers: Cond_wait adds the caller and      *)
(* releases the mutex in one step, Cond_signal removes one sleeper, and    *)
(* POSIX also lets a sleeper wake without a signal (Spurious).             *)
(***************************************************************************)
EXTENDS Integers, Sequences, FiniteSets

CONSTANTS Procs, Script, InitVal,
          MaxSpurious   (* bound on the spurious wake-ups of a behaviour   *)

None == "none"          (* the mutex has no owner                          *)

\* throttle.c: every child waits, works and posts
ThrottleScript == [p \in Procs |-> <<"wait", "post">>]

ASSUME ProcsAssumption    == IsFiniteSet(Procs) /\ None \notin Procs
ASSUME ScriptAssumption   == Script \in [Procs -> Seq({"wait", "post"})]
ASSUME InitValAssumption  == InitVal \in Nat
ASSUME SpuriousAssumption == MaxSpurious \in Nat

VARIABLES value,     (* z->value                                           *)
          lock,      (* owner of z->lock, or None                          *)
          sleepers,  (* processes asleep on z->cond                        *)
          pc,        (* the statement each process is about to execute     *)
          done,      (* done[p]: operations of p that have taken effect    *)
          spurious   (* spurious wake-ups so far                           *)

vars == <<value, lock, sleepers, pc, done, spurious>>

Labels == {"idle",                                        \* between calls
           "w_test", "asleep", "w_unlock",                \* Zem_wait
           "p_inc", "p_signal", "p_unlock"}               \* Zem_post

HasOp(p, op) ==
    /\ done[p] < Len(Script[p])
    /\ Script[p][done[p] + 1] = op

Goto(p, from, to) == /\ pc[p] = from
                     /\ pc' = [pc EXCEPT ![p] = to]

Acquire(p) == lock = None /\ lock' = p
Release    == lock' = None
Advance(p) == done' = [done EXCEPT ![p] = @ + 1]

------------------------------------------------------------------------------
(* Zem_init *)

Init == /\ value = InitVal
        /\ lock = None
        /\ sleepers = {}
        /\ pc = [p \in Procs |-> "idle"]
        /\ done = [p \in Procs |-> 0]
        /\ spurious = 0

------------------------------------------------------------------------------
(* Zem_wait *)

\* Mutex_lock(&z->lock)
WaitLock(p) == /\ HasOp(p, "wait")
               /\ Goto(p, "idle", "w_test")
               /\ Acquire(p)
               /\ UNCHANGED <<value, sleepers, done, spurious>>

\* while (z->value <= 0) Cond_wait(&z->cond, &z->lock)
WaitSleep(p) == /\ value <= 0
                /\ Goto(p, "w_test", "asleep")
                /\ sleepers' = sleepers \cup {p}
                /\ Release
                /\ UNCHANGED <<value, done, spurious>>

\* the bug the loop guards against: decrement without testing again
MutantWaitReturnIf(p) ==
    /\ p \notin sleepers
    /\ Goto(p, "asleep", "w_unlock")
    /\ Acquire(p)
    /\ value' = value - 1
    /\ Advance(p)
    /\ UNCHANGED <<sleepers, spurious>>

\* Cond_wait returns: the woken process owns the mutex again and re-tests
WaitReturn(p) == /\ p \notin sleepers
                 /\ Goto(p, "asleep", "w_test")
                 /\ Acquire(p)
                 /\ UNCHANGED <<value, sleepers, done, spurious>>

\* z->value--
WaitTake(p) == /\ value > 0
               /\ Goto(p, "w_test", "w_unlock")
               /\ value' = value - 1
               /\ Advance(p)
               /\ UNCHANGED <<lock, sleepers, spurious>>

\* Mutex_unlock(&z->lock)
WaitUnlock(p) == /\ Goto(p, "w_unlock", "idle")
                 /\ Release
                 /\ UNCHANGED <<value, sleepers, done, spurious>>

\* pthread_cond_wait may return with no signal sent
Spurious(p) == /\ spurious < MaxSpurious
               /\ p \in sleepers
               /\ sleepers' = sleepers \ {p}
               /\ spurious' = spurious + 1
               /\ UNCHANGED <<value, lock, pc, done>>

------------------------------------------------------------------------------
(* Zem_post *)

\* Mutex_lock(&z->lock)
PostLock(p) == /\ HasOp(p, "post")
               /\ Goto(p, "idle", "p_inc")
               /\ Acquire(p)
               /\ UNCHANGED <<value, sleepers, done, spurious>>

\* z->value++
PostInc(p) == /\ Goto(p, "p_inc", "p_signal")
              /\ value' = value + 1
              /\ Advance(p)
              /\ UNCHANGED <<lock, sleepers, spurious>>

\* forget the signal
MutantPostNoSignal(p) ==
    /\ Goto(p, "p_signal", "p_unlock")
    /\ UNCHANGED <<value, lock, sleepers, done, spurious>>

\* signal only on the 0 -> 1 transition of the value
MutantPostSignalOnEdge(p) ==
    /\ Goto(p, "p_signal", "p_unlock")
    /\ \/ (sleepers = {} \/ value # 1) /\ UNCHANGED sleepers
       \/ value = 1 /\ \E q \in sleepers : sleepers' = sleepers \ {q}
    /\ UNCHANGED <<value, lock, done, spurious>>

\* Cond_signal(&z->cond): wakes one sleeper, if there is one
PostSignal(p) == /\ Goto(p, "p_signal", "p_unlock")
                 /\ \/ sleepers = {} /\ UNCHANGED sleepers
                    \/ \E q \in sleepers : sleepers' = sleepers \ {q}
                 /\ UNCHANGED <<value, lock, done, spurious>>

\* Mutex_unlock(&z->lock)
PostUnlock(p) == /\ Goto(p, "p_unlock", "idle")
                 /\ Release
                 /\ UNCHANGED <<value, sleepers, done, spurious>>

------------------------------------------------------------------------------
Step(p) == \/ WaitLock(p) \/ WaitSleep(p) \/ WaitReturn(p)
           \/ WaitTake(p) \/ WaitUnlock(p)
           \/ PostLock(p) \/ PostInc(p) \/ PostSignal(p) \/ PostUnlock(p)

Finished(p) == pc[p] = "idle" /\ done[p] = Len(Script[p])

\* every thread has returned: main's joins succeed and the program ends
AllFinished == (\A p \in Procs : Finished(p)) /\ UNCHANGED vars

Next == \/ \E p \in Procs : Step(p) \/ Spurious(p)
        \/ AllFinished

Spec == Init /\ [][Next]_vars

------------------------------------------------------------------------------
(* Properties *)

\* Every variable keeps its shape; in particular the value never goes below
\* zero, although Zem_wait tests and decrements it in different statements.
TypeOK == /\ value \in Nat
          /\ lock \in Procs \cup {None}
          /\ sleepers \subseteq Procs
          /\ pc \in [Procs -> Labels]
          /\ done \in [Procs -> Nat]
          /\ spurious \in 0..MaxSpurious

\* processes inside Zem_wait that are awake and will test the value again
Testing == {p \in Procs : \/ pc[p] = "w_test"
                          \/ pc[p] = "asleep" /\ p \notin sleepers}

\* processes between z->value++ and Cond_signal
Signalling == {p \in Procs : pc[p] = "p_signal"}

\* No lost wake-up.  While a process sleeps in Zem_wait, every unit of value
\* is matched by a process that is about to take it or a post that is about
\* to signal: the sleeper is never forgotten with value to spare.  This is
\* what lets Zem_post use one Cond_signal where callers barge in between.
NoLostWakeup ==
    sleepers # {} => value <= Cardinality(Testing) + Cardinality(Signalling)

\* Zem_wait and Zem_post implement the atomic semaphore: seen through value
\* and the operations that took effect, every step is an atomic wait, an
\* atomic post or no change.
Sem == INSTANCE Semaphore WITH val <- value
ImplementsSemaphore == Sem!Spec

==============================================================================
