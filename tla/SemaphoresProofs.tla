-------------------------- MODULE SemaphoresProofs --------------------------
(***************************************************************************)
(* Proofs about the three components made of semaphores: the semaphore     *)
(* itself, the barrier and the mutex without starvation.                   *)
(*                                                                         *)
(* The semaphore is proved for any scripts, any initial value and any      *)
(* number of spurious wake-ups, the mutex with and without hand-off; all   *)
(* of them for any finite set of processes.                                *)
(***************************************************************************)
EXTENDS MCSemaphores, FiniteSetTheorems, TLAPS

------------------------------------------------------------------------------
(* One behaviour runs one program; the variables of the others stay as     *)
(* their initialisation leaves them.                                       *)

\* a run starts with all three initialised
LEMMA RunStarts == RunInit => Init /\ B!Init /\ N!Init
  BY DEF RunInit

\* a step of the run is a step or a stutter of each program
LEMMA RunSteps ==
  [RunNext]_all => [Next]_vars /\ [B!Next]_(B!vars) /\ [N!Next]_(N!vars)
<1> SUFFICES ASSUME [RunNext]_all
             PROVE  [Next]_vars /\ [B!Next]_(B!vars) /\ [N!Next]_(N!vars)
  OBVIOUS
<1>1. CASE UNCHANGED all
  BY <1>1 DEF all, vars, barrier, ns_mutex, B!vars, N!vars, N!rooms, N!sems
<1>2. CASE RunNext
  <2>1. CASE Next /\ UNCHANGED <<barrier, ns_mutex>>
    BY <2>1 DEF barrier, ns_mutex, B!vars, N!vars, N!rooms, N!sems
  <2>2. CASE B!Next /\ UNCHANGED <<vars, ns_mutex>>
    BY <2>2 DEF ns_mutex, N!vars, N!rooms, N!sems
  <2>3. CASE N!Next /\ UNCHANGED <<vars, barrier>>
    BY <2>3 DEF barrier, B!vars
  <2> QED
    BY <1>2, <2>1, <2>2, <2>3 DEF RunNext
<1> QED
  BY <1>1, <1>2

------------------------------------------------------------------------------
(* The semaphore *)

\* statements executed while holding z->lock
Holding == {"w_test", "w_unlock", "p_inc", "p_signal", "p_unlock"}

\* the mutex is owned exactly by the process inside a critical section
LockInv == \A p \in Procs : pc[p] \in Holding <=> lock = p

\* a sleeper is a process that called Cond_wait
SleepInv == \A p \in sleepers : pc[p] = "asleep"

\* a process inside Zem_wait (Zem_post) has a wait (post) to perform
OpInv == \A p \in Procs : /\ pc[p] \in {"w_test", "asleep"} => HasOp(p, "wait")
                          /\ pc[p] = "p_inc" => HasOp(p, "post")

IInv == TypeOK /\ LockInv /\ SleepInv /\ OpInv

USE DEF Labels, None

\* Zem_init leaves the lock free and nobody asleep.
LEMMA InitIInv == Init => IInv
  BY ProcsAssumption, InitValAssumption, SpuriousAssumption
  DEF Init, IInv, TypeOK, LockInv, SleepInv, OpInv, Holding

\* IInv is preserved by every step of Zem_wait, Zem_post and the scheduler
LEMMA NextIInv == IInv /\ [Next]_vars => IInv'
<1> SUFFICES ASSUME IInv, [Next]_vars PROVE IInv'
  OBVIOUS
<1> USE ProcsAssumption, SpuriousAssumption
        DEF IInv, TypeOK, LockInv, SleepInv, OpInv, Holding, HasOp,
            Goto, Acquire, Release, Advance
<1>1. ASSUME NEW p \in Procs, WaitLock(p) PROVE IInv'
  BY <1>1 DEF WaitLock
<1>2. ASSUME NEW p \in Procs, WaitSleep(p) PROVE IInv'
  BY <1>2 DEF WaitSleep
<1>3. ASSUME NEW p \in Procs, WaitReturn(p) PROVE IInv'
  BY <1>3 DEF WaitReturn
<1>4. ASSUME NEW p \in Procs, WaitTake(p) PROVE IInv'
  BY <1>4 DEF WaitTake
<1>5. ASSUME NEW p \in Procs, WaitUnlock(p) PROVE IInv'
  BY <1>5 DEF WaitUnlock
<1>6. ASSUME NEW p \in Procs, PostLock(p) PROVE IInv'
  BY <1>6 DEF PostLock
<1>7. ASSUME NEW p \in Procs, PostInc(p) PROVE IInv'
  BY <1>7 DEF PostInc
<1>8. ASSUME NEW p \in Procs, PostSignal(p) PROVE IInv'
  BY <1>8 DEF PostSignal
<1>9. ASSUME NEW p \in Procs, PostUnlock(p) PROVE IInv'
  BY <1>9 DEF PostUnlock
<1>10. ASSUME NEW p \in Procs, Spurious(p) PROVE IInv'
  BY <1>10 DEF Spurious
<1>11. CASE UNCHANGED vars
  BY <1>11 DEF vars
<1>12. QED
  BY <1>1, <1>2, <1>3, <1>4, <1>5, <1>6, <1>7, <1>8, <1>9, <1>10, <1>11
  DEF Next, Step, AllFinished

\* In every reachable state the lock has the owner its statements say.
THEOREM Invariant == RunSpec => []IInv
  BY RunStarts, RunSteps, InitIInv, NextIInv, PTL DEF RunSpec

\* Type correctness; that value stays a natural number is Zem_wait's loop at
\* work: a woken process tests again before it decrements.
THEOREM TypeCorrect == RunSpec => []TypeOK
<1>1. IInv => TypeOK
  BY DEF IInv
<1> QED
  BY <1>1, Invariant, PTL

------------------------------------------------------------------------------
(* No lost wake-up *)

\* both sets are finite, so that they can be counted
LEMMA Counting == /\ IsFiniteSet(Testing) /\ IsFiniteSet(Signalling)
                  /\ Cardinality(Testing) \in Nat
                  /\ Cardinality(Signalling) \in Nat
<1>1. Testing \subseteq Procs /\ Signalling \subseteq Procs
  BY DEF Testing, Signalling
<1>2. IsFiniteSet(Testing) /\ IsFiniteSet(Signalling)
  BY <1>1, ProcsAssumption, FS_Subset
<1> QED
  BY <1>2, FS_CardinalityType

\* what adding to, or removing from, a finite set does to its cardinality
LEMMA CardAdd ==
  ASSUME NEW S, IsFiniteSet(S), NEW x, x \notin S
  PROVE  Cardinality(S \cup {x}) = Cardinality(S) + 1
  BY FS_AddElement

\* Taking a thread from a finite set leaves one less.
LEMMA CardRemove ==
  ASSUME NEW S, IsFiniteSet(S), NEW x \in S
  PROVE  Cardinality(S \ {x}) = Cardinality(S) - 1
  BY FS_RemoveElement

\* Every statement of Zem_wait and Zem_post keeps the wake-ups that are due.
LEMMA NextNoLostWakeup ==
  IInv /\ NoLostWakeup /\ [Next]_vars => NoLostWakeup'
<1> SUFFICES ASSUME IInv, NoLostWakeup, [Next]_vars PROVE NoLostWakeup'
  OBVIOUS
<1> USE ProcsAssumption, Counting
    DEF IInv, TypeOK, SleepInv, Goto, Acquire, Release, Advance
\* a process that starts a wait joins Testing
<1>1. ASSUME NEW p \in Procs, WaitLock(p) PROVE NoLostWakeup'
  <2>1. Testing' = Testing \cup {p} /\ p \notin Testing
    BY <1>1 DEF WaitLock, Testing
  <2>2. Signalling' = Signalling
    BY <1>1 DEF WaitLock, Signalling
  <2> QED
    BY <1>1, <2>1, <2>2, CardAdd DEF NoLostWakeup, WaitLock
\* a process goes to sleep only when there is no value to miss
<1>2. ASSUME NEW p \in Procs, WaitSleep(p) PROVE NoLostWakeup'
  <2>1. Testing' \subseteq Procs /\ Signalling' \subseteq Procs
    BY DEF Testing, Signalling
  <2>2. Cardinality(Testing') \in Nat /\ Cardinality(Signalling') \in Nat
    BY <2>1, FS_Subset, FS_CardinalityType
  <2>3. value' <= 0
    BY <1>2 DEF WaitSleep
  <2> QED
    BY <1>2, <2>2, <2>3 DEF NoLostWakeup, WaitSleep
<1>3. ASSUME NEW p \in Procs, WaitReturn(p) PROVE NoLostWakeup'
  <2>1. Testing' = Testing
    BY <1>3 DEF WaitReturn, Testing
  <2>2. Signalling' = Signalling
    BY <1>3 DEF WaitReturn, Signalling
  <2> QED
    BY <1>3, <2>1, <2>2 DEF NoLostWakeup, WaitReturn
\* the process that leaves Testing takes one unit with it
<1>4. ASSUME NEW p \in Procs, WaitTake(p) PROVE NoLostWakeup'
  <2>1. Testing' = Testing \ {p} /\ p \in Testing
    BY <1>4 DEF WaitTake, Testing
  <2>2. Signalling' = Signalling
    BY <1>4 DEF WaitTake, Signalling
  <2> QED
    BY <1>4, <2>1, <2>2, CardRemove DEF NoLostWakeup, WaitTake
<1>5. ASSUME NEW p \in Procs, WaitUnlock(p) PROVE NoLostWakeup'
  <2>1. Testing' = Testing
    BY <1>5 DEF WaitUnlock, Testing
  <2>2. Signalling' = Signalling
    BY <1>5 DEF WaitUnlock, Signalling
  <2> QED
    BY <1>5, <2>1, <2>2 DEF NoLostWakeup, WaitUnlock
<1>6. ASSUME NEW p \in Procs, PostLock(p) PROVE NoLostWakeup'
  <2>1. Testing' = Testing
    BY <1>6 DEF PostLock, Testing
  <2>2. Signalling' = Signalling
    BY <1>6 DEF PostLock, Signalling
  <2> QED
    BY <1>6, <2>1, <2>2 DEF NoLostWakeup, PostLock
\* the new unit is covered by the post's own coming signal
<1>7. ASSUME NEW p \in Procs, PostInc(p) PROVE NoLostWakeup'
  <2>1. Testing' = Testing
    BY <1>7 DEF PostInc, Testing
  <2>2. Signalling' = Signalling \cup {p} /\ p \notin Signalling
    BY <1>7 DEF PostInc, Signalling
  <2> QED
    BY <1>7, <2>1, <2>2, CardAdd DEF NoLostWakeup, PostInc
\* the signal hands the cover from the post to the process it wakes
<1>8. ASSUME NEW p \in Procs, PostSignal(p) PROVE NoLostWakeup'
  <2>1. CASE sleepers = {} /\ UNCHANGED sleepers
    BY <2>1 DEF NoLostWakeup
  <2>2. ASSUME NEW q \in sleepers, sleepers' = sleepers \ {q}
        PROVE  NoLostWakeup'
    <3>1. Testing' = Testing \cup {q} /\ q \notin Testing
      BY <1>8, <2>2 DEF PostSignal, Testing
    <3>2. Signalling' = Signalling \ {p} /\ p \in Signalling
      BY <1>8, <2>2 DEF PostSignal, Signalling
    <3> QED
      BY <1>8, <2>2, <3>1, <3>2, CardAdd, CardRemove
      DEF NoLostWakeup, PostSignal
  <2> QED
    BY <1>8, <2>1, <2>2 DEF PostSignal
<1>9. ASSUME NEW p \in Procs, PostUnlock(p) PROVE NoLostWakeup'
  <2>1. Testing' = Testing
    BY <1>9 DEF PostUnlock, Testing
  <2>2. Signalling' = Signalling
    BY <1>9 DEF PostUnlock, Signalling
  <2> QED
    BY <1>9, <2>1, <2>2 DEF NoLostWakeup, PostUnlock
\* a spurious wake-up moves a sleeper into Testing
<1>10. ASSUME NEW p \in Procs, Spurious(p) PROVE NoLostWakeup'
  <2>1. Testing' = Testing \cup {p} /\ p \notin Testing
    BY <1>10 DEF Spurious, Testing
  <2>2. Signalling' = Signalling
    BY <1>10 DEF Spurious, Signalling
  <2> QED
    BY <1>10, <2>1, <2>2, CardAdd DEF NoLostWakeup, Spurious
<1>11. CASE UNCHANGED vars
  BY <1>11 DEF vars, NoLostWakeup, Testing, Signalling
<1>12. QED
  BY <1>1, <1>2, <1>3, <1>4, <1>5, <1>6, <1>7, <1>8, <1>9, <1>10, <1>11
  DEF Next, Step, AllFinished

\* One Cond_signal per Zem_post is enough for any number of processes that
\* wait, post and wake without a signal.
THEOREM WakeupsNeverLost == RunSpec => []NoLostWakeup
<1>1. Init => NoLostWakeup
  BY DEF Init, NoLostWakeup
<1> QED
  BY <1>1, RunStarts, RunSteps, Invariant, NextNoLostWakeup, PTL DEF RunSpec

------------------------------------------------------------------------------
(* Refinement *)

\* Every statement is a wait, a post or invisible to the atomic semaphore.
LEMMA StepRefines == IInv /\ [Next]_vars => [Sem!Next]_(Sem!vars)
<1> SUFFICES ASSUME IInv, [Next]_vars PROVE [Sem!Next]_(Sem!vars)
  OBVIOUS
<1> USE DEF Sem!vars
\* the two statements that take effect
<1>1. ASSUME NEW p \in Procs, WaitTake(p) PROVE Sem!Next
  <2>1. HasOp(p, "wait")
    BY <1>1 DEF WaitTake, Goto, IInv, OpInv
  <2>2. Sem!Wait(p)
    BY <1>1, <2>1
    DEF WaitTake, Sem!Wait, Sem!HasOp, HasOp, Sem!Advance, Advance
  <2> QED
    BY <2>2 DEF Sem!Next
<1>2. ASSUME NEW p \in Procs, PostInc(p) PROVE Sem!Next
  <2>1. HasOp(p, "post")
    BY <1>2 DEF PostInc, Goto, IInv, OpInv
  <2>2. Sem!Post(p)
    BY <1>2, <2>1
    DEF PostInc, Sem!Post, Sem!HasOp, HasOp, Sem!Advance, Advance
  <2> QED
    BY <2>2 DEF Sem!Next
\* every other statement leaves the abstract semaphore alone
<1>3. ASSUME NEW p \in Procs,
             \/ WaitLock(p) \/ WaitSleep(p) \/ WaitReturn(p) \/ WaitUnlock(p)
             \/ PostLock(p) \/ PostSignal(p) \/ PostUnlock(p) \/ Spurious(p)
      PROVE  UNCHANGED <<value, done>>
  BY <1>3 DEF WaitLock, WaitSleep, WaitReturn, WaitUnlock,
              PostLock, PostSignal, PostUnlock, Spurious
<1>4. CASE UNCHANGED vars
  BY <1>4 DEF vars
<1> QED
  BY <1>1, <1>2, <1>3, <1>4 DEF Next, Step, AllFinished

\* Zem_wait and Zem_post implement the atomic counting semaphore, for every
\* script, every initial value and every number of processes.
THEOREM Refinement == RunSpec => ImplementsSemaphore
<1>1. Init => Sem!Init
  BY DEF Init, Sem!Init
<1> QED
  BY <1>1, RunStarts, RunSteps, StepRefines, Invariant, PTL
  DEF RunSpec, ImplementsSemaphore, Sem!Spec

------------------------------------------------------------------------------
(***************************************************************************)
(* Barrier, for any finite set of children.                                *)
(*                                                                         *)
(* sem1 is a lock for the counters.  sem2 carries one token from child to  *)
(* child; the token comes into being when the last child is counted, so    *)
(* whoever holds it, or held it, knows that everybody has arrived.         *)
(***************************************************************************)

\* statements executed while holding sem1
Held1 == {"count", "post1", "check", "open1"}

\* statements executed while holding the token of sem2
Token == {"lock", "check", "open1", "open2"}

PcInv == /\ child \in [Procs -> B!Labels]
         /\ count \in Int /\ thread_count \in Int
         /\ sem1 \in {0, 1} /\ sem2 \in {0, 1}

Sem1Inv == /\ \A p, q \in Procs : child[p] \in Held1 /\ child[q] \in Held1 => p = q
           /\ \A p \in Procs : child[p] \in Held1 => sem1 = 0

Sem2Inv == /\ \A p, q \in Procs : child[p] \in Token /\ child[q] \in Token => p = q
           /\ \A p \in Procs : child[p] \in Token => sem2 = 0

\* the token exists, or has been held, only when everybody has arrived
ArrivedInv == /\ sem2 = 1 => B!Arrived = Procs
              /\ \A p \in Procs : child[p] \in Token \cup {"after"} => B!Arrived = Procs

BarrierInv == PcInv /\ Sem1Inv /\ Sem2Inv /\ ArrivedInv /\ B!Exact

USE DEF B!Labels

\* The children that have arrived and those that have passed are finitely
\* many.
LEMMA ChildrenFinite ==
                /\ IsFiniteSet(Procs) /\ IsFiniteSet(B!Arrived) /\ IsFiniteSet(B!Passed)
                /\ Cardinality(Procs) \in Nat /\ Cardinality(B!Arrived) \in Nat
                /\ Cardinality(B!Passed) \in Nat
                /\ Cardinality(B!Passed) <= Cardinality(B!Arrived)
                /\ Cardinality(B!Arrived) <= Cardinality(Procs)
<1>1. B!Passed \subseteq B!Arrived /\ B!Arrived \subseteq Procs
  BY DEF B!Arrived, B!Passed
<1> QED
  BY <1>1, ProcsAssumption, FS_Subset, FS_CardinalityType

\* The module counts with the same Cardinality.
LEMMA ChildrenCounted == \A S : B!Cardinality(S) = Cardinality(S)
  BY DEF B!Cardinality, Cardinality

\* main leaves both semaphores and the counters as the invariant says.
LEMMA InitBarrier == B!Init => BarrierInv
<1> SUFFICES ASSUME B!Init PROVE BarrierInv
  OBVIOUS
<1>1. B!Arrived = {} /\ B!Passed = {}
  BY DEF B!Init, B!Arrived, B!Passed
<1>2. B!Exact
  BY <1>1, ChildrenFinite, ChildrenCounted, FS_EmptySet DEF B!Init, B!Exact, B!num_threads
<1> QED
  BY <1>2, ChildrenFinite, ChildrenCounted DEF B!Init, BarrierInv, PcInv, Sem1Inv, Sem2Inv, ArrivedInv, Held1, Token,
                      B!num_threads

\* a step that moves no child into Arrived or Passed
LEMMA SameSets ==
  ASSUME PcInv, NEW p \in Procs,
         \/ B!Goto(p, "before", "count") \/ B!Goto(p, "post1", "sleep")
         \/ B!Goto(p, "sleep", "lock") \/ B!Goto(p, "lock", "check")
         \/ B!Goto(p, "open1", "open2") \/ B!Goto(p, "open2", "after")
  PROVE  B!Arrived' = B!Arrived /\ B!Passed' = B!Passed
  BY DEF PcInv, B!Goto, B!Arrived, B!Passed

\* Every statement of a child keeps the invariant.
LEMMA NextBarrier == BarrierInv /\ [B!Next]_(B!vars) => BarrierInv'
<1> SUFFICES ASSUME BarrierInv, [B!Next]_(B!vars) PROVE BarrierInv'
  OBVIOUS
<1> USE DEF BarrierInv, PcInv, Sem1Inv, Sem2Inv, ArrivedInv, Held1, Token,
            B!SemWait, B!SemPost
<1>1. ASSUME NEW p \in Procs, B!Arrive(p) PROVE BarrierInv'
  <2>1. B!Arrived' = B!Arrived /\ B!Passed' = B!Passed
    BY <1>1, SameSets DEF B!Arrive
  <2>2. B!Exact'
    BY <1>1, <2>1 DEF B!Arrive, B!Exact, B!num_threads
  <2> QED
    BY <1>1, <2>1, <2>2 DEF B!Arrive, B!Goto
\* the child that is counted was not, so nobody can hold the token yet; it
\* goes on to check only if it was the last
<1>2. ASSUME NEW p \in Procs, B!Count(p) PROVE BarrierInv'
  <2>1. B!Arrived' = B!Arrived \cup {p} /\ p \notin B!Arrived /\ B!Passed' = B!Passed
    BY <1>2 DEF B!Count, B!Goto, B!Arrived, B!Passed
  <2>2. Cardinality(B!Arrived') = Cardinality(B!Arrived) + 1
    BY <2>1, ChildrenFinite, FS_AddElement
  <2>3. B!Exact'
    BY <1>2, <2>1, <2>2, ChildrenFinite, ChildrenCounted DEF B!Count, B!Exact, B!num_threads
  <2>4. B!Arrived # Procs
    BY <2>1
  <2>5. ~(count' < thread_count) => B!Arrived' = Procs
    <3> SUFFICES ASSUME ~(count' < thread_count) PROVE B!Arrived' = Procs
      OBVIOUS
    <3>1. Cardinality(B!Arrived') >= Cardinality(Procs)
      BY <1>2, <2>2, ChildrenFinite, ChildrenCounted DEF B!Count, B!Exact, B!num_threads
    <3>2. B!Arrived' \subseteq Procs
      BY DEF B!Arrived
    <3>3. /\ IsFiniteSet(B!Arrived')
          /\ Cardinality(B!Arrived') <= Cardinality(Procs)
          /\ Cardinality(B!Arrived') = Cardinality(Procs) => B!Arrived' = Procs
      BY <3>2, ProcsAssumption, FS_Subset
    <3>4. Cardinality(B!Arrived') \in Nat
      BY <3>3, FS_CardinalityType
    <3> QED
      BY <3>1, <3>3, <3>4, ChildrenFinite
  <2>6. CASE count' < thread_count
    BY <1>2, <2>1, <2>3, <2>4, <2>6 DEF B!Count, B!Goto
  <2>7. CASE ~(count' < thread_count)
    BY <1>2, <2>1, <2>3, <2>4, <2>5, <2>7 DEF B!Count, B!Goto
  <2> QED
    BY <2>6, <2>7
<1>3. ASSUME NEW p \in Procs, B!Sleep(p) PROVE BarrierInv'
  <2>1. B!Arrived' = B!Arrived /\ B!Passed' = B!Passed
    BY <1>3, SameSets DEF B!Sleep
  <2>2. B!Exact'
    BY <1>3, <2>1 DEF B!Sleep, B!Exact, B!num_threads
  <2> QED
    BY <1>3, <2>1, <2>2 DEF B!Sleep, B!Goto
\* everybody has arrived, so the counters are equal
<1>4. ASSUME NEW p \in Procs, B!Check(p) PROVE BarrierInv'
  <2>1. child[p] = "check" /\ B!Arrived = Procs
    BY <1>4 DEF B!Check, B!Goto
  <2>2. thread_count = count
    BY <2>1, ChildrenFinite, ChildrenCounted DEF B!Exact, B!num_threads
  <2>3. B!Goto(p, "check", "open1") /\ thread_count' = thread_count - 1
        /\ count' = count - 1 /\ UNCHANGED <<sem1, sem2>>
    BY <1>4, <2>2 DEF B!Check
  <2>4. B!Arrived' = B!Arrived /\ B!Passed' = B!Passed \cup {p} /\ p \notin B!Passed
    BY <2>3 DEF B!Goto, B!Arrived, B!Passed
  <2>5. Cardinality(B!Passed') = Cardinality(B!Passed) + 1
    BY <2>4, ChildrenFinite, FS_AddElement
  <2>6. B!Exact'
    BY <2>3, <2>4, <2>5, ChildrenFinite, ChildrenCounted DEF B!Exact, B!num_threads
  <2> QED
    BY <2>1, <2>3, <2>4, <2>6 DEF B!Goto
<1>5. ASSUME NEW p \in Procs, B!Open(p) PROVE BarrierInv'
  <2>1. B!Arrived' = B!Arrived /\ B!Passed' = B!Passed
    BY <1>5, SameSets DEF B!Open
  <2>2. B!Exact'
    BY <1>5, <2>1 DEF B!Open, B!Exact, B!num_threads
  <2> QED
    BY <1>5, <2>1, <2>2 DEF B!Open, B!Goto
<1>6. CASE UNCHANGED B!vars
  BY <1>6 DEF B!vars, B!Exact, B!Arrived, B!Passed
<1> QED
  BY <1>1, <1>2, <1>3, <1>4, <1>5, <1>6 DEF B!Next, B!Step, B!AllAfter

\* In every reachable state the token of sem2 exists only when every child has
\* arrived.
THEOREM BarrierInvariant == RunSpec => []BarrierInv
  BY RunStarts, RunSteps, InitBarrier, NextBarrier, PTL DEF RunSpec

\* Type correctness: both semaphores stay binary and both counters stay
\* between zero and the number of children.
THEOREM BarrierTypeCorrect == RunSpec => []B!TypeOK
<1>1. BarrierInv => B!TypeOK
  BY ChildrenFinite, ChildrenCounted DEF BarrierInv, PcInv, B!TypeOK, B!Exact, B!num_threads
<1> QED
  BY <1>1, BarrierInvariant, PTL

\* Nobody is past the barrier before everybody has arrived.
THEOREM NobodyEarly == RunSpec => []BarrierHolds
<1>1. BarrierInv => BarrierHolds
  BY DEF BarrierHolds, BarrierInv, ArrivedInv, Token, B!Holds, B!Passed
<1> QED
  BY <1>1, BarrierInvariant, PTL

\* The holder of sem1 is alone with the counters, so that the separate
\* statements that read and change them act as one.
THEOREM CountersAlone == RunSpec => []B!CountersProtected
<1>1. BarrierInv => B!CountersProtected
  BY DEF BarrierInv, Sem1Inv, Held1, B!CountersProtected
<1> QED
  BY <1>1, BarrierInvariant, PTL

\* The counters say who has not arrived and who has not passed.
THEOREM CountersTrue == RunSpec => []CountersExact
<1>1. BarrierInv => CountersExact
  BY DEF BarrierInv, CountersExact
<1> QED
  BY <1>1, BarrierInvariant, PTL

------------------------------------------------------------------------------
(***************************************************************************)
(* NoStarveMutex as ns_mutex_init leaves it, for any finite set of threads *)
(* and any number of calls.                                                *)
(*                                                                         *)
(* The argument is two units: t1, t2 and the threads between a turnstile   *)
(* and the next post of one share them, whichever turnstile is opened.     *)
(* What they are opened by, room2, is not needed: with two threads between *)
(* the turnstiles nothing can be said of it.                               *)
(***************************************************************************)

\* statements executed while holding mutex
MutexHeld == {"enter1", "entered1", "post1", "leave1", "left1", "last1", "more1"}

\* statements executed between passing a turnstile and opening one
UnitHeld == {"enter2", "entered2", "lock1", "leave1", "left1", "last1", "more1", "open1",
             "open2", "leave2", "left2", "crit", "rel1", "rel2"}

\* statements executed in room 1
InRoom1 == {"post1", "turn1", "enter2", "entered2", "lock1", "leave1", "left1"}

\* the number of threads at statements of L
Count(L) == Cardinality({p \in Callers : thread[p] \in L})

MutexInv == /\ mutex \in {0, 1}
            /\ \A p \in Callers : thread[p] \in MutexHeld => mutex = 0
            /\ \A p, q \in Callers : thread[p] \in MutexHeld /\ thread[q] \in MutexHeld => p = q

\* what a thread has loaded from room1 is still there
RegInv == \A p \in Callers : thread[p] \in {"entered1", "left1"} => reg[p] = room1

UnitInv == t1 + t2 + Count(UnitHeld) = 2

Room1Inv == room1 = Count(InRoom1)

NoStarveInv == N!TypeOK /\ MutexInv /\ RegInv /\ UnitInv /\ Room1Inv

USE DEF N!Labels

\* The module counts with the same Cardinality.
LEMMA CallersCounted == \A S : N!Cardinality(S) = Cardinality(S)
  BY DEF N!Cardinality, Cardinality

\* A count of threads is a natural number.
LEMMA CountIsNat ==
  ASSUME NEW L
  PROVE  IsFiniteSet({p \in Callers : thread[p] \in L}) /\ Count(L) \in Nat
<1>1. IsFiniteSet({p \in Callers : thread[p] \in L})
  BY CallersAssumption, ProcsAssumption, FS_Subset
<1> QED
  BY <1>1, FS_CardinalityType DEF Count

\* a thread that goes to another statement leaves and enters at most one count
LEMMA CountMoves ==
  ASSUME NEW L, thread \in [Callers -> N!Labels], NEW p \in Callers, NEW to,
         thread' = [thread EXCEPT ![p] = to]
  PROVE  Count(L)' = Count(L) - (IF thread[p] \in L THEN 1 ELSE 0)
                              + (IF to \in L THEN 1 ELSE 0)
<1> DEFINE before == {x \in Callers : thread[x] \in L}
           after  == {x \in Callers : thread'[x] \in L}
           rest   == {x \in Callers \ {p} : thread[x] \in L}
<1>1. /\ before = IF thread[p] \in L THEN rest \cup {p} ELSE rest
      /\ after = IF to \in L THEN rest \cup {p} ELSE rest
  OBVIOUS
<1>2. IsFiniteSet(rest) /\ p \notin rest
  BY CallersAssumption, ProcsAssumption, FS_Subset
<1>3. Cardinality(rest) \in Nat /\ Cardinality(rest \cup {p}) = Cardinality(rest) + 1
  <2> HIDE DEF rest
  <2> QED
    BY <1>2, FS_AddElement, FS_CardinalityType
<1>4. Count(L) = Cardinality(before) /\ Count(L)' = Cardinality(after)
  BY DEF Count
<1> HIDE DEF before, after, rest
<1> QED
  BY <1>1, <1>3, <1>4

\* one for a statement of L, nothing for another
In(x, L) == IF x \in L THEN 1 ELSE 0

\* a statement changes the semaphores and room 1 by what it means to be at the
\* next one
Settles(p, from, to) ==
    /\ N!Goto(p, from, to)
    /\ mutex' = mutex + In(from, MutexHeld) - In(to, MutexHeld)
    /\ t1' + t2' = t1 + t2 + In(from, UnitHeld) - In(to, UnitHeld)
    /\ room1' = room1 + In(to, InRoom1) - In(from, InRoom1)
    /\ room1' = room1 \/ from \in MutexHeld
    /\ to \in {"entered1", "left1"} => reg'[p] = room1'
    /\ \A q \in Callers \ {p} : reg'[q] = reg[q]
    /\ mutex' \in Nat /\ t1' \in Nat /\ t2' \in Nat
    /\ room2' \in Int /\ reg' \in [Callers -> Int] /\ calls' \in Nat

\* A statement that settles its account keeps the invariant.
LEMMA SettledKeeps ==
  ASSUME NoStarveInv, NEW p \in Callers, NEW from \in N!Labels, NEW to \in N!Labels,
         Settles(p, from, to)
  PROVE  NoStarveInv'
<1>1. thread[p] = from /\ thread' = [thread EXCEPT ![p] = to]
  BY DEF Settles, N!Goto
<1>2. thread \in [Callers -> N!Labels]
  BY DEF NoStarveInv, N!TypeOK
<1>3. /\ Count(UnitHeld)' = Count(UnitHeld) - In(from, UnitHeld) + In(to, UnitHeld)
      /\ Count(InRoom1)' = Count(InRoom1) - In(from, InRoom1) + In(to, InRoom1)
  BY <1>1, <1>2, CountMoves DEF In
<1>4. Count(UnitHeld) \in Nat /\ Count(InRoom1) \in Nat
  BY CountIsNat
<1>5. UnitInv' /\ Room1Inv'
  <2>1. /\ In(from, UnitHeld) \in Int /\ In(to, UnitHeld) \in Int
        /\ In(from, InRoom1) \in Int /\ In(to, InRoom1) \in Int
    BY DEF In
  <2> QED
    BY <1>3, <1>4, <2>1 DEF Settles, NoStarveInv, N!TypeOK, UnitInv, Room1Inv
<1>6. N!TypeOK'
  BY <1>1, <1>2 DEF Settles, NoStarveInv, N!TypeOK, In
<1>7. MutexInv'
  BY <1>1, <1>2, <1>6 DEF Settles, NoStarveInv, N!TypeOK, MutexInv, In
<1>8. RegInv'
  BY <1>1, <1>2, <1>7 DEF Settles, NoStarveInv, MutexInv, RegInv, MutexHeld
<1> QED
  BY <1>5, <1>6, <1>7, <1>8 DEF NoStarveInv

\* ns_mutex_init gives the turnstiles one unit each.
LEMMA InitNoStarve == N!Init => NoStarveInv
<1> SUFFICES ASSUME N!Init PROVE NoStarveInv
  OBVIOUS
<1>1. /\ {p \in Callers : thread[p] \in UnitHeld} = {}
      /\ {p \in Callers : thread[p] \in InRoom1} = {}
  BY DEF N!Init, UnitHeld, InRoom1
<1>2. Count(UnitHeld) = 0 /\ Count(InRoom1) = 0
  BY <1>1, FS_EmptySet DEF Count
<1> QED
  BY <1>2 DEF N!Init, NoStarveInv, N!TypeOK, MutexInv, RegInv, UnitInv, Room1Inv, MutexHeld

\* Every statement keeps the two units and the count of room 1.
LEMMA NextNoStarve == NoStarveInv /\ [N!Next]_(N!vars) => NoStarveInv'
<1> SUFFICES ASSUME NoStarveInv, [N!Next]_(N!vars) PROVE NoStarveInv'
  OBVIOUS
<1>a. N!TypeOK /\ RegInv
  BY DEF NoStarveInv
<1> USE <1>a DEF N!TypeOK, RegInv, In, MutexHeld, UnitHeld, InRoom1, N!rooms, N!sems,
                 N!SemWait, N!SemPost, N!Load, N!Stored
<1>1. ASSUME NEW p \in Callers, N!Call(p) PROVE NoStarveInv'
  <2>1. Settles(p, "outside", "want")
    BY <1>1 DEF N!Call, N!Goto, Settles
  <2> QED
    BY <2>1, SettledKeeps
<1>2. ASSUME NEW p \in Callers, N!Room1Enter(p) PROVE NoStarveInv'
  <2>1. \/ Settles(p, "want", "enter1")
        \/ Settles(p, "enter1", "entered1")
        \/ Settles(p, "entered1", "post1")
        \/ Settles(p, "post1", "turn1")
    BY <1>2 DEF N!Room1Enter, N!Goto, Settles
  <2> QED
    BY <2>1, SettledKeeps
<1>3. ASSUME NEW p \in Callers, N!Room2Enter(p) PROVE NoStarveInv'
  <2>1. \/ Settles(p, "turn1", "enter2")
        \/ Settles(p, "enter2", "entered2")
        \/ Settles(p, "entered2", "lock1")
    BY <1>3 DEF N!Room2Enter, N!Goto, Settles
  <2> QED
    BY <2>1, SettledKeeps
<1>4. ASSUME NEW p \in Callers, N!Room1Leave(p) PROVE NoStarveInv'
  <2>1. \/ Settles(p, "lock1", "leave1")
        \/ Settles(p, "leave1", "left1")
        \/ Settles(p, "left1", "last1")
        \/ Settles(p, "left1", "more1")
    BY <1>4 DEF N!Room1Leave, N!Goto, Settles
  <2> QED
    BY <2>1, SettledKeeps
<1>5. ASSUME NEW p \in Callers, N!OpenTurnstile(p) PROVE NoStarveInv'
  <2>1. \/ Settles(p, "last1", "open2")
        \/ Settles(p, "more1", "open1")
        \/ Settles(p, "open2", "turn2")
        \/ Settles(p, "open1", "turn2")
    BY <1>5 DEF N!OpenTurnstile, N!Goto, Settles
  <2> QED
    BY <2>1, SettledKeeps
<1>6. ASSUME NEW p \in Callers, N!Room2Leave(p) PROVE NoStarveInv'
  <2>1. \/ Settles(p, "turn2", "leave2")
        \/ Settles(p, "leave2", "left2")
        \/ Settles(p, "left2", "crit")
    BY <1>6 DEF N!Room2Leave, N!Goto, Settles
  <2> QED
    BY <2>1, SettledKeeps
<1>7. ASSUME NEW p \in Callers, N!Release(p) PROVE NoStarveInv'
  <2>1. \/ Settles(p, "crit", "rel1")
        \/ Settles(p, "crit", "rel2")
        \/ Settles(p, "rel1", "outside")
        \/ Settles(p, "rel2", "outside")
    BY <1>7 DEF N!Release, N!Goto, Settles
  <2> QED
    BY <2>1, SettledKeeps
<1>8. CASE UNCHANGED N!vars
  BY <1>8 DEF N!vars, Count, NoStarveInv, MutexInv, UnitInv, Room1Inv
<1> QED
  BY <1>1, <1>2, <1>3, <1>4, <1>5, <1>6, <1>7, <1>8 DEF N!Next, N!Step

\* The invariant holds for any threads and any number of calls.
THEOREM NoStarveInvariant == RunSpec => []NoStarveInv
  BY RunStarts, RunSteps, InitNoStarve, NextNoStarve, PTL DEF RunSpec

\* Never more than two threads are in the critical section.
THEOREM TwoAtMost == RunSpec => []NeverThree
<1>1. ASSUME NoStarveInv PROVE NeverThree
  <2> DEFINE inside == {p \in Callers : thread[p] \in UnitHeld}
  <2>1. N!Critical \subseteq inside
    BY DEF N!Critical, UnitHeld
  <2>2. IsFiniteSet(inside) /\ Cardinality(inside) = Count(UnitHeld) /\ Count(UnitHeld) \in Nat
    BY CountIsNat DEF Count
  <2>3. Cardinality(N!Critical) <= Cardinality(inside) /\ Cardinality(N!Critical) \in Nat
    <3> HIDE DEF inside
    <3> QED
      BY <2>1, <2>2, FS_Subset, FS_CardinalityType
  <2> QED
    BY <1>1, <2>2, <2>3, CallersCounted
    DEF NeverThree, N!NeverThree, NoStarveInv, UnitInv, N!TypeOK
<1> QED
  BY <1>1, NoStarveInvariant, PTL

\* The mutex protects room1: it is the number of threads in room 1.
THEOREM Room1True == RunSpec => []Room1Exact
<1>1. NoStarveInv => Room1Exact
  BY CallersCounted
  DEF NoStarveInv, Room1Inv, Room1Exact, N!Room1Counted, N!Room1, InRoom1, Count
<1> QED
  BY <1>1, NoStarveInvariant, PTL
==============================================================================
