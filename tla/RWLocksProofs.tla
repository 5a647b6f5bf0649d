---------------------------- MODULE RWLocksProofs ----------------------------
(***************************************************************************)
(* The three reader-writer locks implement RWLock, and the priority lock   *)
(* keeps readers behind the writers, for any finite sets of readers and    *)
(* writers and any numbers of loops.                                       *)
(*                                                                         *)
(* Every semaphore that a switch guards has one owner: nobody, one thread  *)
(* that took it alone, or the threads that have the switch on together.    *)
(* That, and what the counter of a switch counts, is the invariant; it is  *)
(* stated once for both switches, with the labels at, the threads U that   *)
(* use the switch and the labels L from counter++ to counter--.            *)
(***************************************************************************)
EXTENDS MCRWLocks, FiniteSetTheorems, TLAPS

In(at, U, L) == {p \in U : at[p] \in L}

\* the labels at which a thread has the mutex of its switch
Mutexed == {"l_count", "l_sem", "l_post", "u_count", "u_sem", "u_post"}

\* the labels at which the semaphore of the switch is held for the thread
On(L) == (L \ {"l_sem"}) \cup {"u_sem"}

\* one thread at a time is in lock or unlock; counter counts, and whoever
\* waits for the semaphore or gives it back is alone
SwitchInv(at, U, L, counter, mutex) ==
    /\ \/ mutex = 1 /\ In(at, U, Mutexed) = {}
       \/ mutex = 0 /\ \E p \in U : In(at, U, Mutexed) = {p}
    /\ counter = Cardinality(In(at, U, L))
    /\ \A p \in U : /\ at[p] = "l_sem" => In(at, U, L) = {p}
                    /\ at[p] = "u_sem" => In(at, U, L) = {}

\* the semaphore is free, held through the switch, or held by one of Sole
Owned(at, U, L, Sole, sem) ==
    \/ sem = 1 /\ In(at, U, On(L)) = {} /\ Sole = {}
    \/ sem = 0 /\ In(at, U, On(L)) # {} /\ Sole = {}
    \/ sem = 0 /\ In(at, U, On(L)) = {} /\ \E p \in Sole : Sole = {p}

------------------------------------------------------------------------------
(* Counting the threads at given labels *)

\* Counting a thread that was not counted adds one.
LEMMA CardAdd ==
  ASSUME NEW A, IsFiniteSet(A), NEW x, x \notin A
  PROVE  Cardinality(A \cup {x}) = Cardinality(A) + 1
  BY FS_AddElement

\* No longer counting a thread takes one away.
LEMMA CardRemove ==
  ASSUME NEW A, IsFiniteSet(A), NEW x \in A
  PROVE  Cardinality(A \ {x}) = Cardinality(A) - 1
  BY FS_RemoveElement

\* The threads at given labels are finitely many; a count of 0 or 1 says that
\* there is nobody, or exactly one.
LEMMA InFinite ==
  ASSUME NEW at, NEW U, IsFiniteSet(U), NEW L
  PROVE  /\ IsFiniteSet(In(at, U, L)) /\ Cardinality(In(at, U, L)) \in Nat
         /\ Cardinality(In(at, U, L)) = 0 <=> In(at, U, L) = {}
         /\ Cardinality(In(at, U, L)) = 1 <=> \E x : In(at, U, L) = {x}
<1>1. In(at, U, L) \subseteq U
  BY DEF In
<1>2. IsFiniteSet(In(at, U, L))
  BY <1>1, FS_Subset
<1> QED
  BY <1>2, FS_CardinalityType, FS_EmptySet, FS_Singleton

------------------------------------------------------------------------------
(* The switch *)

\* L contains the labels of the switch at which a thread is counted
SwitchLabels(L) == /\ {"l_sem", "l_post", "u_count"} \subseteq L
                   /\ {"l_count", "u_sem", "u_post"} \cap L = {}

Goes(at, at2, p, from, to) == at[p] = from /\ at2 = [at EXCEPT ![p] = to]

\* a step of p in lock or unlock, which changes the labels, the counter, the
\* mutex and the semaphore from at, c, m, s to at2, c2, m2, s2
SwitchStep(L, p, at, at2, c, c2, m, m2, s, s2) ==
    \/ /\ \/ \E from : from \notin L \cup Mutexed /\ Goes(at, at2, p, from, "l_count")
          \/ \E from \in L \ Mutexed : Goes(at, at2, p, from, "u_count")
       /\ m > 0 /\ m2 = m - 1 /\ c2 = c /\ s2 = s
    \/ /\ Goes(at, at2, p, "l_count", IF c = 0 THEN "l_sem" ELSE "l_post")
       /\ c2 = c + 1 /\ m2 = m /\ s2 = s
    \/ /\ Goes(at, at2, p, "u_count", IF c = 1 THEN "u_sem" ELSE "u_post")
       /\ c2 = c - 1 /\ m2 = m /\ s2 = s
    \/ /\ Goes(at, at2, p, "l_sem", "l_post")
       /\ s > 0 /\ s2 = s - 1 /\ c2 = c /\ m2 = m
    \/ /\ Goes(at, at2, p, "u_sem", "u_post")
       /\ s2 = s + 1 /\ c2 = c /\ m2 = m
    \/ /\ \/ \E to \in L \ Mutexed : Goes(at, at2, p, "l_post", to)
          \/ \E to : to \notin L \cup Mutexed /\ Goes(at, at2, p, "u_post", to)
       /\ m2 = m + 1 /\ c2 = c /\ s2 = s

\* LightSwitch::lock and unlock, statement by statement, keep the counter
\* exact and the semaphore with one owner: the first thread in takes it, the
\* last one out gives it back.
LEMMA SwitchKept ==
  ASSUME NEW D, NEW K, NEW at \in [D -> K], NEW at2, NEW U \in SUBSET D, IsFiniteSet(U),
         NEW L, SwitchLabels(L), NEW p \in U, NEW Sole,
         NEW c, NEW c2, NEW m, NEW m2, NEW s, NEW s2,
         SwitchInv(at, U, L, c, m), Owned(at, U, L, Sole, s),
         SwitchStep(L, p, at, at2, c, c2, m, m2, s, s2)
  PROVE  SwitchInv(at2, U, L, c2, m2) /\ Owned(at2, U, L, Sole, s2)
<1> DEFINE M == In(at, U, Mutexed)
           N == In(at, U, L)
           O == In(at, U, On(L))
           M2 == In(at2, U, Mutexed)
           N2 == In(at2, U, L)
           O2 == In(at2, U, On(L))
<1>0. /\ p \in D
      /\ IsFiniteSet(N) /\ Cardinality(N) \in Nat
      /\ Cardinality(N) = 0 <=> N = {}
      /\ Cardinality(N) = 1 <=> \E x : N = {x}
  BY InFinite
<1>1. CASE /\ \/ \E from : from \notin L \cup Mutexed /\ Goes(at, at2, p, from, "l_count")
              \/ \E from \in L \ Mutexed : Goes(at, at2, p, from, "u_count")
           /\ m > 0 /\ m2 = m - 1 /\ c2 = c /\ s2 = s
  <2>1. N2 = N /\ O2 = O /\ M2 = M \cup {p}
    BY <1>1 DEF In, Goes, On, Mutexed, SwitchLabels
  <2>2. m = 1 /\ M = {}
    BY <1>1 DEF SwitchInv
  <2>3. \A q \in U : at2[q] \notin {"l_sem", "u_sem"}
    BY <2>2, <1>1 DEF In, Mutexed, Goes
  <2> QED
    BY <1>1, <2>1, <2>2, <2>3 DEF SwitchInv, Owned
<1>2. CASE /\ Goes(at, at2, p, "l_count", IF c = 0 THEN "l_sem" ELSE "l_post")
           /\ c2 = c + 1 /\ m2 = m /\ s2 = s
  <2>1. N2 = N \cup {p} /\ p \notin N /\ M2 = M /\ p \in M
    BY <1>2 DEF In, Goes, Mutexed, SwitchLabels
  <2>2. m = 0 /\ M = {p}
    BY <2>1 DEF SwitchInv
  <2>3. \A q \in U : at2[q] \in {"l_sem", "u_sem"} => q = p /\ at2[q] = "l_sem" /\ c = 0
    BY <2>2, <1>2 DEF In, Mutexed, Goes
  <2>4. Cardinality(N2) = Cardinality(N) + 1
    BY <1>0, <2>1, CardAdd
  <2>5. SwitchInv(at2, U, L, c2, m2)
    BY <1>0, <1>2, <2>1, <2>2, <2>3, <2>4 DEF SwitchInv
  <2>6. CASE c = 0
    <3>1. O2 = O
      BY <1>2, <2>6 DEF In, Goes, On, SwitchLabels
    <3> QED
      BY <1>2, <2>5, <3>1 DEF Owned
  <2>7. CASE c # 0
    <3>1. O2 = O \cup {p}
      BY <1>2, <2>7 DEF In, Goes, On, SwitchLabels
    <3>2. PICK q : q \in N
      BY <1>0, <2>7 DEF SwitchInv
    <3>3. at[q] # "l_sem"
      BY <3>2, <2>1, <2>2 DEF In, Mutexed
    <3>4. q \in O
      BY <3>2, <3>3 DEF In, On
    <3> QED
      BY <1>2, <2>5, <3>1, <3>4 DEF Owned
  <2> QED
    BY <2>6, <2>7
<1>3. CASE /\ Goes(at, at2, p, "u_count", IF c = 1 THEN "u_sem" ELSE "u_post")
           /\ c2 = c - 1 /\ m2 = m /\ s2 = s
  <2>1. N2 = N \ {p} /\ p \in N /\ M2 = M /\ p \in M /\ p \in O
    BY <1>3 DEF Goes, Mutexed, On, SwitchLabels, In
  <2>2. m = 0 /\ M = {p}
    BY <2>1 DEF SwitchInv
  <2>3. \A q \in U : at2[q] \in {"l_sem", "u_sem"} => q = p /\ at2[q] = "u_sem" /\ c = 1
    BY <2>2, <1>3 DEF In, Mutexed, Goes
  <2>4. Cardinality(N2) = Cardinality(N) - 1
    BY <1>0, <2>1, CardRemove
  <2>5. c = 1 => N2 = {}
    BY <1>0, <2>1 DEF SwitchInv
  <2>6. SwitchInv(at2, U, L, c2, m2)
    BY <1>0, <1>3, <2>1, <2>2, <2>3, <2>4, <2>5 DEF SwitchInv
  <2>7. CASE c = 1
    <3>1. O2 = O
      BY <1>3, <2>7 DEF In, Goes, On, SwitchLabels
    <3> QED
      BY <1>3, <2>6, <3>1 DEF Owned
  <2>8. CASE c # 1
    <3>1. O2 = O \ {p}
      BY <1>3, <2>8 DEF In, Goes, On, SwitchLabels
    <3>2. PICK q : q \in N /\ q # p
      BY <1>0, <2>1, <2>8 DEF SwitchInv
    <3>3. at[q] # "l_sem"
      BY <3>2, <2>2 DEF In, Mutexed
    <3>4. q \in O2
      BY <3>1, <3>2, <3>3 DEF In, On
    <3> QED
      BY <1>3, <2>1, <2>6, <3>4 DEF Owned
  <2> QED
    BY <2>7, <2>8
<1>4. CASE /\ Goes(at, at2, p, "l_sem", "l_post")
           /\ s > 0 /\ s2 = s - 1 /\ c2 = c /\ m2 = m
  <2>1. N2 = N /\ M2 = M /\ O2 = O \cup {p} /\ p \in M
    BY <1>4 DEF In, Goes, Mutexed, On, SwitchLabels
  <2>2. m = 0 /\ M = {p}
    BY <2>1 DEF SwitchInv
  <2>3. \A q \in U : at2[q] \notin {"l_sem", "u_sem"}
    BY <2>2, <1>4 DEF In, Mutexed, Goes
  <2> QED
    BY <1>4, <2>1, <2>2, <2>3 DEF SwitchInv, Owned
<1>5. CASE /\ Goes(at, at2, p, "u_sem", "u_post")
           /\ s2 = s + 1 /\ c2 = c /\ m2 = m
  <2>1. N2 = N /\ M2 = M /\ O2 = O \ {p} /\ p \in M /\ p \in O
    BY <1>5 DEF In, Goes, Mutexed, On, SwitchLabels
  <2>2. m = 0 /\ M = {p} /\ N = {}
    BY <1>5, <2>1 DEF SwitchInv, Goes
  <2>3. \A q \in U : at2[q] \notin {"l_sem", "u_sem"}
    BY <2>2, <1>5 DEF In, Mutexed, Goes
  <2>4. O2 = {}
    BY <2>1, <2>2 DEF In, On, Mutexed
  <2> QED
    BY <1>5, <2>1, <2>2, <2>3, <2>4 DEF SwitchInv, Owned
<1>6. CASE /\ \/ \E to \in L \ Mutexed : Goes(at, at2, p, "l_post", to)
              \/ \E to : to \notin L \cup Mutexed /\ Goes(at, at2, p, "u_post", to)
           /\ m2 = m + 1 /\ c2 = c /\ s2 = s
  <2>1. N2 = N /\ O2 = O /\ M2 = M \ {p} /\ p \in M
    BY <1>6 DEF In, Goes, On, Mutexed, SwitchLabels
  <2>2. m = 0 /\ M = {p}
    BY <2>1 DEF SwitchInv
  <2>3. \A q \in U : at2[q] \notin {"l_sem", "u_sem"}
    BY <2>2, <1>6 DEF In, Mutexed, Goes
  <2>4. m2 = 1 /\ M2 = {}
    BY <1>6, <2>1, <2>2
  <2> QED
    BY <1>6, <2>1, <2>3, <2>4 DEF SwitchInv, Owned
<1> QED
  BY <1>1, <1>2, <1>3, <1>4, <1>5, <1>6 DEF SwitchStep

\* any other step leaves the switch alone
LEMMA SwitchIdle ==
  ASSUME NEW D, NEW K, NEW at \in [D -> K], NEW at2, NEW U \in SUBSET D, NEW p \in D,
         NEW L, SwitchLabels(L), NEW to, NEW c, NEW m,
         at2 = [at EXCEPT ![p] = to],
         p \in U => at[p] \notin Mutexed /\ to \notin Mutexed /\ (at[p] \in L <=> to \in L),
         SwitchInv(at, U, L, c, m)
  PROVE  SwitchInv(at2, U, L, c, m) /\ In(at2, U, On(L)) = In(at, U, On(L))
<1>1. /\ In(at2, U, Mutexed) = In(at, U, Mutexed)
      /\ In(at2, U, L) = In(at, U, L) /\ In(at2, U, On(L)) = In(at, U, On(L))
  BY DEF In, Mutexed, On
<1>2. \A q \in U : at2[q] \in {"l_sem", "u_sem"} => at2[q] = at[q]
  BY DEF Mutexed
<1> QED
  BY <1>1, <1>2 DEF SwitchInv

\* a thread that goes from label from to label to takes the semaphore when it
\* comes to the labels of A, and gives it back when it leaves them
Takes(from, to, A, s, s2) == \/ from \notin A /\ to \in A /\ s > 0 /\ s2 = s - 1
                             \/ from \in A /\ to \notin A /\ s2 = s + 1
                             \/ (from \in A <=> to \in A) /\ s2 = s

\* A thread that takes the semaphore alone, or gives it back, leaves it with
\* one owner.
LEMMA SoleKept ==
  ASSUME NEW D, NEW K, NEW at \in [D -> K], NEW at2, NEW U \in SUBSET D, NEW V \in SUBSET D,
         U \cap V = {}, NEW p \in V, NEW to, at2 = [at EXCEPT ![p] = to],
         NEW L, NEW A, NEW s, NEW s2, Takes(at[p], to, A, s, s2),
         Owned(at, U, L, In(at, V, A), s)
  PROVE  Owned(at2, U, L, In(at2, V, A), s2)
<1>1. In(at2, U, On(L)) = In(at, U, On(L))
  BY DEF In
<1>2. CASE at[p] \notin A /\ to \in A /\ s > 0 /\ s2 = s - 1
  <2>1. In(at2, V, A) = In(at, V, A) \cup {p}
    BY <1>2 DEF In
  <2>2. s = 1 /\ In(at, V, A) = {} /\ In(at, U, On(L)) = {}
    BY <1>2 DEF Owned
  <2>3. s2 = 0
    BY <1>2, <2>2
  <2>4. In(at2, V, A) = {p} /\ In(at2, U, On(L)) = {}
    BY <1>1, <2>1, <2>2
  <2> QED
    BY <2>3, <2>4 DEF Owned
<1>3. CASE at[p] \in A /\ to \notin A /\ s2 = s + 1
  <2>1. In(at2, V, A) = In(at, V, A) \ {p} /\ p \in In(at, V, A)
    BY <1>3 DEF In
  <2>2. s = 0 /\ In(at, V, A) = {p} /\ In(at, U, On(L)) = {}
    BY <2>1 DEF Owned
  <2>3. s2 = 1
    BY <1>3, <2>2
  <2>4. In(at2, V, A) = {} /\ In(at2, U, On(L)) = {}
    BY <1>1, <2>1, <2>2
  <2> QED
    BY <2>3, <2>4 DEF Owned
<1>4. CASE (at[p] \in A <=> to \in A) /\ s2 = s
  <2>1. In(at2, V, A) = In(at, V, A)
    BY <1>4 DEF In
  <2> QED
    BY <1>1, <1>4, <2>1 DEF Owned
<1> QED
  BY <1>2, <1>3, <1>4 DEF Takes

------------------------------------------------------------------------------
(* The invariant *)

\* readers are counted from counter++ to counter--, and so are the writers of
\* the priority lock; a writer has the room to itself at RoomLabels, a reader
\* of the priority lock has noReaders to itself at GateLabels
ReaderLabels == {"l_sem", "l_post", "leave", "crit", "release", "u_count"}
WriterLabels == {"l_sem", "l_post", "room", "crit", "store", "release", "switch_off",
                 "u_count"}
RoomLabels   == {"crit", "store", "release", "leave"}
GateLabels   == {"switch", "l_count", "l_sem", "l_post", "leave"}
AllLabels    == {"acquire", "passed", "next"} \cup Mutexed \cup WriterLabels
                    \cup RoomLabels \cup GateLabels

Types == /\ pc \in [Procs -> AllLabels]
         /\ data \in Nat /\ tmp \in [Writers -> Nat]

ReaderInv == /\ SwitchInv(pc, Readers, ReaderLabels, rcount, rmutex)
             /\ Owned(pc, Readers, ReaderLabels, In(pc, Writers, RoomLabels), room)

WriterInv == lock = "priority" =>
                /\ SwitchInv(pc, Writers, WriterLabels, wcount, wmutex)
                /\ Owned(pc, Writers, WriterLabels, In(pc, Readers, GateLabels), gate)

\* nobody stores between a load and its store
LoadInv == \A w \in Writers : pc[w] = "store" => tmp[w] = data

IInv == Types /\ ReaderInv /\ WriterInv /\ LoadInv

\* The labels of the readers and of the writers are those of a switch.
LEMMA Labels == SwitchLabels(ReaderLabels) /\ SwitchLabels(WriterLabels)
  BY DEF SwitchLabels, ReaderLabels, WriterLabels

\* The constructors leave the locks free and nobody counted.
LEMMA InitIInv == Init => IInv
<1> SUFFICES ASSUME Init PROVE IInv
  OBVIOUS
<1>1. /\ pc = [p \in Procs |-> "acquire"] /\ data = 0 /\ tmp = [w \in Writers |-> 0]
      /\ rcount = 0 /\ rmutex = 1 /\ wcount = 0 /\ wmutex = 1 /\ gate = 1 /\ room = 1
  BY DEF Init, S!Init, T!Init, P!Init, S!ClientInit, S!Procs, Procs
<1>2. \A X, L : X \subseteq Procs /\ "acquire" \notin L => In(pc, X, L) = {}
  BY <1>1 DEF In
<1>3. Readers \subseteq Procs /\ Writers \subseteq Procs
  BY DEF Procs
<1>4. /\ SwitchInv(pc, Readers, ReaderLabels, rcount, rmutex)
      /\ SwitchInv(pc, Writers, WriterLabels, wcount, wmutex)
  BY <1>1, <1>2, <1>3, FS_EmptySet DEF SwitchInv, Mutexed, ReaderLabels, WriterLabels
<1>5. /\ Owned(pc, Readers, ReaderLabels, In(pc, Writers, RoomLabels), room)
      /\ Owned(pc, Writers, WriterLabels, In(pc, Readers, GateLabels), gate)
  BY <1>1, <1>2, <1>3
  DEF Owned, On, ReaderLabels, WriterLabels, RoomLabels, GateLabels
<1>6. Types /\ LoadInv
  BY <1>1, <1>3 DEF Types, LoadInv, AllLabels
<1> QED
  BY <1>4, <1>5, <1>6 DEF IInv, ReaderInv, WriterInv

------------------------------------------------------------------------------
(* What the steps of the three locks do to each semaphore *)

Moves(p) == pc' = [pc EXCEPT ![p] = pc'[p]] /\ pc'[p] \in AllLabels

\* p is outside lock and unlock of its switch, and is counted as before
Idle(p, L) == /\ pc[p] \notin Mutexed /\ pc'[p] \notin Mutexed
              /\ pc[p] \in L <=> pc'[p] \in L

ReaderStep(r) ==
    /\ Moves(r)
    /\ UNCHANGED <<lock, data, tmp>>
    /\ \/ SwitchStep(ReaderLabels, r, pc, pc', rcount, rcount', rmutex, rmutex', room, room')
       \/ Idle(r, ReaderLabels) /\ UNCHANGED <<rcount, rmutex, room>>
    /\ lock = "priority" => /\ Takes(pc[r], pc'[r], GateLabels, gate, gate')
                            /\ UNCHANGED <<wcount, wmutex>>
                            /\ pc'[r] = "crit" => pc[r] = "leave"
    /\ pc'[r] = "crit" => pc[r] \in {"l_post", "leave"}
    /\ pc'[r] = "release" => pc[r] = "crit"

WriterStep(w) ==
    /\ Moves(w)
    /\ UNCHANGED <<lock, rcount, rmutex>>
    /\ Takes(pc[w], pc'[w], RoomLabels, room, room')
    /\ \/ pc'[w] \notin {"store", "release"} /\ UNCHANGED <<data, tmp>>
       \/ pc[w] = "crit" /\ pc'[w] = "store" /\ tmp' = [tmp EXCEPT ![w] = data] /\ data' = data
       \/ pc[w] = "store" /\ pc'[w] = "release" /\ data' = tmp[w] + 1 /\ tmp' = tmp
    /\ lock = "priority" =>
         \/ SwitchStep(WriterLabels, w, pc, pc', wcount, wcount', wmutex, wmutex', gate, gate')
         \/ Idle(w, WriterLabels) /\ UNCHANGED <<wcount, wmutex, gate>>
    /\ pc'[w] = "crit" => pc[w] \notin RoomLabels

\* A reader of rwlock_writer_starvation.cpp only uses its switch.
LEMMA StarvationReader ==
  ASSUME Types, NEW r \in Readers, S!Step(r), UNCHANGED lock, lock = "starvation"
  PROVE  ReaderStep(r)
<1> USE ThreadsAssumption DEF Types, Procs, ReaderStep, Moves, AllLabels, Mutexed, ReaderLabels,
    WriterLabels, RoomLabels, GateLabels
<1>1. CASE S!AcquireRead(r)
  BY <1>1 DEF S!AcquireRead, S!readLightSwitch!Lock, SwitchStep, Goes,
     S!readLightSwitch!LockMutex, S!readLightSwitch!LockCount, S!readLightSwitch!LockSem,
     S!readLightSwitch!LockPost, S!readLightSwitch!Goto, S!readLightSwitch!SemWait,
     S!readLightSwitch!SemPost
<1>2. CASE S!ReleaseRead(r)
  BY <1>2 DEF S!ReleaseRead, S!readLightSwitch!Unlock, SwitchStep, Goes,
     S!readLightSwitch!UnlockMutex, S!readLightSwitch!UnlockCount, S!readLightSwitch!UnlockSem,
     S!readLightSwitch!UnlockPost, S!readLightSwitch!Goto, S!readLightSwitch!SemWait,
     S!readLightSwitch!SemPost
<1>3. CASE S!Body(r)
  BY <1>3 DEF S!Body, S!Client, S!Read, S!EndLoop, S!Goto, S!lvars, Idle
<1> QED
  BY <1>1, <1>2, <1>3 DEF S!Step

\* A writer of rwlock_writer_starvation.cpp takes and releases the room.
LEMMA StarvationWriter ==
  ASSUME Types, NEW w \in Writers, S!Step(w), UNCHANGED lock, lock = "starvation"
  PROVE  WriterStep(w)
<1> USE ThreadsAssumption DEF Types, Procs, WriterStep, Moves, AllLabels, Mutexed,
    WriterLabels, RoomLabels, GateLabels, Takes
<1>1. CASE S!AcquireWrite(w) \/ S!ReleaseWrite(w)
  BY <1>1 DEF S!AcquireWrite, S!ReleaseWrite, S!Goto, S!SemWait, S!SemPost
<1>2. CASE S!Body(w)
  BY <1>2 DEF S!Body, S!Client, S!Load, S!Store, S!EndLoop, S!Goto, S!lvars
<1> QED
  BY <1>1, <1>2 DEF S!Step

\* A reader of rwlock-1writerprogress.cpp passes the turnstile and uses its
\* switch.
LEMMA TurnstileReader ==
  ASSUME Types, NEW r \in Readers, T!Step(r), UNCHANGED lock, lock = "turnstile"
  PROVE  ReaderStep(r)
<1> USE ThreadsAssumption DEF Types, Procs, ReaderStep, Moves, AllLabels, Mutexed, ReaderLabels,
    WriterLabels, RoomLabels, GateLabels
<1>1. CASE T!PassTurnstile(r)
  BY <1>1 DEF T!PassTurnstile, T!Goto, Idle
<1>2. CASE T!SwitchOn(r)
  BY <1>2 DEF T!SwitchOn, T!readSwitch!Lock, SwitchStep, Goes,
     T!readSwitch!LockMutex, T!readSwitch!LockCount, T!readSwitch!LockSem,
     T!readSwitch!LockPost, T!readSwitch!Goto, T!readSwitch!SemWait, T!readSwitch!SemPost
<1>3. CASE T!ReleaseRead(r)
  BY <1>3 DEF T!ReleaseRead, T!readSwitch!Unlock, SwitchStep, Goes,
     T!readSwitch!UnlockMutex, T!readSwitch!UnlockCount, T!readSwitch!UnlockSem,
     T!readSwitch!UnlockPost, T!readSwitch!Goto, T!readSwitch!SemWait, T!readSwitch!SemPost
<1>4. CASE T!Body(r)
  BY <1>4 DEF T!Body, T!Client, T!Read, T!EndLoop, T!Goto, T!lvars, Idle
<1> QED
  BY <1>1, <1>2, <1>3, <1>4 DEF T!Step

\* A writer of rwlock-1writerprogress.cpp takes the room, behind the
\* turnstile.
LEMMA TurnstileWriter ==
  ASSUME Types, NEW w \in Writers, T!Step(w), UNCHANGED lock, lock = "turnstile"
  PROVE  WriterStep(w)
<1> USE ThreadsAssumption DEF Types, Procs, WriterStep, Moves, AllLabels, Mutexed,
    WriterLabels, RoomLabels, GateLabels, Takes
<1>1. CASE T!AcquireWrite(w) \/ T!ReleaseWrite(w)
  BY <1>1 DEF T!AcquireWrite, T!ReleaseWrite, T!Goto, T!SemWait, T!SemPost
<1>2. CASE T!Body(w)
  BY <1>2 DEF T!Body, T!Client, T!Load, T!Store, T!EndLoop, T!Goto, T!lvars
<1> QED
  BY <1>1, <1>2 DEF T!Step

\* A reader of rwlock-writer-priority.cpp passes noReaders and uses its
\* switch.
LEMMA PriorityReader ==
  ASSUME Types, NEW r \in Readers, P!Step(r), UNCHANGED lock, lock = "priority"
  PROVE  ReaderStep(r)
<1> USE ThreadsAssumption DEF Types, Procs, ReaderStep, Moves, AllLabels, Mutexed, ReaderLabels,
    WriterLabels, RoomLabels, GateLabels, Takes
<1>1. CASE P!EnterNoReaders(r) \/ P!LeaveNoReaders(r)
  BY <1>1 DEF P!EnterNoReaders, P!LeaveNoReaders, P!Goto, P!SemWait, P!SemPost, Idle
<1>2. CASE P!ReaderSwitchOn(r)
  BY <1>2 DEF P!ReaderSwitchOn, P!reader_switch!Lock, SwitchStep, Goes,
     P!reader_switch!LockMutex, P!reader_switch!LockCount, P!reader_switch!LockSem,
     P!reader_switch!LockPost, P!reader_switch!Goto, P!reader_switch!SemWait,
     P!reader_switch!SemPost
<1>3. CASE P!ReleaseRead(r)
  BY <1>3 DEF P!ReleaseRead, P!reader_switch!Unlock, SwitchStep, Goes,
     P!reader_switch!UnlockMutex, P!reader_switch!UnlockCount, P!reader_switch!UnlockSem,
     P!reader_switch!UnlockPost, P!reader_switch!Goto, P!reader_switch!SemWait,
     P!reader_switch!SemPost
<1>4. CASE P!Body(r)
  BY <1>4 DEF P!Body, P!Client, P!Read, P!EndLoop, P!Goto, P!lvars, Idle
<1> QED
  BY <1>1, <1>2, <1>3, <1>4 DEF P!Step

\* A writer of rwlock-writer-priority.cpp uses the switch of the writers and
\* the room.
LEMMA PriorityWriter ==
  ASSUME Types, NEW w \in Writers, P!Step(w), UNCHANGED lock, lock = "priority"
  PROVE  WriterStep(w)
<1> USE ThreadsAssumption DEF Types, Procs, WriterStep, Moves, AllLabels, Mutexed,
    WriterLabels, RoomLabels, GateLabels, Takes
<1>1. CASE P!WaitNoWriters(w) \/ P!PostNoWriters(w)
  BY <1>1 DEF P!WaitNoWriters, P!PostNoWriters, P!Goto, P!SemWait, P!SemPost, Idle
<1>2. CASE P!WriterSwitchOn(w)
  BY <1>2 DEF P!WriterSwitchOn, P!writer_switch!Lock, SwitchStep, Goes,
     P!writer_switch!LockMutex, P!writer_switch!LockCount, P!writer_switch!LockSem,
     P!writer_switch!LockPost, P!writer_switch!Goto, P!writer_switch!SemWait,
     P!writer_switch!SemPost
<1>3. CASE P!WriterSwitchOff(w)
  BY <1>3 DEF P!WriterSwitchOff, P!writer_switch!Unlock, SwitchStep, Goes,
     P!writer_switch!UnlockMutex, P!writer_switch!UnlockCount, P!writer_switch!UnlockSem,
     P!writer_switch!UnlockPost, P!writer_switch!Goto, P!writer_switch!SemWait,
     P!writer_switch!SemPost
<1>4. CASE P!Body(w)
  BY <1>4 DEF P!Body, P!Client, P!Load, P!Store, P!EndLoop, P!Goto, P!lvars, Idle
<1> QED
  BY <1>1, <1>2, <1>3, <1>4 DEF P!Step

\* every step is a step of one reader or one writer, or main's last one
LEMMA NextSteps ==
  ASSUME Types, [Next]_vars
  PROVE  \/ \E r \in Readers : ReaderStep(r)
         \/ \E w \in Writers : WriterStep(w)
         \/ UNCHANGED vars
<1>1. CASE \E p \in Procs : Step(p)
  <2>1. PICK p \in Procs : Step(p)
    BY <1>1
  <2>2. CASE p \in Readers
    BY <2>1, <2>2, StarvationReader, TurnstileReader, PriorityReader DEF Step
  <2>3. CASE p \in Writers
    BY <2>1, <2>3, StarvationWriter, TurnstileWriter, PriorityWriter DEF Step
  <2> QED
    BY <2>2, <2>3 DEF Procs
<1>2. CASE AllFinished \/ UNCHANGED vars
  BY <1>2 DEF AllFinished
<1> QED
  BY <1>1, <1>2 DEF Next

------------------------------------------------------------------------------
(* The steps keep the invariant *)

\* A step of a reader keeps the invariant, whichever lock it uses.
LEMMA ReaderIInv ==
  ASSUME IInv, NEW r \in Readers, ReaderStep(r)
  PROVE  IInv'
<1>1. /\ pc \in [Procs -> AllLabels] /\ r \in Procs /\ r \notin Writers
      /\ pc' = [pc EXCEPT ![r] = pc'[r]] /\ pc'[r] \in AllLabels
      /\ Readers \in SUBSET Procs /\ Writers \in SUBSET Procs
  BY ThreadsAssumption DEF IInv, Types, ReaderStep, Moves, Procs
<1>2. /\ Types' /\ LoadInv'
  BY <1>1 DEF IInv, Types, LoadInv, ReaderStep
<1>3. In(pc', Writers, RoomLabels) = In(pc, Writers, RoomLabels)
  BY <1>1 DEF In
<1>4. ReaderInv'
  <2>1. CASE SwitchStep(ReaderLabels, r, pc, pc', rcount, rcount', rmutex, rmutex', room, room')
    <3>1. /\ SwitchInv(pc', Readers, ReaderLabels, rcount', rmutex')
          /\ Owned(pc', Readers, ReaderLabels, In(pc, Writers, RoomLabels), room')
      BY <1>1, <2>1, SwitchKept, Labels, ThreadsAssumption DEF IInv, ReaderInv
    <3> QED
      BY <1>3, <3>1 DEF ReaderInv
  <2>2. CASE Idle(r, ReaderLabels) /\ UNCHANGED <<rcount, rmutex, room>>
    <3>1. /\ SwitchInv(pc', Readers, ReaderLabels, rcount, rmutex)
          /\ In(pc', Readers, On(ReaderLabels)) = In(pc, Readers, On(ReaderLabels))
      BY <1>1, <2>2, SwitchIdle, Labels DEF IInv, ReaderInv, Idle
    <3> QED
      BY <1>3, <2>2, <3>1 DEF IInv, ReaderInv, Owned
  <2> QED
    BY <2>1, <2>2 DEF ReaderStep
<1>5. WriterInv'
  <2> SUFFICES ASSUME lock = "priority"
               PROVE  WriterInv'
    BY DEF WriterInv, ReaderStep
  <2>1. SwitchInv(pc', Writers, WriterLabels, wcount', wmutex')
    BY <1>1, SwitchIdle, Labels DEF IInv, WriterInv, ReaderStep
  <2>2. Owned(pc', Writers, WriterLabels, In(pc', Readers, GateLabels), gate')
    BY <1>1, SoleKept, ThreadsAssumption DEF IInv, WriterInv, ReaderStep
  <2> QED
    BY <2>1, <2>2 DEF WriterInv
<1> QED
  BY <1>2, <1>4, <1>5 DEF IInv

\* A step of a writer keeps the invariant, whichever lock it uses.
LEMMA WriterIInv ==
  ASSUME IInv, NEW w \in Writers, WriterStep(w)
  PROVE  IInv'
<1>1. /\ pc \in [Procs -> AllLabels] /\ w \in Procs /\ w \notin Readers
      /\ pc' = [pc EXCEPT ![w] = pc'[w]] /\ pc'[w] \in AllLabels
      /\ Readers \in SUBSET Procs /\ Writers \in SUBSET Procs
  BY ThreadsAssumption DEF IInv, Types, WriterStep, Moves, Procs
<1>2. Types'
  BY <1>1 DEF IInv, Types, WriterStep
<1>3. In(pc', Readers, GateLabels) = In(pc, Readers, GateLabels)
  BY <1>1 DEF In
<1>4. ReaderInv'
  <2>1. SwitchInv(pc', Readers, ReaderLabels, rcount', rmutex')
    BY <1>1, SwitchIdle, Labels DEF IInv, ReaderInv, WriterStep
  <2>2. Owned(pc', Readers, ReaderLabels, In(pc', Writers, RoomLabels), room')
    BY <1>1, SoleKept, ThreadsAssumption DEF IInv, ReaderInv, WriterStep
  <2> QED
    BY <2>1, <2>2 DEF ReaderInv
<1>5. WriterInv'
  <2> SUFFICES ASSUME lock = "priority"
               PROVE  WriterInv'
    BY DEF WriterInv, WriterStep
  <2>1. CASE SwitchStep(WriterLabels, w, pc, pc', wcount, wcount', wmutex, wmutex', gate, gate')
    <3>1. /\ SwitchInv(pc', Writers, WriterLabels, wcount', wmutex')
          /\ Owned(pc', Writers, WriterLabels, In(pc, Readers, GateLabels), gate')
      BY <1>1, <2>1, SwitchKept, Labels, ThreadsAssumption DEF IInv, WriterInv
    <3> QED
      BY <1>3, <3>1 DEF WriterInv
  <2>2. CASE Idle(w, WriterLabels) /\ UNCHANGED <<wcount, wmutex, gate>>
    <3>1. /\ SwitchInv(pc', Writers, WriterLabels, wcount, wmutex)
          /\ In(pc', Writers, On(WriterLabels)) = In(pc, Writers, On(WriterLabels))
      BY <1>1, <2>2, SwitchIdle, Labels DEF IInv, WriterInv, Idle
    <3> QED
      BY <1>3, <2>2, <3>1 DEF IInv, WriterInv, Owned
  <2> QED
    BY <2>1, <2>2 DEF WriterStep
<1>6. \A v \in Writers \ {w} : pc'[v] = pc[v]
  BY <1>1
<1>7. LoadInv'
  <2>1. CASE pc'[w] \notin {"store", "release"} /\ UNCHANGED <<data, tmp>>
    BY <1>6, <2>1 DEF IInv, LoadInv
  <2>2. CASE /\ pc[w] = "crit" /\ pc'[w] = "store"
             /\ tmp' = [tmp EXCEPT ![w] = data] /\ data' = data
    BY <1>6, <2>2 DEF IInv, Types, LoadInv
  <2>3. CASE /\ pc[w] = "store" /\ pc'[w] = "release"
             /\ data' = tmp[w] + 1 /\ tmp' = tmp
    <3>1. \A v \in Writers : pc[v] = "store" => v = w
      BY <2>3 DEF IInv, ReaderInv, Owned, In, RoomLabels
    <3> QED
      BY <1>6, <2>3, <3>1 DEF LoadInv
  <2> QED
    BY <2>1, <2>2, <2>3 DEF WriterStep
<1> QED
  BY <1>2, <1>4, <1>5, <1>7 DEF IInv

\* Every step keeps the invariant.
LEMMA NextIInv == IInv /\ [Next]_vars => IInv'
<1> SUFFICES ASSUME IInv, [Next]_vars
             PROVE  IInv'
  OBVIOUS
<1>1. CASE UNCHANGED vars
  BY <1>1 DEF vars, cvars, IInv, Types, ReaderInv, WriterInv, LoadInv, Procs
<1> QED
  BY <1>1, NextSteps, ReaderIInv, WriterIInv DEF IInv

------------------------------------------------------------------------------
(* The invariant, the refinement and the priority of writers *)

\* In every reachable state of the three locks each semaphore has one owner,
\* each counter counts, and no writer's load is stale.
THEOREM Invariant == FairSpec => []IInv
<1> QED
  BY InitIInv, NextIInv, PTL DEF FairSpec

\* a reader that has the room on, or a writer in the room, keeps the others out
LEMMA Exclusion ==
  ASSUME IInv
  PROVE  /\ \A r \in Readers : pc[r] \in On(ReaderLabels) => In(pc, Writers, RoomLabels) = {}
         /\ room > 0 => ReadersInside = {} /\ WritersInside = {}
<1>1. \A r \in Readers : pc[r] \in On(ReaderLabels) => r \in In(pc, Readers, On(ReaderLabels))
  BY DEF In
<1>2. ReadersInside \subseteq In(pc, Readers, On(ReaderLabels))
  BY DEF ReadersInside, In, On, ReaderLabels
<1>3. WritersInside \subseteq In(pc, Writers, RoomLabels)
  BY DEF WritersInside, In, RoomLabels
<1> QED
  BY <1>1, <1>2, <1>3 DEF IInv, ReaderInv, Owned

\* A reader comes in only when no writer is inside, and its other steps are
\* invisible.
LEMMA ReaderRefines ==
  ASSUME IInv, NEW r \in Readers, ReaderStep(r)
  PROVE  RW!Next \/ UNCHANGED RW!vars
<1>1. /\ pc \in [Procs -> AllLabels] /\ r \in Procs /\ r \notin Writers
      /\ pc' = [pc EXCEPT ![r] = pc'[r]] /\ UNCHANGED data
  BY ThreadsAssumption DEF IInv, Types, ReaderStep, Moves, Procs
<1>2. WritersInside' = WritersInside
  BY <1>1 DEF WritersInside, Procs
<1>3. \A q \in Readers \ {r} : pc'[q] = pc[q]
  BY <1>1 DEF Procs
<1>4. CASE pc'[r] = "crit"
  <2>1. pc[r] \in {"l_post", "leave"}
    BY <1>4 DEF ReaderStep
  <2>2. In(pc, Writers, RoomLabels) = {}
    BY <2>1, Exclusion DEF On, ReaderLabels
  <2>3. WritersInside = {}
    BY <2>2 DEF WritersInside, In, RoomLabels
  <2>4. r \notin ReadersInside /\ ReadersInside' = ReadersInside \cup {r}
    BY <1>3, <1>4, <2>1 DEF ReadersInside
  <2>5. ReadersInside \cap Writers = {}
    BY ThreadsAssumption DEF ReadersInside
  <2>6. RW!ReadEnter(r)
    BY <1>1, <1>2, <2>3, <2>4, <2>5 DEF RW!ReadEnter
  <2> QED
    BY <2>6 DEF RW!Next
<1>5. CASE pc'[r] = "release"
  <2>1. pc[r] = "crit"
    BY <1>5 DEF ReaderStep
  <2>2. ReadersInside' = ReadersInside
    BY <1>3, <1>5, <2>1 DEF ReadersInside
  <2> QED
    BY <1>1, <1>2, <2>2 DEF RW!vars
<1>6. CASE pc'[r] \notin {"crit", "release"}
  <2>1. ReadersInside' = ReadersInside \ {r}
    BY <1>3, <1>6 DEF ReadersInside
  <2>2. CASE r \in ReadersInside
    <3>1. r \notin WritersInside
      BY <1>1 DEF WritersInside
    <3>2. RW!Leave(r)
      BY <1>1, <1>2, <2>1, <2>2, <3>1 DEF RW!Leave
    <3> QED
      BY <3>2 DEF RW!Next
  <2>3. CASE r \notin ReadersInside
    BY <1>1, <1>2, <2>1, <2>3 DEF RW!vars
  <2> QED
    BY <2>2, <2>3
<1> QED
  BY <1>4, <1>5, <1>6

\* A writer comes in only when nobody is inside, and its store is one more
\* than the last.
LEMMA WriterRefines ==
  ASSUME IInv, NEW w \in Writers, WriterStep(w)
  PROVE  RW!Next \/ UNCHANGED RW!vars
<1>1. /\ pc \in [Procs -> AllLabels] /\ w \in Procs /\ w \notin Readers
      /\ pc' = [pc EXCEPT ![w] = pc'[w]]
  BY ThreadsAssumption DEF IInv, Types, WriterStep, Moves, Procs
<1>2. ReadersInside' = ReadersInside
  BY <1>1 DEF ReadersInside, Procs
<1>3. \A v \in Writers \ {w} : pc'[v] = pc[v]
  BY <1>1 DEF Procs
<1>4. CASE pc'[w] = "crit"
  <2>1. pc[w] \notin RoomLabels /\ room > 0 /\ UNCHANGED data
    BY <1>4 DEF WriterStep, Takes, RoomLabels
  <2>2. ReadersInside = {} /\ WritersInside = {}
    BY <2>1, Exclusion
  <2>3. WritersInside' = {w}
    BY <1>3, <1>4, <2>2 DEF WritersInside
  <2>4. RW!WriteEnter(w)
    BY <1>2, <2>1, <2>2, <2>3 DEF RW!WriteEnter
  <2> QED
    BY <2>4 DEF RW!Next
<1>5. CASE pc'[w] = "store"
  <2>1. pc[w] = "crit" /\ UNCHANGED data
    BY <1>5 DEF WriterStep
  <2>2. WritersInside' = WritersInside
    BY <1>3, <1>5, <2>1 DEF WritersInside
  <2> QED
    BY <1>2, <2>1, <2>2 DEF RW!vars
<1>6. CASE pc'[w] = "release"
  <2>1. pc[w] = "store" /\ data' = tmp[w] + 1
    BY <1>6 DEF WriterStep
  <2>2. w \in WritersInside /\ WritersInside' = WritersInside
    BY <1>3, <1>6, <2>1 DEF WritersInside
  <2>3. data' = data + 1
    BY <2>1 DEF IInv, LoadInv
  <2>4. RW!Increment(w)
    BY <1>2, <2>2, <2>3 DEF RW!Increment
  <2> QED
    BY <2>4 DEF RW!Next
<1>7. CASE pc'[w] \notin {"crit", "store", "release"}
  <2>1. WritersInside' = WritersInside \ {w} /\ UNCHANGED data
    BY <1>3, <1>7 DEF WritersInside, WriterStep
  <2>2. CASE w \in WritersInside
    <3>1. w \notin ReadersInside
      BY <1>1 DEF ReadersInside
    <3>2. RW!Leave(w)
      BY <1>2, <2>1, <2>2, <3>1 DEF RW!Leave
    <3> QED
      BY <3>2 DEF RW!Next
  <2>3. CASE w \notin WritersInside
    BY <1>2, <2>1, <2>3 DEF RW!vars
  <2> QED
    BY <2>2, <2>3
<1> QED
  BY <1>4, <1>5, <1>6, <1>7

\* Each of the three locks implements the abstract reader-writer lock: a
\* reader's acquire returns while no writer is inside, a writer's while nobody
\* is, and counter++ in a critical section is one increment.
THEOREM Refinement == FairSpec => ImplementsRWLock
<1>1. Init => RW!Init
  BY DEF Init, S!Init, S!ClientInit, S!Procs, RW!Init, ReadersInside, WritersInside
<1>2. IInv /\ [Next]_vars => [RW!Next]_RW!vars
  <2> SUFFICES ASSUME IInv, [Next]_vars
               PROVE  RW!Next \/ UNCHANGED RW!vars
    OBVIOUS
  <2>1. CASE UNCHANGED vars
    BY <2>1 DEF vars, cvars, RW!vars, ReadersInside, WritersInside
  <2> QED
    BY <2>1, NextSteps, ReaderRefines, WriterRefines DEF IInv
<1> QED
  BY <1>1, <1>2, Invariant, PTL DEF FairSpec, ImplementsRWLock, RW!Spec

\* In rwlock-writer-priority.cpp no reader's acquire returns while a writer is
\* past writer_switch: the reader would hold noReaders, which the writers hold.
THEOREM WritersComeFirst == FairSpec => WriterPriority
<1>1. IInv /\ [Next]_vars => [lock = "priority" => P!WritersFirst]_vars
  <2> SUFFICES ASSUME IInv, [Next]_vars, lock = "priority", P!Queued # {},
                      NEW q \in Readers, pc'[q] \in {"crit", "release"}
               PROVE  pc[q] \in {"crit", "release"}
    BY DEF P!WritersFirst, P!ReadersInside
  <2>1. PICK w \in Writers : pc[w] \in {"room", "crit", "store", "release"}
    BY DEF P!Queued
  <2>2. w \in In(pc, Writers, On(WriterLabels))
    BY <2>1 DEF In, On, WriterLabels
  <2>3. \A r \in Readers : pc[r] # "leave"
    BY <2>2 DEF IInv, WriterInv, Owned, In, GateLabels
  <2>4. CASE \E r \in Readers : ReaderStep(r)
    <3>1. PICK r \in Readers : ReaderStep(r)
      BY <2>4
    <3>2. pc' = [pc EXCEPT ![r] = pc'[r]] /\ pc \in [Procs -> AllLabels]
      BY <3>1 DEF ReaderStep, Moves, IInv, Types
    <3>3. CASE q = r
      BY <2>3, <3>1, <3>3 DEF ReaderStep
    <3>4. CASE q # r
      BY <3>2, <3>4 DEF Procs
    <3> QED
      BY <3>3, <3>4
  <2>5. CASE \E v \in Writers : WriterStep(v)
    BY <2>5, ThreadsAssumption DEF WriterStep, Moves, IInv, Types, Procs
  <2>6. CASE UNCHANGED vars
    BY <2>6 DEF vars, cvars
  <2> QED
    BY <2>4, <2>5, <2>6, NextSteps DEF IInv
<1> QED
  BY <1>1, Invariant, PTL DEF FairSpec, WriterPriority

==============================================================================
