------------------------------- MODULE RWClient -------------------------------
(***************************************************************************)
(* The reader and writer threads of the three reader-writer lock programs: *)
(* a loop that acquires the lock, reads or increments the shared counter,  *)
(* and releases the lock.  The lock's own statements are in the modules    *)
(* that extend this one; a thread is at "acquire" before its acquire, at   *)
(* "crit" when it returns, at "release" before its release and at "next"   *)
(* when that returns.                                                      *)
(*                                                                         *)
(* read_loops and write_loops come from the command line.                  *)
(***************************************************************************)
EXTENDS Threads, FiniteSets

CONSTANTS Readers, Writers,
          ReadLoops,     (* the values of read_loops considered            *)
          WriteLoops,
          Forever        (* a read_loops that never runs out               *)

Procs == Readers \cup Writers

ASSUME ThreadsAssumption == /\ IsFiniteSet(Readers) /\ IsFiniteSet(Writers)
                            /\ Readers \cap Writers = {}
ASSUME LoopsAssumption   == /\ ReadLoops \subseteq Nat \cup {Forever}
                            /\ WriteLoops \in Nat
                            /\ Forever \notin Nat

VARIABLES left,      (* iterations left to each thread                     *)
          data,      (* the global counter                                 *)
          tmp        (* tmp[w]: the value writer w loaded for counter++    *)

cvars == <<pc, left, data, tmp>>

\* main starts the threads after rwlock_init
ClientInit == /\ pc = [p \in Procs |-> "acquire"]
              /\ \E n \in ReadLoops :
                   left = [p \in Procs |-> IF p \in Readers THEN n ELSE WriteLoops]
              /\ data = 0
              /\ tmp = [w \in Writers |-> 0]

\* i < read_loops, i < write_loops
More(p) == left[p] # 0

\* local = counter; the value is only printed
Read(r) == /\ Goto(r, "crit", "release")
           /\ UNCHANGED <<left, data, tmp>>

\* counter++ is a load ...
Load(w) == /\ Goto(w, "crit", "store")
           /\ tmp' = [tmp EXCEPT ![w] = data]
           /\ UNCHANGED <<left, data>>

\* ... and a store
Store(w) == /\ Goto(w, "store", "release")
            /\ data' = tmp[w] + 1
            /\ UNCHANGED <<left, tmp>>

\* i++
EndLoop(p) == /\ Goto(p, "next", "acquire")
              /\ left' = [left EXCEPT ![p] = IF @ = Forever THEN @ ELSE @ - 1]
              /\ UNCHANGED <<data, tmp>>

Client(p) == \/ p \in Readers /\ Read(p)
             \/ p \in Writers /\ (Load(p) \/ Store(p))
             \/ EndLoop(p)

Finished(p) == pc[p] = "acquire" /\ ~More(p)

------------------------------------------------------------------------------
(* Properties *)

ReadersInside == {r \in Readers : pc[r] \in {"crit", "release"}}
WritersInside == {w \in Writers : pc[w] \in {"crit", "store", "release"}}

\* the abstract reader-writer lock: whoever is between the return of its
\* acquire and the first statement of its release is inside
RW == INSTANCE RWLock WITH inside <- ReadersInside \cup WritersInside

\* Readers share the room, a writer has it alone, and no increment is lost:
\* the program implements the abstract reader-writer lock, whatever order its
\* semaphores are taken and given back in.
ImplementsRWLock == RW!Spec

\* With finitely many iterations every reader and every writer ends: the
\* switches, the turnstile and the room never wait for each other in a circle.
Termination == (\A r \in Readers : left[r] # Forever)
                   => <>[](\A p \in Procs : Finished(p))
==============================================================================
