------------------------------ MODULE MCRWLocks ------------------------------
(***************************************************************************)
(* The three reader-writer lock programs.  They have the same readers and  *)
(* writers; a behaviour runs one of the locks.  gate is turnstile or       *)
(* noReaders, room is roomEmpty or noWriters: every semaphore starts at 1  *)
(* and every counter at 0, in each of the programs.                        *)
(***************************************************************************)
EXTENDS RWClient

VARIABLES lock,      (* the lock the program uses                          *)
          rcount, rmutex, wcount, wmutex, gate, room

vars == <<cvars, lock, rcount, rmutex, wcount, wmutex, gate, room>>

S == INSTANCE RWStarvation WITH roomEmpty <- room
T == INSTANCE RWTurnstile WITH turnstile <- gate, roomEmpty <- room
P == INSTANCE RWPriority WITH noReaders <- gate, noWriters <- room

Init == /\ lock \in {"starvation", "turnstile", "priority"}
        /\ S!Init /\ T!Init /\ P!Init

Step(p) ==
    /\ UNCHANGED lock
    /\ \/ lock = "starvation" /\ S!Step(p) /\ UNCHANGED <<wcount, wmutex, gate>>
       \/ lock = "turnstile" /\ T!Step(p) /\ UNCHANGED <<wcount, wmutex>>
       \/ lock = "priority" /\ P!Step(p)

\* main's joins have returned
AllFinished == (\A p \in Procs : Finished(p)) /\ UNCHANGED vars

Next == (\E p \in Procs : Step(p)) \/ AllFinished

\* the scheduler eventually runs a thread that can keep running; nothing is
\* assumed about who gets a semaphore that several threads want
FairSpec == Init /\ [][Next]_vars /\ \A p \in Procs : WF_vars(Step(p))

------------------------------------------------------------------------------
(* Properties *)

\* rwlock-writer-priority.cpp: from the moment a writer is through
\* writer_switch until the last such writer has left the room no reader gets
\* the lock, in particular not in the gap between one writer's release and the
\* next writer's wait for noWriters.
WriterPriority == [][lock = "priority" => P!WritersFirst]_vars

\* A writer that has locked the readers out, by the turnstile or by
\* writer_switch, gets into the room although the readers never stop coming:
\* those already past the gate drain, the others queue.
WriterProgress == \A w \in Writers : pc[w] = "room" ~> pc[w] = "crit"
==============================================================================
