----------------------------- MODULE RWPriority -----------------------------
(***************************************************************************)
(* threads-sema/rwlock-writer-priority.cpp: a reader passes through        *)
(* noReaders and readers share noWriters through reader_switch; writers    *)
(* share noReaders through writer_switch and take noWriters one at a time. *)
(***************************************************************************)
EXTENDS RWClient

VARIABLES rcount, rmutex,   (* reader_switch: counter and mutex            *)
          wcount, wmutex,   (* writer_switch: counter and mutex            *)
          noReaders, noWriters

lvars == <<rcount, rmutex, wcount, wmutex, noReaders, noWriters>>
vars  == <<cvars, lvars>>

reader_switch == INSTANCE LightSwitch WITH counter <- rcount, mutex <- rmutex,
                                           semaphore <- noWriters
writer_switch == INSTANCE LightSwitch WITH counter <- wcount, mutex <- wmutex,
                                           semaphore <- noReaders

\* the LightSwitch constructors and rwlock_init
Init == /\ ClientInit
        /\ rcount = 0 /\ wcount = 0
        /\ rmutex = 1 /\ wmutex = 1
        /\ noReaders = 1 /\ noWriters = 1

------------------------------------------------------------------------------
(* rwlock_acquire_readlock *)

\* sem_wait(&lock->noReaders)
EnterNoReaders(r) ==
    /\ More(r)
    /\ Goto(r, "acquire", "switch")
    /\ SemWait(noReaders)
    /\ UNCHANGED <<left, data, tmp, rcount, rmutex, wcount, wmutex, noWriters>>

\* lock->reader_switch.lock(lock->noWriters)
ReaderSwitchOn(r) == /\ reader_switch!Lock(r, "switch", "leave")
                     /\ UNCHANGED <<left, data, tmp, wcount, wmutex, noReaders>>

\* sem_post(&lock->noReaders)
LeaveNoReaders(r) ==
    /\ Goto(r, "leave", "crit")
    /\ SemPost(noReaders)
    /\ UNCHANGED <<left, data, tmp, rcount, rmutex, wcount, wmutex, noWriters>>

\* rwlock_release_readlock
ReleaseRead(r) == /\ reader_switch!Unlock(r, "release", "next")
                  /\ UNCHANGED <<left, data, tmp, wcount, wmutex, noReaders>>

------------------------------------------------------------------------------
(* rwlock_acquire_writelock, rwlock_release_writelock *)

\* a writer queues for the room without locking readers out
MutantWriterSwitchSkipped(w) == /\ More(w)
                                /\ Goto(w, "acquire", "room")
                                /\ UNCHANGED <<left, data, tmp, lvars>>

\* lock->writer_switch.lock(lock->noReaders)
WriterSwitchOn(w) == /\ More(w)
                     /\ writer_switch!Lock(w, "acquire", "room")
                     /\ UNCHANGED <<left, data, tmp, rcount, rmutex, noWriters>>

\* sem_wait(&lock->noWriters)
WaitNoWriters(w) ==
    /\ Goto(w, "room", "crit")
    /\ SemWait(noWriters)
    /\ UNCHANGED <<left, data, tmp, rcount, rmutex, wcount, wmutex, noReaders>>

\* sem_post(&lock->noWriters)
PostNoWriters(w) ==
    /\ Goto(w, "release", "switch_off")
    /\ SemPost(noWriters)
    /\ UNCHANGED <<left, data, tmp, rcount, rmutex, wcount, wmutex, noReaders>>

\* lock->writer_switch.unlock(lock->noReaders)
WriterSwitchOff(w) == /\ writer_switch!Unlock(w, "switch_off", "next")
                      /\ UNCHANGED <<left, data, tmp, rcount, rmutex, noWriters>>

------------------------------------------------------------------------------
Body(p) == Client(p) /\ UNCHANGED lvars

Step(p) ==
    \/ p \in Readers /\ \/ EnterNoReaders(p) \/ ReaderSwitchOn(p)
                        \/ LeaveNoReaders(p) \/ ReleaseRead(p)
    \/ p \in Writers /\ \/ WriterSwitchOn(p) \/ WaitNoWriters(p)
                        \/ PostNoWriters(p) \/ WriterSwitchOff(p)
    \/ Body(p)

\* main's joins have returned
AllFinished == (\A p \in Procs : Finished(p)) /\ UNCHANGED vars

Next == (\E p \in Procs : Step(p)) \/ AllFinished

Spec == Init /\ [][Next]_vars

------------------------------------------------------------------------------
(* Properties *)

\* writers that have locked writer_switch and are in, or queue for, the room
Queued == {w \in Writers : pc[w] \in {"room", "crit", "store", "release"}}

\* no reader gets the lock in this step if a writer is queued
WritersFirst == Queued # {} => ReadersInside' \subseteq ReadersInside
==============================================================================
