---------------------------- MODULE RWStarvation ----------------------------
(***************************************************************************)
(* threads-sema/rwlock_writer_starvation.cpp: readers share roomEmpty      *)
(* through a light switch, a writer takes it alone.  A stream of readers   *)
(* may keep writers out for ever (the file says so), so progress is        *)
(* claimed only for readers that stop.                                     *)
(***************************************************************************)
EXTENDS RWClient

VARIABLES rcount, rmutex,   (* readLightSwitch: counter and mutex          *)
          roomEmpty

lvars == <<rcount, rmutex, roomEmpty>>
vars  == <<cvars, lvars>>

readLightSwitch == INSTANCE LightSwitch WITH counter <- rcount, mutex <- rmutex,
                                             semaphore <- roomEmpty

\* LightSwitch's constructor and rwlock_init
Init == /\ ClientInit
        /\ rcount = 0
        /\ rmutex = 1
        /\ roomEmpty = 1

\* rwlock_acquire_readlock
AcquireRead(r) == /\ More(r)
                  /\ readLightSwitch!Lock(r, "acquire", "crit")
                  /\ UNCHANGED <<left, data, tmp>>

\* rwlock_release_readlock
ReleaseRead(r) == /\ readLightSwitch!Unlock(r, "release", "next")
                  /\ UNCHANGED <<left, data, tmp>>

\* rwlock_acquire_writelock
AcquireWrite(w) == /\ More(w)
                   /\ Goto(w, "acquire", "crit")
                   /\ SemWait(roomEmpty)
                   /\ UNCHANGED <<left, data, tmp, rcount, rmutex>>

\* rwlock_release_writelock
ReleaseWrite(w) == /\ Goto(w, "release", "next")
                   /\ SemPost(roomEmpty)
                   /\ UNCHANGED <<left, data, tmp, rcount, rmutex>>

Body(p) == Client(p) /\ UNCHANGED lvars

Step(p) == \/ p \in Readers /\ (AcquireRead(p) \/ ReleaseRead(p))
           \/ p \in Writers /\ (AcquireWrite(p) \/ ReleaseWrite(p))
           \/ Body(p)

\* main's joins have returned
AllFinished == (\A p \in Procs : Finished(p)) /\ UNCHANGED vars

Next == (\E p \in Procs : Step(p)) \/ AllFinished

Spec == Init /\ [][Next]_vars

==============================================================================
