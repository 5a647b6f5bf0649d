----------------------------- MODULE RWTurnstile -----------------------------
(***************************************************************************)
(* threads-sema/rwlock-1writerprogress.cpp: readers pass a turnstile       *)
(* before the light switch; a writer holds the turnstile while it waits    *)
(* for roomEmpty, so that new readers queue behind it.                     *)
(***************************************************************************)
EXTENDS RWClient

VARIABLES rcount, rmutex,   (* readSwitch: counter and mutex               *)
          turnstile, roomEmpty

lvars == <<rcount, rmutex, turnstile, roomEmpty>>
vars  == <<cvars, lvars>>

readSwitch == INSTANCE LightSwitch WITH counter <- rcount, mutex <- rmutex,
                                        semaphore <- roomEmpty

\* LightSwitch's constructor and rwlock_init
Init == /\ ClientInit
        /\ rcount = 0
        /\ rmutex = 1
        /\ turnstile = 1
        /\ roomEmpty = 1

------------------------------------------------------------------------------
(* rwlock_acquire_readlock *)

\* a reader that does not pass through the turnstile
MutantPassTurnstileOpen(r) ==
    /\ \/ More(r) /\ Goto(r, "acquire", "passed")
       \/ Goto(r, "passed", "switch")
    /\ UNCHANGED <<left, data, tmp, lvars>>

\* sem_wait(&lock->turnstile); sem_post(&lock->turnstile)
PassTurnstile(r) ==
    /\ \/ More(r) /\ Goto(r, "acquire", "passed") /\ SemWait(turnstile)
       \/ Goto(r, "passed", "switch") /\ SemPost(turnstile)
    /\ UNCHANGED <<left, data, tmp, rcount, rmutex, roomEmpty>>

\* lock->readSwitch.lock(lock->roomEmpty)
SwitchOn(r) == /\ readSwitch!Lock(r, "switch", "crit")
               /\ UNCHANGED <<left, data, tmp, turnstile>>

\* rwlock_release_readlock
ReleaseRead(r) == /\ readSwitch!Unlock(r, "release", "next")
                  /\ UNCHANGED <<left, data, tmp, turnstile>>

------------------------------------------------------------------------------
\* rwlock_acquire_writelock: sem_wait(&lock->turnstile); sem_wait(&lock->roomEmpty)
AcquireWrite(w) ==
    /\ \/ More(w) /\ Goto(w, "acquire", "room")
                  /\ SemWait(turnstile) /\ UNCHANGED roomEmpty
       \/ Goto(w, "room", "crit") /\ SemWait(roomEmpty) /\ UNCHANGED turnstile
    /\ UNCHANGED <<left, data, tmp, rcount, rmutex>>

\* rwlock_release_writelock: sem_post(&lock->turnstile); sem_post(&lock->roomEmpty)
ReleaseWrite(w) ==
    /\ \/ Goto(w, "release", "leave") /\ SemPost(turnstile) /\ UNCHANGED roomEmpty
       \/ Goto(w, "leave", "next") /\ SemPost(roomEmpty) /\ UNCHANGED turnstile
    /\ UNCHANGED <<left, data, tmp, rcount, rmutex>>

------------------------------------------------------------------------------
Body(p) == Client(p) /\ UNCHANGED lvars

Step(p) == \/ p \in Readers /\ (PassTurnstile(p) \/ SwitchOn(p) \/ ReleaseRead(p))
           \/ p \in Writers /\ (AcquireWrite(p) \/ ReleaseWrite(p))
           \/ Body(p)

\* main's joins have returned
AllFinished == (\A p \in Procs : Finished(p)) /\ UNCHANGED vars

Next == (\E p \in Procs : Step(p)) \/ AllFinished

Spec == Init /\ [][Next]_vars

==============================================================================
