-------------------------------- MODULE Turns --------------------------------
(***************************************************************************)
(* The programs whose two threads take turns, each asleep on a condition   *)
(* variable of its own that the other notifies:                            *)
(* threads-locks/c++11-Producer-consumer/ping-pong.cpp, whose counter is   *)
(* changed and tested outside the critical section, and                    *)
(* threads-locks/other-problems/IK- problems/OddEven.cpp, where a round is *)
(* one critical section, broken only by the wait.                          *)
(***************************************************************************)
EXTENDS Integers

CONSTANTS countlimit,     (* of ping-pong                                  *)
          Rounds,         (* of each printer, 5 in the code                *)
          MaxSpurious     (* bound on wake-ups without a signal            *)

Players  == {"ping", "pong"}
Printers == {"printEven", "printOdd"}

VARIABLES counter,
          dataReady, pc,  (* of ping-pong; pc[s], for each player          *)
          left,           (* left[t]: rounds printer t has still to run    *)
          asleep,         (* the threads asleep                            *)
          spurious

vars == <<counter, dataReady, pc, left, asleep, spurious>>

Other(t) == CHOOSE o \in (IF t \in Players THEN Players ELSE Printers) : o # t

Init == /\ counter = 0 /\ dataReady = FALSE
        /\ pc = [s \in Players |-> "loop"]
        /\ left = [t \in Printers |-> Rounds]
        /\ asleep = {} /\ spurious = 0

FallAsleep(t) == /\ asleep' = asleep \cup {t}
                 /\ UNCHANGED <<counter, dataReady, pc, left, spurious>>

\* a wake-up that nobody sent
Spurious(t) == /\ t \in asleep /\ spurious < MaxSpurious
               /\ asleep' = asleep \ {t}
               /\ spurious' = spurious + 1
               /\ UNCHANGED <<counter, dataReady, pc, left>>

------------------------------------------------------------------------------
(* ping-pong.cpp *)

Goto(s, from, to) == pc[s] = from /\ pc' = [pc EXCEPT ![s] = to] /\ UNCHANGED <<left, spurious>>

\* while(counter <= countlimit) in ping, while(counter < countlimit) in pong
More(s) == IF s = "ping" THEN counter <= countlimit ELSE counter < countlimit

Loop(s) == /\ Goto(s, "loop", IF More(s) THEN "wait" ELSE "returned")
           /\ UNCHANGED <<dataReady, counter, asleep>>

\* the predicate of the wait
MyTurn(s) == dataReady = (s = "pong")

\* condVar.wait goes to sleep
Sleep(s) == pc[s] = "wait" /\ s \notin asleep /\ ~MyTurn(s) /\ FallAsleep(s)

\* the wait is over: dataReady is assigned and the mutex released
Turn(s) == /\ s \notin asleep
           /\ MyTurn(s)
           /\ Goto(s, "wait", IF s = "ping" THEN "count" ELSE "notify")
           /\ dataReady' = (s = "ping")
           /\ UNCHANGED <<counter, asleep>>

\* ++counter, in ping
Count == /\ Goto("ping", "count", "notify")
         /\ counter' = counter + 1
         /\ UNCHANGED <<dataReady, asleep>>

\* notify_all on the condition variable of the other side
Notify(s) == /\ Goto(s, "notify", "loop")
             /\ asleep' = asleep \ {Other(s)}
             /\ UNCHANGED <<dataReady, counter>>

Play(s) == \/ Loop(s) \/ Sleep(s) \/ Turn(s) \/ Notify(s)
           \/ s = "ping" /\ Count

\* Both loops have ended, or pong has seen the limit and returned on ping's
\* last ball while ping, which plays on at the limit, waits for it.
Over == \/ \A s \in Players : pc[s] = "returned"
        \/ /\ pc["pong"] = "returned" /\ "ping" \in asleep
           /\ dataReady /\ counter = countlimit

------------------------------------------------------------------------------
(* OddEven.cpp *)

\* the test of the while loop
MustWait(t) == counter % 2 = IF t = "printEven" THEN 1 ELSE 0

Doze(t) == left[t] > 0 /\ t \notin asleep /\ MustWait(t) /\ FallAsleep(t)

\* counter++ and notify_all to the other
TakeTurn(t) == /\ left[t] > 0 /\ t \notin asleep
               /\ ~MustWait(t)
               /\ counter' = counter + 1
               /\ left' = [left EXCEPT ![t] = @ - 1]
               /\ asleep' = asleep \ {Other(t)}
               /\ UNCHANGED <<dataReady, pc, spurious>>

PrintRound(t) == Doze(t) \/ TakeTurn(t)

\* both threads have returned and main has joined them
Joined == \A t \in Printers : left[t] = 0
==============================================================================
