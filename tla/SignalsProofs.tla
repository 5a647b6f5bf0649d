---------------------------- MODULE SignalsProofs ----------------------------
(***************************************************************************)
(* Proofs about the joins and the UDP client and server, as the programs   *)
(* of MCSignals run them: for any number of clients, faults and wake-ups   *)
(* that nobody sent.                                                       *)
(***************************************************************************)
EXTENDS MCSignals, TLAPS

------------------------------------------------------------------------------
(* The joins *)

AllPrograms == Programs \cup {ping_pong, odd_even, udp}

\* the signaller has executed this operation
Did(op) == \E i \in 1..(signaller - 1) : program.does[i] = op

IsSet     == Did("set")
Signalled == Did("signal")
Locked    == Did("lock")
Unlocked  == Did("unlock")

Places == {"lock", "test", "wait", "asleep", "unlock", "end"}

JoinTypeOK == /\ program \in AllPrograms
              /\ done \in {0, 1}
              /\ m \in {"none", "waiter", "signaller"}
              /\ asleep \in BOOLEAN /\ missed \in BOOLEAN
              /\ waiter \in Places
              /\ signaller \in 1..(Len(program.does) + 1)
              /\ spurious \in Nat

\* the places the waiter comes to: only a program with a state tests it, only
\* one that waits on a condition variable is about to sleep, only one that
\* does not spin sleeps
PlaceInv == /\ asleep => waiter = "asleep"
            /\ waiter = "test" => program.state
            /\ waiter = "wait" => program.wait = "cv"
            /\ waiter = "asleep" => Sleeps
            /\ program \notin Programs => waiter = "lock" /\ signaller = 1

\* the mutex is owned by the thread inside its critical section
OwnerInv == /\ m = "waiter" <=> program.wait = "cv" /\ waiter \in {"test", "wait", "unlock"}
            /\ m = "signaller" <=> Locked /\ ~Unlocked

\* done tells that it was set, until sync_wait resets it
DoneInv == /\ done = 1 => IsSet
           /\ IsSet => done = 1 \/ (program.reset /\ waiter = "end")

\* the waiter leaves its loop when the state is set, and without a state when
\* it is woken
LeaveInv == /\ program.state /\ waiter \in {"unlock", "end"} => IsSet
            /\ ~program.state /\ ~asleep /\ waiter \in {"asleep", "unlock", "end"}
               => Signalled \/ spurious > 0

\* in the working programs nobody is about to sleep once the state is set;
\* in all of them the signal is missed, or the waiter will not sleep again
SleepInv == /\ program \in Working /\ waiter = "wait" => ~IsSet
            /\ program \in Working /\ asleep => ~Signalled
            /\ Signalled /\ ~missed => ~asleep /\ waiter \notin {"lock", "wait"}

JoinInv == JoinTypeOK /\ PlaceInv /\ OwnerInv /\ DoneInv /\ LeaveInv /\ SleepInv

------------------------------------------------------------------------------
(* What the programs do, in order *)

\* operation number i of d comes after an op
After(d, i, op) == \E j \in 1..(i - 1) : d[j] = op

\* nothing is set or signalled before the work is done, a lock is released
\* once and after it was taken
Orderly(d) ==
    /\ Len(d) \in Nat
    /\ \A i \in 1..Len(d) :
         /\ d[i] \in {"set", "signal"} => After(d, i, "work")
         /\ d[i] = "lock" => ~After(d, i, "unlock")
         /\ d[i] = "unlock" => After(d, i, "lock") /\ ~After(d, i, "unlock")

\* the state is set before the signal
SetFirst(d) == \A i \in 1..Len(d) : d[i] = "signal" => After(d, i, "set")

\* there is a signal
Signals(d) == \E i \in 1..Len(d) : d[i] = "signal"

\* the state is set in the critical section
SetLocked(d) == \A i \in 1..Len(d) :
                    d[i] = "set" => After(d, i, "lock") /\ ~After(d, i, "unlock")

\* What the other thread of join.c and most others does.
LEMMA JoinDoes ==
  ASSUME NEW d, d = <<"work", "lock", "set", "signal", "unlock">>
  PROVE  Orderly(d) /\ SetFirst(d) /\ SetLocked(d) /\ Signals(d)
<1>1. Len(d) = 5
  OBVIOUS
<1>2. d[1] = "work" /\ d[2] = "lock" /\ d[3] = "set" /\ d[4] = "signal" /\ d[5] = "unlock"
  OBVIOUS
<1>3. \A i \in 1..5 : i \in {1, 2, 3, 4, 5}
  OBVIOUS
<1> QED
  BY <1>1, <1>2, <1>3 DEF Orderly, SetFirst, SetLocked, Signals, After

\* What it does in join_spin.c.
LEMMA SpinDoes ==
  ASSUME NEW d, d = <<"work", "set">>
  PROVE  Orderly(d) /\ SetFirst(d)
<1>1. Len(d) = 2
  OBVIOUS
<1>2. d[1] = "work" /\ d[2] = "set"
  OBVIOUS
<1>3. \A i \in 1..2 : i \in {1, 2}
  OBVIOUS
<1> QED
  BY <1>1, <1>2, <1>3 DEF Orderly, SetFirst, SetLocked, Signals, After

\* What it does in join_no_lock.c, atomic_flag and promise_future.
LEMMA NoLockDoes ==
  ASSUME NEW d, d = <<"work", "set", "signal">>
  PROVE  Orderly(d) /\ SetFirst(d) /\ Signals(d)
<1>1. Len(d) = 3
  OBVIOUS
<1>2. d[1] = "work" /\ d[2] = "set" /\ d[3] = "signal"
  OBVIOUS
<1>3. \A i \in 1..3 : i \in {1, 2, 3}
  OBVIOUS
<1> QED
  BY <1>1, <1>2, <1>3 DEF Orderly, SetFirst, SetLocked, Signals, After

\* What it does in join_no_state_var.c.
LEMMA NoStateDoes ==
  ASSUME NEW d, d = <<"work", "lock", "signal", "unlock">>
  PROVE  Orderly(d) /\ Signals(d)
<1>1. Len(d) = 4
  OBVIOUS
<1>2. d[1] = "work" /\ d[2] = "lock" /\ d[3] = "signal" /\ d[4] = "unlock"
  OBVIOUS
<1>3. \A i \in 1..4 : i \in {1, 2, 3, 4}
  OBVIOUS
<1> QED
  BY <1>1, <1>2, <1>3 DEF Orderly, SetFirst, SetLocked, Signals, After

\* What it does in conditional_variable.cpp.
LEMMA VectorDoes ==
  ASSUME NEW d, d = <<"lock", "work", "set", "unlock", "signal">>
  PROVE  Orderly(d) /\ SetFirst(d) /\ SetLocked(d) /\ Signals(d)
<1>1. Len(d) = 5
  OBVIOUS
<1>2. d[1] = "lock" /\ d[2] = "work" /\ d[3] = "set" /\ d[4] = "unlock" /\ d[5] = "signal"
  OBVIOUS
<1>3. \A i \in 1..5 : i \in {1, 2, 3, 4, 5}
  OBVIOUS
<1> QED
  BY <1>1, <1>2, <1>3 DEF Orderly, SetFirst, SetLocked, Signals, After

\* what the invariant uses of a program: where there is a state it is set
\* before the signal, a working program with a condition variable sets it
\* under the lock, and only the two broken programs are not among the working
\* ones
Shape(p) == /\ Orderly(p.does)
            /\ p.state => SetFirst(p.does)
            /\ p \in Working /\ p.wait = "cv" => SetLocked(p.does)
            /\ p.wait # "cv" => p.state
            /\ p.wait \in {"cv", "spin", "library"}
            /\ p.state \in BOOLEAN /\ p.reset \in BOOLEAN
            /\ p \in Working => p.state
            /\ p.wait # "spin" => Signals(p.does)

\* Programs are told apart by their names.
LEMMA Names ==
  /\ join.name = "join"
  /\ join_modular.name = "join_modular"
  /\ join_spin.name = "join_spin"
  /\ condition_varaible.name = "condition_varaible"
  /\ ordering_fixed.name = "ordering_fixed"
  /\ conditional_variable.name = "conditional_variable"
  /\ atomic_flag.name = "atomic_flag"
  /\ promise_future.name = "promise_future"
  /\ join_no_lock.name = "join_no_lock"
  /\ join_no_state_var.name = "join_no_state_var"
  /\ ping_pong.name = "ping_pong"
  /\ odd_even.name = "odd_even"
  /\ udp.name = "udp"
  BY DEF join, join_modular, join_spin, condition_varaible, ordering_fixed,
         conditional_variable, atomic_flag, promise_future, join_no_lock,
         join_no_state_var, ping_pong, odd_even, udp

\* Every program has that shape.
LEMMA Shapes == \A p \in AllPrograms : Shape(p)
<1> USE DEF Shape, join
<1>1. Shape(join)
  BY JoinDoes
<1>2. Shape(join_modular) /\ Shape(condition_varaible) /\ Shape(ordering_fixed)
  BY JoinDoes DEF join_modular, condition_varaible, ordering_fixed
<1>3. Shape(join_spin)
  BY SpinDoes DEF join_spin
<1>4. Shape(conditional_variable)
  BY VectorDoes DEF conditional_variable
<1>5. Shape(atomic_flag) /\ Shape(promise_future)
  BY NoLockDoes DEF atomic_flag, promise_future
<1>6. Shape(ping_pong) /\ Shape(odd_even) /\ Shape(udp)
  BY JoinDoes DEF ping_pong, odd_even, udp
<1>7. join_no_lock \notin Working /\ join_no_state_var \notin Working
  <2> HIDE DEF join
  <2> QED
    BY Names DEF Working
<1>8. Shape(join_no_lock)
  BY <1>7, NoLockDoes DEF join_no_lock
<1>9. Shape(join_no_state_var)
  BY <1>7, NoStateDoes DEF join_no_state_var
<1> HIDE DEF Shape, join
<1> QED
  BY <1>1, <1>2, <1>3, <1>4, <1>5, <1>6, <1>8, <1>9 DEF AllPrograms, Programs, Working

\* The turn-taking programs and UDP are not joins.
LEMMA NotJoins == {ping_pong, odd_even, udp} \cap Programs = {}
  BY Names DEF Programs, Working

\* What the signaller's position says of what it did.
LEMMA DidOrder ==
  ASSUME JoinTypeOK
  PROVE  /\ IsSet \/ Signalled => Did("work")
         /\ program.state /\ Signalled => IsSet
<1>1. Shape(program)
  BY Shapes DEF JoinTypeOK
<1>2. ASSUME NEW i \in 1..(signaller - 1), NEW op, After(program.does, i, op)
      PROVE  Did(op)
  BY <1>1, <1>2 DEF JoinTypeOK, After, Did, Shape, Orderly
<1>3. \A i \in 1..(signaller - 1) : i \in 1..Len(program.does)
  BY <1>1 DEF JoinTypeOK, Shape, Orderly
<1> QED
  BY <1>1, <1>2, <1>3 DEF IsSet, Signalled, Did, Shape, Orderly, SetFirst

------------------------------------------------------------------------------
(* The joins keep their invariant *)

\* One operation of the signaller is added to what it did.
LEMMA DoesOne ==
  ASSUME JoinTypeOK, NEW op, Does(op), program' = program
  PROVE  /\ op = "lock" => ~Unlocked
         /\ op = "unlock" => Locked /\ ~Unlocked
         /\ op = "signal" /\ program.state => IsSet
         /\ op = "set" /\ program \in Working /\ program.wait = "cv" => Locked /\ ~Unlocked
         /\ IsSet' <=> IsSet \/ op = "set"
         /\ Signalled' <=> Signalled \/ op = "signal"
         /\ Locked' <=> Locked \/ op = "lock"
         /\ Unlocked' <=> Unlocked \/ op = "unlock"
         /\ signaller' \in 1..(Len(program.does') + 1)
<1>1. Shape(program)
  BY Shapes DEF JoinTypeOK
<1>2. signaller \in 1..Len(program.does) /\ signaller' = signaller + 1
      /\ Len(program.does) \in Nat /\ program.does[signaller] = op
  BY <1>1 DEF JoinTypeOK, Does, Returned, Shape, Orderly
<1>3. 1..(signaller' - 1) = 1..(signaller - 1) \cup {signaller}
  BY <1>2
<1>4. \A o : After(program.does, signaller, o) <=> Did(o)
  BY DEF Did, After
<1>5. /\ IsSet' <=> IsSet \/ op = "set"
      /\ Signalled' <=> Signalled \/ op = "signal"
      /\ Locked' <=> Locked \/ op = "lock"
      /\ Unlocked' <=> Unlocked \/ op = "unlock"
  BY <1>2, <1>3 DEF Did, IsSet, Signalled, Locked, Unlocked
<1>6. /\ op = "lock" => ~Unlocked
      /\ op = "unlock" => Locked /\ ~Unlocked
      /\ op = "signal" /\ program.state => IsSet
      /\ op = "set" /\ program \in Working /\ program.wait = "cv" => Locked /\ ~Unlocked
  BY <1>1, <1>2, <1>4 DEF Shape, Orderly, SetFirst, SetLocked, IsSet, Signalled, Locked, Unlocked
<1> QED
  BY <1>2, <1>5, <1>6

\* A step of the waiter leaves the signaller where it is.
LEMMA DidSame ==
  ASSUME UNCHANGED <<program, signaller>>
  PROVE  /\ IsSet' <=> IsSet
         /\ Signalled' <=> Signalled
         /\ Locked' <=> Locked
         /\ Unlocked' <=> Unlocked
  BY DEF Did, IsSet, Signalled, Locked, Unlocked

\* What both threads' steps use of the program that runs.
LEMMA ProgramFacts ==
  ASSUME JoinTypeOK
  PROVE  /\ program.state /\ Signalled => IsSet
         /\ program.wait # "cv" => program.state
         /\ program.wait \in {"cv", "spin", "library"}
         /\ program.state \in BOOLEAN /\ program.reset \in BOOLEAN
         /\ program \in Working => program.state
<1>1. Shape(program)
  BY Shapes DEF JoinTypeOK
<1> QED
  BY <1>1, DidOrder DEF Shape

\* Every statement of the waiter keeps the invariant.
LEMMA WaiterJoinInv == JoinInv /\ WaiterStep /\ program \in Programs => JoinInv'
<1> SUFFICES ASSUME JoinInv, WaiterStep, program \in Programs PROVE JoinInv'
  OBVIOUS
<1>1. UNCHANGED <<program, signaller, missed, spurious>>
  BY DEF WaiterStep, WaiterLock, Test, Wait, Wake, WaiterUnlock
<1> USE <1>1, ProgramFacts, DidSame
    DEF Places, Goto, Acquire, JoinInv, JoinTypeOK, PlaceInv, OwnerInv, DoneInv, LeaveInv,
        SleepInv, Sleeps
<1>2. CASE WaiterLock
  BY <1>2 DEF WaiterLock
<1>3. CASE Test
  <2>1. CASE done = 1 /\ waiter = "test" /\ waiter' = "unlock" /\ UNCHANGED <<asleep, done, m>>
    BY <2>1
  <2>2. CASE /\ done = 0 /\ program.wait # "library" /\ waiter = "test"
             /\ waiter' = (IF Sleeps THEN "wait" ELSE "test") /\ UNCHANGED <<asleep, done, m>>
    BY <2>2
  <2>3. CASE /\ done = 0 /\ program.wait = "library" /\ waiter = "test"
             /\ waiter' = "asleep" /\ asleep' = TRUE /\ UNCHANGED <<done, m>>
    BY <2>3
  <2> QED
    BY <1>3, <2>1, <2>2, <2>3 DEF Test
<1>4. CASE Wait
  BY <1>4 DEF Wait
<1>5. CASE Wake
  BY <1>5 DEF Wake
<1>6. CASE WaiterUnlock
  BY <1>6 DEF WaiterUnlock
<1> QED
  BY <1>2, <1>3, <1>4, <1>5, <1>6 DEF WaiterStep

\* So does every operation of the signaller.
LEMMA SignallerJoinInv == JoinInv /\ SignallerStep /\ program \in Programs => JoinInv'
<1> SUFFICES ASSUME JoinInv, SignallerStep, program \in Programs PROVE JoinInv'
  OBVIOUS
<1>1. UNCHANGED <<program, waiter, spurious>>
  BY DEF SignallerStep, Work, SignallerLock, SetDone, Signal, SignallerUnlock
<1> USE <1>1, ProgramFacts, DoesOne
    DEF Places, Goto, Acquire, JoinInv, JoinTypeOK, PlaceInv, OwnerInv, DoneInv, LeaveInv,
        SleepInv, Sleeps
<1>2. CASE Work
  BY <1>2 DEF Work
<1>3. CASE SignallerLock
  BY <1>3 DEF SignallerLock
<1>4. CASE SetDone
  BY <1>4 DEF SetDone
<1>5. CASE Signal
  <2>1. CASE asleep
    <3>1. missed' = FALSE /\ asleep' = FALSE /\ UNCHANGED <<done, m>> /\ Does("signal")
      BY <1>5, <2>1 DEF Signal
    <3> QED
      BY <2>1, <3>1
  <2>2. CASE ~asleep
    <3>1. missed' = TRUE /\ asleep' = FALSE /\ UNCHANGED <<done, m>> /\ Does("signal")
      BY <1>5, <2>2 DEF Signal
    <3>2. JoinTypeOK'
      BY <2>2, <3>1
    <3>3. PlaceInv' /\ OwnerInv' /\ DoneInv'
      BY <2>2, <3>1
    <3>4. LeaveInv' /\ SleepInv'
      BY <2>2, <3>1
    <3> QED
      BY <3>2, <3>3, <3>4
  <2> QED
    BY <2>1, <2>2
<1>6. CASE SignallerUnlock
  BY <1>6 DEF SignallerUnlock
<1> QED
  BY <1>2, <1>3, <1>4, <1>5, <1>6 DEF SignallerStep

------------------------------------------------------------------------------
(* The UDP client and server *)

\* datagrams about client c that are under way or in the server's hands
About(c) == net[U!request(c)] + net[U!answer(c)] + (IF server = c THEN 1 ELSE 0)

UDPTypeOK == /\ server \in Clients \cup {"off", "waiting", "deaf"}
             /\ client \in [Clients -> {"start", "open", "no_port", "waiting", "done",
                                        "failed", "killed"}]
             /\ net \in [U!Datagrams -> Nat]
             /\ DOMAIN reply = Clients
             /\ strays \in BOOLEAN

\* at most one client has port 20000; unless there are strays, everything
\* under way is about a client that waits, and nothing is there twice
UDPInv == /\ UDPTypeOK
          /\ \A c, o \in Clients : U!Bound(c) /\ U!Bound(o) => c = o
          /\ ~strays => \A c \in Clients :
                            /\ About(c) <= 1
                            /\ About(c) > 0 => client[c] = "waiting"
          /\ U!OwnAnswer

RunInv == JoinInv /\ UDPInv

\* Datagrams are told apart by their port and their client.
LEMMA Distinct ==
  /\ \A c \in Clients : U!request(c) \in U!Datagrams /\ U!answer(c) \in U!Datagrams
  /\ \A c, o \in Clients : U!request(c) # U!answer(o)
  /\ \A c, o \in Clients : U!request(c) = U!request(o) => c = o
  /\ \A c, o \in Clients : U!answer(c) = U!answer(o) => c = o
<1>1. \A c : /\ U!request(c).to = 10000 /\ U!request(c).about = c
             /\ U!answer(c).to = 20000 /\ U!answer(c).about = c
  BY DEF U!request, U!answer
<1>2. \A c, o \in Clients : U!request(c) # U!answer(o)
  BY <1>1
<1>3. /\ \A c, o \in Clients : U!request(c) = U!request(o) => c = o
      /\ \A c, o \in Clients : U!answer(c) = U!answer(o) => c = o
  BY <1>1
<1> QED
  BY <1>2, <1>3 DEF U!Datagrams

\* What one datagram more or less does to the numbers in flight.
LEMMA NetCounts ==
  ASSUME UDPTypeOK
  PROVE  /\ \A d \in U!Datagrams : U!Put(d) =>
               /\ net' \in [U!Datagrams -> Nat]
               /\ \A e \in U!Datagrams : net'[e] = IF e = d THEN net[e] + 1 ELSE net[e]
         /\ \A d : U!Remove(d) =>
               /\ d \in U!Datagrams /\ net[d] > 0
               /\ net' \in [U!Datagrams -> Nat]
               /\ \A e \in U!Datagrams : net'[e] = IF e = d THEN net[e] - 1 ELSE net[e]
<1>1. ASSUME NEW d \in U!Datagrams, U!Put(d)
      PROVE  /\ net' \in [U!Datagrams -> Nat]
             /\ \A e \in U!Datagrams : net'[e] = IF e = d THEN net[e] + 1 ELSE net[e]
  BY <1>1 DEF U!Put, UDPTypeOK
<1>2. ASSUME NEW d, U!Remove(d)
      PROVE  /\ d \in U!Datagrams /\ net[d] > 0
             /\ net' \in [U!Datagrams -> Nat]
             /\ \A e \in U!Datagrams : net'[e] = IF e = d THEN net[e] - 1 ELSE net[e]
  BY <1>2 DEF U!Remove, U!InFlight, UDPTypeOK
<1> QED
  BY <1>1, <1>2

\* Every step of a client keeps the invariant.
LEMMA ClientUDPInv ==
  ASSUME UDPInv, NEW c \in Clients, U!ClientStep(c)
  PROVE  UDPInv'
<1> USE Distinct, ClientsAssumption DEF UDPInv, UDPTypeOK, About, U!Bound, U!OwnAnswer
<1>1. CASE U!Open(c)
  BY <1>1 DEF U!Open, U!Fault
<1>2. CASE client[c] = "open" /\ U!Send(c)
  <2>1. /\ client' = [client EXCEPT ![c] = "waiting"]
        /\ U!Put(U!request(c)) /\ UNCHANGED <<server, reply, lost, strays>>
    BY <1>2 DEF U!Send
  <2> QED
    BY <1>2, <2>1, NetCounts
<1>3. CASE client[c] = "no_port" /\ U!Send(c)
  BY <1>3 DEF U!Send
<1>4. CASE U!Receive(c)
  <2>1. PICK o \in Clients :
          /\ client[c] = "waiting" /\ U!Remove(U!answer(o))
          /\ client' = [client EXCEPT ![c] = "done"]
          /\ reply' = [reply EXCEPT ![c] = o]
          /\ UNCHANGED <<server, lost, strays>>
    BY <1>4 DEF U!Receive
  <2>2. net[U!answer(o)] > 0
    BY <2>1, NetCounts
  <2>3. ~strays => o = c
    BY <2>1, <2>2
  <2> QED
    BY <2>1, <2>2, <2>3, NetCounts
<1> QED
  BY <1>1, <1>2, <1>3, <1>4 DEF U!ClientStep, U!Send

\* Every step of the server keeps it.
LEMMA ServerUDPInv ==
  ASSUME UDPInv, U!ServerStep
  PROVE  UDPInv'
<1> USE Distinct, ClientsAssumption DEF UDPInv, UDPTypeOK, About, U!Bound, U!OwnAnswer
<1>1. CASE U!ServerRead
  <2>1. PICK c \in Clients : U!Remove(U!request(c)) /\ server' = c
    BY <1>1 DEF U!ServerRead
  <2> QED
    BY <1>1, <2>1, NetCounts DEF U!ServerRead
<1>2. CASE U!ServerReply
  BY <1>2, NetCounts DEF U!ServerReply
<1> QED
  BY <1>1, <1>2 DEF U!ServerStep

\* So do the network and the user.
LEMMA NetworkUDPInv ==
  ASSUME UDPInv, U!Arrival \/ U!Environment
  PROVE  UDPInv'
<1> USE Distinct, ClientsAssumption DEF UDPInv, UDPTypeOK, About, U!Bound, U!OwnAnswer
<1>1. ASSUME NEW d, U!Drop(d) \/ U!Lose(d) PROVE UDPInv'
  BY <1>1, NetCounts DEF U!Drop, U!Lose
<1>2. ASSUME NEW d \in U!Datagrams, U!Duplicate(d) PROVE UDPInv'
  BY <1>2, NetCounts DEF U!Duplicate
<1>3. CASE U!StartServer
  BY <1>3 DEF U!StartServer
<1>4. CASE U!KillServer
  BY <1>4 DEF U!KillServer
<1>5. ASSUME NEW c \in Clients, U!KillClient(c) PROVE UDPInv'
  BY <1>5 DEF U!KillClient
<1> QED
  BY <1>1, <1>2, <1>3, <1>4, <1>5 DEF U!Arrival, U!Environment, U!InFlight

------------------------------------------------------------------------------
(* The programs as they run *)

\* The first states of all programs satisfy both invariants.
LEMMA InitRunInv == RunInit => RunInv
<1> SUFFICES ASSUME RunInit PROVE RunInv
  OBVIOUS
<1>1. program \in AllPrograms /\ Shape(program)
  BY Shapes DEF RunInit, AllPrograms
<1>2. ~Did("set") /\ ~Did("signal") /\ ~Did("lock") /\ ~Did("unlock")
  BY DEF RunInit, Did
<1>3. signaller \in 1..(Len(program.does) + 1)
  BY <1>1 DEF RunInit, Shape, Orderly
<1>4. JoinInv
  <2>1. /\ done = 0 /\ m = "none" /\ asleep = FALSE /\ missed = FALSE
        /\ waiter = "lock" /\ signaller = 1 /\ spurious = 0
    BY DEF RunInit, T!Init
  <2>2. JoinTypeOK
    BY <1>1, <1>3, <2>1 DEF JoinTypeOK, Places
  <2>3. ~IsSet /\ ~Signalled /\ ~Locked /\ ~Unlocked
    BY <1>2 DEF IsSet, Signalled, Locked, Unlocked
  <2> QED
    BY <2>1, <2>2, <2>3 DEF JoinInv, PlaceInv, OwnerInv, DoneInv, LeaveInv, SleepInv
<1>5. UDPInv
  <2>1. /\ server = "off" /\ client = [c \in Clients |-> "start"]
        /\ net = [d \in U!Datagrams |-> 0]
        /\ reply = [c \in Clients |-> "none"] /\ strays = FALSE
    BY DEF RunInit, U!Init
  <2>2. UDPTypeOK
    BY <2>1 DEF UDPTypeOK
  <2>3. \A c \in Clients : About(c) = 0
    BY <2>1, Distinct, ClientsAssumption DEF About
  <2> QED
    BY <2>1, <2>2, <2>3 DEF UDPInv, U!Bound, U!OwnAnswer
<1> QED
  BY <1>4, <1>5 DEF RunInv

\* What the joins say stays true while another program runs.
LEMMA JoinIdle ==
  ASSUME JoinInv, UNCHANGED jvars, program \notin Programs, spurious' \in Nat
  PROVE  JoinInv'
<1>1. UNCHANGED <<program, done, m, asleep, waiter, signaller, missed>>
  BY DEF jvars
<1> QED
  BY <1>1, DidSame
  DEF JoinInv, JoinTypeOK, PlaceInv, OwnerInv, DoneInv, LeaveInv, SleepInv, Sleeps

\* A wake-up that nobody sent keeps the invariant.
LEMMA SpuriousJoinInv == JoinInv /\ Spurious => JoinInv'
<1> SUFFICES ASSUME JoinInv, Spurious PROVE JoinInv'
  OBVIOUS
<1>1. /\ UNCHANGED <<program, done, m, waiter, signaller, missed>>
      /\ asleep' = FALSE /\ spurious' = spurious + 1
  BY DEF Spurious
<1>2. JoinTypeOK' /\ PlaceInv'
  <2>1. asleep' \in BOOLEAN /\ ~asleep'
    BY <1>1
  <2>2. spurious' \in Nat
    BY <1>1 DEF JoinInv, JoinTypeOK
  <2>3. JoinTypeOK'
    BY <1>1, <2>1, <2>2 DEF JoinInv, JoinTypeOK
  <2>4. PlaceInv'
    BY <1>1, <2>1 DEF JoinInv, PlaceInv, Sleeps
  <2> QED
    BY <2>3, <2>4
<1> USE <1>1, DidSame DEF JoinInv
<1>3. OwnerInv' /\ DoneInv'
  BY DEF OwnerInv, DoneInv
<1>4. LeaveInv'
  BY DEF LeaveInv, JoinTypeOK
<1>5. SleepInv'
  BY DEF SleepInv
<1> QED
  BY <1>2, <1>3, <1>4, <1>5

\* What UDP says stays true while another program runs.
LEMMA UDPIdle == UDPInv /\ UNCHANGED uvars => UDPInv'
<1> SUFFICES ASSUME UDPInv, UNCHANGED uvars PROVE UDPInv'
  OBVIOUS
<1>1. UNCHANGED <<server, client, net, reply, strays>>
  BY DEF uvars
<1> QED
  BY <1>1 DEF UDPInv, UDPTypeOK, About, U!Bound, U!OwnAnswer

\* Every step of every program keeps both invariants.
LEMMA NextRunInv == RunInv /\ [RunNext]_allvars => RunInv'
<1> SUFFICES ASSUME RunInv, [RunNext]_allvars PROVE RunInv'
  OBVIOUS
<1> USE DEF RunInv
<1>1. spurious \in Nat
  BY DEF JoinInv, JoinTypeOK
<1>2. CASE Waiter \/ Signaller
  BY <1>2, WaiterJoinInv, SignallerJoinInv, UDPIdle DEF Waiter, Signaller, JoinOnly
<1>3. CASE JoinOnly(Spurious)
  BY <1>3, SpuriousJoinInv, UDPIdle DEF JoinOnly
<1>4. ASSUME NEW g \in {ping_pong, odd_even}, NEW t,
             TurnsOnly(g, T!Play(t) \/ T!PrintRound(t) \/ T!Spurious(t))
      PROVE  RunInv'
  <2>1. program \notin Programs /\ UNCHANGED <<jvars, uvars>>
    BY <1>4, NotJoins DEF TurnsOnly
  <2>2. spurious' \in Nat
    BY <1>1, <1>4 DEF TurnsOnly, T!Play, T!Loop, T!Sleep, T!Turn, T!Notify, T!Count,
       T!Goto, T!PrintRound, T!Doze, T!TakeTurn, T!Spurious, T!FallAsleep
  <2> QED
    BY <2>1, <2>2, JoinIdle, UDPIdle
<1>5. ASSUME UDPOnly(\/ \E c \in Clients : U!ClientStep(c)
                     \/ U!ServerStep \/ U!Arrival \/ U!Environment)
      PROVE  RunInv'
  <2>1. program \notin Programs /\ UNCHANGED <<jvars, spurious>>
    BY <1>5, NotJoins DEF UDPOnly
  <2>2. JoinInv'
    BY <1>1, <2>1, JoinIdle
  <2>3. UDPInv'
    BY <1>5, ClientUDPInv, ServerUDPInv, NetworkUDPInv DEF UDPOnly
  <2> QED
    BY <2>2, <2>3
<1>6. CASE UNCHANGED allvars
  <2>1. UNCHANGED <<program, signaller, done, m, asleep, waiter, missed, spurious, uvars>>
    BY <1>6 DEF allvars, jvars
  <2>2. JoinInv'
    BY <2>1, DidSame
    DEF JoinInv, JoinTypeOK, PlaceInv, OwnerInv, DoneInv, LeaveInv, SleepInv, Sleeps
  <2> QED
    BY <2>1, <2>2, UDPIdle
<1>7. CASE Server \/ Arrival \/ \E c \in Clients : Client(c)
  BY <1>5, <1>7 DEF Server, Arrival, Client, UDPOnly
<1>8. CASE Unasked
  BY <1>3, <1>4, <1>5, <1>8 DEF Unasked, TurnsOnly, UDPOnly
<1>9. CASE (\E s \in T!Players : Player(s)) \/ (\E t \in T!Printers : Printer(t))
  BY <1>4, <1>9 DEF Player, Printer, TurnsOnly
<1> QED
  BY <1>2, <1>6, <1>7, <1>8, <1>9 DEF RunNext

\* In every reachable state of every program the mutex, the state variable and
\* the sleeper agree with how far the signaller is, and everything in flight is
\* about the one client that waits unless strays may be about.
THEOREM Invariant == RunSpec => []RunInv
  BY InitRunInv, NextRunInv, PTL DEF RunSpec

\* The wait of every join lasts until the work is done, whatever number of
\* wake-ups nobody sent; only the program without a state variable relies on
\* there being none.
THEOREM WaitsLastLongEnough == RunSpec => []WaitsForWork
<1>1. RunInv => WaitsForWork
  <2> SUFFICES ASSUME RunInv, waiter = "end"
               PROVE  Worked \/ (~program.state /\ spurious > 0)
    BY DEF WaitsForWork
  <2>1. Did("work") => Worked
    BY DEF Did, Worked
  <2>2. IsSet \/ Signalled \/ (~program.state /\ spurious > 0)
    BY DEF RunInv, JoinInv, LeaveInv, PlaceInv
  <2> QED
    BY <2>1, <2>2, DidOrder DEF RunInv, JoinInv
<1> QED
  BY <1>1, Invariant, PTL

\* In the programs that test the state under the lock, or test it and sleep in
\* one step, no waiter sleeps past the signal; in the others it sleeps for ever
\* only when the signal found nobody asleep.
THEOREM StuckOnlyWhenMissed == RunSpec => []StuckIsMissed
<1>1. RunInv => StuckIsMissed
  <2> SUFFICES ASSUME RunInv, asleep, Returned PROVE missed /\ program \notin Working
    BY DEF StuckIsMissed
  <2>1. Signals(program.does) /\ Len(program.does) \in Nat
    BY Shapes DEF RunInv, JoinInv, JoinTypeOK, PlaceInv, Sleeps, Shape, Orderly
  <2>2. Signalled
    BY <2>1 DEF RunInv, JoinInv, JoinTypeOK, Returned, Signals, Signalled, Did
  <2> QED
    BY <2>2 DEF RunInv, JoinInv, SleepInv
<1> QED
  BY <1>1, Invariant, PTL

\* One port for all clients and no number in a message are enough to get one's
\* own answer, for any number of clients and of lost datagrams, as long as
\* none is duplicated and no client killed while it waits.
THEOREM AnswersAreOwn == RunSpec => []ReplyIsAnswer
<1>1. RunInv => ReplyIsAnswer
  BY DEF RunInv, UDPInv, ReplyIsAnswer
<1> QED
  BY <1>1, Invariant, PTL

==============================================================================
