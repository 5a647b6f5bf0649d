------------------------------ MODULE MCSignals ------------------------------
(***************************************************************************)
(* The programs in which one party waits for a sign of another: the joins, *)
(* where one thread waits once, ping-pong and the odd/even printers, where *)
(* two threads take turns, and the UDP client and server.  One behaviour   *)
(* runs one program.                                                       *)
(***************************************************************************)
EXTENDS Join

CONSTANTS countlimit, Rounds, Clients, MaxFaults

ASSUME BoundsAssumption == /\ countlimit \in Nat \ {0} /\ Rounds \in Nat \ {0}
                           /\ MaxFaults \in Nat

\* what the server does besides a client's datagram is no client
ASSUME ClientsAssumption == {"off", "waiting", "deaf"} \cap Clients = {}

VARIABLES dataReady, counter, pc, sides, left,
          server, client, net, reply, lost, strays, faults

T == INSTANCE Turns WITH asleep <- sides
U == INSTANCE UDP

jvars == <<program, done, m, asleep, waiter, signaller, missed>>
uvars == <<server, client, net, reply, lost, strays, faults>>
tvars == <<counter, dataReady, pc, left, sides>>
allvars == <<jvars, tvars, uvars, spurious>>

ping_pong == [join EXCEPT !.name = "ping_pong"]
odd_even  == [join EXCEPT !.name = "odd_even"]
udp       == [join EXCEPT !.name = "udp"]

------------------------------------------------------------------------------
RunInit == /\ program \in Programs \cup {ping_pong, odd_even, udp}
           /\ done = 0 /\ m = "none" /\ asleep = FALSE
           /\ waiter = "lock" /\ signaller = 1 /\ missed = FALSE
           /\ T!Init /\ U!Init

\* what the programs that do not run leave alone
JoinOnly(A)     == program \in Programs /\ A /\ UNCHANGED <<tvars, uvars>>
TurnsOnly(g, A) == program = g /\ A /\ UNCHANGED <<jvars, uvars>>
UDPOnly(A)      == program = udp /\ A /\ UNCHANGED <<jvars, tvars, spurious>>

Waiter     == JoinOnly(WaiterStep)
Signaller  == JoinOnly(SignallerStep)
Player(s)  == TurnsOnly(ping_pong, T!Play(s))
Printer(t) == TurnsOnly(odd_even, T!PrintRound(t))
Client(c)  == UDPOnly(U!ClientStep(c))
Server     == UDPOnly(U!ServerStep)
Arrival    == UDPOnly(U!Arrival)
Unasked    == \/ JoinOnly(Spurious)
              \/ \E s \in T!Players : TurnsOnly(ping_pong, T!Spurious(s))
              \/ \E t \in T!Printers : TurnsOnly(odd_even, T!Spurious(t))
              \/ UDPOnly(U!Environment)

RunNext == \/ Waiter \/ Signaller \/ Server \/ Arrival \/ Unasked
           \/ \E s \in T!Players : Player(s)
           \/ \E t \in T!Printers : Printer(t)
           \/ \E c \in Clients : Client(c)

\* the scheduler eventually runs every thread and process, and a datagram
\* in flight eventually arrives; the environment need not do anything
RunSpec == /\ RunInit /\ [][RunNext]_allvars
           /\ WF_allvars(Waiter) /\ WF_allvars(Signaller)
           /\ \A s \in T!Players : WF_allvars(Player(s))
           /\ \A t \in T!Printers : WF_allvars(Printer(t))
           /\ WF_allvars(Server) /\ WF_allvars(Arrival)
           /\ \A c \in Clients : WF_allvars(Client(c))

------------------------------------------------------------------------------
(* Properties *)

\* A client gets the answer to its own datagram, although every client uses
\* the same port and no message has a number, as long as no datagram was
\* duplicated and no client killed while it waited.
ReplyIsAnswer == U!OwnAnswer

\* In the working joins the wait always ends, and so do the two printers.
\* The one way ping-pong does not end: pong has seen the limit and returned
\* on ping's last ball, and ping, which plays on at the limit, waits for it.
\* A UDP client, which sets no timeout, waits for ever only when its request
\* or the answer was lost.
Termination ==
    <>[]CASE program \in Working -> waiter = "end"
          [] program = ping_pong -> T!Over
          [] program = odd_even  -> T!Joined
          [] program = udp       -> U!Settled
          [] OTHER               -> TRUE
==============================================================================
