--------------------------------- MODULE UDP ---------------------------------
(***************************************************************************)
(* dist-intro: client.c sends one datagram and waits for one reply,        *)
(* server.c replies to every datagram it reads; udp.c wraps the sockets.   *)
(* Every client binds port 20000 and the server port 10000.                *)
(*                                                                         *)
(* A datagram in flight is delivered, lost, duplicated or overtaken; one   *)
(* that arrives where no socket is bound is lost.  The user may kill the   *)
(* server and waiting clients and start the server again.  Nobody sets a   *)
(* timeout or sends again.                                                 *)
(***************************************************************************)
EXTENDS Integers

CONSTANTS Clients,
          MaxFaults      (* bound on datagrams lost or duplicated on the   *)
                         (* way, sockets that cannot be had, and kills     *)

VARIABLES server,        (* "off", "waiting", "deaf", or the client whose  *)
                         (* datagram it has read                           *)
          client,        (* client[c]: "start", "open", "no_port",         *)
                         (* "waiting", "done", "failed", "killed"          *)
          net,           (* net[d]: how often datagram d is in flight      *)
          reply,         (* reply[c]: whose answer c got, or "none"        *)
          lost,          (* clients whose request or answer is lost        *)
          strays,        (* there may be answers that nobody waits for     *)
          faults

vars == <<server, client, net, reply, lost, strays, faults>>

request(c) == [to |-> 10000, about |-> c]
answer(c)  == [to |-> 20000, about |-> c]

Datagrams == {request(c) : c \in Clients} \cup {answer(c) : c \in Clients}
InFlight  == {d \in Datagrams : net[d] > 0}

Put(d)    == net' = [net EXCEPT ![d] = @ + 1]
Remove(d) == d \in InFlight /\ net' = [net EXCEPT ![d] = @ - 1]

Init == /\ server = "off"
        /\ client = [c \in Clients |-> "start"]
        /\ net = [d \in Datagrams |-> 0]
        /\ reply = [c \in Clients |-> "none"]
        /\ lost = {} /\ strays = FALSE
        /\ faults = 0

Fault == faults < MaxFaults /\ faults' = faults + 1

------------------------------------------------------------------------------
(* The client *)

\* the client that has port 20000
Bound(c) == client[c] \in {"open", "waiting"}

\* the second socket gets the port too
MutantOpen(c) == /\ client[c] = "start"
                 /\ client' = [client EXCEPT ![c] = "open"]
                 /\ UNCHANGED <<server, net, reply, lost, strays, faults>>

\* UDP_Open(20000), whose result is not tested: no socket (the result is 0,
\* standard input), the port is taken (-1), or a socket
Open(c) == /\ client[c] = "start"
           /\ \/ Fault /\ client' = [client EXCEPT ![c] = "no_port"]
              \/ /\ client' = [client EXCEPT ![c] = IF \E o \in Clients : Bound(o)
                                                      THEN "no_port" ELSE "open"]
                 /\ UNCHANGED faults
           /\ UNCHANGED <<server, net, reply, lost, strays>>

\* UDP_Write fails on what is no socket, and the client exits
Send(c) == /\ \/ /\ client[c] = "open"
                 /\ client' = [client EXCEPT ![c] = "waiting"]
                 /\ Put(request(c))
              \/ /\ client[c] = "no_port"
                 /\ client' = [client EXCEPT ![c] = "failed"]
                 /\ UNCHANGED net
           /\ UNCHANGED <<server, reply, lost, strays, faults>>

\* UDP_Read returns a datagram for port 20000, and the client exits
Receive(c) ==
    \E o \in Clients :
        /\ client[c] = "waiting" /\ Remove(answer(o))
        /\ client' = [client EXCEPT ![c] = "done"]
        /\ reply' = [reply EXCEPT ![c] = o]
        /\ UNCHANGED <<server, lost, strays, faults>>

------------------------------------------------------------------------------
(* The server *)

\* without a socket UDP_Open returns 0, which the assertion lets pass: every
\* UDP_Read fails then
StartServer == /\ server = "off"
               /\ \/ server' = "deaf" /\ Fault
                  \/ server' = "waiting" /\ UNCHANGED faults
               /\ UNCHANGED <<client, net, reply, lost, strays>>

ServerRead == /\ server = "waiting"
              /\ \E c \in Clients : Remove(request(c)) /\ server' = c
              /\ UNCHANGED <<client, reply, lost, strays, faults>>

ServerReply == /\ server \in Clients
               /\ Put(answer(server))
               /\ server' = "waiting"
               /\ UNCHANGED <<client, reply, lost, strays, faults>>

------------------------------------------------------------------------------
(* The network and the user *)

\* nobody is bound to the port of the datagram
Unreachable(d) == IF d.to = 10000 THEN server \in {"off", "deaf"}
                                  ELSE \A c \in Clients : ~Bound(c)

Drop(d) == /\ Unreachable(d) /\ UNCHANGED faults
           /\ Remove(d)
           /\ lost' = lost \cup {d.about}
           /\ UNCHANGED <<server, client, reply, strays>>

Lose(d) == /\ Fault
           /\ Remove(d)
           /\ lost' = lost \cup {d.about}
           /\ UNCHANGED <<server, client, reply, strays>>

Duplicate(d) == /\ Fault
                /\ Put(d)
                /\ strays' = TRUE
                /\ UNCHANGED <<server, client, reply, lost>>

KillClient(c) == /\ client[c] = "waiting" /\ Fault
                 /\ client' = [client EXCEPT ![c] = "killed"]
                 /\ strays' = TRUE
                 /\ UNCHANGED <<server, net, reply, lost>>

KillServer == /\ server # "off" /\ Fault
              /\ server' = "off"
              /\ lost' = IF server \in Clients THEN lost \cup {server} ELSE lost
              /\ UNCHANGED <<client, net, reply, strays>>

------------------------------------------------------------------------------
ClientStep(c) == Open(c) \/ Send(c) \/ Receive(c)
ServerStep    == ServerRead \/ ServerReply
Arrival       == \E d \in InFlight : Drop(d)
Environment   == \/ StartServer \/ KillServer
                 \/ \E d \in InFlight : Lose(d) \/ Duplicate(d)
                 \/ \E c \in Clients : KillClient(c)

------------------------------------------------------------------------------
(* What the properties speak of *)

\* a client waits for ever only when its request or the answer was lost
Settled == \A c \in Clients : client[c] = "waiting" => c \in lost

\* what a client gets is the answer to its own datagram, as long as none was
\* duplicated and no client killed
OwnAnswer == \A c \in Clients : reply[c] \in {"none", c} \/ strays
==============================================================================
