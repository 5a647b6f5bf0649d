------------------------------ MODULE RingBuffer ------------------------------
(***************************************************************************)
(* threads-locks/Locked data structures/ring-buffer.cpp: a bounded queue   *)
(* for many producers and consumers.  A thread claims a ticket by a        *)
(* compare-and-exchange on _head_seq or _tail_seq; the seq of a slot says  *)
(* which ticket may use it next.  One action per atomic operation and per  *)
(* access to the data of a slot.                                           *)
(*                                                                         *)
(* The sequence numbers are size_t; the bounded number of operations keeps *)
(* them far from wrapping.  The loads and stores take effect in program    *)
(* order: acquire and release order each slot's data with its seq.         *)
(*                                                                         *)
(* The comments require a size that is a power of two.  The assertion of   *)
(* the constructor does not check that: _size & (_size + 1) is _size for   *)
(* every even number, 6 for instance, whose mask leaves slots out.  The    *)
(* model is of the sizes the comments allow.                               *)
(***************************************************************************)
EXTENDS Integers, Sequences, FiniteSets

CONSTANTS Producers,   (* threads that call enqueue                        *)
          Consumers,   (* threads that call dequeue                        *)
          Size,        (* _size                                            *)
          Loops,       (* calls of each thread                             *)
          MaxWeak      (* bound on spurious failures of the weak exchange  *)

ASSUME SizeAssumption  == Size \in Nat /\ Size > 1 /\ \E k \in 1..16 : Size = 2 ^ k
ASSUME LoopsAssumption == Loops \in Nat /\ MaxWeak \in Nat

Procs == Producers \cup Consumers

VARIABLES seq, data,          (* the slots of _buffer                      *)
          head, tail,         (* _head_seq, _tail_seq                      *)
          pc,
          ticket,             (* the local head_seq or tail_seq            *)
          made,               (* made[p]: tickets producer p has claimed   *)
          calls,              (* calls[c]: returns of dequeue to c         *)
          tmp,                (* tmp[c]: the data consumer c read last     *)
          weak

vars == <<seq, data, head, tail, pc, ticket, made, calls, tmp, weak>>

Goto(p, from, to) == pc[p] = from /\ pc' = [pc EXCEPT ![p] = to]

\* seq & _mask
Slot(s) == s % Size

\* the local ticket is not used again
Drop(p) == ticket' = [ticket EXCEPT ![p] = 0]

\* the queue the tickets stand for; a slot that has been claimed and not yet
\* written counts with the value its producer is about to write
Item(t) == IF \E p \in Producers : pc[p] = "access" /\ ticket[p] = t
             THEN LET p == CHOOSE p \in Producers : pc[p] = "access" /\ ticket[p] = t
                  IN <<p, made[p] - 1>>
             ELSE data[Slot(t)]

Contents == [i \in 1..(head - tail) |-> Item(tail + i - 1)]

\* a consumer that has claimed a slot counts as having read it
Taken == [c \in Consumers |->
            IF pc[c] = "access" THEN data[Slot(ticket[c])] ELSE tmp[c]]

\* the places in the queue of the items that were not published yet
Claimed == {ticket[p] - tail + 1 : p \in {q \in Producers : pc[q] \in {"access", "publish"}}}

\* and as having answered
Answers == [c \in Consumers |->
              IF pc[c] \in {"access", "publish"} THEN calls[c] + 1 ELSE calls[c]]

------------------------------------------------------------------------------
\* the constructor
Init == /\ seq = [i \in 0..(Size - 1) |-> i]
        /\ data = [i \in 0..(Size - 1) |-> <<"none", 0>>]
        /\ head = 0 /\ tail = 0
        /\ pc = [p \in Procs |-> "load"]
        /\ ticket = [p \in Procs |-> 0]
        /\ made = [p \in Producers |-> 0]
        /\ calls = [c \in Consumers |-> 0]
        /\ tmp = [c \in Consumers |-> <<"none", 0>>]
        /\ weak = 0

------------------------------------------------------------------------------
(* enqueue *)

\* head_seq = _head_seq.load()
EnqLoad(p) == /\ made[p] < Loops
              /\ \/ Goto(p, "load", "seq") \/ Goto(p, "reload", "seq")
              /\ ticket' = [ticket EXCEPT ![p] = head]
              /\ UNCHANGED <<seq, data, head, tail, made, calls, tmp, weak>>

\* dif == 0; for any other dif the loop reads the same slot again, with the
\* same head_seq
EnqSeq(p) == /\ seq[Slot(ticket[p])] = ticket[p]
             /\ Goto(p, "seq", "cas")
             /\ UNCHANGED <<seq, data, head, tail, ticket, made, calls, tmp, weak>>

\* the exchange succeeds
EnqClaim(p) == /\ head = ticket[p]
               /\ Goto(p, "cas", "access")
               /\ head' = head + 1
               /\ made' = [made EXCEPT ![p] = @ + 1]
               /\ UNCHANGED <<seq, data, tail, ticket, calls, tmp, weak>>

\* the exchange fails, and dif is still zero: load _head_seq again
EnqFail(p) == /\ \/ head # ticket[p] /\ UNCHANGED weak
                 \/ weak < MaxWeak /\ weak' = weak + 1
              /\ Goto(p, "cas", "reload")
              /\ Drop(p)
              /\ UNCHANGED <<seq, data, head, tail, made, calls, tmp>>

\* node->data = data
EnqWrite(p) == /\ Goto(p, "access", "publish")
               /\ data' = [data EXCEPT ![Slot(ticket[p])] = <<p, made[p] - 1>>]
               /\ UNCHANGED <<seq, head, tail, ticket, made, calls, tmp, weak>>

\* node->seq.store(head_seq + 1); return true
EnqPublish(p) == /\ Goto(p, "publish", "load")
                 /\ seq' = [seq EXCEPT ![Slot(ticket[p])] = ticket[p] + 1]
                 /\ Drop(p)
                 /\ UNCHANGED <<data, head, tail, made, calls, tmp, weak>>

------------------------------------------------------------------------------
(* dequeue *)

\* tail_seq = _tail_seq.load()
DeqLoad(c) == /\ calls[c] < Loops
              /\ Goto(c, "load", "seq")
              /\ ticket' = [ticket EXCEPT ![c] = tail]
              /\ UNCHANGED <<seq, data, head, tail, made, calls, tmp, weak>>

Dif(c) == seq[Slot(ticket[c])] - (ticket[c] + 1)

\* a stale tail_seq is not loaded again
MutantDeqSeq(c) == /\ \/ /\ Dif(c) = 0
                         /\ Goto(c, "seq", "cas") /\ UNCHANGED <<ticket, calls>>
                      \/ /\ Dif(c) < 0
                         /\ Goto(c, "seq", "load")
                         /\ calls' = [calls EXCEPT ![c] = @ + 1] /\ Drop(c)
                   /\ UNCHANGED <<seq, data, head, tail, made, tmp, weak>>

\* false also when another consumer was faster
MutantDeqSeqFalse(c) ==
    /\ \/ Dif(c) = 0 /\ Goto(c, "seq", "cas") /\ UNCHANGED <<ticket, calls>>
       \/ /\ Dif(c) # 0
          /\ Goto(c, "seq", "load")
          /\ calls' = [calls EXCEPT ![c] = @ + 1] /\ Drop(c)
    /\ UNCHANGED <<seq, data, head, tail, made, tmp, weak>>

\* dif == 0: try to claim; dif < 0: return false; else load _tail_seq again
DeqSeq(c) == /\ \/ /\ Dif(c) = 0
                   /\ Goto(c, "seq", "cas") /\ UNCHANGED <<ticket, calls>>
                \/ /\ Dif(c) < 0
                   /\ Goto(c, "seq", "load")
                   /\ calls' = [calls EXCEPT ![c] = @ + 1] /\ Drop(c)
                \/ /\ Dif(c) > 0
                   /\ Goto(c, "seq", "load") /\ Drop(c) /\ UNCHANGED calls
             /\ UNCHANGED <<seq, data, head, tail, made, tmp, weak>>

\* the exchange succeeds
DeqClaim(c) == /\ tail = ticket[c]
               /\ Goto(c, "cas", "access")
               /\ tail' = tail + 1
               /\ UNCHANGED <<seq, data, head, ticket, made, calls, tmp, weak>>

\* the exchange fails and leaves the current _tail_seq in tail_seq
DeqFail(c) == /\ \/ tail # ticket[c] /\ UNCHANGED weak
                 \/ weak < MaxWeak /\ weak' = weak + 1
              /\ Goto(c, "cas", "seq")
              /\ ticket' = [ticket EXCEPT ![c] = tail]
              /\ UNCHANGED <<seq, data, head, tail, made, calls, tmp>>

\* data = node->data
DeqRead(c) == /\ Goto(c, "access", "publish")
              /\ tmp' = [tmp EXCEPT ![c] = data[Slot(ticket[c])]]
              /\ UNCHANGED <<seq, data, head, tail, ticket, made, calls, weak>>

\* node->seq.store(tail_seq + _mask + 1); return true
DeqPublish(c) == /\ Goto(c, "publish", "load")
                 /\ seq' = [seq EXCEPT ![Slot(ticket[c])] = ticket[c] + Size]
                 /\ calls' = [calls EXCEPT ![c] = @ + 1]
                 /\ Drop(c)
                 /\ UNCHANGED <<data, head, tail, made, tmp, weak>>

------------------------------------------------------------------------------
enqueue(p) == \/ EnqLoad(p) \/ EnqSeq(p) \/ EnqClaim(p) \/ EnqFail(p)
              \/ EnqWrite(p) \/ EnqPublish(p)
dequeue(c) == \/ DeqLoad(c) \/ DeqSeq(c) \/ DeqClaim(c) \/ DeqFail(c)
              \/ DeqRead(c) \/ DeqPublish(c)

Step(t) == \/ t \in Producers /\ enqueue(t)
           \/ t \in Consumers /\ dequeue(t)

Next == \E t \in Procs : Step(t)

Spec == Init /\ [][Next]_vars

\* the scheduler eventually runs every thread
FairSpec == Spec /\ \A t \in Procs : WF_vars(Step(t))

------------------------------------------------------------------------------
(* Properties *)

\* The plain data of a slot is never accessed by two threads at once, although
\* no lock is held: the seq of the slot and the ticket keep them apart.
NoDataRace ==
    \A p, q \in Procs :
        /\ pc[p] = "access" /\ pc[q] = "access"
        /\ Slot(ticket[p]) = Slot(ticket[q])
        => p = q

\* Every call of enqueue returns: the comments have it return false when the
\* buffer is full and load _head_seq again when another thread was faster.
EnqueueReturns == \A p \in Producers : <>(made[p] = Loops)
==============================================================================
