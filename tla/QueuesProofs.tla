----------------------------- MODULE QueuesProofs -----------------------------
(***************************************************************************)
(* The containers that threads share are memory-safe and implement their   *)
(* abstract containers: for any number of threads, nodes, calls and        *)
(* failing exchanges, any size of the ring buffer and any number of        *)
(* buckets.                                                                *)
(***************************************************************************)
EXTENDS MCQueues, SequenceTheorems, FiniteSetTheorems, TLAPS

------------------------------------------------------------------------------
(* Sequences given by their length and their elements *)

\* A function on 1..k is a sequence of length k.
LEMMA SeqOf ==
  ASSUME NEW k \in Nat, NEW q, DOMAIN q = 1..k, q = [i \in DOMAIN q |-> q[i]]
  PROVE  q \in Seq({q[i] : i \in 1..k}) /\ Len(q) = k
<1> DEFINE D == {q[i] : i \in 1..k}
<1>1. q \in [1..k -> D]
  OBVIOUS
<1> HIDE DEF D
<1>2. q \in Seq(D)
  BY <1>1, SeqDef
<1>3. DOMAIN q = 1..Len(q) /\ Len(q) \in Nat
  BY <1>2, LenProperties
<1>4. Len(q) = k
  BY <1>1, <1>3
<1> QED
  BY <1>2, <1>4 DEF D

\* One element more at the end.
LEMMA SeqPut ==
  ASSUME NEW k \in Nat,
         NEW q, DOMAIN q = 1..k, q = [i \in DOMAIN q |-> q[i]],
         NEW r, DOMAIN r = 1..(k + 1), r = [i \in DOMAIN r |-> r[i]],
         \A i \in 1..k : r[i] = q[i]
  PROVE  r = Append(q, r[k + 1])
<1> DEFINE D == {r[i] : i \in 1..(k + 1)}
           v == r[k + 1]
<1>1. q \in [1..k -> D] /\ r \in [1..(k + 1) -> D] /\ v \in D
  OBVIOUS
<1>2. Len(q) = k /\ Len(r) = k + 1
  BY SeqOf
<1> HIDE DEF D, v
<1>3. q \in Seq(D) /\ r \in Seq(D)
  BY <1>1, SeqDef
<1>4. /\ Append(q, v) \in Seq(D) /\ Len(Append(q, v)) = k + 1
      /\ \A i \in 1..(k + 1) : Append(q, v)[i] = IF i <= k THEN q[i] ELSE v
  BY <1>1, <1>2, <1>3, AppendProperties
<1>5. \A i \in 1..(k + 1) : r[i] = Append(q, v)[i]
  BY <1>4 DEF v
<1>6. r = Append(q, v)
  BY <1>2, <1>3, <1>4, <1>5, SeqEqual
<1> QED
  BY <1>6 DEF v

\* One element less at the front.
LEMMA SeqGet ==
  ASSUME NEW k \in Nat \ {0},
         NEW q, DOMAIN q = 1..k, q = [i \in DOMAIN q |-> q[i]],
         NEW r, DOMAIN r = 1..(k - 1), r = [i \in DOMAIN r |-> r[i]],
         \A i \in 1..(k - 1) : r[i] = q[i + 1]
  PROVE  q # <<>> /\ Head(q) = q[1] /\ Tail(q) = r
<1> DEFINE D == {q[i] : i \in 1..k}
<1>1. q \in [1..k -> D] /\ r \in [1..(k - 1) -> D]
  OBVIOUS
<1>2. Len(q) = k /\ Len(r) = k - 1
  BY SeqOf
<1> HIDE DEF D
<1>3. q \in Seq(D) /\ r \in Seq(D)
  BY <1>1, SeqDef
<1>4. q # <<>>
  BY <1>2, Len(<<>>) = 0
<1>5. /\ Head(q) = q[1] /\ Tail(q) \in Seq(D) /\ Len(Tail(q)) = k - 1
      /\ \A i \in 1..(k - 1) : Tail(q)[i] = q[i + 1]
  BY <1>2, <1>3, <1>4, HeadTailProperties
<1>6. Tail(q) = r
  BY <1>2, <1>3, <1>5, SeqEqual
<1> QED
  BY <1>4, <1>5, <1>6

\* One element more at the front.
LEMMA SeqPush ==
  ASSUME NEW k \in Nat,
         NEW q, DOMAIN q = 1..k, q = [i \in DOMAIN q |-> q[i]],
         NEW r, DOMAIN r = 1..(k + 1), r = [i \in DOMAIN r |-> r[i]],
         \A i \in 1..k : r[i + 1] = q[i], NEW v, r[1] = v
  PROVE  r = <<v>> \o q
<1> DEFINE D == {r[i] : i \in 1..(k + 1)}
<1>1. q \in [1..k -> D] /\ r \in [1..(k + 1) -> D] /\ v \in D
  <2>1. \A i \in 1..k : q[i] \in D
    OBVIOUS
  <2> QED
    BY <2>1
<1>2. Len(q) = k /\ Len(r) = k + 1
  BY SeqOf
<1>3. \A i \in 2..(k + 1) : r[i] = q[i - 1]
  <2> TAKE i \in 2..(k + 1)
  <2>1. i - 1 \in 1..k /\ (i - 1) + 1 = i
    OBVIOUS
  <2> QED
    BY <2>1
<1> HIDE DEF D
<1>4. q \in Seq(D) /\ r \in Seq(D) /\ <<v>> \in Seq(D) /\ Len(<<v>>) = 1
  BY <1>1, SeqDef
<1>5. /\ <<v>> \o q \in Seq(D) /\ Len(<<v>> \o q) = k + 1
      /\ \A i \in 1..(k + 1) : (<<v>> \o q)[i] = IF i <= 1 THEN v ELSE q[i - 1]
  BY <1>2, <1>4, ConcatProperties
<1>6. \A i \in 1..(k + 1) : r[i] = (<<v>> \o q)[i]
  BY <1>3, <1>5
<1> QED
  BY <1>2, <1>4, <1>5, <1>6, SeqEqual

------------------------------------------------------------------------------
(* The ring buffer *)

\* Slots are numbers below Size; tickets less than Size apart have different
\* slots, and tickets Size apart have the same.
LEMMA Slots ==
  /\ \A a \in Nat : Slot(a) \in 0..(Size - 1)
  /\ \A a \in Nat : Slot(a + Size) = Slot(a)
  /\ \A a, b \in Nat : Slot(a) = Slot(b) /\ a <= b /\ b < a + Size => a = b
<1>0. Size \in Nat \ {0}
  BY SizeAssumption
<1>1. ASSUME NEW a \in Nat, NEW n \in Nat \ {0}
      PROVE  /\ a \div n \in Int /\ a % n \in 0..(n - 1)
             /\ a % n = a - n * (a \div n) /\ n * (a \div n) \in Int
  BY SMT
<1>2. ASSUME NEW a \in Nat, NEW b \in Nat, NEW n \in Nat \ {0},
             a % n = b % n, a <= b, b < a + n
      PROVE  a = b
  <2> DEFINE x == a \div n
             y == b \div n
  <2>1. x \in Int /\ y \in Int /\ n * x \in Int /\ n * y \in Int
    BY <1>1
  <2>2. a - n * x = b - n * y
    BY <1>1, <1>2
  <2> HIDE DEF x, y
  <2>3. n * y < n * x + n /\ n * x <= n * y
    BY <1>2, <2>1, <2>2
  <2>4. n * y < n * (x + 1) /\ n * x < n * (y + 1)
    BY <2>1, <2>3, SMT
  <2>5. y < x + 1 /\ x < y + 1
    BY <2>1, <2>4, SMT
  <2>6. x = y
    BY <2>1, <2>5
  <2> QED
    BY <2>1, <2>2, <2>6
<1>3. ASSUME NEW a \in Nat, NEW n \in Nat \ {0} PROVE (a + n) % n = a % n
  <2> DEFINE x == a \div n
             y == (a + n) \div n
             r == a % n
             t == (a + n) % n
  <2>1. /\ x \in Int /\ y \in Int /\ n * x \in Int /\ n * y \in Int
        /\ r \in 0..(n - 1) /\ t \in 0..(n - 1)
        /\ r = a - n * x /\ t = a + n - n * y
    BY <1>1
  <2> HIDE DEF x, y, r, t
  <2>2. n * (x + 1) = n * x + n /\ n * (x + 2) = n * x + n + n
    BY <2>1, SMT
  <2>3. n * y < n * (x + 2) /\ n * x < n * y
    BY <2>1, <2>2
  <2>4. y < x + 2 /\ x < y
    BY <2>1, <2>3, SMT
  <2>5. y = x + 1
    BY <2>1, <2>4
  <2>6. t = r
    BY <2>1, <2>2, <2>5
  <2> QED
    BY <2>6 DEF t, r
<1> QED
  BY <1>0, <1>1, <1>2, <1>3 DEF Slot

\* the thread has claimed its ticket and not yet published the slot
Holds(t) == pc[t] \in {"access", "publish"}

RingTypeOK == /\ seq \in [0..(Size - 1) -> Nat]
              /\ DOMAIN data = 0..(Size - 1)
              /\ head \in Nat /\ tail \in Nat
              /\ pc \in [Procs -> {"load", "seq", "cas", "reload", "access", "publish"}]
              /\ ticket \in [Procs -> Nat]
              /\ made \in [Producers -> Nat]
              /\ DOMAIN tmp = Consumers

\* the tickets between tail and head have items; those up to a whole round
\* after tail are free, or are when the consumer of the round before is done
WindowInv == /\ tail <= head /\ head <= tail + Size
             /\ \A t \in tail..(head - 1) : seq[Slot(t)] \in {t, t + 1}
             /\ \A t \in head..(tail + Size - 1) : seq[Slot(t)] \in {t, t + 1 - Size}

\* a claimed ticket is in the window and its slot says so
HolderInv == /\ \A p \in Producers : Holds(p) =>
                   /\ ticket[p] \in tail..(head - 1)
                   /\ seq[Slot(ticket[p])] = ticket[p]
             /\ \A c \in Consumers : Holds(c) =>
                   /\ ticket[c] < tail /\ head <= ticket[c] + Size
                   /\ seq[Slot(ticket[c])] = ticket[c] + 1
             /\ \A p, q \in Procs : Holds(p) /\ Holds(q) /\ ticket[p] = ticket[q] => p = q

\* what a thread has read of a slot is still true if its exchange succeeds
TryInv == /\ \A p \in Producers : pc[p] \in {"seq", "cas"} =>
                ticket[p] <= head /\ made[p] < Loops
          /\ \A p \in Producers : pc[p] = "cas" /\ ticket[p] = head =>
                seq[Slot(head)] = head
          /\ \A c \in Consumers : pc[c] \in {"seq", "cas"} => ticket[c] <= tail
          /\ \A c \in Consumers : pc[c] = "cas" /\ ticket[c] = tail =>
                seq[Slot(tail)] = tail + 1

RingInv == RingTypeOK /\ WindowInv /\ HolderInv /\ TryInv

\* The constructor establishes the invariant.
LEMMA RingInit == Init => RingInv
<1> SUFFICES ASSUME Init PROVE RingInv
  OBVIOUS
<1>0. Size \in Nat /\ Size > 1
  BY SizeAssumption
<1>1. \A t \in 0..(Size - 1) : Slot(t) = t
  <2> TAKE t \in 0..(Size - 1)
  <2> DEFINE u == Slot(t)
  <2>1. t \in Nat /\ u \in 0..(Size - 1) /\ u \in Nat
    BY <1>0, Slots
  <2>2. u % Size = u /\ t % Size = t
    BY <1>0, <2>1, SMT
  <2> QED
    BY <2>2 DEF Slot
<1>2. RingTypeOK
  BY <1>0 DEF Init, RingTypeOK
<1>3. WindowInv
  BY <1>0, <1>1 DEF Init, WindowInv
<1>4. HolderInv /\ TryInv
  BY DEF Init, HolderInv, TryInv, Holds, Procs
<1> QED
  BY <1>2, <1>3, <1>4 DEF RingInv

\* Every atomic operation of a producer keeps it.
LEMMA RingEnqueue ==
  ASSUME RingInv, NEW p \in Producers, enqueue(p)
  PROVE  RingInv'
<1> DEFINE e == ticket[p]
<1>0. /\ Size \in Nat /\ Size > 1 /\ p \in Procs /\ e \in Nat
      /\ \A t \in Procs : ticket[t] \in Nat
      /\ Producers \subseteq Procs /\ Consumers \subseteq Procs
      /\ \A c \in Consumers : c # p
      /\ head \in Nat /\ tail \in Nat /\ made[p] \in Nat
      /\ pc \in [Procs -> {"load", "seq", "cas", "reload", "access", "publish"}]
      /\ ticket \in [Procs -> Nat] /\ made \in [Producers -> Nat]
      /\ seq \in [0..(Size - 1) -> Nat]
  BY SizeAssumption, NodesAssumption DEF Procs, RingInv, RingTypeOK
<1>w. /\ tail <= head /\ head <= tail + Size
      /\ \A t \in tail..(head - 1) : seq[Slot(t)] \in {t, t + 1}
      /\ \A t \in head..(tail + Size - 1) : seq[Slot(t)] \in {t, t + 1 - Size}
  BY DEF RingInv, WindowInv
<1>h. HolderInv /\ TryInv
  BY DEF RingInv
\* the steps that leave every slot and every claimed ticket alone
<1>u. ASSUME UNCHANGED <<seq, head, tail, made>>,
             DOMAIN data' = 0..(Size - 1), DOMAIN tmp' = Consumers,
             NEW from \in {"load", "seq", "cas", "reload", "access"},
             NEW to \in {"load", "seq", "cas", "reload", "publish"},
             Goto(p, from, to), NEW n \in Nat, ticket' = [ticket EXCEPT ![p] = n],
             to = "publish" => from = "access" /\ n = e,
             to \in {"seq", "cas"} => n <= head /\ made[p] < Loops,
             to = "cas" /\ n = head => seq[Slot(head)] = head
      PROVE  RingInv'
  <2>1. RingTypeOK' /\ WindowInv'
    BY <1>0, <1>w, <1>u DEF RingTypeOK, WindowInv, Goto
  <2>2. HolderInv'
    <3>1. \A q \in Procs : Holds(q)' => Holds(q) /\ ticket'[q] = ticket[q]
      BY <1>0, <1>u DEF Holds, Goto
    <3> QED
      BY <1>0, <1>h, <1>u, <3>1 DEF HolderInv
  <2>3. TryInv'
    BY <1>0, <1>h, <1>u DEF TryInv, Goto
  <2> QED
    BY <2>1, <2>2, <2>3 DEF RingInv
<1>d. DOMAIN data = 0..(Size - 1) /\ DOMAIN tmp = Consumers
  BY DEF RingInv, RingTypeOK
<1>1. CASE EnqLoad(p)
  <2>1. /\ made[p] < Loops /\ ticket' = [ticket EXCEPT ![p] = head]
        /\ UNCHANGED <<seq, data, head, tail, made, tmp>>
        /\ Goto(p, "load", "seq") \/ Goto(p, "reload", "seq")
    BY <1>1 DEF EnqLoad
  <2>2. head <= head /\ DOMAIN data' = 0..(Size - 1) /\ DOMAIN tmp' = Consumers
    BY <1>0, <1>d, <2>1
  <2>3. CASE Goto(p, "load", "seq")
    BY <1>0, <1>u, <2>1, <2>2, <2>3
  <2>4. CASE Goto(p, "reload", "seq")
    BY <1>0, <1>u, <2>1, <2>2, <2>4
  <2> QED
    BY <2>1, <2>3, <2>4
<1>2. CASE EnqSeq(p)
  <2>1. ticket' = [ticket EXCEPT ![p] = e]
    BY <1>0, <1>2 DEF EnqSeq
  <2>2. e <= head /\ made[p] < Loops /\ (e = head => seq[Slot(head)] = head)
    BY <1>2, <1>h DEF EnqSeq, TryInv, Goto
  <2> QED
    BY <1>0, <1>2, <1>d, <1>u, <2>1, <2>2 DEF EnqSeq
<1>3. CASE EnqClaim(p)
  <2>1. seq[Slot(head)] = head /\ e = head
    BY <1>3, <1>h DEF EnqClaim, TryInv, Goto
  <2>2. head < tail + Size
    <3> SUFFICES ASSUME head = tail + Size PROVE FALSE
      BY <1>0, <1>w
    <3>1. Slot(head) = Slot(tail)
      BY <1>0, Slots
    <3>2. seq[Slot(tail)] \in {tail, tail + 1}
      BY <1>0, <1>w
    <3> QED
      BY <1>0, <2>1, <3>1, <3>2
  <2>3. \A c \in Consumers : Holds(c) => head + 1 <= ticket[c] + Size
    <3> SUFFICES ASSUME NEW c \in Consumers, Holds(c) PROVE head + 1 <= ticket[c] + Size
      OBVIOUS
    <3>1. /\ ticket[c] \in Nat /\ head <= ticket[c] + Size
          /\ seq[Slot(ticket[c])] = ticket[c] + 1
      BY <1>0, <1>h DEF HolderInv
    <3>2. head # ticket[c] + Size
      <4> SUFFICES ASSUME head = ticket[c] + Size PROVE FALSE
        OBVIOUS
      <4>1. Slot(head) = Slot(ticket[c])
        BY <3>1, Slots
      <4>2. head = ticket[c] + 1
        BY <2>1, <3>1, <4>1
      <4> QED
        BY <1>0, <3>1, <4>2
    <3>3. Size \in Int /\ head \in Int /\ ticket[c] \in Int
      BY <1>0, <3>1
    <3> QED
      BY <3>1, <3>2, <3>3
  <2>4. /\ pc[p] = "cas" /\ pc' = [pc EXCEPT ![p] = "access"] /\ head' = head + 1
        /\ made' = [made EXCEPT ![p] = @ + 1] /\ UNCHANGED <<seq, data, tail, ticket, tmp>>
    BY <1>3 DEF EnqClaim, Goto
  <2>5. RingTypeOK'
    BY <1>0, <1>d, <2>4 DEF RingTypeOK
  <2>6. WindowInv'
    BY <1>0, <1>w, <2>1, <2>2, <2>4 DEF WindowInv
  <2>7. HolderInv'
    <3>1. \A q \in Procs : Holds(q)' => q = p \/ (q # p /\ Holds(q))
      BY <1>0, <2>4 DEF Holds
    <3>2. \A q \in Procs : Holds(q) => ticket[q] < head
      BY <1>0, <1>w, <1>h DEF HolderInv, Procs
    <3>3. \A q \in Producers : Holds(q)' =>
             ticket'[q] \in tail'..(head' - 1) /\ seq'[Slot(ticket'[q])] = ticket'[q]
      BY <1>0, <1>w, <1>h, <2>1, <2>4, <3>1 DEF HolderInv
    <3>4. \A c \in Consumers : Holds(c)' =>
             /\ ticket'[c] < tail' /\ head' <= ticket'[c] + Size
             /\ seq'[Slot(ticket'[c])] = ticket'[c] + 1
      BY <1>0, <1>h, <2>3, <2>4, <3>1 DEF HolderInv
    <3>5. \A t, q \in Procs : Holds(t)' /\ Holds(q)' /\ ticket'[t] = ticket'[q] => t = q
      <4> SUFFICES ASSUME NEW t \in Procs, NEW q \in Procs, Holds(t)', Holds(q)',
                          ticket[t] = ticket[q]
                   PROVE  t = q
        BY <2>4
      <4>1. \A u \in Procs : ticket[u] \in Nat /\ (Holds(u) => ticket[u] # e)
        BY <1>0, <2>1, <3>2
      <4> QED
        BY <1>0, <1>h, <3>1, <4>1 DEF HolderInv
    <3> QED
      BY <3>3, <3>4, <3>5 DEF HolderInv
  <2>8. TryInv'
    BY <1>0, <1>h, <2>4 DEF TryInv
  <2> QED
    BY <2>5, <2>6, <2>7, <2>8 DEF RingInv
<1>4. CASE EnqFail(p)
  BY <1>0, <1>4, <1>d, <1>u DEF EnqFail, Drop
<1>5. CASE EnqWrite(p)
  <2>1. ticket' = [ticket EXCEPT ![p] = e] /\ DOMAIN data' = 0..(Size - 1)
    BY <1>0, <1>5, <1>d DEF EnqWrite
  <2> QED
    BY <1>0, <1>5, <1>d, <1>u, <2>1 DEF EnqWrite
<1>6. CASE EnqPublish(p)
  <2>1. /\ e \in tail..(head - 1) /\ seq[Slot(e)] = e /\ pc[p] = "publish"
        /\ pc' = [pc EXCEPT ![p] = "load"] /\ ticket' = [ticket EXCEPT ![p] = 0]
        /\ seq' = [seq EXCEPT ![Slot(e)] = e + 1]
        /\ UNCHANGED <<data, head, tail, made, tmp>>
    BY <1>6, <1>h DEF EnqPublish, HolderInv, Holds, Goto, Drop
  <2>2. Slot(e) \in 0..(Size - 1) /\ seq' \in [0..(Size - 1) -> Nat]
    <3>1. Slot(e) \in 0..(Size - 1)
      BY <1>0, Slots
    <3>3. e + 1 \in Nat
      BY <1>0
    <3> QED
      BY <1>0, <2>1, <3>1, <3>3
  <2>3. \A t \in Nat : Slot(t) # Slot(e) => seq'[Slot(t)] = seq[Slot(t)]
    BY <1>0, <2>1, <2>2, Slots
  <2>4. seq'[Slot(e)] = e + 1
    BY <1>0, <2>1, <2>2
  <2>5. ASSUME NEW t \in Nat, t # e, head <= t + Size, t < tail + Size PROVE Slot(t) # Slot(e)
    <3>1. (t <= e /\ e < t + Size) \/ (e <= t /\ t < e + Size)
      BY <1>0, <1>w, <2>1, <2>5
    <3> QED
      BY <1>0, <2>5, <3>1, Slots
  <2>6. RingTypeOK'
    BY <1>0, <1>d, <2>1, <2>2 DEF RingTypeOK
  <2>7. WindowInv'
    <3>1. \A t \in tail..(head - 1) : seq'[Slot(t)] \in {t, t + 1}
      <4> TAKE t \in tail..(head - 1)
      <4>1. t \in Nat /\ head <= t + Size /\ t < tail + Size
        BY <1>0, <1>w
      <4> QED
        BY <1>w, <2>3, <2>4, <2>5, <4>1
    <3>2. \A t \in head..(tail + Size - 1) : seq'[Slot(t)] \in {t, t + 1 - Size}
      BY <1>0, <1>w, <2>1, <2>3, <2>5
    <3> QED
      BY <1>w, <2>1, <3>1, <3>2 DEF WindowInv
  <2>8. HolderInv'
    <3>1. \A q \in Producers : Holds(q)' =>
             q # p /\ Holds(q) /\ ticket'[q] = ticket[q] /\ ticket[q] # e
      BY <1>0, <1>h, <2>1 DEF HolderInv, Holds
    <3>2. \A c \in Consumers : Holds(c)' => Holds(c) /\ ticket'[c] = ticket[c] /\ ticket[c] # e
      BY <1>0, <1>h, <2>1 DEF HolderInv, Holds
    <3>3. \A q \in Producers : Holds(q)' =>
             /\ ticket'[q] \in tail'..(head' - 1)
             /\ seq'[Slot(ticket'[q])] = ticket'[q]
      BY <1>0, <1>h, <1>w, <2>1, <2>3, <2>5, <3>1 DEF HolderInv
    <3>4. \A c \in Consumers : Holds(c)' =>
             /\ ticket'[c] < tail' /\ head' <= ticket'[c] + Size
             /\ seq'[Slot(ticket'[c])] = ticket'[c] + 1
      <4> SUFFICES ASSUME NEW c \in Consumers, Holds(c)'
                   PROVE  /\ ticket'[c] < tail' /\ head' <= ticket'[c] + Size
                          /\ seq'[Slot(ticket'[c])] = ticket'[c] + 1
        OBVIOUS
      <4>1. /\ ticket'[c] = ticket[c] /\ ticket[c] # e /\ ticket[c] \in Nat
            /\ ticket[c] < tail /\ head <= ticket[c] + Size
            /\ seq[Slot(ticket[c])] = ticket[c] + 1
        BY <1>0, <1>h, <3>2 DEF HolderInv
      <4>2. ticket[c] < tail + Size
        BY <1>0, <4>1
      <4> QED
        BY <2>1, <2>3, <2>5, <4>1, <4>2
    <3>5. \A t, q \in Procs : Holds(t)' /\ Holds(q)' /\ ticket'[t] = ticket'[q] => t = q
      BY <1>0, <1>h, <2>1, <3>1, <3>2 DEF HolderInv, Procs
    <3> QED
      BY <3>3, <3>4, <3>5 DEF HolderInv
  <2>9. seq[Slot(head)] = head => seq'[Slot(head)] = head
    BY <1>0, <2>1, <2>3
  <2>10. seq[Slot(tail)] = tail + 1 => seq'[Slot(tail)] = tail + 1
    <3>1. CASE Slot(tail) = Slot(e)
      BY <1>0, <2>1, <2>4, <2>5, <3>1, <1>w
    <3>2. CASE Slot(tail) # Slot(e)
      BY <1>0, <2>3, <3>2
    <3> QED
      BY <3>1, <3>2
  <2>11. TryInv'
    BY <1>0, <1>h, <2>1, <2>9, <2>10 DEF TryInv
  <2> QED
    BY <2>6, <2>7, <2>8, <2>11 DEF RingInv
<1> QED
  BY <1>1, <1>2, <1>3, <1>4, <1>5, <1>6 DEF enqueue

\* Every atomic operation of a consumer keeps it.
LEMMA RingDequeue ==
  ASSUME RingInv, NEW c \in Consumers, dequeue(c)
  PROVE  RingInv'
<1> DEFINE d == ticket[c]
<1>0. /\ Size \in Nat /\ Size > 1 /\ c \in Procs /\ d \in Nat
      /\ \A t \in Procs : ticket[t] \in Nat
      /\ Producers \subseteq Procs /\ Consumers \subseteq Procs
      /\ \A p \in Producers : p # c
      /\ head \in Nat /\ tail \in Nat
      /\ pc \in [Procs -> {"load", "seq", "cas", "reload", "access", "publish"}]
      /\ ticket \in [Procs -> Nat] /\ made \in [Producers -> Nat]
      /\ seq \in [0..(Size - 1) -> Nat]
  BY SizeAssumption, NodesAssumption DEF Procs, RingInv, RingTypeOK
<1>w. /\ tail <= head /\ head <= tail + Size
      /\ \A t \in tail..(head - 1) : seq[Slot(t)] \in {t, t + 1}
      /\ \A t \in head..(tail + Size - 1) : seq[Slot(t)] \in {t, t + 1 - Size}
  BY DEF RingInv, WindowInv
<1>h. HolderInv /\ TryInv
  BY DEF RingInv
<1>d. DOMAIN data = 0..(Size - 1) /\ DOMAIN tmp = Consumers
  BY DEF RingInv, RingTypeOK
\* the steps that leave every slot and every claimed ticket alone
<1>u. ASSUME UNCHANGED <<seq, data, head, tail, made>>, DOMAIN tmp' = Consumers,
             NEW from \in {"load", "seq", "cas", "access"},
             NEW to \in {"load", "seq", "cas", "publish"},
             Goto(c, from, to), NEW n \in Nat, ticket' = [ticket EXCEPT ![c] = n],
             to = "publish" => from = "access" /\ n = d,
             to \in {"seq", "cas"} => n <= tail,
             to = "cas" /\ n = tail => seq[Slot(tail)] = tail + 1
      PROVE  RingInv'
  <2>1. RingTypeOK' /\ WindowInv'
    BY <1>0, <1>w, <1>d, <1>u DEF RingTypeOK, WindowInv, Goto
  <2>2. HolderInv'
    <3>1. \A q \in Procs : Holds(q)' => Holds(q) /\ ticket'[q] = ticket[q]
      BY <1>0, <1>u DEF Holds, Goto
    <3>2. \A p, q \in Procs : Holds(p)' /\ Holds(q)' /\ ticket'[p] = ticket'[q] => p = q
      BY <1>h, <3>1 DEF HolderInv
    <3>3. \A p \in Producers : Holds(p)' =>
             ticket'[p] \in tail'..(head' - 1) /\ seq'[Slot(ticket'[p])] = ticket'[p]
      BY <1>0, <1>h, <1>u, <3>1 DEF HolderInv
    <3>4. \A q \in Consumers : Holds(q)' =>
             /\ ticket'[q] < tail' /\ head' <= ticket'[q] + Size
             /\ seq'[Slot(ticket'[q])] = ticket'[q] + 1
      <4>1. tail' = tail /\ head' = head /\ seq' = seq
        BY <1>u
      <4> QED
        BY <1>0, <1>h, <3>1, <4>1 DEF HolderInv
    <3> QED
      BY <3>2, <3>3, <3>4 DEF HolderInv
  <2>3. TryInv'
    BY <1>0, <1>h, <1>u DEF TryInv, Goto
  <2> QED
    BY <2>1, <2>2, <2>3 DEF RingInv
<1>1. CASE DeqLoad(c)
  <2>1. tail <= tail
    BY <1>0
  <2> QED
    BY <1>0, <1>1, <1>d, <1>u, <2>1 DEF DeqLoad
<1>2. CASE DeqSeq(c)
  <2>1. ticket = [ticket EXCEPT ![c] = d] /\ d <= tail
    BY <1>0, <1>2, <1>h DEF DeqSeq, TryInv, Goto
  <2>2. CASE Dif(c) = 0
    <3>1. Slot(d) \in 0..(Size - 1)
      BY <1>0, Slots
    <3>2. seq[Slot(d)] = d + 1
      BY <1>0, <2>2, <3>1 DEF Dif
    <3>3. Goto(c, "seq", "cas") /\ UNCHANGED <<seq, data, head, tail, made, tmp, ticket>>
      BY <1>2, <2>2, <1>0, <3>2 DEF DeqSeq, Dif
    <3> QED
      BY <1>0, <1>d, <1>u, <2>1, <3>2, <3>3
  <2>3. CASE Dif(c) # 0
    <3>1. /\ Goto(c, "seq", "load") /\ UNCHANGED <<seq, data, head, tail, made, tmp>>
          /\ ticket' = [ticket EXCEPT ![c] = 0]
      BY <1>2, <2>3 DEF DeqSeq, Drop
    <3> QED
      BY <1>0, <1>d, <1>u, <3>1
  <2> QED
    BY <2>2, <2>3
<1>3. CASE DeqClaim(c)
  <2>1. seq[Slot(tail)] = tail + 1 /\ d = tail
    BY <1>3, <1>h DEF DeqClaim, TryInv, Goto
  <2>2. tail < head
    <3> SUFFICES ASSUME tail = head PROVE FALSE
      BY <1>0, <1>w
    <3>1. seq[Slot(tail)] \in {tail, tail + 1 - Size}
      BY <1>0, <1>w
    <3> QED
      BY <1>0, <2>1, <3>1
  <2>3. /\ pc[c] = "cas" /\ pc' = [pc EXCEPT ![c] = "access"] /\ tail' = tail + 1
        /\ UNCHANGED <<seq, data, head, ticket, made, tmp>>
    BY <1>3 DEF DeqClaim, Goto
  <2>4. RingTypeOK'
    BY <1>0, <1>d, <2>3 DEF RingTypeOK
  <2>5. WindowInv'
    <3>1. Slot(tail + Size) = Slot(tail)
      BY <1>0, Slots
    <3>2. \A t \in head..(tail + Size) : seq[Slot(t)] \in {t, t + 1 - Size}
      <4> TAKE t \in head..(tail + Size)
      <4>1. CASE t = tail + Size
        <5>1. seq[Slot(t)] = tail + 1 /\ tail + 1 = t + 1 - Size
          BY <1>0, <2>1, <3>1, <4>1
        <5> QED
          BY <5>1
      <4>2. CASE t # tail + Size
        BY <1>0, <1>w, <4>2
      <4> QED
        BY <4>1, <4>2
    <3> QED
      BY <1>0, <1>w, <2>2, <2>3, <3>2 DEF WindowInv
  <2>6. HolderInv'
    <3>1. \A q \in Procs : Holds(q)' => q = c \/ (q # c /\ Holds(q))
      BY <1>0, <2>3 DEF Holds
    <3>2. \A q \in Procs : Holds(q) => ticket[q] # tail
      BY <1>0, <1>h, <2>1 DEF HolderInv, Procs
    <3>3. \A q \in Producers : Holds(q)' =>
             ticket'[q] \in tail'..(head' - 1) /\ seq'[Slot(ticket'[q])] = ticket'[q]
      BY <1>0, <1>h, <2>3, <3>1, <3>2 DEF HolderInv
    <3>4. \A q \in Consumers : Holds(q)' =>
             /\ ticket'[q] < tail' /\ head' <= ticket'[q] + Size
             /\ seq'[Slot(ticket'[q])] = ticket'[q] + 1
      BY <1>0, <1>w, <1>h, <2>1, <2>3, <3>1 DEF HolderInv
    <3>5. \A t, q \in Procs : Holds(t)' /\ Holds(q)' /\ ticket'[t] = ticket'[q] => t = q
      BY <1>h, <2>1, <2>3, <3>1, <3>2 DEF HolderInv
    <3> QED
      BY <3>3, <3>4, <3>5 DEF HolderInv
  <2>7. TryInv'
    BY <1>0, <1>h, <2>3 DEF TryInv
  <2> QED
    BY <2>4, <2>5, <2>6, <2>7 DEF RingInv
<1>4. CASE DeqFail(c)
  <2>1. tail <= tail
    BY <1>0
  <2> QED
    BY <1>0, <1>4, <1>d, <1>u, <2>1 DEF DeqFail
<1>5. CASE DeqRead(c)
  <2>1. ticket' = [ticket EXCEPT ![c] = d] /\ DOMAIN tmp' = Consumers
    BY <1>0, <1>5, <1>d DEF DeqRead
  <2> QED
    BY <1>0, <1>5, <1>d, <1>u, <2>1 DEF DeqRead
<1>6. CASE DeqPublish(c)
  <2>1. /\ d < tail /\ head <= d + Size /\ seq[Slot(d)] = d + 1 /\ pc[c] = "publish"
        /\ pc' = [pc EXCEPT ![c] = "load"] /\ ticket' = [ticket EXCEPT ![c] = 0]
        /\ seq' = [seq EXCEPT ![Slot(d)] = d + Size]
        /\ UNCHANGED <<data, head, tail, made, tmp>>
    BY <1>6, <1>h DEF DeqPublish, HolderInv, Holds, Goto, Drop
  <2>2. Slot(d) \in 0..(Size - 1) /\ seq' \in [0..(Size - 1) -> Nat]
    <3>1. Slot(d) \in 0..(Size - 1)
      BY <1>0, Slots
    <3>2. d + Size \in Nat
      BY <1>0
    <3> QED
      BY <1>0, <2>1, <3>1, <3>2
  <2>3. \A t \in Nat : Slot(t) # Slot(d) => seq'[Slot(t)] = seq[Slot(t)]
    BY <1>0, <2>1, <2>2, Slots
  <2>4. seq'[Slot(d)] = d + Size
    BY <1>0, <2>1, <2>2
  <2>5. ASSUME NEW t \in Nat, t # d, t # d + Size, head <= t + Size, t < tail + Size
        PROVE  Slot(t) # Slot(d)
    <3>1. \/ t <= d /\ d < t + Size
          \/ d <= t /\ t < d + Size
          \/ d + Size <= t /\ t < (d + Size) + Size
      BY <1>0, <1>w, <2>1, <2>5
    <3>2. Slot(d + Size) = Slot(d)
      BY <1>0, Slots
    <3>3. d + Size \in Nat
      BY <1>0
    <3> QED
      BY <1>0, <2>5, <3>1, <3>2, <3>3, Slots
  <2>6. RingTypeOK'
    BY <1>0, <1>d, <2>1, <2>2 DEF RingTypeOK
  <2>7. WindowInv'
    <3>1. \A t \in tail..(head - 1) : seq'[Slot(t)] \in {t, t + 1}
      <4> TAKE t \in tail..(head - 1)
      <4>1. t \in Nat /\ head <= t + Size /\ t < tail + Size /\ t # d /\ t # d + Size
        BY <1>0, <1>w, <2>1
      <4> QED
        BY <1>w, <2>3, <2>5, <4>1
    <3>2. \A t \in head..(tail + Size - 1) : seq'[Slot(t)] \in {t, t + 1 - Size}
      <4> TAKE t \in head..(tail + Size - 1)
      <4>1. t \in Nat /\ head <= t + Size /\ t < tail + Size /\ t # d
        BY <1>0, <1>w, <2>1
      <4>2. CASE t = d + Size
        <5>1. Slot(t) = Slot(d)
          BY <1>0, <4>2, Slots
        <5> QED
          BY <2>4, <4>2, <5>1
      <4>3. CASE t # d + Size
        BY <1>w, <2>3, <2>5, <4>1, <4>3
      <4> QED
        BY <4>2, <4>3
    <3> QED
      BY <1>w, <2>1, <3>1, <3>2 DEF WindowInv
  <2>8. HolderInv'
    <3>1. \A q \in Procs : Holds(q)' =>
             q # c /\ Holds(q) /\ ticket'[q] = ticket[q] /\ ticket[q] # d
      <4>1. Holds(c)
        BY <2>1 DEF Holds
      <4> QED
        BY <1>0, <1>h, <2>1, <4>1 DEF HolderInv, Holds
    <3>3. \A q \in Producers : Holds(q)' =>
             /\ ticket'[q] \in tail'..(head' - 1)
             /\ seq'[Slot(ticket'[q])] = ticket'[q]
      <4> SUFFICES ASSUME NEW q \in Producers, Holds(q)'
                   PROVE  /\ ticket'[q] \in tail'..(head' - 1)
                          /\ seq'[Slot(ticket'[q])] = ticket'[q]
        OBVIOUS
      <4>1. /\ ticket'[q] = ticket[q] /\ ticket[q] # d /\ ticket[q] \in Nat
            /\ ticket[q] \in tail..(head - 1) /\ seq[Slot(ticket[q])] = ticket[q]
        BY <1>0, <1>h, <3>1 DEF HolderInv
      <4>2. /\ ticket[q] # d + Size /\ head <= ticket[q] + Size
            /\ ticket[q] < tail + Size
        BY <1>0, <1>w, <2>1, <4>1
      <4> QED
        BY <2>1, <2>3, <2>5, <4>1, <4>2
    <3>4. \A q \in Consumers : Holds(q)' =>
             /\ ticket'[q] < tail' /\ head' <= ticket'[q] + Size
             /\ seq'[Slot(ticket'[q])] = ticket'[q] + 1
      <4> SUFFICES ASSUME NEW q \in Consumers, Holds(q)'
                   PROVE  /\ ticket'[q] < tail' /\ head' <= ticket'[q] + Size
                          /\ seq'[Slot(ticket'[q])] = ticket'[q] + 1
        OBVIOUS
      <4>1. /\ ticket'[q] = ticket[q] /\ ticket[q] # d /\ ticket[q] \in Nat
            /\ ticket[q] < tail /\ head <= ticket[q] + Size
            /\ seq[Slot(ticket[q])] = ticket[q] + 1
        BY <1>0, <1>h, <3>1 DEF HolderInv
      <4>2. ticket[q] < tail + Size /\ ticket[q] # d + Size
        BY <1>0, <1>w, <2>1, <4>1
      <4> QED
        BY <2>1, <2>3, <2>5, <4>1, <4>2
    <3>5. \A t, q \in Procs : Holds(t)' /\ Holds(q)' /\ ticket'[t] = ticket'[q] => t = q
      BY <1>h, <3>1 DEF HolderInv
    <3> QED
      BY <3>3, <3>4, <3>5 DEF HolderInv
  <2>9. seq[Slot(head)] = head => seq'[Slot(head)] = head
    <3>1. CASE head = d + Size
      <4>1. Slot(head) = Slot(d)
        BY <1>0, <3>1, Slots
      <4> QED
        BY <2>4, <3>1, <4>1
    <3>2. CASE head # d + Size
      <4>1. head <= head + Size /\ head < tail + Size /\ head # d
        BY <1>0, <1>w, <2>1, <3>2
      <4> QED
        BY <1>0, <2>3, <2>5, <3>2, <4>1
    <3> QED
      BY <3>1, <3>2
  <2>10. seq[Slot(tail)] = tail + 1 => seq'[Slot(tail)] = tail + 1
    <3>1. CASE tail = d + Size
      <4>1. Slot(tail) = Slot(d)
        BY <1>0, <3>1, Slots
      <4> QED
        BY <1>0, <2>1, <3>1, <4>1
    <3>2. CASE tail # d + Size
      <4>1. head <= tail + Size /\ tail < tail + Size /\ tail # d
        BY <1>0, <1>w, <2>1
      <4> QED
        BY <1>0, <2>3, <2>5, <3>2, <4>1
    <3> QED
      BY <3>1, <3>2
  <2>11. TryInv'
    BY <1>0, <1>h, <2>1, <2>9, <2>10 DEF TryInv
  <2> QED
    BY <2>6, <2>7, <2>8, <2>11 DEF RingInv
<1> QED
  BY <1>1, <1>2, <1>3, <1>4, <1>5, <1>6 DEF dequeue

\* Threads that have claimed tickets use different slots.
LEMMA HoldersApart ==
  RingInv => \A p, q \in Procs :
                Holds(p) /\ Holds(q) /\ Slot(ticket[p]) = Slot(ticket[q]) => p = q
<1> SUFFICES ASSUME RingInv, NEW p \in Procs, NEW q \in Procs,
                    Holds(p), Holds(q), Slot(ticket[p]) = Slot(ticket[q])
             PROVE  p = q
  OBVIOUS
<1>0. Size \in Nat /\ head \in Nat /\ tail \in Nat /\ ticket[p] \in Nat /\ ticket[q] \in Nat
  BY SizeAssumption DEF RingInv, RingTypeOK
<1>1. \A t \in Procs : Holds(t) => ticket[t] < head /\ head <= ticket[t] + Size
  <2> SUFFICES ASSUME NEW t \in Procs, Holds(t)
               PROVE  ticket[t] < head /\ head <= ticket[t] + Size
    OBVIOUS
  <2>0. ticket[t] \in Nat
    BY DEF RingInv, RingTypeOK
  <2> QED
    BY <1>0, <2>0 DEF RingInv, WindowInv, HolderInv, Procs
<1>2. /\ ticket[p] < head /\ head <= ticket[p] + Size
      /\ ticket[q] < head /\ head <= ticket[q] + Size
  BY <1>1
<1>3. \/ ticket[p] <= ticket[q] /\ ticket[q] < ticket[p] + Size
      \/ ticket[q] <= ticket[p] /\ ticket[p] < ticket[q] + Size
  BY <1>0, <1>2
<1>4. ticket[p] = ticket[q]
  BY <1>0, <1>3, Slots
<1> QED
  BY <1>4 DEF RingInv, HolderInv

\* What a ticket stands for: the value its producer is about to write ...
ItemsClaimed ==
  \A p \in Producers : pc[p] = "access" => Item(ticket[p]) = <<p, made[p] - 1>>

LEMMA ItemClaimed == RingInv => ItemsClaimed
<1> SUFFICES ASSUME RingInv, NEW p \in Producers, pc[p] = "access"
             PROVE  Item(ticket[p]) = <<p, made[p] - 1>>
  BY DEF ItemsClaimed
<1>1. \A q \in Producers : pc[q] = "access" /\ ticket[q] = ticket[p] => q = p
  BY DEF RingInv, HolderInv, Holds, Procs
<1>2. (CHOOSE q \in Producers : pc[q] = "access" /\ ticket[q] = ticket[p]) = p
  BY <1>1
<1> QED
  BY <1>2 DEF Item

\* ... or else what its slot holds.
LEMMA ItemWritten ==
  \A t : (\A p \in Producers : ~(pc[p] = "access" /\ ticket[p] = t)) => Item(t) = data[Slot(t)]
BY DEF Item

\* No two threads access the data of a slot at once.
LEMMA RingRaceFree == RingInv => NoDataRace
BY HoldersApart DEF NoDataRace, Holds

\* The steps that claim no ticket and leave the items alone.
LEMMA RingStutter ==
  ASSUME RingInv, RingInv', UNCHANGED <<head, tail, made>>,
         \A p \in Producers : pc'[p] = "access" => pc[p] = "access" /\ ticket'[p] = ticket[p],
         \A p \in Producers : pc[p] = "access" =>
            \/ pc'[p] = "access"
            \/ data'[Slot(ticket[p])] = <<p, made[p] - 1>>,
         \A t \in tail..(head - 1) :
            (\A p \in Producers : ~(pc[p] = "access" /\ ticket[p] = t)) =>
               data'[Slot(t)] = data[Slot(t)]
  PROVE  Contents' = Contents
<1>1. ASSUME NEW t \in tail..(head - 1) PROVE Item(t)' = Item(t)
  <2>1. CASE \E p \in Producers : pc[p] = "access" /\ ticket[p] = t
    <3>1. PICK p \in Producers : pc[p] = "access" /\ ticket[p] = t
      BY <2>1
    <3>2. Item(t) = <<p, made[p] - 1>>
      BY <3>1, ItemClaimed DEF ItemsClaimed
    <3>3. CASE pc'[p] = "access"
      <4>1. Item(ticket[p])' = <<p, made'[p] - 1>>
        <5>1. ItemsClaimed'
          BY ItemClaimed, PTL
        <5> QED
          BY <3>3, <5>1 DEF ItemsClaimed
      <4> QED
        BY <3>1, <3>2, <3>3, <4>1
    <3>4. CASE pc'[p] # "access"
      <4>1. \A q \in Producers : ~(pc'[q] = "access" /\ ticket'[q] = t)
        BY <3>1, <3>4 DEF RingInv, HolderInv, Holds, Procs
      <4>2. Item(t)' = data'[Slot(t)]
        BY <4>1 DEF Item, Slot
      <4> QED
        BY <3>1, <3>2, <3>4, <4>2
    <3> QED
      BY <3>3, <3>4
  <2>2. CASE ~ \E p \in Producers : pc[p] = "access" /\ ticket[p] = t
    <3>1. Item(t) = data[Slot(t)]
      BY <2>2, ItemWritten
    <3>2. \A p \in Producers : ~(pc'[p] = "access" /\ ticket'[p] = t)
      BY <2>2
    <3>3. Item(t)' = data'[Slot(t)]
      BY <3>2 DEF Item, Slot
    <3> QED
      BY <2>2, <3>1, <3>3
  <2> QED
    BY <2>1, <2>2
<1>2. head \in Nat /\ tail \in Nat
  BY DEF RingInv, RingTypeOK
<1>3. \A i \in 1..(head - tail) : tail + i - 1 \in tail..(head - 1)
  BY <1>2
<1> QED
  BY <1>1, <1>3 DEF Contents

\* the steps that claim no ticket
RingInside(t) ==
    \/ t \in Producers /\ (EnqLoad(t) \/ EnqSeq(t) \/ EnqFail(t) \/ EnqWrite(t) \/ EnqPublish(t))
    \/ t \in Consumers /\ (DeqLoad(t) \/ DeqSeq(t) \/ DeqFail(t) \/ DeqRead(t) \/ DeqPublish(t))

\* Every step of the ring buffer is a step of the queue its tickets stand for:
\* the exchange that claims a ticket puts or takes an item.
LEMMA RingLinear ==
  ASSUME RingInv, RingInv', Ring, Ring', NEW t \in Procs, Step(t)
  PROVE  \/ t \in Producers /\ EnqClaim(t) /\ Fifo!Put(t)
         \/ t \in Consumers /\ DeqClaim(t) /\ Fifo!Get(t)
         \/ RingInside(t) /\ UNCHANGED <<Contents, made, Taken>>
<1> DEFINE e == ticket[t]
<1>0. /\ Size \in Nat /\ Size > 1 /\ head \in Nat /\ tail \in Nat /\ e \in Nat
      /\ Loops \in Nat
      /\ \A u \in Procs : ticket[u] \in Nat
      /\ Producers \subseteq Procs /\ Consumers \subseteq Procs
      /\ \A p \in Producers : p \notin Consumers
      /\ pc \in [Procs -> {"load", "seq", "cas", "reload", "access", "publish"}]
      /\ ticket \in [Procs -> Nat] /\ made \in [Producers -> Nat]
      /\ DOMAIN data = 0..(Size - 1) /\ DOMAIN tmp = Consumers
      /\ tail <= head /\ head <= tail + Size
  BY SizeAssumption, LoopsAssumption, NodesAssumption
     DEF Procs, RingInv, RingTypeOK, WindowInv
<1>c. /\ DOMAIN Contents = 1..(head - tail)
      /\ Contents = [i \in DOMAIN Contents |-> Contents[i]]
      /\ \A i \in 1..(head - tail) : Contents[i] = Item(tail + i - 1)
  BY DEF Contents
<1>d. /\ DOMAIN Contents' = 1..(head' - tail')
      /\ Contents' = [i \in DOMAIN Contents' |-> Contents'[i]]
      /\ \A i \in 1..(head' - tail') : \A u : u = tail' + i - 1 => Contents'[i] = Item(u)'
  <2> DEFINE I(i) == Item(tail + i - 1)
  <2>1. Contents = [i \in 1..(head - tail) |-> I(i)]
    BY DEF Contents
  <2>2. Contents' = [i \in 1..(head' - tail') |-> I(i)']
    BY DEF Contents
  <2>3. \A i, u : u = tail' + i - 1 => I(i)' = Item(u)'
    BY DEF Item, Slot
  <2> HIDE DEF I
  <2> QED
    BY <2>2, <2>3
\* the steps of a thread that does not access a slot before or after
<1>s. ASSUME UNCHANGED <<head, tail, made, data, tmp>>,
             \A u \in Procs : pc'[u] = "access" <=> pc[u] = "access",
             \A u \in Procs : pc[u] = "access" => ticket'[u] = ticket[u]
      PROVE  UNCHANGED <<Contents, made, Taken>>
  <2>1. Contents' = Contents
    BY <1>0, <1>s, RingStutter
  <2>2. \A c \in Consumers : Taken'[c] = Taken[c]
    BY <1>0, <1>s DEF Taken, Slot
  <2>3. Taken' = Taken
    BY <2>2 DEF Taken
  <2> QED
    BY <1>s, <2>1, <2>3
<1>1. CASE t \in Producers /\ enqueue(t)
  <2>1. CASE EnqLoad(t) \/ EnqSeq(t) \/ EnqFail(t) \/ EnqPublish(t)
    <3>1. UNCHANGED <<Contents, made, Taken>>
      BY <1>0, <1>s, <2>1 DEF EnqLoad, EnqSeq, EnqFail, EnqPublish, Goto, Drop
    <3> QED
      BY <1>1, <2>1, <3>1 DEF RingInside
  <2>2. CASE EnqWrite(t)
    <3>1. /\ pc[t] = "access" /\ pc' = [pc EXCEPT ![t] = "publish"]
          /\ data' = [data EXCEPT ![Slot(e)] = <<t, made[t] - 1>>]
          /\ UNCHANGED <<head, tail, made, ticket, tmp>>
      BY <2>2 DEF EnqWrite, Goto
    <3>2. Slot(e) \in 0..(Size - 1)
      BY <1>0, Slots
    <3>3. data'[Slot(e)] = <<t, made[t] - 1>>
      BY <1>0, <3>1, <3>2
    <3>4. \A u \in Nat : Slot(u) # Slot(e) => data'[Slot(u)] = data[Slot(u)]
      BY <3>1
    <3>5. \A u \in tail..(head - 1) : u # e => Slot(u) # Slot(e)
      <4> TAKE u \in tail..(head - 1)
      <4>1. e \in tail..(head - 1)
        BY <1>1, <3>1 DEF RingInv, HolderInv, Holds
      <4>2. (u <= e /\ e < u + Size) \/ (e <= u /\ u < e + Size)
        BY <1>0, <4>1
      <4>3. u \in Nat
        BY <1>0
      <4> QED
        BY <1>0, <4>2, <4>3, Slots
    <3>6. Contents' = Contents
      BY <1>0, <1>1, <3>1, <3>3, <3>4, <3>5, RingStutter
    <3>7. \A c \in Consumers : Taken'[c] = Taken[c]
      <4> TAKE c \in Consumers
      <4>1. pc[c] = "access" => Slot(ticket[c]) # Slot(e)
        BY <1>0, <1>1, <3>1, HoldersApart DEF Holds
      <4> QED
        BY <1>0, <1>1, <3>1, <3>4, <4>1 DEF Taken, Slot
    <3>8. Taken' = Taken
      BY <3>7 DEF Taken
    <3> QED
      BY <1>1, <2>2, <3>1, <3>6, <3>8 DEF RingInside
  <2>3. CASE EnqClaim(t)
    <3>1. /\ pc[t] = "cas" /\ pc' = [pc EXCEPT ![t] = "access"] /\ e = head
          /\ head' = head + 1 /\ made' = [made EXCEPT ![t] = @ + 1]
          /\ UNCHANGED <<data, tail, ticket, tmp>>
      BY <2>3 DEF EnqClaim, Goto
    <3>2. made[t] < Loops /\ made[t] \in Nat
      BY <1>0, <1>1, <3>1 DEF RingInv, TryInv
    <3>3. head < tail + Size
      BY <1>0, <3>1 DEF RingInv, WindowInv
    <3>4. \A u \in tail..(head - 1) : Item(u)' = Item(u)
      <4> TAKE u \in tail..(head - 1)
      <4>1. CASE \E p \in Producers : pc[p] = "access" /\ ticket[p] = u
        <5>1. PICK p \in Producers : pc[p] = "access" /\ ticket[p] = u
          BY <4>1
        <5>2. Item(u) = <<p, made[p] - 1>>
          BY <5>1, ItemClaimed DEF ItemsClaimed
        <5>3. p # t /\ pc'[p] = "access" /\ ticket'[p] = u /\ made'[p] = made[p]
          BY <1>0, <3>1, <5>1
        <5>4. ItemsClaimed'
          BY ItemClaimed, PTL
        <5>5. Item(ticket[p])' = <<p, made'[p] - 1>>
          BY <5>3, <5>4 DEF ItemsClaimed
        <5> QED
          BY <5>2, <5>3, <5>5
      <4>2. CASE ~ \E p \in Producers : pc[p] = "access" /\ ticket[p] = u
        <5>1. u # head
          BY <1>0
        <5>2. \A p \in Producers : ~(pc'[p] = "access" /\ ticket'[p] = u)
          BY <1>0, <3>1, <4>2, <5>1
        <5> QED
          BY <3>1, <4>2, <5>2 DEF Item, Slot
      <4> QED
        BY <4>1, <4>2
    <3>5. \A u : u = head => Item(u)' = <<t, made[t]>>
      <4>1. ItemsClaimed'
        BY ItemClaimed, PTL
      <4>2. pc'[t] = "access" /\ ticket'[t] = head /\ made'[t] = made[t] + 1
        BY <1>0, <1>1, <3>1
      <4>3. Item(ticket[t])' = <<t, made'[t] - 1>>
        BY <1>1, <4>1, <4>2 DEF ItemsClaimed
      <4>4. made'[t] - 1 = made[t]
        BY <3>2, <4>2
      <4>5. \A u : u = ticket'[t] => Item(u)' = Item(ticket[t])'
        BY DEF Item, Slot
      <4> QED
        BY <4>2, <4>3, <4>4, <4>5
    <3> DEFINE k == head - tail
    <3>6. k \in Nat /\ head' - tail' = k + 1
      BY <1>0, <3>1
    <3>7. \A i \in 1..k : Contents'[i] = Contents[i]
      <4> TAKE i \in 1..k
      <4>1. /\ i \in 1..(head - tail) /\ i \in 1..(head' - tail')
            /\ tail + i - 1 \in tail..(head - 1)
        BY <1>0, <3>6
      <4>2. Contents[i] = Item(tail + i - 1)
        BY <1>c, <4>1
      <4>3. PICK u : u = tail + i - 1
        OBVIOUS
      <4>4. Contents'[i] = Item(u)'
        BY <1>d, <3>1, <4>1, <4>3
      <4> QED
        BY <3>4, <4>1, <4>2, <4>3, <4>4
    <3>8. Contents'[k + 1] = <<t, made[t]>>
      <4>1. k + 1 \in 1..(head' - tail') /\ tail + (k + 1) - 1 = head
        BY <1>0, <3>6
      <4> QED
        BY <1>d, <3>1, <3>5, <4>1
    <3>9. DOMAIN Contents = 1..k /\ DOMAIN Contents' = 1..(k + 1)
      BY <1>c, <1>d, <3>6
    <3> HIDE DEF k
    <3>10. Contents' = Append(Contents, <<t, made[t]>>) /\ Len(Contents) = k
      BY <1>c, <1>d, <3>6, <3>7, <3>8, <3>9, SeqPut, SeqOf
    <3>11. k < Size
      BY <1>0, <3>3 DEF k
    <3>12. Taken' = Taken
      BY <1>0, <1>1, <3>1 DEF Taken, Slot
    <3>13. Fifo!Value(t, made[t]) = <<t, made[t]>> /\ made[t] < Loops + 0
      BY <1>0, <3>2 DEF Fifo!Value
    <3>14. Fifo!Put(t)
      BY <3>1, <3>10, <3>11, <3>12, <3>13, Ring, Ring' DEF Fifo!Put
    <3> QED
      BY <1>1, <2>3, <3>14
  <2> QED
    BY <1>1, <2>1, <2>2, <2>3 DEF enqueue
<1>2. CASE t \in Consumers /\ dequeue(t)
  <2>1. CASE DeqLoad(t) \/ DeqSeq(t) \/ DeqFail(t) \/ DeqPublish(t)
    <3>1. UNCHANGED <<Contents, made, Taken>>
      BY <1>0, <1>s, <2>1 DEF DeqLoad, DeqSeq, DeqFail, DeqPublish, Goto, Drop
    <3> QED
      BY <1>2, <2>1, <3>1 DEF RingInside
  <2>2. CASE DeqRead(t)
    <3>1. /\ pc[t] = "access" /\ pc' = [pc EXCEPT ![t] = "publish"]
          /\ tmp' = [tmp EXCEPT ![t] = data[Slot(e)]]
          /\ UNCHANGED <<head, tail, made, ticket, data>>
      BY <2>2 DEF DeqRead, Goto
    <3>2. \A p \in Producers : pc'[p] = pc[p]
      BY <1>0, <1>2, <3>1
    <3>3. Contents' = Contents
      BY <3>1, <3>2, RingStutter
    <3>4. \A c \in Consumers : Taken'[c] = Taken[c]
      BY <1>0, <1>2, <3>1 DEF Taken, Slot
    <3>5. Taken' = Taken
      BY <3>4 DEF Taken
    <3> QED
      BY <1>2, <2>2, <3>1, <3>3, <3>5 DEF RingInside
  <2>3. CASE DeqClaim(t)
    <3>1. /\ pc[t] = "cas" /\ pc' = [pc EXCEPT ![t] = "access"] /\ e = tail
          /\ tail' = tail + 1 /\ UNCHANGED <<data, head, ticket, tmp, made>>
      BY <2>3 DEF DeqClaim, Goto
    <3>2. tail < head
      BY <1>0, <3>1 DEF RingInv, WindowInv
    <3>3. seq[Slot(tail)] = tail + 1
      BY <1>2, <3>1 DEF RingInv, TryInv
    <3>4. Item(tail) = data[Slot(tail)]
      <4>1. \A p \in Producers : ~(pc[p] = "access" /\ ticket[p] = tail)
        BY <1>0, <3>3 DEF RingInv, HolderInv, Holds
      <4> QED
        BY <4>1, ItemWritten
    <3>5. \A u : Item(u)' = Item(u)
      <4> TAKE u
      <4>1. \A p \in Producers : pc'[p] = pc[p]
        BY <1>0, <1>2, <3>1
      <4> QED
        BY <3>1, <4>1 DEF Item, Slot
    <3> DEFINE k == head - tail
    <3>6. k \in Nat \ {0} /\ head' - tail' = k - 1
      BY <1>0, <3>1, <3>2
    <3>7. \A i \in 1..(k - 1) : Contents'[i] = Contents[i + 1]
      <4> TAKE i \in 1..(k - 1)
      <4>1. /\ i + 1 \in 1..(head - tail) /\ i \in 1..(head' - tail')
            /\ tail + (i + 1) - 1 = (tail + 1) + i - 1
        BY <1>0, <3>6
      <4>2. PICK u : u = tail + (i + 1) - 1
        OBVIOUS
      <4>3. Contents[i + 1] = Item(u)
        BY <1>c, <4>1, <4>2
      <4>4. Contents'[i] = Item(u)'
        BY <1>d, <3>1, <4>1, <4>2
      <4> QED
        BY <3>5, <4>3, <4>4
    <3>8. Contents[1] = data[Slot(tail)]
      <4>1. 1 \in 1..(head - tail) /\ tail + 1 - 1 = tail
        BY <1>0, <3>2
      <4> QED
        BY <1>c, <3>4, <4>1
    <3>9. DOMAIN Contents = 1..k /\ DOMAIN Contents' = 1..(k - 1)
      BY <1>c, <1>d, <3>6
    <3> HIDE DEF k
    <3>10. Contents # <<>> /\ Head(Contents) = Contents[1] /\ Tail(Contents) = Contents'
      BY <1>c, <1>d, <3>6, <3>7, <3>9, SeqGet
    <3>11. Taken' = [Taken EXCEPT ![t] = Head(Contents)]
      <4>1. \A c \in Consumers : c # t => Taken'[c] = Taken[c]
        BY <1>0, <3>1 DEF Taken, Slot
      <4>2. Taken'[t] = data[Slot(tail)]
        BY <1>0, <1>2, <3>1 DEF Taken, Slot
      <4>3. DOMAIN Taken = Consumers
        BY DEF Taken
      <4>4. Taken' = [c \in Consumers |-> Taken'[c]]
        BY DEF Taken
      <4> QED
        BY <1>2, <3>8, <3>10, <4>1, <4>2, <4>3, <4>4
    <3>12. Fifo!Get(t)
      BY <3>1, <3>10, <3>11, Ring, Ring' DEF Fifo!Get
    <3> QED
      BY <1>2, <2>3, <3>12
  <2> QED
    BY <1>2, <2>1, <2>2, <2>3 DEF dequeue
<1> QED
  BY <1>1, <1>2 DEF Step

\* the seq of a slot is past the tickets that were taken, and a ticket whose
\* slot was not published has a producer
RingPast == /\ \A u \in 0..(tail - 1) : seq[Slot(u)] > u
            /\ \A u \in tail..(head - 1) : seq[Slot(u)] = u =>
                  \E p \in Producers : Holds(p) /\ ticket[p] = u

\* No ticket was claimed in the beginning.
LEMMA RingPastInit == Init => RingPast
BY DEF Init, RingPast

\* Every step keeps it: a seq only grows.
LEMMA RingPastStep ==
  ASSUME RingInv, RingPast, NEW t \in Procs, Step(t)
  PROVE  RingPast'
<1> DEFINE e == ticket[t]
<1>0. /\ Size \in Nat /\ Size > 1 /\ head \in Nat /\ tail \in Nat /\ e \in Nat
      /\ Producers \subseteq Procs /\ Consumers \subseteq Procs
      /\ \A p \in Producers : p \notin Consumers
      /\ pc \in [Procs -> {"load", "seq", "cas", "reload", "access", "publish"}]
      /\ ticket \in [Procs -> Nat] /\ seq \in [0..(Size - 1) -> Nat]
      /\ tail <= head /\ head <= tail + Size
  BY SizeAssumption, NodesAssumption DEF Procs, RingInv, RingTypeOK, WindowInv
<1>p. /\ \A u \in 0..(tail - 1) : seq[Slot(u)] > u
      /\ \A u \in tail..(head - 1) : seq[Slot(u)] = u =>
            \E p \in Producers : Holds(p) /\ ticket[p] = u
  BY DEF RingPast
<1>1. ASSUME UNCHANGED <<seq, head, tail>>,
             \A p \in Producers : Holds(p) => Holds(p)' /\ ticket'[p] = ticket[p]
      PROVE  RingPast'
  BY <1>p, <1>1 DEF RingPast, Slot
<1>2. CASE t \in Producers /\ (EnqLoad(t) \/ EnqSeq(t) \/ EnqFail(t) \/ EnqWrite(t))
  BY <1>0, <1>1, <1>2 DEF EnqLoad, EnqSeq, EnqFail, EnqWrite, Goto, Drop, Holds
<1>3. CASE t \in Consumers /\ (DeqLoad(t) \/ DeqSeq(t) \/ DeqFail(t) \/ DeqRead(t))
  BY <1>0, <1>1, <1>3 DEF DeqLoad, DeqSeq, DeqFail, DeqRead, Goto, Drop, Holds
<1>4. CASE t \in Producers /\ EnqClaim(t)
  <2>1. /\ e = head /\ head' = head + 1 /\ UNCHANGED <<seq, tail, ticket>> /\ Holds(t)'
        /\ \A p \in Producers : Holds(p) => Holds(p)'
    BY <1>0, <1>4 DEF EnqClaim, Goto, Holds
  <2>2. \A u \in tail'..(head' - 1) : u = e \/ u \in tail..(head - 1)
    BY <1>0, <2>1
  <2> QED
    BY <1>p, <1>4, <2>1, <2>2 DEF RingPast, Slot
<1>5. CASE t \in Consumers /\ DeqClaim(t)
  <2>1. /\ e = tail /\ tail' = tail + 1 /\ UNCHANGED <<seq, head, ticket>>
        /\ seq[Slot(tail)] = tail + 1
        /\ \A p \in Producers : Holds(p) => Holds(p)'
    BY <1>0, <1>5 DEF DeqClaim, Goto, Holds, RingInv, TryInv
  <2>2. /\ \A u \in 0..(tail' - 1) : u = tail \/ u \in 0..(tail - 1)
        /\ \A u \in tail'..(head' - 1) : u \in tail..(head - 1)
        /\ tail + 1 > tail
    BY <1>0, <2>1
  <2> QED
    BY <1>p, <2>1, <2>2 DEF RingPast, Slot
\* a slot is published
<1>6. ASSUME UNCHANGED <<head, tail>>, NEW n \in Nat, n > seq[Slot(e)],
             seq' = [seq EXCEPT ![Slot(e)] = n],
             \A u \in tail..(head - 1) : Slot(u) = Slot(e) => n # u,
             \A p \in Producers : Holds(p) /\ Slot(ticket[p]) # Slot(e) =>
                Holds(p)' /\ ticket'[p] = ticket[p]
      PROVE  RingPast'
  <2>1. Slot(e) \in 0..(Size - 1) /\ \A u \in Nat : Slot(u) \in 0..(Size - 1)
    BY <1>0, Slots
  <2>2. \A u \in Nat : seq'[Slot(u)] = IF Slot(u) = Slot(e) THEN n ELSE seq[Slot(u)]
    BY <1>0, <1>6, <2>1
  <2>3. \A u \in 0..(tail - 1) : seq'[Slot(u)] > u
    <3> TAKE u \in 0..(tail - 1)
    <3>0. u \in Nat
      BY <1>0
    <3>1. seq[Slot(u)] \in Nat /\ seq[Slot(u)] > u
      BY <1>0, <1>p, <2>1, <3>0
    <3>2. CASE Slot(u) = Slot(e)
      BY <1>6, <2>2, <3>0, <3>1, <3>2
    <3>3. CASE Slot(u) # Slot(e)
      BY <2>2, <3>0, <3>1, <3>3
    <3> QED
      BY <3>2, <3>3
  <2>4. \A u \in tail..(head - 1) : seq'[Slot(u)] = u =>
           \E p \in Producers : Holds(p)' /\ ticket'[p] = u
    <3> SUFFICES ASSUME NEW u \in tail..(head - 1), seq'[Slot(u)] = u
                 PROVE  \E p \in Producers : Holds(p)' /\ ticket'[p] = u
      OBVIOUS
    <3>1. u \in Nat
      BY <1>0
    <3>2. Slot(u) # Slot(e) /\ seq[Slot(u)] = u
      BY <1>6, <2>2, <3>1
    <3> QED
      BY <1>p, <1>6, <3>2
  <2> QED
    BY <1>6, <2>3, <2>4 DEF RingPast, Slot
<1>7. CASE t \in Producers /\ EnqPublish(t)
  <2>1. /\ e \in tail..(head - 1) /\ seq[Slot(e)] = e /\ Holds(t)
        /\ seq' = [seq EXCEPT ![Slot(e)] = e + 1]
        /\ UNCHANGED <<head, tail>>
        /\ \A p \in Producers : p # t => (Holds(p) => Holds(p)' /\ ticket'[p] = ticket[p])
    BY <1>0, <1>7 DEF EnqPublish, Goto, Drop, Holds, RingInv, HolderInv
  <2>2. \A u \in tail..(head - 1) : Slot(u) = Slot(e) => e + 1 # u
    <3> SUFFICES ASSUME NEW u \in tail..(head - 1), Slot(u) = Slot(e), e + 1 = u PROVE FALSE
      OBVIOUS
    <3>1. u \in Nat /\ e <= u /\ u < e + Size /\ u # e
      BY <1>0
    <3> QED
      BY <1>0, <3>1, Slots
  <2>3. e + 1 \in Nat /\ e + 1 > seq[Slot(e)]
    BY <1>0, <2>1
  <2> QED
    BY <1>6, <2>1, <2>2, <2>3
<1>8. CASE t \in Consumers /\ DeqPublish(t)
  <2>1. /\ e < tail /\ head <= e + Size /\ seq[Slot(e)] = e + 1 /\ Holds(t)
        /\ seq' = [seq EXCEPT ![Slot(e)] = e + Size]
        /\ UNCHANGED <<head, tail>>
        /\ \A p \in Producers : p # t /\ (Holds(p) => Holds(p)' /\ ticket'[p] = ticket[p])
    BY <1>0, <1>8 DEF DeqPublish, Goto, Drop, Holds, RingInv, HolderInv
  <2>2. \A u \in tail..(head - 1) : Slot(u) = Slot(e) => e + Size # u
    BY <1>0, <2>1
  <2>3. e + Size \in Nat /\ e + Size > seq[Slot(e)]
    BY <1>0, <2>1
  <2> QED
    BY <1>6, <2>1, <2>2, <2>3
<1> QED
  BY <1>2, <1>3, <1>4, <1>5, <1>7, <1>8 DEF Step, enqueue, dequeue

\* Every answer of dequeue is one of the queue: false only when there is no
\* item, or the first is not published yet.
LEMMA RingTries ==
  ASSUME RingInv, RingInv', RingPast, Ring, Ring', DOMAIN calls = Consumers,
         NEW t \in Procs, Step(t)
  PROVE  Fifo!TryNext \/ UNCHANGED <<Contents, made, Taken, Claimed, Answers>>
<1> DEFINE e == ticket[t]
<1>0. /\ head \in Nat /\ tail \in Nat /\ e \in Nat /\ Size \in Nat
      /\ Producers \subseteq Procs /\ Consumers \subseteq Procs
      /\ \A p \in Producers : p \notin Consumers
      /\ pc \in [Procs -> {"load", "seq", "cas", "reload", "access", "publish"}]
      /\ ticket \in [Procs -> Nat]
      /\ tail <= head
  BY SizeAssumption, NodesAssumption DEF Procs, RingInv, RingTypeOK, WindowInv
<1>c. /\ \A i : i \in Claimed <=> \E p \in Producers : Holds(p) /\ i = ticket[p] - tail + 1
      /\ \A i : i \in Claimed' <=> \E p \in Producers : Holds(p)' /\ i = ticket'[p] - tail' + 1
  BY DEF Claimed, Holds
<1>a. /\ Answers = [c \in Consumers |-> IF Holds(c) THEN calls[c] + 1 ELSE calls[c]]
      /\ Answers' = [c \in Consumers |-> IF Holds(c)' THEN calls'[c] + 1 ELSE calls'[c]]
  BY DEF Answers, Holds
\* the steps that claim and publish nothing, and do not return
<1>s. ASSUME UNCHANGED <<tail, calls>>,
             \A u \in Procs : Holds(u)' <=> Holds(u),
             \A u \in Procs : Holds(u) => ticket'[u] = ticket[u]
      PROVE  UNCHANGED <<Claimed, Answers>>
  <2>1. Claimed' = Claimed
    BY <1>0, <1>c, <1>s
  <2>2. Answers' = Answers
    BY <1>0, <1>a, <1>s
  <2> QED
    BY <2>1, <2>2
<1>1. CASE t \in Producers /\ EnqClaim(t) /\ Fifo!Put(t)
  <2>1. /\ e = head /\ UNCHANGED <<tail, ticket, calls>> /\ Holds(t)' /\ ~Holds(t)
        /\ \A u \in Procs : u # t => (Holds(u)' <=> Holds(u))
    BY <1>0, <1>1 DEF EnqClaim, Goto, Holds
  <2>2. Len(Contents) = head - tail
    <3>1. /\ head - tail \in Nat /\ DOMAIN Contents = 1..(head - tail)
          /\ Contents = [i \in DOMAIN Contents |-> Contents[i]]
      BY <1>0 DEF Contents
    <3> QED
      BY <3>1, SeqOf
  <2>3. Claimed' = Claimed \cup {Len(Contents) + 1}
    BY <1>0, <1>1, <1>c, <2>1, <2>2
  <2>4. Answers' = Answers
    BY <1>0, <1>1, <1>a, <2>1
  <2>5. Fifo!TryPut(t)
    BY <1>1, <2>3, <2>4 DEF Fifo!TryPut
  <2> QED
    BY <1>1, <2>5 DEF Fifo!TryNext
<1>2. CASE t \in Consumers /\ DeqClaim(t) /\ Fifo!Get(t)
  <2>1. /\ e = tail /\ tail' = tail + 1 /\ UNCHANGED <<ticket, calls>> /\ Holds(t)' /\ ~Holds(t)
        /\ seq[Slot(tail)] = tail + 1
        /\ \A u \in Procs : u # t => (Holds(u)' <=> Holds(u))
    BY <1>0, <1>2 DEF DeqClaim, Goto, Holds, RingInv, TryInv
  <2>2. \A p \in Producers : Holds(p) => ticket[p] \in Nat /\ ticket[p] # tail
    BY <1>0, <2>1 DEF RingInv, HolderInv
  <2>3. 1 \notin Claimed
    BY <1>0, <1>c, <2>2
  <2>4. \A p \in Producers : (Holds(p)' <=> Holds(p)) /\ ticket'[p] = ticket[p]
    BY <1>0, <1>2, <2>1
  <2>5. Claimed' = {i - 1 : i \in Claimed}
    <3>1. \A p \in Producers : ticket[p] \in Nat
      BY <1>0
    <3>2. \A p \in Producers : ticket'[p] - tail' + 1 = (ticket[p] - tail + 1) - 1
      BY <1>0, <2>1, <2>4, <3>1
    <3>3. \A x : x \in Claimed' <=> \E i \in Claimed : x = i - 1
      BY <1>c, <2>4, <3>2
    <3> QED
      BY <3>3
  <2>6. Answers' = [Answers EXCEPT ![t] = @ + 1]
    BY <1>0, <1>2, <1>a, <2>1
  <2>7. Fifo!TryGet(t)
    BY <1>2, <2>3, <2>5, <2>6 DEF Fifo!TryGet
  <2> QED
    BY <1>2, <2>7 DEF Fifo!TryNext
<1>3. CASE RingInside(t) /\ UNCHANGED <<Contents, made, Taken>>
  <2>1. CASE \/ t \in Producers /\ (EnqLoad(t) \/ EnqSeq(t) \/ EnqFail(t) \/ EnqWrite(t))
             \/ t \in Consumers /\ (DeqLoad(t) \/ DeqFail(t) \/ DeqRead(t))
    <3>1. UNCHANGED <<Claimed, Answers>>
      BY <1>0, <1>s, <2>1
      DEF EnqLoad, EnqSeq, EnqFail, EnqWrite, DeqLoad, DeqFail, DeqRead, Goto, Drop, Holds
    <3> QED
      BY <1>3, <3>1
  <2>2. CASE t \in Producers /\ EnqPublish(t)
    <3>1. /\ UNCHANGED <<tail, calls>> /\ Holds(t) /\ ~Holds(t)'
          /\ \A u \in Procs : u # t => (Holds(u)' <=> Holds(u)) /\ ticket'[u] = ticket[u]
      BY <1>0, <2>2 DEF EnqPublish, Goto, Drop, Holds
    <3>2. \A p \in Producers : Holds(p) /\ p # t => ticket[p] \in Nat /\ ticket[p] # e
      BY <1>0, <3>1 DEF RingInv, HolderInv
    <3>3. e - tail + 1 \in Claimed /\ Claimed' = Claimed \ {e - tail + 1}
      BY <1>0, <1>c, <2>2, <3>1, <3>2
    <3>4. Answers' = Answers
      BY <1>0, <1>a, <2>2, <3>1
    <3>5. Fifo!Return
      BY <1>3, <3>3, <3>4, Ring, Ring' DEF Fifo!Return, Fifo!vars
    <3> QED
      BY <3>5 DEF Fifo!TryNext
  <2>3. CASE t \in Consumers /\ DeqSeq(t) /\ Dif(t) < 0
    <3>1. /\ seq[Slot(e)] < e + 1 /\ pc[t] = "seq" /\ UNCHANGED tail
          /\ ~Holds(t) /\ ~Holds(t)' /\ calls' = [calls EXCEPT ![t] = @ + 1]
          /\ \A u \in Procs : u # t => (Holds(u)' <=> Holds(u)) /\ ticket'[u] = ticket[u]
      <4>1. seq[Slot(e)] \in Nat
        BY <1>0, Slots DEF RingInv, RingTypeOK
      <4>2. Dif(t) \in Int
        BY <1>0, <4>1 DEF Dif
      <4>3. pc[t] = "seq" /\ calls' = [calls EXCEPT ![t] = @ + 1]
        BY <2>3, <4>2 DEF DeqSeq, Goto
      <4>4. seq[Slot(e)] < e + 1
        BY <1>0, <2>3, <4>1 DEF Dif
      <4> QED
        BY <1>0, <2>3, <4>3, <4>4 DEF DeqSeq, Goto, Drop, Holds
    <3>2. e = tail
      <4>1. e <= tail
        BY <2>3, <3>1 DEF RingInv, TryInv
      <4>2. e \in 0..(tail - 1) => seq[Slot(e)] > e
        BY DEF RingPast
      <4>3. seq[Slot(e)] \in Nat
        BY <1>0, Slots DEF RingInv, RingTypeOK
      <4> QED
        BY <1>0, <3>1, <4>1, <4>2, <4>3
    <3>3. Contents = <<>> \/ 1 \in Claimed
      <4>1. CASE head = tail
        BY <1>0, <4>1 DEF Contents
      <4>2. CASE head # tail
        <5>1. tail \in tail..(head - 1) /\ seq[Slot(tail)] \in {tail, tail + 1}
          BY <1>0, <4>2 DEF RingInv, WindowInv
        <5>2. seq[Slot(tail)] = tail
          BY <1>0, <3>1, <3>2, <5>1
        <5>3. PICK p \in Producers : Holds(p) /\ ticket[p] = tail
          BY <5>1, <5>2 DEF RingPast
        <5> QED
          BY <1>0, <1>c, <5>3
      <4> QED
        BY <4>1, <4>2
    <3>4. Claimed' = Claimed
      <4>1. \A p \in Producers : (Holds(p)' <=> Holds(p)) /\ ticket'[p] = ticket[p]
        BY <1>0, <2>3, <3>1
      <4> QED
        BY <1>c, <3>1, <4>1
    <3>5. Answers' = [Answers EXCEPT ![t] = @ + 1]
      BY <1>0, <1>a, <2>3, <3>1
    <3>6. Fifo!Empty(t)
      BY <1>3, <3>3, <3>4, <3>5, Ring, Ring' DEF Fifo!Empty, Fifo!vars
    <3> QED
      BY <2>3, <3>6 DEF Fifo!TryNext
  <2>4. CASE t \in Consumers /\ DeqSeq(t) /\ ~(Dif(t) < 0)
    <3>1. UNCHANGED <<Claimed, Answers>>
      BY <1>0, <1>s, <2>4 DEF DeqSeq, Goto, Drop, Holds
    <3> QED
      BY <1>3, <3>1
  <2>5. CASE t \in Consumers /\ DeqPublish(t)
    <3>1. /\ UNCHANGED tail /\ Holds(t) /\ ~Holds(t)' /\ calls' = [calls EXCEPT ![t] = @ + 1]
          /\ \A u \in Procs : u # t => (Holds(u)' <=> Holds(u)) /\ ticket'[u] = ticket[u]
      BY <1>0, <2>5 DEF DeqPublish, Goto, Drop, Holds
    <3>2. Claimed' = Claimed
      BY <1>0, <1>c, <2>5, <3>1
    <3>3. Answers' = Answers
      BY <1>0, <1>a, <2>5, <3>1
    <3> QED
      BY <1>3, <3>2, <3>3
  <2> QED
    BY <1>3, <2>1, <2>2, <2>3, <2>4, <2>5 DEF RingInside
<1> QED
  BY <1>1, <1>2, <1>3, RingLinear

------------------------------------------------------------------------------
(* Linked lists: the pointers h and nx list the nodes c[1], ..., c[k] of X *)

IsChain(X, c, k, h, nx) ==
    /\ k \in Nat /\ c \in [1..k -> X]
    /\ \A i, j \in 1..k : c[i] = c[j] => i = j
    /\ h = IF k = 0 THEN "NULL" ELSE c[1]
    /\ \A i \in 1..k : nx[c[i]] = IF i = k THEN "NULL" ELSE c[i + 1]

On(c, k) == {c[i] : i \in 1..k}

Front(c, k, x) == [i \in 1..(k + 1) |-> IF i = 1 THEN x ELSE c[i - 1]]
Back(c, k, x)  == [i \in 1..(k + 1) |-> IF i = k + 1 THEN x ELSE c[i]]
Rest(c, k)     == [i \in 1..(k - 1) |-> c[i + 1]]

\* A node whose next is the head can be the head.
LEMMA ChainFront ==
  ASSUME NEW X, NEW c, NEW k, NEW h, NEW nx, IsChain(X, c, k, h, nx),
         NEW x \in X, x \notin On(c, k), nx[x] = h
  PROVE  /\ IsChain(X, Front(c, k, x), k + 1, x, nx)
         /\ On(Front(c, k, x), k + 1) = On(c, k) \cup {x}
<1> DEFINE d == Front(c, k, x)
<1>0. k \in Nat /\ c \in [1..k -> X]
  BY DEF IsChain
<1>1. /\ d \in [1..(k + 1) -> X] /\ d[1] = x
      /\ \A i \in 1..k : d[i + 1] = c[i]
      /\ \A i \in 2..(k + 1) : i - 1 \in 1..k /\ d[i] = c[i - 1]
  BY <1>0 DEF Front
<1> HIDE DEF d
<1>2. \A i \in 1..k : c[i] # x
  BY DEF On
<1>3. \A i, j \in 1..(k + 1) : d[i] = d[j] => i = j
  <2> TAKE i, j \in 1..(k + 1)
  <2>1. (i = 1 \/ i \in 2..(k + 1)) /\ (j = 1 \/ j \in 2..(k + 1))
    BY <1>0
  <2> QED
    BY <1>0, <1>1, <1>2, <2>1 DEF IsChain
<1>4. \A i \in 1..(k + 1) : nx[d[i]] = IF i = k + 1 THEN "NULL" ELSE d[i + 1]
  <2> TAKE i \in 1..(k + 1)
  <2>1. CASE i = 1
    <3>1. k = 0 => h = "NULL"
      BY DEF IsChain
    <3>2. k # 0 => h = c[1] /\ 1 \in 1..k /\ d[1 + 1] = c[1]
      BY <1>0, <1>1 DEF IsChain
    <3> QED
      BY <1>0, <1>1, <2>1, <3>1, <3>2
  <2>2. CASE i # 1
    <3>1. i - 1 \in 1..k /\ d[i] = c[i - 1] /\ (i - 1) + 1 = i
      BY <1>0, <1>1, <2>2
    <3>2. nx[c[i - 1]] = IF i - 1 = k THEN "NULL" ELSE c[(i - 1) + 1]
      BY <3>1 DEF IsChain
    <3>3. i # k + 1 => i \in 1..k /\ d[i + 1] = c[i]
      BY <1>0, <1>1
    <3>4. i - 1 = k <=> i = k + 1
      BY <1>0
    <3> QED
      BY <3>1, <3>2, <3>3, <3>4
  <2> QED
    BY <2>1, <2>2
<1>5. IsChain(X, d, k + 1, x, nx)
  BY <1>0, <1>1, <1>3, <1>4 DEF IsChain
<1>6. On(d, k + 1) = On(c, k) \cup {x}
  <2>1. \A i \in 1..(k + 1) : d[i] \in On(c, k) \cup {x}
    <3> TAKE i \in 1..(k + 1)
    <3>1. i = 1 \/ i \in 2..(k + 1)
      BY <1>0
    <3> QED
      BY <1>1, <3>1 DEF On
  <2>2. \A i \in 1..k : c[i] \in On(d, k + 1)
    <3> TAKE i \in 1..k
    <3>1. i + 1 \in 1..(k + 1)
      BY <1>0
    <3> QED
      BY <1>1, <3>1 DEF On
  <2>3. x \in On(d, k + 1)
    <3>1. 1 \in 1..(k + 1)
      BY <1>0
    <3> QED
      BY <1>1, <3>1 DEF On
  <2> QED
    BY <2>1, <2>2, <2>3 DEF On
<1> QED
  BY <1>5, <1>6 DEF d

\* The node behind the head can be the head.
LEMMA ChainRest ==
  ASSUME NEW X, NEW c, NEW k, NEW h, NEW nx, IsChain(X, c, k, h, nx), k # 0
  PROVE  /\ IsChain(X, Rest(c, k), k - 1, nx[h], nx)
         /\ On(Rest(c, k), k - 1) = On(c, k) \ {h} /\ h \in On(c, k)
<1> DEFINE d == Rest(c, k)
<1>0. k \in Nat \ {0} /\ k - 1 \in Nat /\ c \in [1..k -> X] /\ h = c[1] /\ 1 \in 1..k
  BY DEF IsChain
<1>1. /\ d \in [1..(k - 1) -> X]
      /\ \A i \in 1..(k - 1) : i + 1 \in 1..k /\ d[i] = c[i + 1]
  BY <1>0 DEF Rest
<1> HIDE DEF d
<1>3. \A i, j \in 1..(k - 1) : d[i] = d[j] => i = j
  <2> TAKE i, j \in 1..(k - 1)
  <2>1. c[i + 1] = c[j + 1] => i + 1 = j + 1
    BY <1>1 DEF IsChain
  <2> QED
    BY <1>1, <2>1
<1>4. \A i \in 1..(k - 1) : nx[d[i]] = IF i = k - 1 THEN "NULL" ELSE d[i + 1]
  <2> TAKE i \in 1..(k - 1)
  <2>1. nx[c[i + 1]] = IF i + 1 = k THEN "NULL" ELSE c[(i + 1) + 1]
    BY <1>1 DEF IsChain
  <2>2. i # k - 1 => d[i + 1] = c[(i + 1) + 1]
    BY <1>0, <1>1
  <2>3. i + 1 = k <=> i = k - 1
    BY <1>0
  <2> QED
    BY <1>1, <2>1, <2>2, <2>3
<1>5. nx[h] = IF k - 1 = 0 THEN "NULL" ELSE d[1]
  <2>1. nx[c[1]] = IF 1 = k THEN "NULL" ELSE c[1 + 1]
    BY <1>0 DEF IsChain
  <2>2. k # 1 => d[1] = c[1 + 1]
    BY <1>0, <1>1
  <2>3. 1 = k <=> k - 1 = 0
    BY <1>0
  <2> QED
    BY <1>0, <2>1, <2>2, <2>3
<1>6. IsChain(X, d, k - 1, nx[h], nx)
  BY <1>0, <1>1, <1>3, <1>4, <1>5 DEF IsChain
<1>7. On(d, k - 1) = On(c, k) \ {h} /\ h \in On(c, k)
  <2>1. \A i \in 1..(k - 1) : d[i] \in On(c, k) \ {h}
    <3> TAKE i \in 1..(k - 1)
    <3>1. i + 1 # 1
      BY <1>0
    <3> QED
      BY <1>0, <1>1, <3>1 DEF On, IsChain
  <2>2. \A i \in 1..k : c[i] # h => c[i] \in On(d, k - 1)
    <3> SUFFICES ASSUME NEW i \in 1..k, c[i] # h PROVE c[i] \in On(d, k - 1)
      OBVIOUS
    <3>1. i - 1 \in 1..(k - 1) /\ (i - 1) + 1 = i
      BY <1>0
    <3> QED
      BY <1>1, <3>1 DEF On
  <2> QED
    BY <1>0, <2>1, <2>2 DEF On
<1> QED
  BY <1>6, <1>7 DEF d

\* The last node can be given a next, the new last.
LEMMA ChainBack ==
  ASSUME NEW X, NEW c, NEW k, NEW h, NEW nx, NEW ny, IsChain(X, c, k, h, nx), k # 0,
         NEW x \in X, x \notin On(c, k), ny[x] = "NULL", ny[c[k]] = x,
         \A y \in On(c, k) : y # c[k] => ny[y] = nx[y]
  PROVE  /\ IsChain(X, Back(c, k, x), k + 1, h, ny)
         /\ On(Back(c, k, x), k + 1) = On(c, k) \cup {x}
<1> DEFINE d == Back(c, k, x)
<1>0. k \in Nat \ {0} /\ c \in [1..k -> X] /\ h = c[1] /\ k \in 1..k /\ 1 \in 1..k
  BY DEF IsChain
<1>1. /\ d \in [1..(k + 1) -> X] /\ d[k + 1] = x
      /\ \A i \in 1..k : d[i] = c[i]
      /\ \A i \in 1..(k + 1) : i = k + 1 \/ i \in 1..k
      /\ \A i \in 1..k : i \in 1..(k + 1) /\ i # k + 1
  BY <1>0 DEF Back
<1> HIDE DEF d
<1>2. \A i \in 1..k : c[i] # x
  BY DEF On
<1>3. \A i, j \in 1..(k + 1) : d[i] = d[j] => i = j
  BY <1>1, <1>2 DEF IsChain
<1>4. \A i \in 1..(k + 1) : ny[d[i]] = IF i = k + 1 THEN "NULL" ELSE d[i + 1]
  <2> TAKE i \in 1..(k + 1)
  <2>1. CASE i = k + 1
    BY <1>1, <2>1
  <2>2. CASE i = k
    BY <1>0, <1>1, <2>2
  <2>3. CASE i # k + 1 /\ i # k
    <3>1. i \in 1..k /\ i + 1 \in 1..k
      BY <1>0, <2>3
    <3>2. c[i] # c[k] /\ c[i] \in On(c, k)
      BY <1>0, <2>3, <3>1 DEF IsChain, On
    <3>3. nx[c[i]] = c[i + 1]
      BY <2>3, <3>1 DEF IsChain
    <3> QED
      BY <1>1, <2>3, <3>1, <3>2, <3>3
  <2> QED
    BY <2>1, <2>2, <2>3
<1>5. IsChain(X, d, k + 1, h, ny)
  BY <1>0, <1>1, <1>3, <1>4 DEF IsChain
<1>6. On(d, k + 1) = On(c, k) \cup {x}
  <2>1. k + 1 \in 1..(k + 1)
    BY <1>0
  <2> QED
    BY <1>1, <2>1 DEF On
<1> QED
  BY <1>5, <1>6 DEF d

\* A list of a finite set of nodes has at most that many, all different.
LEMMA ChainLength ==
  ASSUME NEW X, NEW c, NEW k, NEW h, NEW nx, IsChain(X, c, k, h, nx), IsFiniteSet(X)
  PROVE  /\ k <= Cardinality(X) /\ Cardinality(X) \in Nat
         /\ IsFiniteSet(On(c, k)) /\ Cardinality(On(c, k)) = k
<1>0. k \in Nat /\ c \in [1..k -> X] /\ \A i, j \in 1..k : c[i] = c[j] => i = j
  BY DEF IsChain
<1>1. IsFiniteSet(On(c, k)) /\ Cardinality(On(c, k)) <= Cardinality(X)
  <2>1. On(c, k) \in SUBSET X
    BY <1>0 DEF On
  <2> QED
    BY <2>1, FS_Subset
<1>2. c \in Injection(1..k, On(c, k)) /\ c \in Surjection(1..k, On(c, k))
  <2>1. c \in [1..k -> On(c, k)]
    BY <1>0 DEF On
  <2>2. \A y \in On(c, k) : \E i \in 1..k : c[i] = y
    BY DEF On
  <2> QED
    BY <1>0, <2>1, <2>2 DEF Injection, IsInjective, Surjection
<1>3. Cardinality(1..k) = Cardinality(On(c, k))
  BY <1>1, <1>2, FS_Injection
<1>4. Cardinality(1..k) = k
  BY <1>0, FS_Interval
<1>5. Cardinality(X) \in Nat
  BY FS_CardinalityType
<1> QED
  BY <1>1, <1>3, <1>4, <1>5

\* A set of natural numbers that is not empty has a least element.
LEMMA LeastNat ==
  ASSUME NEW T, T \subseteq Nat, T # {}
  PROVE  \E x \in T : \A y \in T : x <= y
<1>1. PICK x \in T : \A y \in T : ~(<<y, x>> \in OpToRel(<, Nat))
  BY NatLessThanWellFounded, WFMin, Zenon
<1>2. \A y \in T : ~(y < x)
  BY <1>1 DEF OpToRel
<1> QED
  BY <1>2

\* Induction up to m: what holds of 0, and of k + 1 if it holds of k, holds.
LEMMA Induction ==
  ASSUME NEW m \in Nat, NEW H, 0 \in H, \A k \in 0..(m - 1) : k \in H => k + 1 \in H
  PROVE  \A k \in 0..m : k \in H
<1> DEFINE T == {k \in 0..m : k \notin H}
<1> SUFFICES ASSUME T # {} PROVE FALSE
  OBVIOUS
<1>1. T \subseteq Nat
  OBVIOUS
<1>2. PICK x \in T : \A y \in T : x <= y
  <2> HIDE DEF T
  <2> QED
    BY <1>1, LeastNat
<1>3. x # 0 /\ x \in 1..m /\ x - 1 \in 0..(m - 1)
  OBVIOUS
<1>4. x - 1 \in H
  BY <1>2, <1>3
<1>5. (x - 1) + 1 \in H
  BY <1>3, <1>4
<1> QED
  BY <1>3, <1>5

\* the walk of at most m hops along nx from h
Hops(h, nx, m) == LET f[k \in 0..m] ==
                        IF k = 0 THEN h
                        ELSE LET n == f[k - 1] IN IF n = "NULL" THEN "NULL" ELSE nx[n]
                  IN  [k \in 0..m |-> f[k]]

\* The walk visits the nodes of the list, in order, and then stays at NULL.
LEMMA HopsChain ==
  ASSUME NEW X, NEW c, NEW k, NEW h, NEW nx, IsChain(X, c, k, h, nx), "NULL" \notin X,
         NEW m \in Nat, k <= m
  PROVE  /\ DOMAIN Hops(h, nx, m) = 0..m
         /\ \A i \in 0..m : Hops(h, nx, m)[i] = IF i < k THEN c[i + 1] ELSE "NULL"
<1>0. k \in Nat /\ c \in [1..k -> X]
  BY DEF IsChain
<1> DEFINE w == [i \in 0..m |-> IF i < k THEN c[i + 1] ELSE "NULL"]
<1>1. w[0] = h
  <2>1. k # 0 => 0 < k /\ 0 + 1 = 1
    BY <1>0
  <2> QED
    BY <1>0, <2>1 DEF IsChain
<1>2. \A i \in 1..m : w[i] = IF w[i - 1] = "NULL" THEN "NULL" ELSE nx[w[i - 1]]
  <2> TAKE i \in 1..m
  <2>0. i - 1 \in 0..m /\ i \in 0..m /\ (i - 1) + 1 = i
    OBVIOUS
  <2>1. CASE i - 1 < k
    <3>1. i \in 1..k /\ c[i] # "NULL"
      BY <1>0, <2>1
    <3>2. w[i - 1] = c[i]
      BY <2>0, <2>1
    <3>3. nx[c[i]] = IF i = k THEN "NULL" ELSE c[i + 1]
      BY <3>1 DEF IsChain
    <3>4. i < k <=> i # k
      BY <1>0, <3>1
    <3>5. w[i] = IF i < k THEN c[i + 1] ELSE "NULL"
      BY <2>0
    <3> HIDE DEF w
    <3> QED
      BY <3>1, <3>2, <3>3, <3>4, <3>5
  <2>2. CASE ~(i - 1 < k)
    <3>1. w[i - 1] = "NULL" /\ w[i] = "NULL"
      BY <1>0, <2>0, <2>2
    <3> QED
      BY <3>1
  <2> QED
    BY <2>1, <2>2
<1>3. w = [i \in 0..m |-> IF i = 0 THEN h
                          ELSE IF w[i - 1] = "NULL" THEN "NULL" ELSE nx[w[i - 1]]]
  <2>1. w = [i \in 0..m |-> w[i]]
    OBVIOUS
  <2>2. \A i \in 0..m : i # 0 => i \in 1..m
    OBVIOUS
  <2> HIDE DEF w
  <2> QED
    BY <1>1, <1>2, <2>1, <2>2
<1> DEFINE F == CHOOSE f : f = [i \in 0..m |-> IF i = 0 THEN h
                          ELSE IF f[i - 1] = "NULL" THEN "NULL" ELSE nx[f[i - 1]]]
<1>4. F = [i \in 0..m |-> IF i = 0 THEN h
                          ELSE IF F[i - 1] = "NULL" THEN "NULL" ELSE nx[F[i - 1]]]
  <2> HIDE DEF w
  <2> QED
    BY <1>3
<1>5. Hops(h, nx, m) = [i \in 0..m |-> F[i]]
  BY DEF Hops
<1>6. \A i \in 0..m : F[i] = w[i]
  <2> DEFINE H == {i \in 0..m : F[i] = w[i]}
  <2> HIDE DEF w, F
  <2>1. 0 \in H
    BY <1>1, <1>4
  <2>2. \A i \in 0..(m - 1) : i \in H => i + 1 \in H
    <3> SUFFICES ASSUME NEW i \in 0..(m - 1), F[i] = w[i] PROVE F[i + 1] = w[i + 1]
      OBVIOUS
    <3>1. i + 1 \in 1..m /\ (i + 1) - 1 = i /\ i + 1 \in 0..m /\ i + 1 # 0
      OBVIOUS
    <3>2. w[i + 1] = IF w[i] = "NULL" THEN "NULL" ELSE nx[w[i]]
      BY <1>2, <3>1
    <3>3. F[i + 1] = IF F[i] = "NULL" THEN "NULL" ELSE nx[F[i]]
      BY <1>4, <3>1
    <3> QED
      BY <3>2, <3>3
  <2>3. \A i \in 0..m : i \in H
    <3> HIDE DEF H
    <3> QED
      BY <2>1, <2>2, Induction
  <2> QED
    BY <2>3
<1> QED
  <2> HIDE DEF F
  <2> QED
    BY <1>5, <1>6

------------------------------------------------------------------------------
(* Lists as sets of nodes *)

\* the pointers h and nx list some nodes of X
Linked(X, h, nx) ==
    \E k \in 0..Cardinality(X) : \E c \in [1..k -> X] : IsChain(X, c, k, h, nx)

\* the nodes that a walk from h along nx meets
Reach(X, h, nx) == {Hops(h, nx, Cardinality(X))[i] : i \in 0..Cardinality(X)} \ {"NULL"}

\* A walk along a list meets the nodes of the list.
LEMMA ChainReach ==
  ASSUME NEW X, IsFiniteSet(X), "NULL" \notin X,
         NEW c, NEW k, NEW h, NEW nx, IsChain(X, c, k, h, nx)
  PROVE  Linked(X, h, nx) /\ Reach(X, h, nx) = On(c, k) /\ On(c, k) \subseteq X
<1> DEFINE m == Cardinality(X)
           w == Hops(h, nx, m)
<1>0. k \in Nat /\ c \in [1..k -> X] /\ m \in Nat /\ k <= m
  <2>1. k \in Nat /\ c \in [1..k -> X]
    BY DEF IsChain
  <2>2. m \in Nat /\ k <= m
    BY ChainLength
  <2> QED
    BY <2>1, <2>2
<1>1. Linked(X, h, nx)
  <2>1. k \in 0..m
    BY <1>0
  <2> QED
    BY <1>0, <2>1 DEF Linked
<1>2. \A i \in 0..m : w[i] = IF i < k THEN c[i + 1] ELSE "NULL"
  <2> HIDE DEF m
  <2> QED
    BY <1>0, HopsChain
<1>3. \A i \in 1..k : c[i] \in X /\ c[i] # "NULL" /\ i - 1 \in 0..m /\ w[i - 1] = c[i]
  <2> TAKE i \in 1..k
  <2>1. i - 1 \in 0..m /\ i - 1 < k /\ (i - 1) + 1 = i
    BY <1>0
  <2> HIDE DEF w, m
  <2> QED
    BY <1>0, <1>2, <2>1
<1>4. \A i \in 0..m : w[i] # "NULL" => i + 1 \in 1..k /\ w[i] = c[i + 1]
  <2> TAKE i \in 0..m
  <2>1. i < k => i + 1 \in 1..k
    BY <1>0
  <2> HIDE DEF w, m
  <2> QED
    BY <1>2, <2>1
<1>5. Reach(X, h, nx) = {w[i] : i \in 0..m} \ {"NULL"}
  BY DEF Reach
<1> HIDE DEF w, m
<1>6. \A x : x \in Reach(X, h, nx) <=> x \in On(c, k)
  BY <1>3, <1>4, <1>5 DEF On
<1> QED
  BY <1>1, <1>3, <1>6 DEF On

\* The empty list.
LEMMA LinkedEmpty ==
  ASSUME NEW X, IsFiniteSet(X), "NULL" \notin X, NEW nx
  PROVE  Linked(X, "NULL", nx) /\ Reach(X, "NULL", nx) = {}
<1> DEFINE c == [i \in 1..0 |-> "NULL"]
<1>1. IsChain(X, c, 0, "NULL", nx) /\ On(c, 0) = {}
  BY DEF IsChain, On
<1> HIDE DEF c
<1> QED
  BY <1>1, ChainReach

\* A list whose nodes keep their next stays as it is.
LEMMA LinkedKeep ==
  ASSUME NEW X, IsFiniteSet(X), "NULL" \notin X, NEW h, NEW nx, NEW ny,
         Linked(X, h, nx), \A x \in Reach(X, h, nx) : ny[x] = nx[x]
  PROVE  Linked(X, h, ny) /\ Reach(X, h, ny) = Reach(X, h, nx)
<1>1. PICK k, c : IsChain(X, c, k, h, nx)
  BY DEF Linked
<1>2. Reach(X, h, nx) = On(c, k)
  BY <1>1, ChainReach
<1>3. IsChain(X, c, k, h, ny)
  BY <1>1, <1>2 DEF IsChain, On
<1> QED
  BY <1>2, <1>3, ChainReach

\* A node in front of a list.
LEMMA LinkedFront ==
  ASSUME NEW X, IsFiniteSet(X), "NULL" \notin X, NEW h, NEW nx, Linked(X, h, nx),
         NEW x \in X, x \notin Reach(X, h, nx), nx[x] = h
  PROVE  Linked(X, x, nx) /\ Reach(X, x, nx) = Reach(X, h, nx) \cup {x}
<1>1. PICK k, c : IsChain(X, c, k, h, nx)
  BY DEF Linked
<1>2. Reach(X, h, nx) = On(c, k)
  BY <1>1, ChainReach
<1>3. /\ IsChain(X, Front(c, k, x), k + 1, x, nx)
      /\ On(Front(c, k, x), k + 1) = On(c, k) \cup {x}
  BY <1>1, <1>2, ChainFront
<1> QED
  BY <1>2, <1>3, ChainReach

\* The list behind its first node; the empty list starts at NULL.
LEMMA LinkedRest ==
  ASSUME NEW X, IsFiniteSet(X), "NULL" \notin X, NEW h, NEW nx, Linked(X, h, nx)
  PROVE  /\ h = "NULL" => Reach(X, h, nx) = {}
         /\ h # "NULL" => /\ h \in Reach(X, h, nx) /\ Linked(X, nx[h], nx)
                          /\ Reach(X, nx[h], nx) = Reach(X, h, nx) \ {h}
         /\ Reach(X, h, nx) \subseteq X
<1>1. PICK k, c : IsChain(X, c, k, h, nx)
  BY DEF Linked
<1>2. Reach(X, h, nx) = On(c, k) /\ On(c, k) \subseteq X
  BY <1>1, ChainReach
<1>3. CASE k = 0
  BY <1>1, <1>2, <1>3 DEF IsChain, On
<1>4. CASE k # 0
  <2>1. h # "NULL"
    BY <1>1, <1>4 DEF IsChain
  <2>2. /\ IsChain(X, Rest(c, k), k - 1, nx[h], nx)
        /\ On(Rest(c, k), k - 1) = On(c, k) \ {h} /\ h \in On(c, k)
    BY <1>1, <1>4, ChainRest
  <2> QED
    BY <1>2, <2>1, <2>2, ChainReach
<1> QED
  BY <1>3, <1>4

------------------------------------------------------------------------------
(* The linked queue with two locks *)

QueueTypeOK ==
    /\ next \in [Nodes -> Nodes \cup {"NULL"}] /\ DOMAIN value = Nodes
    /\ allocated \in SUBSET Nodes
    /\ pc \in [Procs -> {"call", "lock", "link", "move", "unlock", "read", "free"}]
    /\ node \in [Procs -> Nodes \cup {"NULL"}]
    /\ made \in [Producers -> Nat] /\ DOMAIN tmp = Consumers

\* a lock is held between the calls that take and release it
QueueLocks ==
    /\ \A p \in Producers : /\ pc[p] \in {"call", "lock", "link", "move", "unlock"}
                            /\ pc[p] \in {"link", "move", "unlock"} <=> tail_lock = p
    /\ \A c \in Consumers : /\ pc[c] \in {"call", "read", "unlock", "free"}
                            /\ pc[c] \in {"read", "unlock"} <=> head_lock = c

\* the thread has a node that it has not linked yet, or has unlinked
QueueOwns(t) == \/ t \in Producers /\ pc[t] \in {"lock", "link"}
                \/ t \in Consumers /\ pc[t] \in {"unlock", "free"}

\* every allocated node is in the list or has one owner
QueueNodes(c, k) ==
    /\ On(c, k) \subseteq allocated
    /\ \A t \in Procs : QueueOwns(t) => node[t] \in allocated /\ node[t] \notin On(c, k)
    /\ \A t, u \in Procs : QueueOwns(t) /\ QueueOwns(u) /\ node[t] = node[u] => t = u
    /\ \A x \in allocated : x \notin On(c, k) => \E t \in Procs : QueueOwns(t) /\ node[t] = x

\* tail points to the last node unless a producer is about to move it there
QueueEnds(c, k) ==
    /\ k # 0 /\ IsChain(Nodes, c, k, head, next)
    /\ tail = c[k] \/ \E p \in Producers : pc[p] = "move"
    /\ \A p \in Producers : pc[p] = "move" => node[p] = c[k]
    /\ \A p \in Producers : pc[p] \in {"lock", "link"} =>
          next[node[p]] = "NULL" /\ value[node[p]] = <<p, made[p]>> /\ made[p] < Loops
    /\ \A q \in Consumers : pc[q] = "read" => node[q] = head

QueueIs(c, k) == QueueNodes(c, k) /\ QueueEnds(c, k)

QueueInv == /\ QueueTypeOK /\ QueueLocks
            /\ \E k \in 0..Cardinality(Nodes) : \E c \in [1..k -> Nodes] : QueueIs(c, k)

\* the values of the nodes behind the first
QueueSeq(h, nx, v) ==
    LET w == Hops(h, nx, Cardinality(Nodes))
    IN  [i \in 1..Cardinality({j \in 1..Cardinality(Nodes) : w[j] # "NULL"}) |-> v[w[i]]]

LEMMA QueueSame == /\ Q!Contents = QueueSeq(head, next, value)
                   /\ Q!Contents' = QueueSeq(head', next', value')
                   /\ Q!Hop = Hops(head, next, Cardinality(Nodes))
<1>1. \A X : Q!Cardinality(X) = Cardinality(X)
  BY DEF Q!Cardinality, Cardinality
<1>2. /\ Q!Hop = Hops(head, next, Q!Cardinality(Nodes))
      /\ Q!Hop' = Hops(head', next', Q!Cardinality(Nodes))
  BY DEF Q!Hop, Hops, Q!NULL
<1>3. /\ Q!Hop = Hops(head, next, Cardinality(Nodes))
      /\ Q!Hop' = Hops(head', next', Cardinality(Nodes))
  BY <1>1, <1>2
<1> QED
  BY <1>1, <1>3 DEF Q!Contents, QueueSeq, Q!NULL

\* The contents are the values of the nodes of the list but the first.
LEMMA QueueItems ==
  ASSUME NEW c, NEW k, NEW h, NEW nx, NEW v, IsChain(Nodes, c, k, h, nx), k # 0
  PROVE  QueueSeq(h, nx, v) = [i \in 1..(k - 1) |-> v[c[i + 1]]]
<1> DEFINE m == Cardinality(Nodes)
           w == Hops(h, nx, m)
           J == {j \in 1..m : w[j] # "NULL"}
<1>0. k \in Nat \ {0} /\ c \in [1..k -> Nodes] /\ "NULL" \notin Nodes
  BY NodesAssumption DEF IsChain, Q!NULL
<1>1. m \in Nat /\ k <= m
  BY NodesAssumption, ChainLength
<1> HIDE DEF m
<1>2. \A i \in 0..m : w[i] = IF i < k THEN c[i + 1] ELSE "NULL"
  BY <1>0, <1>1, HopsChain
<1> HIDE DEF w
<1>3. \A i \in 1..(k - 1) : i \in 1..m /\ i + 1 \in 1..k /\ w[i] = c[i + 1]
  BY <1>0, <1>1, <1>2
<1>4. \A i \in 1..m : i \notin 1..(k - 1) => w[i] = "NULL"
  BY <1>0, <1>1, <1>2
<1>5. J = 1..(k - 1)
  <2>1. \A i \in 1..(k - 1) : w[i] # "NULL"
    BY <1>0, <1>3
  <2> QED
    BY <1>3, <1>4, <2>1
<1>6. Cardinality(1..(k - 1)) = k - 1
  BY <1>0, FS_Interval
<1>7. QueueSeq(h, nx, v) = [i \in 1..Cardinality(J) |-> v[w[i]]]
  BY DEF QueueSeq, w, m
<1> HIDE DEF J
<1> QED
  BY <1>3, <1>5, <1>6, <1>7

\* The contents stay when the list and the values of its nodes do.
LEMMA QueueKeep ==
  ASSUME NEW c, NEW k, IsChain(Nodes, c, k, head, next), k # 0, head' = head,
         \A x \in On(c, k) : next'[x] = next[x] /\ value'[x] = value[x]
  PROVE  IsChain(Nodes, c, k, head', next') /\ Q!Contents' = Q!Contents
<1>1. \A i \in 1..k : next'[c[i]] = next[c[i]] /\ value'[c[i]] = value[c[i]]
  BY DEF On
<1>2. IsChain(Nodes, c, k, head', next')
  BY <1>1 DEF IsChain
<1>3. \A i \in 1..(k - 1) : i + 1 \in 1..k
  BY DEF IsChain
<1>4. /\ Q!Contents = [i \in 1..(k - 1) |-> value[c[i + 1]]]
      /\ Q!Contents' = [i \in 1..(k - 1) |-> value'[c[i + 1]]]
  BY <1>2, QueueSame, QueueItems
<1> QED
  BY <1>1, <1>2, <1>3, <1>4

\* Queue_Init establishes the invariant, and the queue is empty.
LEMMA QueueInit == Q!Init => QueueInv /\ Q!Contents = <<>>
<1> SUFFICES ASSUME Q!Init PROVE QueueInv /\ Q!Contents = <<>>
  OBVIOUS
<1> DEFINE x == CHOOSE n \in Nodes : TRUE
<1>0. x \in Nodes /\ "NULL" \notin Nodes /\ "none" \notin Procs /\ IsFiniteSet(Nodes)
  BY NodesAssumption DEF Q!NULL, Q!None
<1>1. /\ head = x /\ tail = x /\ allocated = {x} /\ value = [n \in Nodes |-> <<"none", 0>>]
      /\ next = [n \in Nodes |-> "NULL"] /\ head_lock = "none" /\ tail_lock = "none"
      /\ pc = [t \in Procs |-> "call"] /\ node = [t \in Procs |-> "NULL"]
      /\ made = [p \in Producers |-> 0] /\ tmp = [c \in Consumers |-> <<"none", 0>>]
  BY DEF Q!Init, Q!NULL, Q!None, Q!Procs, Procs
<1> HIDE DEF x
<1>2. QueueTypeOK
  BY <1>0, <1>1 DEF QueueTypeOK
<1>3. QueueLocks
  BY <1>0, <1>1 DEF QueueLocks, Procs
<1> DEFINE c == [i \in 1..1 |-> x]
<1>4. IsChain(Nodes, c, 1, head, next) /\ On(c, 1) = {x} /\ c[1] = x /\ c \in [1..1 -> Nodes]
  BY <1>0, <1>1 DEF IsChain, On
<1> HIDE DEF c
<1>5. QueueIs(c, 1)
  BY <1>1, <1>4 DEF QueueIs, QueueNodes, QueueEnds, QueueOwns, Procs
<1>6. 1 \in 0..Cardinality(Nodes)
  BY <1>0, <1>4, ChainLength
<1>7. QueueInv
  BY <1>2, <1>3, <1>4, <1>5, <1>6 DEF QueueInv
<1>8. Q!Contents = [i \in 1..(1 - 1) |-> value[c[i + 1]]]
  BY <1>4, QueueSame, QueueItems
<1>9. Q!Contents = <<>>
  BY <1>8
<1> QED
  BY <1>7, <1>9

\* A list with the properties of the next state shows the invariant there.
LEMMA QueueNext ==
  ASSUME NEW d, NEW m, QueueTypeOK', QueueLocks', QueueNodes(d, m)', QueueEnds(d, m)'
  PROVE  QueueInv'
<1>1. IsChain(Nodes, d, m, head', next')
  BY DEF QueueEnds
<1>2. m \in 0..Cardinality(Nodes) /\ d \in [1..m -> Nodes]
  <2>1. m <= Cardinality(Nodes) /\ Cardinality(Nodes) \in Nat
    BY <1>1, NodesAssumption, ChainLength
  <2>2. m \in Nat /\ d \in [1..m -> Nodes]
    BY <1>1 DEF IsChain
  <2> QED
    BY <2>1, <2>2
<1> QED
  BY <1>2 DEF QueueInv, QueueIs

\* Every step of Queue_Enqueue keeps the invariant; the store to next puts an
\* item, the other steps leave the queue as it is.
LEMMA QueueEnqueue ==
  ASSUME QueueInv, ~Ring, ~Ring', NEW p \in Producers, Q!Queue_Enqueue(p)
  PROVE  QueueInv' /\ (Fifo!Put(p) \/ UNCHANGED <<Q!Contents, made, tmp>>)
<1>1. PICK k, c : QueueNodes(c, k) /\ QueueEnds(c, k)
  BY DEF QueueInv, QueueIs
<1>0. /\ QueueTypeOK /\ QueueLocks /\ "NULL" \notin Nodes /\ "none" \notin Procs
      /\ IsFiniteSet(Nodes) /\ p \in Procs /\ Producers \subseteq Procs
      /\ Consumers \subseteq Procs /\ \A q \in Consumers : q # p
      /\ k \in Nat \ {0} /\ c \in [1..k -> Nodes] /\ k \in 1..k
      /\ IsChain(Nodes, c, k, head, next) /\ c[k] \in On(c, k) /\ On(c, k) \subseteq Nodes
  <2>1. k \in Nat \ {0} /\ c \in [1..k -> Nodes] /\ IsChain(Nodes, c, k, head, next)
    BY <1>1 DEF QueueEnds, IsChain
  <2>2. k \in 1..k
    BY <2>1
  <2> QED
    BY <2>1, <2>2, NodesAssumption DEF QueueInv, Procs, Q!NULL, Q!None, On
<1>t. /\ next \in [Nodes -> Nodes \cup {"NULL"}] /\ DOMAIN value = Nodes
      /\ allocated \in SUBSET Nodes
      /\ pc \in [Procs -> {"call", "lock", "link", "move", "unlock", "read", "free"}]
      /\ node \in [Procs -> Nodes \cup {"NULL"}]
      /\ made \in [Producers -> Nat] /\ DOMAIN tmp = Consumers
  BY <1>0 DEF QueueTypeOK
<1>2. CASE Q!Create(p)
  <2>1. PICK x \in Nodes \ allocated :
           /\ made[p] < Loops /\ pc[p] = "call" /\ pc' = [pc EXCEPT ![p] = "lock"]
           /\ allocated' = allocated \cup {x} /\ value' = [value EXCEPT ![x] = <<p, made[p]>>]
           /\ next' = [next EXCEPT ![x] = "NULL"] /\ node' = [node EXCEPT ![p] = x]
           /\ UNCHANGED <<head, tail, head_lock, tail_lock, made, tmp>>
    BY <1>2 DEF Q!Create, Q!Goto, Q!NULL
  <2>2. x \notin On(c, k)
    BY <1>1 DEF QueueNodes
  <2>3. IsChain(Nodes, c, k, head', next') /\ Q!Contents' = Q!Contents
    BY <1>0, <1>t, <2>1, <2>2, QueueKeep
  <2>4. QueueTypeOK'
    BY <1>0, <1>t, <2>1 DEF QueueTypeOK
  <2>5. QueueLocks'
    BY <1>0, <1>t, <2>1 DEF QueueLocks
  <2>6. /\ QueueOwns(p)' /\ node'[p] = x /\ ~QueueOwns(p)
        /\ \A t \in Procs : t # p => QueueOwns(t)' = QueueOwns(t) /\ node'[t] = node[t]
    BY <1>0, <1>t, <2>1 DEF QueueOwns
  <2>7. QueueNodes(c, k)'
    BY <1>0, <1>1, <2>1, <2>2, <2>6 DEF QueueNodes
  <2>8. QueueEnds(c, k)'
    <3>1. \A q \in Producers : pc'[q] = "move" <=> pc[q] = "move"
      BY <1>0, <1>t, <2>1
    <3>2. \A q \in Producers : pc'[q] \in {"lock", "link"} =>
             next'[node'[q]] = "NULL" /\ value'[node'[q]] = <<q, made'[q]>> /\ made'[q] < Loops
      <4> SUFFICES ASSUME NEW q \in Producers, pc'[q] \in {"lock", "link"}
                   PROVE  /\ next'[node'[q]] = "NULL" /\ value'[node'[q]] = <<q, made'[q]>>
                          /\ made'[q] < Loops
        OBVIOUS
      <4>1. CASE q = p
        BY <1>0, <1>t, <2>1, <4>1
      <4>2. CASE q # p
        <5>1. pc[q] \in {"lock", "link"} /\ node'[q] = node[q]
          BY <1>0, <1>t, <2>1, <4>2
        <5>2. node[q] \in allocated /\ node[q] # x
          BY <1>0, <1>1, <2>1, <5>1 DEF QueueNodes, QueueOwns
        <5> QED
          BY <1>1, <1>t, <2>1, <5>1, <5>2 DEF QueueEnds
      <4> QED
        BY <4>1, <4>2
    <3>3. \A q \in Consumers : pc'[q] = "read" => node'[q] = head'
      BY <1>0, <1>1, <1>t, <2>1 DEF QueueEnds
    <3> QED
      BY <1>0, <1>1, <1>t, <2>1, <2>3, <3>1, <3>2, <3>3 DEF QueueEnds
  <2> QED
    BY <2>1, <2>3, <2>4, <2>5, <2>7, <2>8, QueueNext
<1>3. CASE Q!LockTail(p)
  <2>1. /\ pc[p] = "lock" /\ pc' = [pc EXCEPT ![p] = "link"]
        /\ tail_lock = "none" /\ tail_lock' = p
        /\ UNCHANGED <<head, tail, value, next, allocated, head_lock, node, made, tmp>>
    BY <1>3 DEF Q!LockTail, Q!Goto, Q!None, Q!qvars
  <2>3. IsChain(Nodes, c, k, head', next') /\ Q!Contents' = Q!Contents
    BY <1>0, <1>t, <2>1, QueueKeep
  <2>4. QueueTypeOK'
    BY <1>0, <1>t, <2>1 DEF QueueTypeOK
  <2>5. QueueLocks'
    BY <1>0, <1>t, <2>1 DEF QueueLocks
  <2>6. \A t \in Procs : QueueOwns(t)' = QueueOwns(t)
    BY <1>0, <1>t, <2>1 DEF QueueOwns
  <2>7. QueueNodes(c, k)'
    BY <1>0, <1>1, <2>1, <2>6 DEF QueueNodes
  <2>8. QueueEnds(c, k)'
    BY <1>0, <1>1, <1>t, <2>1, <2>3 DEF QueueEnds
  <2> QED
    BY <2>1, <2>3, <2>4, <2>5, <2>7, <2>8, QueueNext
<1>4. CASE Q!Link(p)
  <2>1. /\ pc[p] = "link" /\ pc' = [pc EXCEPT ![p] = "move"]
        /\ next' = [next EXCEPT ![tail] = node[p]] /\ made' = [made EXCEPT ![p] = @ + 1]
        /\ UNCHANGED <<head, tail, value, allocated, head_lock, tail_lock, node, tmp>>
    BY <1>4 DEF Q!Link, Q!Goto
  <2>2. \A q \in Producers : pc[q] # "move"
    BY <1>0, <2>1 DEF QueueLocks
  <2>3. tail = c[k]
    BY <1>1, <2>2 DEF QueueEnds
  <2>4. PICK x : x = node[p]
    OBVIOUS
  <2>5. /\ x \in Nodes /\ x \notin On(c, k) /\ next[x] = "NULL" /\ x \in allocated
        /\ value[x] = <<p, made[p]>> /\ made[p] < Loops /\ made[p] \in Nat
    BY <1>0, <1>1, <1>t, <2>1, <2>4 DEF QueueNodes, QueueEnds, QueueOwns
  <2>6. /\ next'[x] = "NULL" /\ next'[c[k]] = x
        /\ \A y \in On(c, k) : y # c[k] => next'[y] = next[y]
    BY <1>0, <1>t, <2>1, <2>3, <2>4, <2>5
  <2>7. PICK d : d = Back(c, k, x)
    OBVIOUS
  <2>8. IsChain(Nodes, d, k + 1, head', next') /\ On(d, k + 1) = On(c, k) \cup {x}
    <3>1. /\ IsChain(Nodes, Back(c, k, x), k + 1, head, next')
          /\ On(Back(c, k, x), k + 1) = On(c, k) \cup {x}
      <4>1. PICK ny : ny = next'
        OBVIOUS
      <4>2. k # 0
        BY <1>0
      <4>3. /\ ny[x] = "NULL" /\ ny[c[k]] = x
            /\ \A y \in On(c, k) : y # c[k] => ny[y] = next[y]
        BY <2>6, <4>1
      <4>4. /\ IsChain(Nodes, Back(c, k, x), k + 1, head, ny)
            /\ On(Back(c, k, x), k + 1) = On(c, k) \cup {x}
        BY <1>0, <2>5, <4>2, <4>3, ChainBack
      <4> QED
        BY <4>1, <4>4
    <3> QED
      BY <2>1, <2>7, <3>1
  <2>9. d[k + 1] = x /\ k + 1 # 0 /\ \A i \in 1..k : d[i] = c[i]
    BY <1>0, <2>7 DEF Back
  <2>10. QueueTypeOK'
    BY <1>0, <1>t, <2>1, <2>3, <2>4, <2>5 DEF QueueTypeOK
  <2>11. QueueLocks'
    BY <1>0, <1>t, <2>1 DEF QueueLocks
  <2>12. /\ ~QueueOwns(p)' /\ QueueOwns(p)
         /\ \A t \in Procs : t # p => QueueOwns(t)' = QueueOwns(t)
    BY <1>0, <1>t, <2>1 DEF QueueOwns
  <2>13. QueueNodes(d, k + 1)'
    <3>1. \A t \in Procs : QueueOwns(t)' => QueueOwns(t) /\ node[t] # x
      BY <1>0, <1>1, <2>4, <2>12 DEF QueueNodes
    <3>2. On(d, k + 1) \subseteq allocated'
      BY <1>1, <2>1, <2>5, <2>8 DEF QueueNodes
    <3>3. \A t \in Procs : QueueOwns(t)' => node'[t] \in allocated' /\ node'[t] \notin On(d, k + 1)
      BY <1>1, <2>1, <2>8, <3>1 DEF QueueNodes
    <3>4. \A t, u \in Procs : QueueOwns(t)' /\ QueueOwns(u)' /\ node'[t] = node'[u] => t = u
      BY <1>1, <2>1, <3>1 DEF QueueNodes
    <3>5. \A y \in allocated' : y \notin On(d, k + 1) =>
             \E t \in Procs : QueueOwns(t)' /\ node'[t] = y
      BY <1>1, <2>1, <2>4, <2>8, <2>12 DEF QueueNodes
    <3> QED
      BY <3>2, <3>3, <3>4, <3>5 DEF QueueNodes
  <2>14. QueueEnds(d, k + 1)'
    <3>1. \A q \in Producers : pc'[q] = "move" => q = p
      BY <1>0, <1>t, <2>1, <2>2
    <3>2. \A q \in Producers : pc'[q] \in {"lock", "link"} =>
             next'[node'[q]] = "NULL" /\ value'[node'[q]] = <<q, made'[q]>> /\ made'[q] < Loops
      <4> SUFFICES ASSUME NEW q \in Producers, pc'[q] \in {"lock", "link"}
                   PROVE  /\ next'[node'[q]] = "NULL" /\ value'[node'[q]] = <<q, made'[q]>>
                          /\ made'[q] < Loops
        OBVIOUS
      <4>1. q # p /\ pc[q] \in {"lock", "link"} /\ node'[q] = node[q] /\ made'[q] = made[q]
        BY <1>0, <1>t, <2>1
      <4>2. node[q] \notin On(c, k) /\ node[q] \in Nodes
        BY <1>0, <1>1, <1>t, <4>1 DEF QueueNodes, QueueOwns
      <4> QED
        BY <1>0, <1>1, <1>t, <2>1, <2>3, <4>1, <4>2 DEF QueueEnds
    <3>3. \A q \in Consumers : pc'[q] = "read" => node'[q] = head'
      BY <1>0, <1>1, <1>t, <2>1 DEF QueueEnds
    <3>4. \E q \in Producers : pc'[q] = "move"
      BY <1>0, <1>t, <2>1
    <3> QED
      BY <2>1, <2>4, <2>8, <2>9, <3>1, <3>2, <3>3, <3>4 DEF QueueEnds
  <2>15. Fifo!Put(p)
    <3> DEFINE a == Q!Contents
               b == Q!Contents'
    <3>1. /\ a = [i \in 1..(k - 1) |-> value[c[i + 1]]]
          /\ b = [i \in 1..((k + 1) - 1) |-> value'[d[i + 1]]]
      <4>1. a = [i \in 1..(k - 1) |-> value[c[i + 1]]]
        BY <1>0, QueueSame, QueueItems
      <4>2. b = [i \in 1..((k + 1) - 1) |-> value'[d[i + 1]]]
        BY <2>8, <2>9, QueueSame, QueueItems
      <4> QED
        BY <4>1, <4>2
    <3> HIDE DEF a, b
    <3>2. /\ DOMAIN a = 1..(k - 1) /\ a = [i \in DOMAIN a |-> a[i]] /\ k - 1 \in Nat
          /\ DOMAIN b = 1..((k - 1) + 1) /\ b = [i \in DOMAIN b |-> b[i]]
      BY <1>0, <3>1
    <3>3. \A i \in 1..(k - 1) : b[i] = a[i]
      <4> TAKE i \in 1..(k - 1)
      <4>1. i + 1 \in 1..k /\ i \in 1..((k + 1) - 1)
        BY <1>0
      <4> QED
        BY <2>1, <2>9, <3>1, <4>1
    <3>4. b[(k - 1) + 1] = <<p, made[p]>>
      <4>1. (k - 1) + 1 \in 1..((k + 1) - 1) /\ ((k - 1) + 1) + 1 = k + 1
        BY <1>0
      <4> QED
        BY <2>1, <2>5, <2>9, <3>1, <4>1
    <3>5. b = Append(a, <<p, made[p]>>) /\ Len(a) = k - 1
      BY <3>2, <3>3, <3>4, SeqPut, SeqOf
    <3>6. k - 1 < Cardinality(Nodes)
      <4>1. k <= Cardinality(Nodes) /\ Cardinality(Nodes) \in Nat
        BY <1>0, ChainLength
      <4> QED
        BY <1>0, <4>1
    <3>7. Fifo!Value(p, made[p]) = <<p, made[p]>> /\ made[p] < Loops + 0
      BY <2>5, LoopsAssumption DEF Fifo!Value
    <3> QED
      BY <2>1, <3>5, <3>6, <3>7 DEF Fifo!Put, a, b
  <2> QED
    BY <2>10, <2>11, <2>13, <2>14, <2>15, QueueNext
<1>5. CASE Q!MoveTail(p)
  <2>1. /\ pc[p] = "move" /\ pc' = [pc EXCEPT ![p] = "unlock"] /\ tail' = node[p]
        /\ UNCHANGED <<head, value, next, allocated, head_lock, tail_lock, node, made, tmp>>
    BY <1>5 DEF Q!MoveTail, Q!Goto
  <2>2. tail' = c[k]
    BY <1>1, <2>1 DEF QueueEnds
  <2>3. IsChain(Nodes, c, k, head', next') /\ Q!Contents' = Q!Contents
    BY <1>0, <1>t, <2>1, QueueKeep
  <2>4. QueueTypeOK'
    BY <1>0, <1>t, <2>1 DEF QueueTypeOK
  <2>5. QueueLocks'
    BY <1>0, <1>t, <2>1 DEF QueueLocks
  <2>6. \A t \in Procs : QueueOwns(t)' = QueueOwns(t)
    BY <1>0, <1>t, <2>1 DEF QueueOwns
  <2>7. QueueNodes(c, k)'
    BY <1>0, <1>1, <2>1, <2>6 DEF QueueNodes
  <2>8. QueueEnds(c, k)'
    BY <1>0, <1>1, <1>t, <2>1, <2>2, <2>3 DEF QueueEnds
  <2> QED
    BY <2>1, <2>3, <2>4, <2>5, <2>7, <2>8, QueueNext
<1>6. CASE Q!UnlockTail(p)
  <2>1. /\ pc[p] = "unlock" /\ pc' = [pc EXCEPT ![p] = "call"] /\ tail_lock' = "none"
        /\ node' = [node EXCEPT ![p] = "NULL"]
        /\ UNCHANGED <<head, tail, value, next, allocated, head_lock, made, tmp>>
    BY <1>6 DEF Q!UnlockTail, Q!Goto, Q!None, Q!NULL, Q!Drop, Q!qvars
  <2>3. IsChain(Nodes, c, k, head', next') /\ Q!Contents' = Q!Contents
    BY <1>0, <1>t, <2>1, QueueKeep
  <2>4. QueueTypeOK'
    BY <1>0, <1>t, <2>1 DEF QueueTypeOK
  <2>5. QueueLocks'
    BY <1>0, <1>t, <2>1 DEF QueueLocks
  <2>6. \A t \in Procs : QueueOwns(t)' = QueueOwns(t) /\ (QueueOwns(t) => node'[t] = node[t])
    BY <1>0, <1>t, <2>1 DEF QueueOwns
  <2>7. QueueNodes(c, k)'
    BY <1>0, <1>1, <2>1, <2>6 DEF QueueNodes
  <2>8. QueueEnds(c, k)'
    BY <1>0, <1>1, <1>t, <2>1, <2>3 DEF QueueEnds
  <2> QED
    BY <2>1, <2>3, <2>4, <2>5, <2>7, <2>8, QueueNext
<1> QED
  BY <1>2, <1>3, <1>4, <1>5, <1>6 DEF Q!Queue_Enqueue

\* Every step of Queue_Dequeue keeps the invariant; the store to head takes an
\* item, the other steps leave the queue as it is.
LEMMA QueueDequeue ==
  ASSUME QueueInv, ~Ring, ~Ring', NEW q \in Consumers, Q!Queue_Dequeue(q)
  PROVE  /\ QueueInv'
         /\ \/ Q!MoveHead(q) /\ Fifo!Get(q)
            \/ Q!ReadEmpty(q) /\ Q!Contents = <<>> /\ UNCHANGED <<Q!Contents, made, tmp>>
            \/ /\ Q!LockHead(q) \/ Q!UnlockHead(q) \/ Q!Free(q)
               /\ UNCHANGED <<Q!Contents, made, tmp>>
<1>1. PICK k, c : QueueNodes(c, k) /\ QueueEnds(c, k)
  BY DEF QueueInv, QueueIs
<1>0. /\ QueueTypeOK /\ QueueLocks /\ "NULL" \notin Nodes /\ "none" \notin Procs
      /\ IsFiniteSet(Nodes) /\ q \in Procs /\ Producers \subseteq Procs
      /\ Consumers \subseteq Procs /\ \A p \in Producers : p # q /\ p \notin Consumers
      /\ k \in Nat \ {0} /\ c \in [1..k -> Nodes] /\ k \in 1..k
      /\ IsChain(Nodes, c, k, head, next) /\ c[k] \in On(c, k) /\ On(c, k) \subseteq Nodes
  <2>1. k \in Nat \ {0} /\ c \in [1..k -> Nodes] /\ IsChain(Nodes, c, k, head, next)
    BY <1>1 DEF QueueEnds, IsChain
  <2>2. k \in 1..k
    BY <2>1
  <2> QED
    BY <2>1, <2>2, NodesAssumption DEF QueueInv, Procs, Q!NULL, Q!None, On
<1>t. /\ next \in [Nodes -> Nodes \cup {"NULL"}] /\ DOMAIN value = Nodes
      /\ allocated \in SUBSET Nodes
      /\ pc \in [Procs -> {"call", "lock", "link", "move", "unlock", "read", "free"}]
      /\ node \in [Procs -> Nodes \cup {"NULL"}]
      /\ made \in [Producers -> Nat] /\ DOMAIN tmp = Consumers
  BY <1>0 DEF QueueTypeOK
<1>h. head = c[1] /\ head \in On(c, k) /\ head \in Nodes
  <2>1. 1 \in 1..k
    BY <1>0
  <2> QED
    BY <1>0, <2>1 DEF IsChain, On
<1>2. CASE Q!LockHead(q)
  <2>1. /\ pc[q] = "call" /\ pc' = [pc EXCEPT ![q] = "read"]
        /\ head_lock = "none" /\ head_lock' = q /\ node' = [node EXCEPT ![q] = head]
        /\ UNCHANGED <<head, tail, value, next, allocated, tail_lock, made, tmp>>
    BY <1>2 DEF Q!LockHead, Q!Goto, Q!None, Q!qvars
  <2>3. IsChain(Nodes, c, k, head', next') /\ Q!Contents' = Q!Contents
    BY <1>0, <1>t, <2>1, QueueKeep
  <2>4. QueueTypeOK'
    BY <1>0, <1>t, <1>h, <2>1 DEF QueueTypeOK
  <2>5. QueueLocks'
    BY <1>0, <1>t, <2>1 DEF QueueLocks
  <2>6. \A t \in Procs : QueueOwns(t)' = QueueOwns(t) /\ (QueueOwns(t) => node'[t] = node[t])
    BY <1>0, <1>t, <2>1 DEF QueueOwns
  <2>7. QueueNodes(c, k)'
    BY <1>0, <1>1, <2>1, <2>6 DEF QueueNodes
  <2>8. QueueEnds(c, k)'
    BY <1>0, <1>1, <1>t, <2>1, <2>3 DEF QueueEnds
  <2> QED
    BY <1>2, <2>1, <2>3, <2>4, <2>5, <2>7, <2>8, QueueNext
<1>3. CASE Q!ReadEmpty(q)
  <2>1. /\ pc[q] = "read" /\ pc' = [pc EXCEPT ![q] = "call"]
        /\ head_lock' = "none" /\ node' = [node EXCEPT ![q] = "NULL"]
        /\ UNCHANGED <<head, tail, value, next, allocated, tail_lock, made, tmp>>
    BY <1>3 DEF Q!ReadEmpty, Q!Goto, Q!None, Q!NULL, Q!Drop, Q!qvars
  <2>3. IsChain(Nodes, c, k, head', next') /\ Q!Contents' = Q!Contents
    BY <1>0, <1>t, <2>1, QueueKeep
  <2>4. QueueTypeOK'
    BY <1>0, <1>t, <2>1 DEF QueueTypeOK
  <2>5. QueueLocks'
    BY <1>0, <1>t, <2>1 DEF QueueLocks
  <2>6. \A t \in Procs : QueueOwns(t)' = QueueOwns(t) /\ (QueueOwns(t) => node'[t] = node[t])
    BY <1>0, <1>t, <2>1 DEF QueueOwns
  <2>7. QueueNodes(c, k)'
    BY <1>0, <1>1, <2>1, <2>6 DEF QueueNodes
  <2>8. QueueEnds(c, k)'
    BY <1>0, <1>1, <1>t, <2>1, <2>3 DEF QueueEnds
  <2>9. Q!Contents = <<>>
    <3>1. next[head] = "NULL"
      BY <1>1, <1>3, <2>1 DEF QueueEnds, Q!ReadEmpty, Q!NULL
    <3>2. 1 \in 1..k /\ next[c[1]] = IF 1 = k THEN "NULL" ELSE c[1 + 1]
      BY <1>0 DEF IsChain
    <3>3. k # 1 => 1 + 1 \in 1..k
      BY <1>0
    <3>4. k = 1
      BY <1>0, <1>h, <3>1, <3>2, <3>3
    <3>5. Q!Contents = [i \in 1..(k - 1) |-> value[c[i + 1]]]
      BY <1>0, QueueSame, QueueItems
    <3> QED
      BY <3>4, <3>5
  <2> QED
    BY <1>3, <2>1, <2>3, <2>4, <2>5, <2>7, <2>8, <2>9, QueueNext
<1>4. CASE Q!MoveHead(q)
  <2>1. /\ pc[q] = "read" /\ pc' = [pc EXCEPT ![q] = "unlock"] /\ next[node[q]] # "NULL"
        /\ tmp' = [tmp EXCEPT ![q] = value[next[node[q]]]] /\ head' = next[node[q]]
        /\ UNCHANGED <<tail, value, next, allocated, head_lock, tail_lock, node, made>>
    BY <1>4 DEF Q!MoveHead, Q!Goto, Q!NULL
  <2>2. node[q] = head
    BY <1>1, <2>1 DEF QueueEnds
  <2>3. k # 1 /\ k - 1 \in Nat \ {0} /\ next[head] = c[2]
    <3>1. 1 \in 1..k /\ next[c[1]] = IF 1 = k THEN "NULL" ELSE c[1 + 1]
      BY <1>0 DEF IsChain
    <3>2. k # 1
      BY <1>h, <2>1, <2>2, <3>1
    <3>3. 1 + 1 = 2 /\ k - 1 \in Nat \ {0}
      BY <1>0, <3>2
    <3> QED
      BY <1>h, <3>1, <3>2, <3>3
  <2>4. PICK d, x : d = Rest(c, k) /\ x = head
    OBVIOUS
  <2>5. IsChain(Nodes, d, k - 1, head', next') /\ On(d, k - 1) = On(c, k) \ {x}
    <3>1. k # 0
      BY <1>0
    <3>2. /\ IsChain(Nodes, Rest(c, k), k - 1, next[head], next)
          /\ On(Rest(c, k), k - 1) = On(c, k) \ {head}
      BY <1>0, <3>1, ChainRest
    <3> QED
      BY <2>1, <2>2, <2>4, <3>2
  <2>6. \A i \in 1..(k - 1) : i + 1 \in 1..k /\ d[i] = c[i + 1]
    BY <1>0, <2>4 DEF Rest
  <2>7. d[k - 1] = c[k]
    <3>1. k - 1 \in 1..(k - 1) /\ (k - 1) + 1 = k
      BY <1>0, <2>3
    <3> QED
      BY <2>6, <3>1
  <2>8. QueueTypeOK'
    BY <1>0, <1>t, <2>1 DEF QueueTypeOK
  <2>9. QueueLocks'
    BY <1>0, <1>t, <2>1 DEF QueueLocks
  <2>10. /\ QueueOwns(q)' /\ ~QueueOwns(q) /\ node'[q] = x
         /\ \A t \in Procs : t # q => QueueOwns(t)' = QueueOwns(t)
    BY <1>0, <1>t, <2>1, <2>2, <2>4 DEF QueueOwns
  <2>11. QueueNodes(d, k - 1)'
    <3>1. x \in On(c, k) /\ x \in allocated
      BY <1>1, <1>h, <2>4 DEF QueueNodes
    <3>2. On(d, k - 1) \subseteq allocated'
      BY <1>1, <2>1, <2>5 DEF QueueNodes
    <3>3. \A t \in Procs : QueueOwns(t)' => node'[t] \in allocated' /\ node'[t] \notin On(d, k - 1)
      BY <1>1, <2>1, <2>5, <2>10, <3>1 DEF QueueNodes
    <3>4. \A t, u \in Procs : QueueOwns(t)' /\ QueueOwns(u)' /\ node'[t] = node'[u] => t = u
      BY <1>1, <2>1, <2>10, <3>1 DEF QueueNodes
    <3>5. \A y \in allocated' : y \notin On(d, k - 1) =>
             \E t \in Procs : QueueOwns(t)' /\ node'[t] = y
      BY <1>0, <1>1, <2>1, <2>5, <2>10 DEF QueueNodes
    <3> QED
      BY <3>2, <3>3, <3>4, <3>5 DEF QueueNodes
  <2>12. QueueEnds(d, k - 1)'
    <3>1. \A p \in Producers : pc'[p] = pc[p]
      BY <1>0, <1>t, <2>1
    <3>2. \A r \in Consumers : pc'[r] # "read"
      BY <1>0, <1>t, <2>1 DEF QueueLocks
    <3>3. k - 1 # 0
      BY <2>3
    <3> QED
      BY <1>1, <2>1, <2>5, <2>7, <3>1, <3>2, <3>3 DEF QueueEnds
  <2>13. Fifo!Get(q)
    <3> DEFINE a == Q!Contents
               b == Q!Contents'
    <3>0. PICK j : j = k - 1
      OBVIOUS
    <3>j. j \in Nat \ {0} /\ j # 0 /\ IsChain(Nodes, d, j, head', next')
      BY <2>3, <2>5, <3>0
    <3>1. /\ a = [i \in 1..j |-> value[c[i + 1]]]
          /\ b = [i \in 1..(j - 1) |-> value'[d[i + 1]]]
      <4>1. a = [i \in 1..(k - 1) |-> value[c[i + 1]]]
        BY <1>0, QueueSame, QueueItems
      <4>2. b = [i \in 1..(j - 1) |-> value'[d[i + 1]]]
        BY <3>j, QueueSame, QueueItems
      <4> QED
        BY <3>0, <4>1, <4>2
    <3> HIDE DEF a, b
    <3>2. /\ DOMAIN a = 1..j /\ a = [i \in DOMAIN a |-> a[i]]
          /\ DOMAIN b = 1..(j - 1) /\ b = [i \in DOMAIN b |-> b[i]]
      BY <3>1
    <3>3. \A i \in 1..(j - 1) : b[i] = a[i + 1]
      <4> TAKE i \in 1..(j - 1)
      <4>1. i + 1 \in 1..j
        BY <3>j
      <4> QED
        BY <2>1, <2>6, <3>0, <3>1, <4>1
    <3>4. a[1] = value[c[2]]
      <4>1. 1 \in 1..j /\ 1 + 1 = 2
        BY <3>j
      <4> QED
        BY <3>1, <4>1
    <3>5. a # <<>> /\ Head(a) = a[1] /\ Tail(a) = b
      BY <3>j, <3>2, <3>3, SeqGet
    <3> QED
      BY <2>1, <2>2, <2>3, <3>4, <3>5 DEF Fifo!Get, a, b
  <2> QED
    BY <1>4, <2>8, <2>9, <2>11, <2>12, <2>13, QueueNext
<1>5. CASE Q!UnlockHead(q)
  <2>1. /\ pc[q] = "unlock" /\ pc' = [pc EXCEPT ![q] = "free"] /\ head_lock' = "none"
        /\ UNCHANGED <<head, tail, value, next, allocated, tail_lock, node, made, tmp>>
    BY <1>5 DEF Q!UnlockHead, Q!Goto, Q!None, Q!qvars
  <2>3. IsChain(Nodes, c, k, head', next') /\ Q!Contents' = Q!Contents
    BY <1>0, <1>t, <2>1, QueueKeep
  <2>4. QueueTypeOK'
    BY <1>0, <1>t, <2>1 DEF QueueTypeOK
  <2>5. QueueLocks'
    BY <1>0, <1>t, <2>1 DEF QueueLocks
  <2>6. \A t \in Procs : QueueOwns(t)' = QueueOwns(t)
    BY <1>0, <1>t, <2>1 DEF QueueOwns
  <2>7. QueueNodes(c, k)'
    BY <1>0, <1>1, <2>1, <2>6 DEF QueueNodes
  <2>8. QueueEnds(c, k)'
    BY <1>0, <1>1, <1>t, <2>1, <2>3 DEF QueueEnds
  <2> QED
    BY <1>5, <2>1, <2>3, <2>4, <2>5, <2>7, <2>8, QueueNext
<1>6. CASE Q!Free(q)
  <2>1. /\ pc[q] = "free" /\ pc' = [pc EXCEPT ![q] = "call"]
        /\ allocated' = allocated \ {node[q]} /\ node' = [node EXCEPT ![q] = "NULL"]
        /\ UNCHANGED <<head, tail, value, next, head_lock, tail_lock, made, tmp>>
    BY <1>6 DEF Q!Free, Q!Goto, Q!NULL, Q!Drop
  <2>2. node[q] \in allocated /\ node[q] \notin On(c, k)
    BY <1>0, <1>1, <2>1 DEF QueueNodes, QueueOwns
  <2>3. IsChain(Nodes, c, k, head', next') /\ Q!Contents' = Q!Contents
    BY <1>0, <1>t, <2>1, QueueKeep
  <2>4. QueueTypeOK'
    BY <1>0, <1>t, <2>1 DEF QueueTypeOK
  <2>5. QueueLocks'
    BY <1>0, <1>t, <2>1 DEF QueueLocks
  <2>6. /\ QueueOwns(q) /\ ~QueueOwns(q)'
        /\ \A t \in Procs : t # q => QueueOwns(t)' = QueueOwns(t) /\ node'[t] = node[t]
    BY <1>0, <1>t, <2>1 DEF QueueOwns
  <2>7. QueueNodes(c, k)'
    <3>1. \A t \in Procs : QueueOwns(t)' =>
             QueueOwns(t) /\ node'[t] = node[t] /\ node[t] # node[q]
      BY <1>0, <1>1, <2>6 DEF QueueNodes
    <3>2. On(c, k) \subseteq allocated'
      BY <1>1, <2>1, <2>2 DEF QueueNodes
    <3>3. \A t \in Procs : QueueOwns(t)' => node'[t] \in allocated' /\ node'[t] \notin On(c, k)
      BY <1>1, <2>1, <3>1 DEF QueueNodes
    <3>4. \A t, u \in Procs : QueueOwns(t)' /\ QueueOwns(u)' /\ node'[t] = node'[u] => t = u
      BY <1>1, <3>1 DEF QueueNodes
    <3>5. \A y \in allocated' : y \notin On(c, k) => \E t \in Procs : QueueOwns(t)' /\ node'[t] = y
      BY <1>1, <2>1, <2>6 DEF QueueNodes
    <3> QED
      BY <3>2, <3>3, <3>4, <3>5 DEF QueueNodes
  <2>8. QueueEnds(c, k)'
    BY <1>0, <1>1, <1>t, <2>1, <2>3 DEF QueueEnds
  <2> QED
    BY <1>6, <2>1, <2>3, <2>4, <2>5, <2>7, <2>8, QueueNext
<1> QED
  BY <1>2, <1>3, <1>4, <1>5, <1>6 DEF Q!Queue_Dequeue

\* Every answer of Queue_Dequeue is one of the queue: -1 only when it is empty.
LEMMA QueueTries ==
  ASSUME QueueInv, ~Ring, ~Ring', DOMAIN calls = Consumers, NEW t \in Procs, Q!Step(t)
  PROVE  QueueInv' /\ (Fifo!TryNext \/ UNCHANGED <<Q!Contents, made, tmp, Q!Answers>>)
<1>0. /\ Producers \subseteq Procs /\ Consumers \subseteq Procs
      /\ \A p \in Producers : p \notin Consumers
      /\ pc \in [Procs -> {"call", "lock", "link", "move", "unlock", "read", "free"}]
  BY NodesAssumption DEF Procs, QueueInv, QueueTypeOK
<1>a. /\ Q!Answers = [c \in Consumers |->
                        IF pc[c] \in {"unlock", "free"} THEN calls[c] + 1 ELSE calls[c]]
      /\ Q!Answers' = [c \in Consumers |->
                         IF pc'[c] \in {"unlock", "free"} THEN calls'[c] + 1 ELSE calls'[c]]
  BY DEF Q!Answers
<1>1. CASE t \in Producers /\ Q!Queue_Enqueue(t)
  <2>1. QueueInv' /\ (Fifo!Put(t) \/ UNCHANGED <<Q!Contents, made, tmp>>)
    BY <1>1, QueueEnqueue
  <2>2. UNCHANGED calls /\ \A c \in Consumers : pc'[c] = pc[c]
    BY <1>0, <1>1
    DEF Q!Queue_Enqueue, Q!Create, Q!LockTail, Q!Link, Q!MoveTail, Q!UnlockTail, Q!Goto
  <2>3. Q!Answers' = Q!Answers
    BY <1>a, <2>2
  <2>4. Fifo!Put(t) => Fifo!TryPut(t)
    BY <2>3 DEF Fifo!TryPut
  <2> QED
    BY <1>1, <2>1, <2>3, <2>4 DEF Fifo!TryNext
<1>2. CASE t \in Consumers /\ Q!Queue_Dequeue(t)
  <2>1. CASE Q!MoveHead(t) /\ Fifo!Get(t)
    <3>1. Q!Answers' = [Q!Answers EXCEPT ![t] = @ + 1]
      BY <1>0, <1>2, <1>a, <2>1 DEF Q!MoveHead, Q!Goto
    <3>2. Fifo!TryGet(t)
      BY <2>1, <3>1 DEF Fifo!TryGet
    <3> QED
      BY <1>2, <3>2, QueueDequeue DEF Fifo!TryNext
  <2>2. CASE Q!ReadEmpty(t) /\ Q!Contents = <<>> /\ UNCHANGED <<Q!Contents, made, tmp>>
    <3>1. Q!Answers' = [Q!Answers EXCEPT ![t] = @ + 1]
      BY <1>0, <1>2, <1>a, <2>2 DEF Q!ReadEmpty, Q!Goto
    <3>2. Fifo!Empty(t)
      BY <2>2, <3>1 DEF Fifo!Empty, Fifo!vars
    <3> QED
      BY <1>2, <3>2, QueueDequeue DEF Fifo!TryNext
  <2>3. CASE /\ Q!LockHead(t) \/ Q!UnlockHead(t) \/ Q!Free(t)
             /\ UNCHANGED <<Q!Contents, made, tmp>>
    <3>1. Q!Answers' = Q!Answers
      BY <1>0, <1>2, <1>a, <2>3 DEF Q!LockHead, Q!UnlockHead, Q!Free, Q!Goto
    <3> QED
      BY <1>2, <2>3, <3>1, QueueDequeue
  <2> QED
    BY <1>2, <2>1, <2>2, <2>3, QueueDequeue
<1> QED
  BY <1>1, <1>2 DEF Q!Step

\* No freed node is used, and none leaks.
LEMMA QueueSafe == QueueInv => Q!NoUseAfterFree /\ Q!NoLeak
<1> SUFFICES ASSUME QueueInv PROVE Q!NoUseAfterFree /\ Q!NoLeak
  OBVIOUS
<1>1. PICK k, c : QueueNodes(c, k) /\ QueueEnds(c, k)
  BY DEF QueueInv, QueueIs
<1>0. /\ QueueLocks /\ "NULL" \notin Nodes /\ "none" \notin Procs /\ IsFiniteSet(Nodes)
      /\ k \in Nat \ {0} /\ IsChain(Nodes, c, k, head, next) /\ On(c, k) \subseteq allocated
      /\ Producers \subseteq Procs /\ Consumers \subseteq Procs
  BY <1>1, NodesAssumption DEF QueueInv, QueueEnds, QueueNodes, IsChain, Procs, Q!NULL, Q!None
<1>2. head \in allocated /\ c[k] \in allocated
  <2>1. 1 \in 1..k /\ k \in 1..k
    BY <1>0
  <2> QED
    BY <1>0, <2>1 DEF IsChain, On
<1>3. \A p \in Producers : pc[p] = "link" => tail \in allocated
  BY <1>0, <1>1, <1>2 DEF QueueEnds, QueueLocks
<1>4. tail_lock = "none" => tail \in allocated
  BY <1>0, <1>1, <1>2 DEF QueueEnds, QueueLocks
<1>5. \A q \in Consumers : pc[q] \in {"read", "free"} => node[q] \in allocated
  BY <1>0, <1>1, <1>2 DEF QueueEnds, QueueNodes, QueueOwns
<1>6. Q!NoUseAfterFree
  BY <1>2, <1>3, <1>4, <1>5 DEF Q!NoUseAfterFree, Q!None
<1>7. ASSUME \A t \in Procs : pc[t] = "call"
      PROVE  allocated = {Q!Hop[i] : i \in 0..Cardinality(Nodes)} \ {"NULL"}
  <2>1. allocated = On(c, k)
    BY <1>0, <1>1, <1>7 DEF QueueNodes, QueueOwns
  <2>2. Reach(Nodes, head, next) = On(c, k)
    BY <1>0, ChainReach
  <2> QED
    BY <2>1, <2>2, QueueSame DEF Reach
<1>8. \A X : Q!Cardinality(X) = Cardinality(X)
  BY DEF Q!Cardinality, Cardinality
<1>9. Q!NoLeak
  BY <1>7, <1>8 DEF Q!NoLeak, Q!Procs, Procs, Q!NULL
<1> QED
  BY <1>6, <1>9

------------------------------------------------------------------------------
(* The lock-free stack *)

\* the nodes that the stack has
StackNodes == Nodes \ {CHOOSE n \in Nodes : TRUE}

StackTypeOK ==
    /\ next \in [StackNodes -> StackNodes \cup {"NULL"}] /\ DOMAIN value = StackNodes
    /\ allocated \in SUBSET StackNodes
    /\ pc \in [Procs -> {"call", "load", "exchange", "test", "data", "delete"}]
    /\ node \in [Procs -> StackNodes \cup {"NULL"}]
    /\ nextn \in [Consumers -> StackNodes \cup {"NULL"}]
    /\ made \in [Producers -> Nat] /\ DOMAIN tmp = Consumers
    /\ \A p \in Producers : pc[p] \in {"call", "load", "exchange"}

\* the thread has a node that it has not pushed yet, or has popped
StackOwns(t) == \/ t \in Producers /\ pc[t] \in {"load", "exchange"}
                \/ t \in Consumers /\ pc[t] \in {"data", "delete"}

\* every allocated node is on the stack or has one owner, and a popper not in
\* off has read the next of a node that is still on the stack
StackIs(c, k) ==
    /\ IsChain(StackNodes, c, k, head, next)
    /\ On(c, k) \subseteq allocated
    /\ \A t \in Procs : StackOwns(t) => node[t] \in allocated /\ node[t] \notin On(c, k)
    /\ \A t, u \in Procs : StackOwns(t) /\ StackOwns(u) /\ node[t] = node[u] => t = u
    /\ \A x \in allocated : x \notin On(c, k) => \E t \in Procs : StackOwns(t) /\ node[t] = x
    /\ \A p \in Producers : pc[p] \in {"load", "exchange"} =>
          value[node[p]] = <<p, made[p]>> /\ made[p] < Loops
    /\ \A q \in Consumers : pc[q] = "exchange" /\ q \notin off =>
          node[q] \in On(c, k) /\ nextn[q] = next[node[q]]

StackInv == ~aba => /\ StackTypeOK
                    /\ \E k \in 0..Cardinality(StackNodes) :
                         \E c \in [1..k -> StackNodes] : StackIs(c, k)

\* the values of the nodes
StackSeq(h, nx, v) ==
    [i \in 1..Cardinality(Reach(StackNodes, h, nx)) |->
        v[Hops(h, nx, Cardinality(StackNodes))[i - 1]]]

LEMMA StackFinite == IsFiniteSet(StackNodes) /\ "NULL" \notin StackNodes
<1>1. StackNodes \in SUBSET Nodes
  BY DEF StackNodes
<1> QED
  BY <1>1, NodesAssumption, FS_Subset DEF Q!NULL

LEMMA StackSame == /\ S!OnStack = Reach(StackNodes, head, next)
                   /\ S!Contents = StackSeq(head, next, value)
                   /\ S!Contents' = StackSeq(head', next', value')
<1>1. \A X : S!Cardinality(X) = Cardinality(X)
  BY DEF S!Cardinality, Cardinality
<1>2. /\ S!Hop = Hops(head, next, S!Cardinality(StackNodes))
      /\ S!Hop' = Hops(head', next', S!Cardinality(StackNodes))
  BY DEF S!Hop, Hops, S!nullptr, StackNodes
<1>3. /\ S!Hop = Hops(head, next, Cardinality(StackNodes))
      /\ S!Hop' = Hops(head', next', Cardinality(StackNodes))
  BY <1>1, <1>2
<1>4. \A h, nx, m : DOMAIN Hops(h, nx, m) = 0..m
  BY DEF Hops
<1>5. /\ S!OnStack = Reach(StackNodes, head, next)
      /\ S!OnStack' = Reach(StackNodes, head', next')
  BY <1>3, <1>4 DEF S!OnStack, Reach, S!nullptr
<1> QED
  BY <1>1, <1>3, <1>5 DEF S!Contents, StackSeq

\* The contents are the values of the nodes of the list.
LEMMA StackItems ==
  ASSUME NEW c, NEW k, NEW h, NEW nx, NEW v, IsChain(StackNodes, c, k, h, nx)
  PROVE  StackSeq(h, nx, v) = [i \in 1..k |-> v[c[i]]]
<1> DEFINE m == Cardinality(StackNodes)
           w == Hops(h, nx, m)
<1>0. k \in Nat /\ c \in [1..k -> StackNodes]
  BY DEF IsChain
<1>1. m \in Nat /\ k <= m /\ Cardinality(On(c, k)) = k
  BY StackFinite, ChainLength
<1>2. Reach(StackNodes, h, nx) = On(c, k)
  BY StackFinite, ChainReach
<1> HIDE DEF m
<1>3. \A i \in 0..m : w[i] = IF i < k THEN c[i + 1] ELSE "NULL"
  BY <1>0, <1>1, StackFinite, HopsChain
<1>4. StackSeq(h, nx, v) = [i \in 1..k |-> v[w[i - 1]]]
  BY <1>1, <1>2 DEF StackSeq, m
<1> HIDE DEF w
<1>5. \A i \in 1..k : w[i - 1] = c[i]
  <2> TAKE i \in 1..k
  <2>1. i - 1 \in 0..m /\ i - 1 < k /\ (i - 1) + 1 = i
    BY <1>0, <1>1
  <2> QED
    BY <1>3, <2>1
<1> QED
  BY <1>4, <1>5

\* The contents stay when the list and the values of its nodes do.
LEMMA StackKeep ==
  ASSUME NEW c, NEW k, IsChain(StackNodes, c, k, head, next), head' = head,
         \A x \in On(c, k) : next'[x] = next[x] /\ value'[x] = value[x]
  PROVE  IsChain(StackNodes, c, k, head', next') /\ S!Contents' = S!Contents
<1>1. \A i \in 1..k : next'[c[i]] = next[c[i]] /\ value'[c[i]] = value[c[i]]
  BY DEF On
<1>2. IsChain(StackNodes, c, k, head', next')
  BY <1>1 DEF IsChain
<1>4. /\ S!Contents = [i \in 1..k |-> value[c[i]]]
      /\ S!Contents' = [i \in 1..k |-> value'[c[i]]]
  BY <1>2, StackSame, StackItems
<1> QED
  BY <1>1, <1>2, <1>4

\* What was popped stays when it does for every popper.
LEMMA PoppedKeep ==
  ASSUME \A q \in Consumers :
            (IF pc'[q] = "data" THEN value'[node'[q]] ELSE tmp'[q])
              = (IF pc[q] = "data" THEN value[node[q]] ELSE tmp[q])
  PROVE  S!Popped' = S!Popped
BY DEF S!Popped

\* What a step of push or pop does to the number of answers.
LEMMA StackAnswers ==
  ASSUME StackTypeOK, DOMAIN calls = Consumers
  PROVE  /\ \A p \in Producers : S!push(p) => S!Answers' = S!Answers
         /\ \A q \in Consumers :
               /\ S!PopExchange(q) => S!Answers' = [S!Answers EXCEPT ![q] = @ + 1]
               /\ S!PopLoad(q) \/ S!PopFail(q) =>
                     S!Answers' = IF head = "NULL" THEN [S!Answers EXCEPT ![q] = @ + 1]
                                                   ELSE S!Answers
               /\ S!PopEmpty(q) \/ S!PopNext(q) \/ S!PopData(q) \/ S!PopDelete(q) =>
                     S!Answers' = S!Answers
<1>0. /\ Producers \subseteq Procs /\ Consumers \subseteq Procs
      /\ \A p \in Producers : p \notin Consumers
      /\ pc \in [Procs -> {"call", "load", "exchange", "test", "data", "delete"}]
      /\ node \in [Procs -> StackNodes \cup {"NULL"}]
  BY NodesAssumption DEF Procs, StackTypeOK
<1> DEFINE Ans(c) == IF pc[c] \in {"data", "delete"} \/ (pc[c] = "test" /\ node[c] = "NULL")
                       THEN calls[c] + 1 ELSE calls[c]
<1>a. S!Answers = [c \in Consumers |-> Ans(c)] /\ S!Answers' = [c \in Consumers |-> Ans(c)']
  BY DEF S!Answers, S!nullptr
<1>1. ASSUME NEW p \in Producers, S!push(p) PROVE S!Answers' = S!Answers
  <2>1. UNCHANGED calls /\ \A c \in Consumers : pc'[c] = pc[c] /\ node'[c] = node[c]
    BY <1>0, <1>1 DEF S!push, S!New, S!PushLoad, S!PushExchange, S!Goto
  <2> QED
    BY <1>a, <2>1
<1>2. ASSUME NEW q \in Consumers, S!PopExchange(q)
      PROVE  S!Answers' = [S!Answers EXCEPT ![q] = @ + 1]
  BY <1>0, <1>2, <1>a DEF S!PopExchange, S!Goto
<1>3. ASSUME NEW q \in Consumers, S!PopLoad(q) \/ S!PopFail(q)
      PROVE  S!Answers' = IF head = "NULL" THEN [S!Answers EXCEPT ![q] = @ + 1] ELSE S!Answers
  BY <1>0, <1>3, <1>a DEF S!PopLoad, S!PopFail, S!Goto
<1>4. ASSUME NEW q \in Consumers,
             S!PopEmpty(q) \/ S!PopNext(q) \/ S!PopData(q) \/ S!PopDelete(q)
      PROVE  S!Answers' = S!Answers
  BY <1>0, <1>4, <1>a DEF S!PopEmpty, S!PopNext, S!PopData, S!PopDelete, S!Goto, S!nullptr
<1> QED
  BY <1>1, <1>2, <1>3, <1>4

\* The constructor establishes the invariant, and the stack is empty.
LEMMA StackInit == S!Init => StackInv /\ S!Contents = <<>> /\ Lifo!Init
<1> SUFFICES ASSUME S!Init PROVE StackInv /\ S!Contents = <<>> /\ Lifo!Init
  OBVIOUS
<1>1. /\ head = "NULL" /\ allocated = {} /\ value = [n \in StackNodes |-> <<"none", 0>>]
      /\ next = [n \in StackNodes |-> "NULL"]
      /\ pc = [t \in Procs |-> "call"] /\ node = [t \in Procs |-> "NULL"]
      /\ nextn = [q \in Consumers |-> "NULL"]
      /\ made = [p \in Producers |-> 0] /\ tmp = [q \in Consumers |-> <<"none", 0>>]
      /\ calls = [q \in Consumers |-> 0]
  BY DEF S!Init, S!nullptr, S!Procs, Procs, StackNodes
<1>2. StackTypeOK
  BY <1>1 DEF StackTypeOK, Procs
<1> DEFINE c == [i \in 1..0 |-> "NULL"]
<1>3. IsChain(StackNodes, c, 0, head, next) /\ On(c, 0) = {} /\ c \in [1..0 -> StackNodes]
  BY <1>1 DEF IsChain, On
<1> HIDE DEF c
<1>4. StackIs(c, 0)
  BY <1>1, <1>3 DEF StackIs, StackOwns, Procs
<1>5. 0 \in 0..Cardinality(StackNodes)
  BY StackFinite, FS_CardinalityType
<1>6. StackInv
  BY <1>2, <1>3, <1>4, <1>5 DEF StackInv
<1>7. S!Contents = [i \in 1..0 |-> value[c[i]]]
  BY <1>3, StackSame, StackItems
<1>8. S!Contents = <<>>
  BY <1>7
<1>9. S!Popped = tmp /\ S!Answers = calls
  BY <1>1 DEF S!Popped, S!Answers, Procs
<1> QED
  BY <1>1, <1>6, <1>8, <1>9 DEF Lifo!Init

\* A list with the properties of the next state shows the invariant there.
LEMMA StackNext ==
  ASSUME NEW d, NEW m, StackTypeOK', StackIs(d, m)'
  PROVE  StackInv'
<1>1. IsChain(StackNodes, d, m, head', next')
  BY DEF StackIs
<1>2. m \in 0..Cardinality(StackNodes) /\ d \in [1..m -> StackNodes]
  <2>1. m <= Cardinality(StackNodes) /\ Cardinality(StackNodes) \in Nat
    BY <1>1, StackFinite, ChainLength
  <2>2. m \in Nat /\ d \in [1..m -> StackNodes]
    BY <1>1 DEF IsChain
  <2> QED
    BY <2>1, <2>2
<1> QED
  BY <1>2 DEF StackInv

\* Every step of push keeps the invariant; the exchange pushes the node.
LEMMA StackPush ==
  ASSUME StackInv, ~aba, DOMAIN calls = Consumers, NEW p \in Producers, S!push(p)
  PROVE  StackInv' /\ (Lifo!Push(p) \/ UNCHANGED <<S!Contents, made, S!Popped>>)
<1>1. PICK k, c : StackIs(c, k)
  BY DEF StackInv
<1>0. /\ StackTypeOK /\ p \in Procs /\ Producers \subseteq Procs
      /\ Consumers \subseteq Procs /\ \A q \in Consumers : q # p
      /\ IsChain(StackNodes, c, k, head, next) /\ k \in Nat /\ On(c, k) \subseteq StackNodes
  BY <1>1, NodesAssumption DEF StackInv, StackIs, IsChain, On, Procs
<1>t. /\ next \in [StackNodes -> StackNodes \cup {"NULL"}] /\ DOMAIN value = StackNodes
      /\ allocated \in SUBSET StackNodes
      /\ pc \in [Procs -> {"call", "load", "exchange", "test", "data", "delete"}]
      /\ node \in [Procs -> StackNodes \cup {"NULL"}]
      /\ nextn \in [Consumers -> StackNodes \cup {"NULL"}]
      /\ made \in [Producers -> Nat] /\ DOMAIN tmp = Consumers
      /\ \A q \in Producers : pc[q] \in {"call", "load", "exchange"}
  BY <1>0 DEF StackTypeOK
<1>c. head \in StackNodes \cup {"NULL"}
  <2>1. k # 0 => 1 \in 1..k
    BY <1>0
  <2> QED
    BY <1>0, <2>1 DEF IsChain
<1>2. CASE S!New(p)
  <2>1. PICK x \in StackNodes \ allocated :
           /\ made[p] < Loops /\ pc[p] = "call" /\ pc' = [pc EXCEPT ![p] = "load"]
           /\ allocated' = allocated \cup {x} /\ value' = [value EXCEPT ![x] = <<p, made[p]>>]
           /\ next' = [next EXCEPT ![x] = "NULL"] /\ node' = [node EXCEPT ![p] = x]
           /\ UNCHANGED <<head, nextn, made, tmp, off>>
    BY <1>2 DEF S!New, S!Goto, S!nullptr, StackNodes
  <2>2. x \notin On(c, k)
    BY <1>1 DEF StackIs
  <2>3. IsChain(StackNodes, c, k, head', next') /\ S!Contents' = S!Contents
    BY <1>0, <1>t, <2>1, <2>2, StackKeep
  <2>4. StackTypeOK'
    BY <1>0, <1>t, <2>1 DEF StackTypeOK
  <2>5. /\ StackOwns(p)' /\ node'[p] = x /\ ~StackOwns(p)
        /\ \A t \in Procs : t # p => StackOwns(t)' = StackOwns(t) /\ node'[t] = node[t]
    BY <1>0, <1>t, <2>1 DEF StackOwns
  <2>6. \A t \in Procs : StackOwns(t) => node[t] # x
    BY <1>1, <2>1 DEF StackIs
  <2>7. \A q \in Producers : pc'[q] \in {"load", "exchange"} =>
           value'[node'[q]] = <<q, made'[q]>> /\ made'[q] < Loops
    <3> SUFFICES ASSUME NEW q \in Producers, pc'[q] \in {"load", "exchange"}
                 PROVE  value'[node'[q]] = <<q, made'[q]>> /\ made'[q] < Loops
      OBVIOUS
    <3>1. CASE q = p
      BY <1>0, <1>t, <2>1, <3>1
    <3>2. CASE q # p
      <4>1. pc[q] \in {"load", "exchange"} /\ node'[q] = node[q] /\ StackOwns(q)
        BY <1>0, <1>t, <2>1, <3>2 DEF StackOwns
      <4> QED
        BY <1>0, <1>1, <1>t, <2>1, <2>6, <4>1 DEF StackIs
    <3> QED
      BY <3>1, <3>2
  <2>8. \A q \in Consumers : pc'[q] = "exchange" /\ q \notin off' =>
           node'[q] \in On(c, k) /\ nextn'[q] = next'[node'[q]]
    BY <1>0, <1>1, <1>t, <2>1, <2>2 DEF StackIs
  <2>9. StackIs(c, k)'
    <3>1. On(c, k) \subseteq allocated'
      BY <1>1, <2>1 DEF StackIs
    <3>2. \A t \in Procs : StackOwns(t)' => node'[t] \in allocated' /\ node'[t] \notin On(c, k)
      BY <1>1, <2>1, <2>2, <2>5 DEF StackIs
    <3>3. \A t, u \in Procs : StackOwns(t)' /\ StackOwns(u)' /\ node'[t] = node'[u] => t = u
      BY <1>1, <2>5, <2>6 DEF StackIs
    <3>4. \A y \in allocated' : y \notin On(c, k) => \E t \in Procs : StackOwns(t)' /\ node'[t] = y
      BY <1>0, <1>1, <2>1, <2>5 DEF StackIs
    <3> QED
      BY <2>3, <2>7, <2>8, <3>1, <3>2, <3>3, <3>4 DEF StackIs
  <2>10. S!Popped' = S!Popped
    <3>1. \A q \in Consumers : /\ pc'[q] = pc[q] /\ node'[q] = node[q]
                               /\ pc[q] = "data" => node[q] # x
      BY <1>0, <1>t, <2>1, <2>6 DEF StackOwns
    <3> QED
      BY <1>t, <2>1, <3>1, PoppedKeep
  <2> QED
    BY <2>1, <2>3, <2>4, <2>9, <2>10, StackNext
\* the node's next is set to the head: at first, or after a failed exchange
<1>w. ASSUME pc[p] \in {"load", "exchange"}, pc' = [pc EXCEPT ![p] = "exchange"],
             next' = [next EXCEPT ![node[p]] = head],
             UNCHANGED <<head, value, allocated, node, nextn, made, tmp, off>>
      PROVE  StackInv' /\ UNCHANGED <<S!Contents, made, S!Popped>>
  <2>1. node[p] \in StackNodes /\ node[p] \notin On(c, k)
    BY <1>0, <1>1, <1>t, <1>w DEF StackIs, StackOwns
  <2>2. IsChain(StackNodes, c, k, head', next') /\ S!Contents' = S!Contents
    BY <1>0, <1>t, <1>w, <2>1, StackKeep
  <2>3. StackTypeOK'
    BY <1>0, <1>t, <1>c, <1>w, <2>1 DEF StackTypeOK
  <2>4. \A t \in Procs : StackOwns(t)' = StackOwns(t)
    BY <1>0, <1>t, <1>w DEF StackOwns
  <2>5. \A q \in Consumers : pc'[q] = pc[q]
    BY <1>0, <1>t, <1>w
  <2>6. \A q \in Producers : pc'[q] \in {"load", "exchange"} =>
           value'[node'[q]] = <<q, made'[q]>> /\ made'[q] < Loops
    BY <1>0, <1>1, <1>t, <1>w DEF StackIs
  <2>7. \A q \in Consumers : pc'[q] = "exchange" /\ q \notin off' =>
           node'[q] \in On(c, k) /\ nextn'[q] = next'[node'[q]]
    BY <1>0, <1>1, <1>t, <1>w, <2>1, <2>5 DEF StackIs
  <2>8. StackIs(c, k)'
    BY <1>1, <1>w, <2>2, <2>4, <2>6, <2>7 DEF StackIs
  <2>9. S!Popped' = S!Popped
    BY <1>w, <2>5, PoppedKeep
  <2> QED
    BY <1>w, <2>2, <2>3, <2>8, <2>9, StackNext
<1>3. CASE S!PushLoad(p)
  BY <1>3, <1>w DEF S!PushLoad, S!Goto
<1>4. CASE S!PushExchange(p)
  <2>1. CASE pc[p] = "exchange" /\ head # next[node[p]]
    <3>1. pc' = pc /\ pc = [pc EXCEPT ![p] = "exchange"]
      BY <1>0, <1>4, <1>t, <2>1 DEF S!PushExchange, S!Goto
    <3> QED
      BY <1>4, <1>w, <2>1, <3>1 DEF S!PushExchange, S!Goto
  <2>2. CASE ~(pc[p] = "exchange" /\ head # next[node[p]])
    <3>1. /\ pc[p] = "exchange" /\ pc' = [pc EXCEPT ![p] = "call"]
          /\ head = next[node[p]] /\ head' = node[p]
          /\ made' = [made EXCEPT ![p] = @ + 1] /\ node' = [node EXCEPT ![p] = "NULL"]
          /\ UNCHANGED <<value, next, allocated, nextn, tmp, off>>
      BY <1>4, <2>2 DEF S!PushExchange, S!Goto, S!nullptr
    <3>2. PICK x : x = node[p]
      OBVIOUS
    <3>3. /\ x \in StackNodes /\ x \in allocated /\ x \notin On(c, k)
          /\ value[x] = <<p, made[p]>> /\ made[p] < Loops
      BY <1>0, <1>1, <1>t, <3>1, <3>2 DEF StackIs, StackOwns
    <3>4. PICK d : d = Front(c, k, x)
      OBVIOUS
    <3>5. IsChain(StackNodes, d, k + 1, head', next') /\ On(d, k + 1) = On(c, k) \cup {x}
      <4>1. /\ IsChain(StackNodes, Front(c, k, x), k + 1, x, next)
            /\ On(Front(c, k, x), k + 1) = On(c, k) \cup {x}
        BY <1>0, <3>1, <3>2, <3>3, ChainFront
      <4> QED
        BY <3>1, <3>2, <3>4, <4>1
    <3>6. StackTypeOK'
      BY <1>0, <1>t, <3>1 DEF StackTypeOK
    <3>7. /\ StackOwns(p) /\ ~StackOwns(p)'
          /\ \A t \in Procs : t # p => StackOwns(t)' = StackOwns(t) /\ node'[t] = node[t]
      BY <1>0, <1>t, <3>1 DEF StackOwns
    <3>8. \A t \in Procs : StackOwns(t)' =>
             StackOwns(t) /\ node'[t] = node[t] /\ node[t] # x
      BY <1>0, <1>1, <3>2, <3>7 DEF StackIs
    <3>9. StackIs(d, k + 1)'
      <4>1. On(d, k + 1) \subseteq allocated'
        BY <1>1, <3>1, <3>3, <3>5 DEF StackIs
      <4>2. \A t \in Procs : StackOwns(t)' => node'[t] \in allocated' /\ node'[t] \notin On(d, k + 1)
        BY <1>1, <3>1, <3>5, <3>8 DEF StackIs
      <4>3. \A t, u \in Procs : StackOwns(t)' /\ StackOwns(u)' /\ node'[t] = node'[u] => t = u
        BY <1>1, <3>8 DEF StackIs
      <4>4. \A y \in allocated' : y \notin On(d, k + 1) =>
               \E t \in Procs : StackOwns(t)' /\ node'[t] = y
        BY <1>1, <3>1, <3>2, <3>5, <3>7 DEF StackIs
      <4>5. \A q \in Producers : pc'[q] \in {"load", "exchange"} =>
               value'[node'[q]] = <<q, made'[q]>> /\ made'[q] < Loops
        BY <1>0, <1>1, <1>t, <3>1 DEF StackIs
      <4>6. \A q \in Consumers : pc'[q] = "exchange" /\ q \notin off' =>
               node'[q] \in On(d, k + 1) /\ nextn'[q] = next'[node'[q]]
        BY <1>0, <1>1, <1>t, <3>1, <3>5 DEF StackIs
      <4> QED
        BY <3>5, <4>1, <4>2, <4>3, <4>4, <4>5, <4>6 DEF StackIs
    <3>10. S!Popped' = S!Popped
      <4>1. \A q \in Consumers : pc'[q] = pc[q] /\ node'[q] = node[q]
        BY <1>0, <1>t, <3>1
      <4> QED
        BY <3>1, <4>1, PoppedKeep
    <3>11. Lifo!Push(p)
      <4> DEFINE a == S!Contents
                 b == S!Contents'
      <4>1. a = [i \in 1..k |-> value[c[i]]] /\ b = [i \in 1..(k + 1) |-> value'[d[i]]]
        BY <1>0, <3>5, StackSame, StackItems
      <4> HIDE DEF a, b
      <4>2. /\ DOMAIN a = 1..k /\ a = [i \in DOMAIN a |-> a[i]]
            /\ DOMAIN b = 1..(k + 1) /\ b = [i \in DOMAIN b |-> b[i]]
        BY <4>1
      <4>3. d[1] = x /\ \A i \in 1..k : i + 1 \in 1..(k + 1) /\ d[i + 1] = c[i]
        BY <1>0, <3>4 DEF Front
      <4>4. \A i \in 1..k : b[i + 1] = a[i]
        BY <3>1, <4>1, <4>3
      <4>5. b[1] = <<p, made[p]>>
        <5>1. 1 \in 1..(k + 1)
          BY <1>0
        <5> QED
          BY <3>1, <3>3, <4>1, <4>3, <5>1
      <4>6. b = <<<<p, made[p]>>>> \o a
        <5>1. PICK v : v = <<p, made[p]>>
          OBVIOUS
        <5>2. k \in Nat /\ b[1] = v
          BY <1>0, <4>5, <5>1
        <5>3. b = <<v>> \o a
          BY <4>2, <4>4, <5>2, SeqPush
        <5> QED
          BY <5>1, <5>3
      <4> QED
        BY <1>0, <3>1, <3>3, <3>10, <4>6, StackAnswers DEF Lifo!Push, a, b
    <3> QED
      BY <3>6, <3>9, <3>11, StackNext
  <2> QED
    BY <2>1, <2>2
<1> QED
  BY <1>2, <1>3, <1>4 DEF S!push

\* the steps that take no node
PopInside(q) == \/ S!PopLoad(q) \/ S!PopEmpty(q) \/ S!PopNext(q) \/ S!PopFail(q)
                \/ S!PopData(q) \/ S!PopDelete(q)

\* Every step of pop keeps the invariant; the exchange pops the node, unless it
\* stores a pointer that is out of date.
LEMMA StackPop ==
  ASSUME StackInv, ~aba, DOMAIN calls = Consumers, NEW q \in Consumers, S!pop(q)
  PROVE  /\ StackInv'
         /\ \/ Lifo!Pop(q) \/ aba'
            \/ PopInside(q) /\ UNCHANGED <<S!Contents, made, S!Popped>>
<1>1. PICK k, c : StackIs(c, k)
  BY DEF StackInv
<1>0. /\ StackTypeOK /\ q \in Procs /\ Producers \subseteq Procs
      /\ Consumers \subseteq Procs /\ \A p \in Producers : p # q /\ p \notin Consumers
      /\ IsChain(StackNodes, c, k, head, next) /\ k \in Nat /\ On(c, k) \subseteq StackNodes
  BY <1>1, NodesAssumption DEF StackInv, StackIs, IsChain, On, Procs
<1>t. /\ next \in [StackNodes -> StackNodes \cup {"NULL"}] /\ DOMAIN value = StackNodes
      /\ allocated \in SUBSET StackNodes
      /\ pc \in [Procs -> {"call", "load", "exchange", "test", "data", "delete"}]
      /\ node \in [Procs -> StackNodes \cup {"NULL"}]
      /\ nextn \in [Consumers -> StackNodes \cup {"NULL"}]
      /\ made \in [Producers -> Nat] /\ DOMAIN tmp = Consumers
      /\ \A p \in Producers : pc[p] \in {"call", "load", "exchange"}
  BY <1>0 DEF StackTypeOK
<1>c. head \in StackNodes \cup {"NULL"} /\ (k = 0 => head = "NULL") /\ "NULL" \notin StackNodes
  <2>1. k # 0 => 1 \in 1..k
    BY <1>0
  <2> QED
    BY <1>0, <2>1, StackFinite DEF IsChain
\* the steps that leave the stack and the taken nodes alone
<1>s. ASSUME NEW to \in {"call", "test", "exchange"}, pc[q] \in {"call", "test", "exchange"},
             pc' = [pc EXCEPT ![q] = to], NEW x \in StackNodes \cup {"NULL"},
             node' = [node EXCEPT ![q] = x], NEW y \in StackNodes \cup {"NULL"},
             nextn' = [nextn EXCEPT ![q] = y],
             \A r \in Consumers : r # q => (r \in off' <=> r \in off),
             to = "exchange" /\ q \notin off' => x \in On(c, k) /\ y = next[x],
             UNCHANGED <<head, value, next, allocated, made, tmp>>
      PROVE  StackInv' /\ UNCHANGED <<S!Contents, made, S!Popped>>
  <2>1. IsChain(StackNodes, c, k, head', next') /\ S!Contents' = S!Contents
    BY <1>0, <1>s, StackKeep
  <2>2. StackTypeOK'
    BY <1>0, <1>t, <1>s DEF StackTypeOK
  <2>3. \A t \in Procs : StackOwns(t)' = StackOwns(t) /\ (StackOwns(t) => node'[t] = node[t])
    BY <1>0, <1>t, <1>s DEF StackOwns
  <2>4. \A r \in Consumers : pc'[r] = "exchange" /\ r \notin off' =>
           node'[r] \in On(c, k) /\ nextn'[r] = next'[node'[r]]
    BY <1>0, <1>1, <1>t, <1>s DEF StackIs
  <2>5. \A p \in Producers : pc'[p] = pc[p] /\ node'[p] = node[p]
    BY <1>0, <1>t, <1>s
  <2>6. StackIs(c, k)'
    <3>1. /\ On(c, k) \subseteq allocated'
          /\ \A t \in Procs : StackOwns(t)' =>
                node'[t] \in allocated' /\ node'[t] \notin On(c, k)
      BY <1>1, <1>s, <2>3 DEF StackIs
    <3>2. \A t, u \in Procs : StackOwns(t)' /\ StackOwns(u)' /\ node'[t] = node'[u] => t = u
      BY <1>1, <2>3 DEF StackIs
    <3>3. \A z \in allocated' : z \notin On(c, k) => \E t \in Procs : StackOwns(t)' /\ node'[t] = z
      BY <1>1, <1>s, <2>3 DEF StackIs
    <3>4. \A p \in Producers : pc'[p] \in {"load", "exchange"} =>
             value'[node'[p]] = <<p, made'[p]>> /\ made'[p] < Loops
      <4>1. \A p \in Producers : pc[p] \in {"load", "exchange"} =>
               value[node[p]] = <<p, made[p]>> /\ made[p] < Loops
        BY <1>1 DEF StackIs
      <4>2. value' = value /\ made' = made
        BY <1>s
      <4> QED
        BY <2>5, <4>1, <4>2
    <3> QED
      BY <2>1, <2>4, <3>1, <3>2, <3>3, <3>4 DEF StackIs
  <2>7. S!Popped' = S!Popped
    <3>1. \A r \in Consumers : /\ pc'[r] = "data" <=> pc[r] = "data"
                               /\ pc[r] = "data" => node'[r] = node[r]
      BY <1>0, <1>t, <1>s
    <3> QED
      BY <1>s, <3>1, PoppedKeep
  <2> QED
    BY <1>s, <2>1, <2>2, <2>6, <2>7, StackNext
<1>n. nextn = [nextn EXCEPT ![q] = nextn[q]] /\ nextn[q] \in StackNodes \cup {"NULL"}
  BY <1>t
<1>m. node = [node EXCEPT ![q] = node[q]] /\ node[q] \in StackNodes \cup {"NULL"}
  BY <1>0, <1>t
<1>2. CASE S!PopLoad(q)
  <2>1. /\ pc[q] = "call" /\ pc' = [pc EXCEPT ![q] = "test"]
        /\ node' = [node EXCEPT ![q] = head]
        /\ UNCHANGED <<head, value, next, allocated, made, tmp, nextn, off>>
    BY <1>2 DEF S!PopLoad, S!Goto, S!svars
  <2> QED
    BY <1>2, <1>c, <1>n, <1>s, <2>1 DEF PopInside
<1>3. CASE S!PopEmpty(q)
  <2>1. /\ pc[q] = "test" /\ pc' = [pc EXCEPT ![q] = "call"]
        /\ UNCHANGED <<head, value, next, allocated, made, tmp, node, nextn, off>>
    BY <1>3 DEF S!PopEmpty, S!Goto, S!svars
  <2> QED
    BY <1>3, <1>m, <1>n, <1>s, <2>1 DEF PopInside
<1>4. CASE S!PopNext(q)
  <2>1. PICK y : /\ y \in IF node[q] \in allocated THEN {next[node[q]]}
                          ELSE StackNodes \cup {"NULL"}
                 /\ nextn' = [nextn EXCEPT ![q] = y]
    BY <1>4 DEF S!PopNext, S!nullptr, StackNodes
  <2>2. /\ pc[q] = "test" /\ pc' = [pc EXCEPT ![q] = "exchange"]
        /\ off' = IF node[q] \in S!OnStack THEN off ELSE off \cup {q}
        /\ UNCHANGED <<head, value, next, allocated, made, tmp, node>>
    BY <1>4 DEF S!PopNext, S!Goto, S!svars
  <2>3. S!OnStack = On(c, k)
    BY <1>0, StackSame, StackFinite, ChainReach
  <2>4. y \in StackNodes \cup {"NULL"}
    BY <1>t, <2>1
  <2>5. node[q] \in On(c, k) => y = next[node[q]]
    BY <1>1, <2>1 DEF StackIs
  <2>6. q \notin off' => node[q] \in On(c, k)
    BY <2>2, <2>3
  <2>7. \A r \in Consumers : r # q => (r \in off' <=> r \in off)
    BY <2>2
  <2> QED
    BY <1>4, <1>m, <1>s, <2>1, <2>2, <2>4, <2>5, <2>6, <2>7 DEF PopInside
<1>5. CASE S!PopFail(q)
  <2>1. /\ pc[q] = "exchange" /\ pc' = [pc EXCEPT ![q] = "test"]
        /\ node' = [node EXCEPT ![q] = head] /\ nextn' = [nextn EXCEPT ![q] = "NULL"]
        /\ off' = off \ {q}
        /\ UNCHANGED <<head, value, next, allocated, made, tmp>>
    BY <1>5 DEF S!PopFail, S!Goto, S!svars, S!nullptr
  <2> QED
    BY <1>5, <1>c, <1>s, <2>1 DEF PopInside
<1>6. CASE S!PopExchange(q)
  <2>1. /\ pc[q] = "exchange" /\ pc' = [pc EXCEPT ![q] = "data"] /\ head = node[q]
        /\ head' = nextn[q] /\ aba' = (aba \/ q \in off)
        /\ nextn' = [nextn EXCEPT ![q] = "NULL"]
        /\ off' = (off \cup {d \in Consumers : pc[d] = "exchange" /\ node[d] = node[q]}) \ {q}
        /\ UNCHANGED <<value, next, allocated, node, made, tmp>>
    BY <1>6 DEF S!PopExchange, S!Goto, S!nullptr
  <2>2. CASE q \in off
    BY <2>1, <2>2 DEF StackInv
  <2>3. CASE q \notin off
    <3>1. head \in On(c, k) /\ nextn[q] = next[head] /\ k # 0
      BY <1>1, <1>0, <1>c, <2>1, <2>3 DEF StackIs
    <3>2. PICK d, x : d = Rest(c, k) /\ x = head
      OBVIOUS
    <3>3. IsChain(StackNodes, d, k - 1, head', next') /\ On(d, k - 1) = On(c, k) \ {x}
      <4>1. /\ IsChain(StackNodes, Rest(c, k), k - 1, next[head], next)
            /\ On(Rest(c, k), k - 1) = On(c, k) \ {head}
        BY <1>0, <3>1, ChainRest
      <4> QED
        BY <2>1, <3>1, <3>2, <4>1
    <3>4. StackTypeOK'
      BY <1>0, <1>t, <2>1 DEF StackTypeOK
    <3>5. /\ StackOwns(q)' /\ ~StackOwns(q) /\ node'[q] = x
          /\ \A t \in Procs : t # q => StackOwns(t)' = StackOwns(t)
      BY <1>0, <1>t, <2>1, <3>2 DEF StackOwns
    <3>6. StackIs(d, k - 1)'
      <4>1. x \in On(c, k) /\ x \in allocated
        BY <1>1, <3>1, <3>2 DEF StackIs
      <4>2. On(d, k - 1) \subseteq allocated'
        BY <1>1, <2>1, <3>3 DEF StackIs
      <4>3. \A t \in Procs : StackOwns(t)' => node'[t] \in allocated' /\ node'[t] \notin On(d, k - 1)
        BY <1>1, <2>1, <3>3, <3>5, <4>1 DEF StackIs
      <4>4. \A t, u \in Procs : StackOwns(t)' /\ StackOwns(u)' /\ node'[t] = node'[u] => t = u
        BY <1>1, <2>1, <3>5, <4>1 DEF StackIs
      <4>5. \A y \in allocated' : y \notin On(d, k - 1) =>
               \E t \in Procs : StackOwns(t)' /\ node'[t] = y
        BY <1>0, <1>1, <2>1, <3>3, <3>5 DEF StackIs
      <4>6. \A p \in Producers : pc'[p] \in {"load", "exchange"} =>
               value'[node'[p]] = <<p, made'[p]>> /\ made'[p] < Loops
        BY <1>0, <1>1, <1>t, <2>1 DEF StackIs
      <4>7. \A r \in Consumers : pc'[r] = "exchange" /\ r \notin off' =>
               node'[r] \in On(d, k - 1) /\ nextn'[r] = next'[node'[r]]
        <5> SUFFICES ASSUME NEW r \in Consumers, pc'[r] = "exchange", r \notin off'
                     PROVE  node'[r] \in On(d, k - 1) /\ nextn'[r] = next'[node'[r]]
          OBVIOUS
        <5>1. r # q /\ pc[r] = "exchange"
          BY <1>0, <1>t, <2>1
        <5>2. r \notin off /\ node[r] # x
          BY <2>1, <3>2, <5>1
        <5>3. node[r] \in On(c, k) /\ nextn[r] = next[node[r]]
          BY <1>1, <5>1, <5>2 DEF StackIs
        <5> QED
          BY <1>t, <2>1, <3>3, <5>1, <5>2, <5>3
      <4> QED
        BY <3>3, <4>2, <4>3, <4>4, <4>5, <4>6, <4>7 DEF StackIs
    <3>7. Lifo!Pop(q)
      <4> DEFINE a == S!Contents
                 b == S!Contents'
      <4>1. a = [i \in 1..k |-> value[c[i]]]
        BY <1>0, StackSame, StackItems
      <4>2. b = [i \in 1..(k - 1) |-> value'[d[i]]]
        BY <3>3, StackSame, StackItems
      <4> HIDE DEF a, b
      <4>3. /\ DOMAIN a = 1..k /\ a = [i \in DOMAIN a |-> a[i]] /\ k \in Nat \ {0}
            /\ DOMAIN b = 1..(k - 1) /\ b = [i \in DOMAIN b |-> b[i]]
        BY <1>0, <3>1, <4>1, <4>2
      <4>4. \A i \in 1..(k - 1) : i + 1 \in 1..k /\ d[i] = c[i + 1]
        BY <4>3, <3>2 DEF Rest
      <4>5. \A i \in 1..(k - 1) : b[i] = a[i + 1]
        BY <2>1, <4>1, <4>2, <4>4
      <4>6. a[1] = value[x]
        <5>1. 1 \in 1..k /\ c[1] = head
          BY <1>0, <3>1 DEF IsChain
        <5> QED
          BY <3>2, <4>1, <5>1
      <4>7. a # <<>> /\ Head(a) = a[1] /\ Tail(a) = b
        BY <4>3, <4>5, SeqGet
      <4>8. S!Popped' = [S!Popped EXCEPT ![q] = Head(a)]
        <5> DEFINE f == S!Popped
                   g == S!Popped'
        <5>1. /\ f = [r \in Consumers |-> IF pc[r] = "data" THEN value[node[r]] ELSE tmp[r]]
              /\ g = [r \in Consumers |-> IF pc'[r] = "data" THEN value'[node'[r]] ELSE tmp'[r]]
          BY DEF S!Popped
        <5> HIDE DEF f, g
        <5>2. g[q] = value[x] /\ \A r \in Consumers : r # q => g[r] = f[r]
          BY <1>0, <1>t, <2>1, <3>2, <5>1
        <5>3. DOMAIN f = Consumers /\ DOMAIN g = Consumers /\ g = [r \in Consumers |-> g[r]]
          BY <5>1
        <5>4. g = [f EXCEPT ![q] = value[x]]
          BY <5>2, <5>3
        <5> QED
          BY <4>6, <4>7, <5>4 DEF f, g
      <4> QED
        BY <1>0, <1>6, <2>1, <4>7, <4>8, StackAnswers DEF Lifo!Pop, a, b
    <3> QED
      BY <3>4, <3>6, <3>7, StackNext
  <2> QED
    BY <2>2, <2>3
<1>7. CASE S!PopData(q)
  <2>1. /\ pc[q] = "data" /\ pc' = [pc EXCEPT ![q] = "delete"]
        /\ tmp' = [tmp EXCEPT ![q] = value[node[q]]]
        /\ UNCHANGED <<head, value, next, allocated, node, nextn, made, off>>
    BY <1>7 DEF S!PopData, S!Goto, S!svars
  <2>2. IsChain(StackNodes, c, k, head', next') /\ S!Contents' = S!Contents
    BY <1>0, <2>1, StackKeep
  <2>3. StackTypeOK'
    BY <1>0, <1>t, <2>1 DEF StackTypeOK
  <2>4. \A t \in Procs : StackOwns(t)' = StackOwns(t)
    BY <1>0, <1>t, <2>1 DEF StackOwns
  <2>5. StackIs(c, k)'
    <3>1. \A p \in Producers : pc'[p] = pc[p]
      BY <1>0, <1>t, <2>1
    <3>2. \A r \in Consumers : pc'[r] = "exchange" => pc[r] = "exchange"
      BY <1>0, <1>t, <2>1
    <3> QED
      BY <1>1, <2>1, <2>2, <2>4, <3>1, <3>2 DEF StackIs
  <2>6. S!Popped' = S!Popped
    <3>1. \A r \in Consumers :
            (IF pc'[r] = "data" THEN value'[node'[r]] ELSE tmp'[r])
              = (IF pc[r] = "data" THEN value[node[r]] ELSE tmp[r])
      BY <1>0, <1>t, <2>1
    <3> QED
      BY <3>1, PoppedKeep
  <2> QED
    BY <1>7, <2>1, <2>2, <2>3, <2>5, <2>6, StackNext DEF PopInside
<1>8. CASE S!PopDelete(q)
  <2>1. /\ pc[q] = "delete" /\ pc' = [pc EXCEPT ![q] = "call"]
        /\ allocated' = allocated \ {node[q]}
        /\ value' = [value EXCEPT ![node[q]] = <<"none", 0>>]
        /\ next' = [next EXCEPT ![node[q]] = "NULL"] /\ node' = [node EXCEPT ![q] = "NULL"]
        /\ UNCHANGED <<head, nextn, made, tmp, off>>
    BY <1>8 DEF S!PopDelete, S!Goto, S!nullptr
  <2>2. PICK x : x = node[q]
    OBVIOUS
  <2>3. x \in allocated /\ x \notin On(c, k) /\ x \in StackNodes
    BY <1>0, <1>1, <1>t, <2>1, <2>2 DEF StackIs, StackOwns
  <2>4. /\ \A y \in StackNodes : y # x => value'[y] = value[y] /\ next'[y] = next[y]
        /\ next' \in [StackNodes -> StackNodes \cup {"NULL"}] /\ DOMAIN value' = StackNodes
    BY <1>t, <2>1, <2>2, <2>3
  <2>5. IsChain(StackNodes, c, k, head', next') /\ S!Contents' = S!Contents
    <3>1. \A y \in On(c, k) : next'[y] = next[y] /\ value'[y] = value[y]
      BY <1>0, <2>3, <2>4
    <3> QED
      BY <1>0, <2>1, <3>1, StackKeep
  <2>6. StackTypeOK'
    BY <1>0, <1>t, <2>1, <2>4 DEF StackTypeOK
  <2>7. /\ StackOwns(q) /\ ~StackOwns(q)'
        /\ \A t \in Procs : t # q => StackOwns(t)' = StackOwns(t) /\ node'[t] = node[t]
    BY <1>0, <1>t, <2>1 DEF StackOwns
  <2>8. \A t \in Procs : StackOwns(t)' =>
           StackOwns(t) /\ node'[t] = node[t] /\ node[t] # x /\ node[t] \in StackNodes
    BY <1>0, <1>1, <1>t, <2>2, <2>7 DEF StackIs
  <2>9. StackIs(c, k)'
    <3>1. On(c, k) \subseteq allocated'
      BY <1>1, <2>1, <2>2, <2>3 DEF StackIs
    <3>2. \A t \in Procs : StackOwns(t)' => node'[t] \in allocated' /\ node'[t] \notin On(c, k)
      BY <1>1, <2>1, <2>2, <2>8 DEF StackIs
    <3>3. \A t, u \in Procs : StackOwns(t)' /\ StackOwns(u)' /\ node'[t] = node'[u] => t = u
      BY <1>1, <2>8 DEF StackIs
    <3>4. \A y \in allocated' : y \notin On(c, k) => \E t \in Procs : StackOwns(t)' /\ node'[t] = y
      BY <1>1, <2>1, <2>7 DEF StackIs
    <3>5. \A p \in Producers : pc'[p] \in {"load", "exchange"} =>
             value'[node'[p]] = <<p, made'[p]>> /\ made'[p] < Loops
      <4> SUFFICES ASSUME NEW p \in Producers, pc'[p] \in {"load", "exchange"}
                   PROVE  value'[node'[p]] = <<p, made'[p]>> /\ made'[p] < Loops
        OBVIOUS
      <4>1. p \in Procs /\ pc[p] \in {"load", "exchange"} /\ StackOwns(p)'
        BY <1>0, <1>t, <2>1 DEF StackOwns
      <4>2. value'[node'[p]] = value[node[p]]
        BY <2>4, <2>8, <4>1
      <4> QED
        BY <1>1, <2>1, <4>1, <4>2 DEF StackIs
    <3>6. \A r \in Consumers : pc'[r] = "exchange" /\ r \notin off' =>
             node'[r] \in On(c, k) /\ nextn'[r] = next'[node'[r]]
      <4> SUFFICES ASSUME NEW r \in Consumers, pc'[r] = "exchange", r \notin off'
                   PROVE  node'[r] \in On(c, k) /\ nextn'[r] = next'[node'[r]]
        OBVIOUS
      <4>1. r # q /\ pc[r] = "exchange" /\ node'[r] = node[r] /\ r \notin off
        BY <1>0, <1>t, <2>1
      <4>2. node[r] \in On(c, k) /\ nextn[r] = next[node[r]]
        BY <1>1, <4>1 DEF StackIs
      <4> QED
        BY <1>0, <2>1, <2>3, <2>4, <4>1, <4>2
    <3> QED
      BY <2>5, <3>1, <3>2, <3>3, <3>4, <3>5, <3>6 DEF StackIs
  <2>10. S!Popped' = S!Popped
    <3>1. \A r \in Consumers :
            (IF pc'[r] = "data" THEN value'[node'[r]] ELSE tmp'[r])
              = (IF pc[r] = "data" THEN value[node[r]] ELSE tmp[r])
      <4> TAKE r \in Consumers
      <4>1. pc'[r] = "data" <=> pc[r] = "data"
        BY <1>0, <1>t, <2>1
      <4>2. pc'[r] = "data" => r \in Procs /\ StackOwns(r)'
        BY <1>0 DEF StackOwns
      <4>3. pc'[r] = "data" => value'[node'[r]] = value[node[r]]
        BY <2>4, <2>8, <4>2
      <4> QED
        BY <2>1, <4>1, <4>3
    <3> QED
      BY <3>1, PoppedKeep
  <2> QED
    BY <1>8, <2>1, <2>5, <2>6, <2>9, <2>10, StackNext DEF PopInside
<1> QED
  BY <1>2, <1>3, <1>4, <1>5, <1>6, <1>7, <1>8 DEF S!pop

\* Every answer of pop is one of the stack: false only when it is empty.
LEMMA StackTries ==
  ASSUME StackInv, ~aba, DOMAIN calls = Consumers, NEW t \in Procs, S!Step(t)
  PROVE  /\ StackInv'
         /\ Lifo!Next \/ aba' \/ UNCHANGED <<S!Contents, made, S!Popped, S!Answers>>
<1>0. StackTypeOK
  BY DEF StackInv
<1>1. CASE t \in Producers /\ S!push(t)
  BY <1>0, <1>1, StackPush, StackAnswers DEF Lifo!Next
<1>2. CASE t \in Consumers /\ S!pop(t)
  <2>1. head = "NULL" => S!Contents = <<>>
    <3> SUFFICES ASSUME head = "NULL" PROVE S!Contents = <<>>
      OBVIOUS
    <3>1. PICK k, c : StackIs(c, k)
      BY DEF StackInv
    <3>2. IsChain(StackNodes, c, k, head, next) /\ k \in Nat
      BY <3>1 DEF StackIs, IsChain
    <3>3. k # 0 => 1 \in 1..k
      BY <3>2
    <3>4. k = 0
      BY <3>2, <3>3, StackFinite DEF IsChain
    <3>5. S!Contents = [i \in 1..k |-> value[c[i]]]
      BY <3>2, StackSame, StackItems
    <3> QED
      BY <3>4, <3>5
  <2>2. CASE PopInside(t) /\ UNCHANGED <<S!Contents, made, S!Popped>>
    <3>1. CASE S!Answers' = S!Answers
      BY <1>2, <2>2, <3>1, StackPop
    <3>2. CASE head = "NULL" /\ S!Answers' = [S!Answers EXCEPT ![t] = @ + 1]
      <4>1. Lifo!Empty(t)
        BY <2>1, <2>2, <3>2 DEF Lifo!Empty
      <4> QED
        BY <1>2, <4>1, StackPop DEF Lifo!Next
    <3> QED
      BY <1>0, <1>2, <2>2, <3>1, <3>2, StackAnswers DEF PopInside
  <2> QED
    BY <1>2, <2>2, StackPop DEF Lifo!Next
<1> QED
  BY <1>1, <1>2 DEF S!Step

\* No node of the stack and none that was popped is deleted, and none leaks.
LEMMA StackSafe == StackInv /\ ~aba => S!NodesKept
<1> SUFFICES ASSUME StackInv, ~aba PROVE S!NodesKept
  OBVIOUS
<1>1. PICK k, c : StackIs(c, k)
  BY DEF StackInv
<1>2. S!OnStack = On(c, k)
  <2>1. IsChain(StackNodes, c, k, head, next)
    BY <1>1 DEF StackIs
  <2> QED
    BY <2>1, StackSame, StackFinite, ChainReach
<1>3. S!OnStack \subseteq allocated
  BY <1>1, <1>2 DEF StackIs
<1>4. \A q \in Consumers : pc[q] \in {"data", "delete"} => node[q] \in allocated \ S!OnStack
  BY <1>1, <1>2 DEF StackIs, StackOwns, Procs
<1>5. (\A t \in Procs : pc[t] = "call") => allocated = S!OnStack
  BY <1>1, <1>2, <1>3 DEF StackIs, StackOwns
<1> QED
  BY <1>3, <1>4, <1>5 DEF S!NodesKept, S!Procs, Procs

------------------------------------------------------------------------------
(* The locked lists *)

\* the list of a key, and the nodes of a list
IndexOf   == [v \in Keys |-> M!Index(v)]
ListNodes == [i \in M!Lists |-> Reach(Nodes, head[i], next)]

ListTypeOK ==
    /\ head \in [M!Lists -> Nodes \cup {"NULL"}] /\ DOMAIN head_lock = M!Lists
    /\ next \in [Nodes -> Nodes \cup {"NULL"}] /\ DOMAIN value = Nodes
    /\ allocated \in SUBSET Nodes
    /\ pc \in [M!Procs -> {"call", "lock", "next", "head", "walk", "end"}]
    /\ node \in [M!Procs -> Nodes \cup {"NULL"}] /\ DOMAIN ticket = M!Procs
    /\ DOMAIN made = Producers /\ DOMAIN tmp = Asker
    /\ \A p \in Producers : pc[p] # "walk"
    /\ \A q \in Asker : pc[q] \in {"call", "lock", "walk", "end"}
    /\ \A t \in M!Procs : pc[t] \in {"lock", "next", "head", "walk"} => ticket[t] \in Keys

\* the threads that have a node that is on no list yet
ListOwners == {p \in Producers : pc[p] \in {"lock", "next", "head"}}

\* a node is on the list of its value, or has one owner
ListsInv ==
    /\ \A i \in M!Lists : Linked(Nodes, head[i], next) /\ ListNodes[i] \subseteq allocated
    /\ \A i \in M!Lists : \A x \in ListNodes[i] : value[x] \in Keys /\ IndexOf[value[x]] = i
    /\ \A p \in ListOwners :
          /\ node[p] \in allocated /\ value[node[p]] = ticket[p]
          /\ \A i \in M!Lists : node[p] \notin ListNodes[i]
    /\ \A p, q \in ListOwners : node[p] = node[q] => p = q
    /\ \A x \in allocated : \/ \E i \in M!Lists : x \in ListNodes[i]
                            \/ \E p \in ListOwners : node[p] = x

\* who works on a list has its lock, and an insert has read its head
LocksInv ==
    /\ \A t \in M!Procs : pc[t] \in {"next", "head", "walk"} =>
          IndexOf[ticket[t]] \in M!Lists /\ head_lock[IndexOf[ticket[t]]] = t
    /\ \A p \in Producers : pc[p] = "head" => next[node[p]] = head[IndexOf[ticket[p]]]

\* a lookup is on its list, and has not passed its key
WalksInv ==
    \A q \in Asker : pc[q] = "walk" =>
       /\ Linked(Nodes, node[q], next)
       /\ Reach(Nodes, node[q], next) \subseteq ListNodes[IndexOf[ticket[q]]]
       /\ \A x \in ListNodes[IndexOf[ticket[q]]] : value[x] = ticket[q] =>
             \E y \in Reach(Nodes, node[q], next) : value[y] = ticket[q]

ListInv == over = "no" => ListTypeOK /\ ListsInv /\ LocksInv /\ WalksInv

LEMMA ListFacts == /\ IsFiniteSet(Nodes) /\ "NULL" \notin Nodes /\ "none" \notin M!Procs
                   /\ Producers \subseteq M!Procs /\ Asker \subseteq M!Procs
                   /\ Asker \subseteq Consumers /\ M!Procs = Producers \cup Asker
                   /\ \A p \in Producers : p \notin Asker
<1>1. Asker \subseteq Consumers
  BY NodesAssumption DEF Asker
<1> QED
  BY <1>1, NodesAssumption DEF Procs, M!Procs, Q!NULL, Q!None

\* The lists' nodes are those that ListNodes names, and the contents their values.
LEMMA ListSame ==
  /\ M!OnLists = UNION {ListNodes[i] : i \in M!Lists}
  /\ M!Contents = {value[x] : x \in UNION {ListNodes[i] : i \in M!Lists}}
  /\ M!Contents' = {value'[x] : x \in UNION {ListNodes'[i] : i \in M!Lists'}}
<1>1. \A X : M!Cardinality(X) = Cardinality(X)
  BY DEF M!Cardinality, Cardinality
<1> DEFINE At(h, nx, m) == {Hops(h, nx, m)[i] : i \in 0..m} \ {"NULL"}
<1>2. /\ \A i : M!Chain(i) = At(head[i], next, M!Cardinality(Nodes))
      /\ \A i : M!Chain(i)' = At(head'[i], next', M!Cardinality(Nodes))
  BY DEF M!Chain, Hops, M!NULL
<1>3. \A h, nx : At(h, nx, Cardinality(Nodes)) = Reach(Nodes, h, nx)
  BY DEF Reach
<1> HIDE DEF At
<1>4. /\ \A i : M!Chain(i) = Reach(Nodes, head[i], next)
      /\ \A i : M!Chain(i)' = Reach(Nodes, head'[i], next')
  BY <1>1, <1>2, <1>3
<1>5. /\ \A i \in M!Lists : ListNodes[i] = M!Chain(i)
      /\ \A i \in M!Lists' : ListNodes'[i] = M!Chain(i)'
  BY <1>4 DEF ListNodes
<1>6. M!OnLists = UNION {ListNodes[i] : i \in M!Lists}
  BY <1>5 DEF M!OnLists
<1>7. M!OnLists' = UNION {ListNodes'[i] : i \in M!Lists'}
  BY <1>5 DEF M!OnLists
<1> QED
  BY <1>6, <1>7 DEF M!Contents

\* Nothing but the program decides how many lists there are and where keys go.
LEMMA ListProgram ==
  ASSUME program' = program
  PROVE  M!Lists' = M!Lists /\ IndexOf' = IndexOf
<1>1. M!Lists' = M!Lists
  BY DEF M!Lists, M!Hash
<1>2. \A v \in Keys : M!Index(v)' = M!Index(v)
  BY DEF M!Index, M!Hash, M!CPlus
<1> QED
  BY <1>1, <1>2 DEF IndexOf

\* The lists stay when their heads and the next of their nodes do.
LEMMA ListFrame ==
  ASSUME program' = program, head' = head, ListsInv,
         \A i \in M!Lists : \A x \in ListNodes[i] : next'[x] = next[x]
  PROVE  /\ \A i \in M!Lists : Linked(Nodes, head'[i], next')
         /\ ListNodes' = ListNodes
<1>1. ASSUME NEW i \in M!Lists
      PROVE  /\ Linked(Nodes, head'[i], next')
             /\ Reach(Nodes, head'[i], next') = Reach(Nodes, head[i], next)
  <2>1. Linked(Nodes, head[i], next)
    BY DEF ListsInv
  <2>2. \A x \in Reach(Nodes, head[i], next) : next'[x] = next[x]
    BY DEF ListNodes
  <2> QED
    BY <2>1, <2>2, ListFacts, LinkedKeep
<1>2. ListNodes' = [i \in M!Lists |-> Reach(Nodes, head'[i], next')]
  BY ListProgram DEF ListNodes
<1> QED
  BY <1>1, <1>2 DEF ListNodes

\* The contents stay when the lists and the values of their nodes do.
LEMMA ListKeep ==
  ASSUME program' = program, ListNodes' = ListNodes,
         \A i \in M!Lists : \A x \in ListNodes[i] : value'[x] = value[x]
  PROVE  M!Contents' = M!Contents
<1>1. M!Contents' = {value'[x] : x \in UNION {ListNodes[i] : i \in M!Lists}}
  BY ListSame, ListProgram
<1>2. \A x \in UNION {ListNodes[i] : i \in M!Lists} : value'[x] = value[x]
  OBVIOUS
<1> QED
  BY <1>1, <1>2, ListSame

\* A walk stays on its list when the next of the list's nodes does.
LEMMA WalkFrame ==
  ASSUME program' = program, ListTypeOK, WalksInv, LocksInv, ListNodes' = ListNodes,
         \A i \in M!Lists : \A x \in ListNodes[i] :
            next'[x] = next[x] /\ value'[x] = value[x],
         \A q \in Asker : pc'[q] = "walk" =>
            pc[q] = "walk" /\ node'[q] = node[q] /\ ticket'[q] = ticket[q]
  PROVE  WalksInv'
<1> SUFFICES ASSUME NEW q \in Asker, pc'[q] = "walk"
             PROVE  /\ Linked(Nodes, node'[q], next')
                    /\ Reach(Nodes, node'[q], next') \subseteq ListNodes'[IndexOf'[ticket'[q]]]
                    /\ \A x \in ListNodes'[IndexOf'[ticket'[q]]] : value'[x] = ticket'[q] =>
                          \E y \in Reach(Nodes, node'[q], next') : value'[y] = ticket'[q]
  BY DEF WalksInv
<1> DEFINE i == IndexOf[ticket[q]]
<1>1. pc[q] = "walk" /\ node'[q] = node[q] /\ ticket'[q] = ticket[q]
  OBVIOUS
<1>2. i \in M!Lists /\ IndexOf' = IndexOf
  BY <1>1, ListFacts, ListProgram DEF LocksInv
<1>3. /\ Linked(Nodes, node[q], next) /\ Reach(Nodes, node[q], next) \subseteq ListNodes[i]
      /\ \A x \in ListNodes[i] : value[x] = ticket[q] =>
            \E y \in Reach(Nodes, node[q], next) : value[y] = ticket[q]
  BY <1>1 DEF WalksInv
<1>4. \A x \in ListNodes[i] : next'[x] = next[x] /\ value'[x] = value[x]
  BY <1>2
<1> HIDE DEF i
<1>5. /\ Linked(Nodes, node[q], next')
      /\ Reach(Nodes, node[q], next') = Reach(Nodes, node[q], next)
  <2>1. \A x \in Reach(Nodes, node[q], next) : next'[x] = next[x]
    BY <1>3, <1>4
  <2> QED
    BY <1>3, <2>1, ListFacts, LinkedKeep
<1>6. \A x \in ListNodes[i] : value'[x] = ticket[q] =>
         \E y \in Reach(Nodes, node[q], next) : value'[y] = ticket[q]
  BY <1>3, <1>4
<1>7. IndexOf'[ticket'[q]] = i
  BY <1>1, <1>2 DEF i
<1> QED
  BY <1>1, <1>3, <1>5, <1>6, <1>7

\* List_Init, Hash_Init and the constructors establish the invariant.
LEMMA ListInit == M!Init => ListInv /\ Set!Init
<1> SUFFICES ASSUME M!Init PROVE ListInv /\ Set!Init
  OBVIOUS
<1>1. /\ head = [i \in M!Lists |-> "NULL"] /\ head_lock = [i \in M!Lists |-> "none"]
      /\ value = [n \in Nodes |-> 0] /\ next = [n \in Nodes |-> "NULL"] /\ allocated = {}
      /\ pc = [t \in M!Procs |-> "call"] /\ ticket = [t \in M!Procs |-> 0]
      /\ node = [t \in M!Procs |-> "NULL"] /\ made = [p \in Producers |-> 0]
      /\ tmp = [q \in Asker |-> <<0, FALSE>>] /\ calls = [q \in Asker |-> 0]
  BY DEF M!Init, M!NULL, M!None
<1>2. ListTypeOK
  BY <1>1, ListFacts DEF ListTypeOK
<1>3. \A i \in M!Lists : Linked(Nodes, head[i], next) /\ ListNodes[i] = {}
  BY <1>1, ListFacts, LinkedEmpty DEF ListNodes
<1>4. ListOwners = {}
  BY <1>1, ListFacts DEF ListOwners
<1>5. ListsInv /\ LocksInv /\ WalksInv
  BY <1>1, <1>3, <1>4, ListFacts DEF ListsInv, LocksInv, WalksInv
<1>6. M!Contents = {}
  BY <1>3, ListSame
<1> QED
  BY <1>1, <1>2, <1>5, <1>6 DEF ListInv, Set!Init

\* The steps that leave the lists, their nodes and their owners alone keep the
\* invariant about them.
LEMMA ListsStay ==
  ASSUME program' = program, ListTypeOK, ListsInv,
         UNCHANGED <<head, value, next, allocated>>,
         ListOwners' = ListOwners,
         \A p \in ListOwners : node'[p] = node[p] /\ ticket'[p] = ticket[p]
  PROVE  ListsInv' /\ ListNodes' = ListNodes /\ M!Contents' = M!Contents
<1>1. M!Lists' = M!Lists /\ IndexOf' = IndexOf
  BY ListProgram
<1>2. (\A i \in M!Lists : Linked(Nodes, head'[i], next')) /\ ListNodes' = ListNodes
  BY ListFrame
<1>3. ListsInv'
  BY <1>1, <1>2 DEF ListsInv
<1>4. M!Contents' = M!Contents
  BY <1>2, ListKeep
<1> QED
  BY <1>2, <1>3, <1>4

\* Every step of insert keeps the invariant; the store to head adds the key.
LEMMA ListInsert ==
  ASSUME ListInv, over = "no", program' = program, NEW p \in Producers, M!Insert(p)
  PROVE  ListInv' /\ (Set!Next \/ UNCHANGED <<M!Contents, made, tmp, calls>>)
<1>0. ListTypeOK /\ ListsInv /\ LocksInv /\ WalksInv
  BY DEF ListInv
<1>c. UNCHANGED calls
  BY DEF M!Insert, M!Create, M!OutOfMemory, M!Lock, M!SetNext, M!SetHead
<1>f. /\ IsFiniteSet(Nodes) /\ "NULL" \notin Nodes /\ "none" \notin M!Procs
      /\ p \in M!Procs /\ Producers \subseteq M!Procs /\ Asker \subseteq M!Procs
      /\ M!Procs = Producers \cup Asker /\ \A q \in Asker : q # p /\ q \notin Producers
      /\ M!Lists' = M!Lists /\ IndexOf' = IndexOf
  BY ListFacts, ListProgram
<1>t. /\ head \in [M!Lists -> Nodes \cup {"NULL"}] /\ DOMAIN head_lock = M!Lists
      /\ next \in [Nodes -> Nodes \cup {"NULL"}] /\ DOMAIN value = Nodes
      /\ allocated \in SUBSET Nodes
      /\ pc \in [M!Procs -> {"call", "lock", "next", "head", "walk", "end"}]
      /\ node \in [M!Procs -> Nodes \cup {"NULL"}] /\ DOMAIN ticket = M!Procs
      /\ DOMAIN made = Producers /\ DOMAIN tmp = Asker
      /\ \A q \in Producers : pc[q] # "walk"
      /\ \A q \in Asker : pc[q] \in {"call", "lock", "walk", "end"}
      /\ \A t \in M!Procs : pc[t] \in {"lock", "next", "head", "walk"} => ticket[t] \in Keys
  BY <1>0 DEF ListTypeOK
<1>1. CASE M!Create(p)
  <2>1. PICK x, v : /\ v \in Keys /\ x = (CHOOSE n \in Nodes : n \notin allocated)
                    /\ Nodes # allocated /\ allocated' = allocated \cup {x}
                    /\ ticket' = [ticket EXCEPT ![p] = v]
                    /\ value' = [value EXCEPT ![x] = v] /\ node' = [node EXCEPT ![p] = x]
    BY <1>1 DEF M!Create
  <2>2. x \in Nodes /\ x \notin allocated
    BY <1>t, <2>1
  <2>3. /\ pc[p] = "call" /\ pc' = [pc EXCEPT ![p] = "lock"]
        /\ UNCHANGED <<head, next, head_lock, made, tmp>>
    BY <1>1 DEF M!Create, M!Goto
  <2>4. \A i \in M!Lists : \A y \in ListNodes[i] : y # x /\ y \in Nodes /\ y \in allocated
    BY <1>0, <1>t, <2>2 DEF ListsInv
  <2>5. (\A i \in M!Lists : Linked(Nodes, head'[i], next')) /\ ListNodes' = ListNodes
    BY <1>0, <2>3, ListFrame
  <2>6. \A i \in M!Lists : \A y \in ListNodes[i] : value'[y] = value[y]
    BY <1>t, <2>1, <2>4
  <2>7. ListTypeOK'
    BY <1>f, <1>t, <2>1, <2>2, <2>3 DEF ListTypeOK
  <2>8. /\ ListOwners' = ListOwners \cup {p} /\ p \notin ListOwners
        /\ node'[p] = x /\ ticket'[p] = v /\ value'[x] = v
        /\ \A q \in ListOwners : q # p /\ node'[q] = node[q] /\ ticket'[q] = ticket[q]
    BY <1>f, <1>t, <2>1, <2>2, <2>3 DEF ListOwners
  <2>9. \A q \in ListOwners : node[q] # x /\ node[q] \in Nodes /\ value'[node[q]] = value[node[q]]
    BY <1>0, <1>t, <2>1, <2>2 DEF ListsInv
  <2>10. ListsInv'
    <3>1. \A i \in M!Lists' : Linked(Nodes, head'[i], next') /\ ListNodes'[i] \subseteq allocated'
      BY <1>f, <2>1, <2>4, <2>5
    <3>2. \A i \in M!Lists' : \A y \in ListNodes'[i] :
             value'[y] \in Keys /\ IndexOf'[value'[y]] = i
      BY <1>0, <1>f, <2>5, <2>6 DEF ListsInv
    <3>3. \A q \in ListOwners' :
             /\ node'[q] \in allocated' /\ value'[node'[q]] = ticket'[q]
             /\ \A i \in M!Lists' : node'[q] \notin ListNodes'[i]
      <4> TAKE q \in ListOwners'
      <4>1. CASE q = p
        <5>1. node'[q] = x /\ ticket'[q] = v /\ value'[x] = v
          BY <2>8, <4>1
        <5>2. x \in allocated'
          BY <2>1
        <5>3. \A i \in M!Lists' : x \notin ListNodes'[i]
          BY <1>f, <2>4, <2>5
        <5> QED
          BY <5>1, <5>2, <5>3
      <4>2. CASE q \in ListOwners
        <5>1. /\ node[q] \in allocated /\ value[node[q]] = ticket[q]
              /\ \A i \in M!Lists : node[q] \notin ListNodes[i]
          BY <1>0, <4>2 DEF ListsInv
        <5> QED
          BY <1>f, <2>1, <2>5, <2>8, <2>9, <4>2, <5>1
      <4> QED
        BY <2>8, <4>1, <4>2
    <3>4. \A q, r \in ListOwners' : node'[q] = node'[r] => q = r
      BY <1>0, <2>8, <2>9 DEF ListsInv
    <3>5. \A y \in allocated' : \/ \E i \in M!Lists' : y \in ListNodes'[i]
                                \/ \E q \in ListOwners' : node'[q] = y
      <4> TAKE y \in allocated'
      <4>1. CASE y = x
        BY <2>8, <4>1
      <4>2. CASE y \in allocated
        <5>1. \/ \E i \in M!Lists : y \in ListNodes[i]
              \/ \E q \in ListOwners : node[q] = y
          BY <1>0, <4>2 DEF ListsInv
        <5> QED
          BY <1>f, <2>5, <2>8, <5>1
      <4> QED
        BY <2>1, <4>1, <4>2
    <3> QED
      BY <3>1, <3>2, <3>3, <3>4, <3>5 DEF ListsInv
  <2>11. LocksInv'
    <3>1. \A t \in M!Procs : pc'[t] \in {"next", "head", "walk"} =>
             t # p /\ pc[t] = pc'[t] /\ node'[t] = node[t] /\ ticket'[t] = ticket[t]
      BY <1>f, <1>t, <2>1, <2>3
    <3> QED
      BY <1>0, <1>f, <2>3, <3>1 DEF LocksInv
  <2>12. WalksInv'
    <3>1. \A q \in Asker : pc'[q] = pc[q] /\ node'[q] = node[q] /\ ticket'[q] = ticket[q]
      BY <1>f, <1>t, <2>1, <2>3
    <3> QED
      BY <1>0, <2>3, <2>5, <2>6, <3>1, WalkFrame
  <2>13. M!Contents' = M!Contents
    BY <2>5, <2>6, ListKeep
  <2> QED
    BY <1>c, <2>3, <2>7, <2>10, <2>11, <2>12, <2>13 DEF ListInv
<1>2. CASE M!OutOfMemory(p)
  <2>1. /\ pc[p] = "call" /\ pc' = [pc EXCEPT ![p] = "end"]
        /\ UNCHANGED <<head, value, next, allocated, head_lock, ticket, node, made, tmp>>
    BY <1>2 DEF M!OutOfMemory, M!Goto, M!lvars
  <2>2. ListTypeOK'
    BY <1>f, <1>t, <2>1 DEF ListTypeOK
  <2>3. ListOwners' = ListOwners
    BY <1>f, <1>t, <2>1 DEF ListOwners
  <2>4. ListsInv' /\ ListNodes' = ListNodes /\ M!Contents' = M!Contents
    BY <1>0, <2>1, <2>3, ListsStay
  <2>5. \A t \in M!Procs : pc'[t] \in {"next", "head", "walk"} => pc[t] = pc'[t]
    BY <1>f, <1>t, <2>1
  <2>6. LocksInv'
    BY <1>0, <1>f, <2>1, <2>5 DEF LocksInv
  <2>7. WalksInv'
    BY <1>0, <1>f, <2>1, <2>4, <2>5, WalkFrame
  <2> QED
    BY <1>c, <2>1, <2>2, <2>4, <2>6, <2>7 DEF ListInv
<1>3. CASE M!Lock(p)
  <2>0. PICK l : l = IndexOf[ticket[p]]
    OBVIOUS
  <2>1. /\ pc[p] = "lock" /\ pc' = [pc EXCEPT ![p] = "next"]
        /\ l \in M!Lists /\ head_lock[l] = "none" /\ head_lock' = [head_lock EXCEPT ![l] = p]
        /\ UNCHANGED <<head, value, next, allocated, ticket, node, made, tmp>>
    <3>1. pc[p] = "lock" /\ ticket[p] \in Keys
      BY <1>3, <1>f, <1>t DEF M!Lock, M!Goto
    <3>2. M!L(p) = l
      BY <2>0, <3>1 DEF M!L, IndexOf
    <3> QED
      BY <1>3, <3>2 DEF M!Lock, M!Goto, M!lvars, M!None
  <2>2. ListTypeOK'
    BY <1>f, <1>t, <2>1 DEF ListTypeOK
  <2>3. ListOwners' = ListOwners
    BY <1>f, <1>t, <2>1 DEF ListOwners
  <2>4. ListsInv' /\ ListNodes' = ListNodes /\ M!Contents' = M!Contents
    BY <1>0, <2>1, <2>3, ListsStay
  <2>5. \A t \in M!Procs : t # p => pc[t] = pc'[t]
    BY <1>f, <1>t, <2>1
  <2>6. LocksInv'
    <3>1. \A t \in M!Procs : pc'[t] \in {"next", "head", "walk"} =>
             IndexOf[ticket[t]] \in M!Lists /\ head_lock'[IndexOf[ticket[t]]] = t
      BY <1>0, <1>f, <1>t, <2>0, <2>1, <2>5 DEF LocksInv
    <3>2. \A q \in Producers : pc'[q] = "head" => next[node[q]] = head[IndexOf[ticket[q]]]
      BY <1>0, <1>f, <1>t, <2>1, <2>5 DEF LocksInv
    <3> QED
      BY <1>f, <2>1, <3>1, <3>2 DEF LocksInv
  <2>7. WalksInv'
    BY <1>0, <1>f, <2>1, <2>4, <2>5, WalkFrame
  <2> QED
    BY <1>c, <2>1, <2>2, <2>4, <2>6, <2>7 DEF ListInv
<1>4. CASE M!SetNext(p)
  <2>0. PICK l, x : l = IndexOf[ticket[p]] /\ x = node[p]
    OBVIOUS
  <2>1. /\ pc[p] = "next" /\ pc' = [pc EXCEPT ![p] = "head"]
        /\ next' = [next EXCEPT ![x] = head[l]]
        /\ UNCHANGED <<head, value, allocated, head_lock, ticket, node, made, tmp>>
    <3>1. pc[p] = "next" /\ ticket[p] \in Keys
      BY <1>4, <1>f, <1>t DEF M!SetNext, M!Goto
    <3>2. M!L(p) = l
      BY <2>0, <3>1 DEF M!L, IndexOf
    <3> QED
      BY <1>4, <2>0, <3>2 DEF M!SetNext, M!Goto
  <2>2. /\ l \in M!Lists /\ head[l] \in Nodes \cup {"NULL"} /\ p \in ListOwners
        /\ x \in Nodes /\ \A i \in M!Lists : x \notin ListNodes[i]
    BY <1>0, <1>f, <1>t, <2>0, <2>1 DEF LocksInv, ListsInv, ListOwners
  <2>3. ListTypeOK'
    BY <1>f, <1>t, <2>1, <2>2 DEF ListTypeOK
  <2>4. ListOwners' = ListOwners
    BY <1>f, <1>t, <2>1 DEF ListOwners
  <2>5. \A i \in M!Lists : \A y \in ListNodes[i] : next'[y] = next[y]
    BY <1>0, <1>t, <2>1, <2>2 DEF ListsInv
  <2>6. (\A i \in M!Lists : Linked(Nodes, head'[i], next')) /\ ListNodes' = ListNodes
    BY <1>0, <2>1, <2>5, ListFrame
  <2>7. ListsInv'
    BY <1>0, <1>f, <2>1, <2>4, <2>6 DEF ListsInv
  <2>8. LocksInv'
    <3>1. \A t \in M!Procs : pc'[t] \in {"next", "head", "walk"} =>
             IndexOf[ticket[t]] \in M!Lists /\ head_lock[IndexOf[ticket[t]]] = t
      BY <1>0, <1>f, <1>t, <2>1 DEF LocksInv
    <3>2. \A q \in Producers : pc'[q] = "head" => next'[node[q]] = head[IndexOf[ticket[q]]]
      <4> SUFFICES ASSUME NEW q \in Producers, pc'[q] = "head"
                   PROVE  next'[node[q]] = head[IndexOf[ticket[q]]]
        OBVIOUS
      <4>1. CASE q = p
        BY <1>t, <2>0, <2>1, <2>2, <4>1
      <4>2. CASE q # p
        <5>1. pc[q] = "head" /\ q \in ListOwners
          BY <1>f, <1>t, <2>1, <4>2 DEF ListOwners
        <5>2. node[q] # x /\ node[q] \in Nodes
          BY <1>0, <1>t, <2>0, <2>2, <4>2, <5>1 DEF ListsInv
        <5> QED
          BY <1>0, <1>t, <2>1, <5>1, <5>2 DEF LocksInv
      <4> QED
        BY <4>1, <4>2
    <3> QED
      BY <1>f, <2>1, <3>1, <3>2 DEF LocksInv
  <2>9. WalksInv'
    <3>1. \A q \in Asker : pc'[q] = pc[q]
      BY <1>f, <1>t, <2>1
    <3> QED
      BY <1>0, <2>1, <2>5, <2>6, <3>1, WalkFrame
  <2>10. M!Contents' = M!Contents
    BY <2>1, <2>6, ListKeep
  <2> QED
    BY <1>c, <2>1, <2>3, <2>7, <2>8, <2>9, <2>10 DEF ListInv
<1>5. CASE M!SetHead(p)
  <2>0. PICK l, x, v : l = IndexOf[ticket[p]] /\ x = node[p] /\ v = ticket[p]
    OBVIOUS
  <2>1. /\ pc[p] = "head" /\ pc' = [pc EXCEPT ![p] = "call"] /\ v \in Keys
        /\ head' = [head EXCEPT ![l] = x] /\ head_lock' = [head_lock EXCEPT ![l] = "none"]
        /\ made' = [made EXCEPT ![p] = @ + 1]
        /\ ticket' = [ticket EXCEPT ![p] = 0] /\ node' = [node EXCEPT ![p] = "NULL"]
        /\ UNCHANGED <<value, next, allocated, tmp>>
    <3>1. pc[p] = "head" /\ ticket[p] \in Keys
      BY <1>5, <1>f, <1>t DEF M!SetHead, M!Goto
    <3>2. M!L(p) = l
      BY <2>0, <3>1 DEF M!L, IndexOf
    <3> QED
      BY <1>5, <2>0, <3>1, <3>2 DEF M!SetHead, M!Goto, M!Drop, M!None, M!NULL
  <2>2. /\ l \in M!Lists /\ head_lock[l] = p /\ next[x] = head[l] /\ p \in ListOwners
        /\ x \in Nodes /\ x \in allocated /\ value[x] = v
        /\ \A i \in M!Lists : x \notin ListNodes[i]
    BY <1>0, <1>f, <1>t, <2>0, <2>1 DEF LocksInv, ListsInv, ListOwners
  <2>3. ListTypeOK'
    BY <1>f, <1>t, <2>1, <2>2 DEF ListTypeOK
  <2>4. /\ ListOwners' = ListOwners \ {p}
        /\ \A q \in ListOwners' : node'[q] = node[q] /\ ticket'[q] = ticket[q] /\ node[q] # x
    <3>1. ListOwners' = ListOwners \ {p}
      BY <1>f, <1>t, <2>1 DEF ListOwners
    <3>2. \A q \in ListOwners' : q \in M!Procs /\ q # p /\ q \in ListOwners
      BY <1>f, <3>1 DEF ListOwners
    <3> QED
      BY <1>0, <1>t, <2>0, <2>1, <2>2, <3>1, <3>2 DEF ListsInv
  <2>5. /\ head'[l] = x /\ \A i \in M!Lists : i # l => head'[i] = head[i]
    BY <1>t, <2>1, <2>2
  <2>6. /\ \A i \in M!Lists : Linked(Nodes, head'[i], next')
        /\ ListNodes'[l] = ListNodes[l] \cup {x}
        /\ \A i \in M!Lists : i # l => ListNodes'[i] = ListNodes[i]
    <3>1. /\ \A i \in M!Lists : ListNodes[i] = Reach(Nodes, head[i], next)
          /\ \A i \in M!Lists : ListNodes'[i] = Reach(Nodes, head'[i], next')
      BY <1>f DEF ListNodes
    <3>2. Linked(Nodes, head[l], next) /\ x \notin Reach(Nodes, head[l], next)
      BY <1>0, <2>2, <3>1 DEF ListsInv
    <3>3. /\ Linked(Nodes, x, next)
          /\ Reach(Nodes, x, next) = Reach(Nodes, head[l], next) \cup {x}
      BY <1>f, <2>2, <3>2, LinkedFront
    <3>4. \A i \in M!Lists : Linked(Nodes, head[i], next)
      BY <1>0 DEF ListsInv
    <3> QED
      BY <2>1, <2>2, <2>5, <3>1, <3>3, <3>4
  <2>7. ListsInv'
    <3>1. \A i \in M!Lists' : Linked(Nodes, head'[i], next') /\ ListNodes'[i] \subseteq allocated'
      BY <1>0, <1>f, <2>1, <2>2, <2>6 DEF ListsInv
    <3>2. \A i \in M!Lists' : \A y \in ListNodes'[i] :
             value'[y] \in Keys /\ IndexOf'[value'[y]] = i
      BY <1>0, <1>f, <2>0, <2>1, <2>2, <2>6 DEF ListsInv
    <3>3. \A q \in ListOwners' :
             /\ node'[q] \in allocated' /\ value'[node'[q]] = ticket'[q]
             /\ \A i \in M!Lists' : node'[q] \notin ListNodes'[i]
      BY <1>0, <1>f, <2>1, <2>4, <2>6 DEF ListsInv
    <3>4. \A q, r \in ListOwners' : node'[q] = node'[r] => q = r
      BY <1>0, <2>4 DEF ListsInv
    <3>5. \A y \in allocated' : \/ \E i \in M!Lists' : y \in ListNodes'[i]
                                \/ \E q \in ListOwners' : node'[q] = y
      <4> TAKE y \in allocated'
      <4>1. CASE y = x
        BY <1>f, <2>2, <2>6, <4>1
      <4>2. CASE \E i \in M!Lists : y \in ListNodes[i]
        BY <1>f, <2>2, <2>6, <4>2
      <4>3. CASE y # x /\ ~ \E i \in M!Lists : y \in ListNodes[i]
        <5>1. PICK q \in ListOwners : node[q] = y
          BY <1>0, <2>1, <4>3 DEF ListsInv
        <5>2. q \in ListOwners'
          BY <2>0, <2>4, <4>3, <5>1
        <5> QED
          BY <2>4, <5>1, <5>2
      <4> QED
        BY <4>1, <4>2, <4>3
    <3> QED
      BY <3>1, <3>2, <3>3, <3>4, <3>5 DEF ListsInv
  <2>8. \A t \in M!Procs : pc'[t] \in {"next", "head", "walk"} =>
           /\ t # p /\ pc[t] = pc'[t] /\ node'[t] = node[t] /\ ticket'[t] = ticket[t]
           /\ IndexOf[ticket[t]] \in M!Lists /\ head_lock[IndexOf[ticket[t]]] = t
           /\ IndexOf[ticket[t]] # l
    BY <1>0, <1>f, <1>t, <2>1, <2>2 DEF LocksInv
  <2>9. LocksInv'
    BY <1>0, <1>f, <1>t, <2>1, <2>5, <2>8 DEF LocksInv
  <2>10. WalksInv'
    BY <1>0, <1>f, <2>1, <2>6, <2>8 DEF WalksInv
  <2>11. M!Contents' = M!Contents \cup {v}
    <3> DEFINE U == UNION {ListNodes[i] : i \in M!Lists}
               V == UNION {ListNodes'[i] : i \in M!Lists'}
    <3>1. V = U \cup {x}
      BY <1>f, <2>2, <2>6
    <3>2. M!Contents = {value[y] : y \in U} /\ M!Contents' = {value'[y] : y \in V}
      BY ListSame
    <3> HIDE DEF U, V
    <3> QED
      BY <2>1, <2>2, <3>1, <3>2
  <2>12. Set!Insert(p)
    BY <1>c, <2>1, <2>11 DEF Set!Insert
  <2> QED
    BY <2>3, <2>7, <2>9, <2>10, <2>12 DEF ListInv, Set!Next
<1> QED
  BY <1>1, <1>2, <1>3, <1>4, <1>5 DEF M!Insert

\* Every step of lookup keeps the invariant; the answer is whether the key is
\* on the lists.
LEMMA ListLookUp ==
  ASSUME ListInv, over = "no", program' = program, NEW q \in Asker, M!LookUp(q)
  PROVE  ListInv' /\ (Set!Next \/ UNCHANGED <<M!Contents, made, tmp, calls>>)
<1>0. ListTypeOK /\ ListsInv /\ LocksInv /\ WalksInv
  BY DEF ListInv
<1>f. /\ IsFiniteSet(Nodes) /\ "NULL" \notin Nodes /\ "none" \notin M!Procs
      /\ q \in M!Procs /\ Producers \subseteq M!Procs /\ Asker \subseteq M!Procs
      /\ M!Procs = Producers \cup Asker /\ \A p \in Producers : p # q
      /\ M!Lists' = M!Lists /\ IndexOf' = IndexOf
  BY ListFacts, ListProgram
<1>t. /\ head \in [M!Lists -> Nodes \cup {"NULL"}] /\ DOMAIN head_lock = M!Lists
      /\ next \in [Nodes -> Nodes \cup {"NULL"}] /\ DOMAIN value = Nodes
      /\ allocated \in SUBSET Nodes
      /\ pc \in [M!Procs -> {"call", "lock", "next", "head", "walk", "end"}]
      /\ node \in [M!Procs -> Nodes \cup {"NULL"}] /\ DOMAIN ticket = M!Procs
      /\ DOMAIN made = Producers /\ DOMAIN tmp = Asker
      /\ \A p \in Producers : pc[p] # "walk"
      /\ \A r \in Asker : pc[r] \in {"call", "lock", "walk", "end"}
      /\ \A t \in M!Procs : pc[t] \in {"lock", "next", "head", "walk"} => ticket[t] \in Keys
  BY <1>0 DEF ListTypeOK
\* the owners are other threads, and a lookup leaves the lists alone
<1>s. ASSUME UNCHANGED <<head, value, next, allocated>>,
             \A t \in M!Procs : t # q =>
                pc'[t] = pc[t] /\ node'[t] = node[t] /\ ticket'[t] = ticket[t]
      PROVE  ListsInv' /\ ListNodes' = ListNodes /\ M!Contents' = M!Contents
  <2>1. ListOwners' = ListOwners /\ \A p \in ListOwners : p \in M!Procs /\ p # q
    BY <1>f, <1>s DEF ListOwners
  <2> QED
    BY <1>0, <1>s, <2>1, ListsStay
<1>1. CASE M!Ask(q)
  <2>1. PICK v \in Keys : ticket' = [ticket EXCEPT ![q] = v]
    BY <1>1 DEF M!Ask
  <2>2. /\ pc[q] = "call" /\ pc' = [pc EXCEPT ![q] = "lock"]
        /\ UNCHANGED <<head, value, next, allocated, head_lock, node, made, tmp, calls>>
    BY <1>1 DEF M!Ask, M!Goto, M!lvars
  <2>3. ListTypeOK'
    BY <1>f, <1>t, <2>1, <2>2 DEF ListTypeOK
  <2>4. \A t \in M!Procs : t # q =>
           pc'[t] = pc[t] /\ node'[t] = node[t] /\ ticket'[t] = ticket[t]
    BY <1>t, <2>1, <2>2
  <2>5. ListsInv' /\ ListNodes' = ListNodes /\ M!Contents' = M!Contents
    BY <1>s, <2>2, <2>4
  <2>6. pc'[q] = "lock"
    BY <1>f, <1>t, <2>2
  <2>7. LocksInv'
    BY <1>0, <1>f, <2>2, <2>4, <2>6 DEF LocksInv
  <2>8. \A r \in Asker : pc'[r] = "walk" =>
           pc[r] = "walk" /\ node'[r] = node[r] /\ ticket'[r] = ticket[r]
    BY <1>f, <2>4, <2>6
  <2>9. WalksInv'
    BY <1>0, <2>2, <2>5, <2>8, WalkFrame
  <2> QED
    BY <2>2, <2>3, <2>5, <2>7, <2>9 DEF ListInv
<1>2. CASE M!LockWalk(q)
  <2>0. PICK l : l = IndexOf[ticket[q]]
    OBVIOUS
  <2>1. /\ pc[q] = "lock" /\ pc' = [pc EXCEPT ![q] = "walk"]
        /\ l \in M!Lists /\ head_lock[l] = "none" /\ head_lock' = [head_lock EXCEPT ![l] = q]
        /\ node' = [node EXCEPT ![q] = head[l]]
        /\ UNCHANGED <<head, value, next, allocated, ticket, made, tmp, calls>>
    <3>1. pc[q] = "lock" /\ ticket[q] \in Keys
      BY <1>2, <1>f, <1>t DEF M!LockWalk, M!Goto
    <3>2. M!L(q) = l
      BY <2>0, <3>1 DEF M!L, IndexOf
    <3> QED
      BY <1>2, <3>2 DEF M!LockWalk, M!Goto, M!lvars, M!None
  <2>2. head[l] \in Nodes \cup {"NULL"}
    BY <1>t, <2>1
  <2>3. ListTypeOK'
    BY <1>f, <1>t, <2>1, <2>2 DEF ListTypeOK
  <2>4. \A t \in M!Procs : t # q =>
           pc'[t] = pc[t] /\ node'[t] = node[t] /\ ticket'[t] = ticket[t]
    BY <1>t, <2>1
  <2>5. ListsInv' /\ ListNodes' = ListNodes /\ M!Contents' = M!Contents
    BY <1>s, <2>1, <2>4
  <2>6. LocksInv'
    <3>1. \A t \in M!Procs : pc'[t] \in {"next", "head", "walk"} =>
             IndexOf[ticket[t]] \in M!Lists /\ head_lock'[IndexOf[ticket[t]]] = t
      BY <1>0, <1>f, <1>t, <2>0, <2>1, <2>4 DEF LocksInv
    <3>2. \A p \in Producers : pc'[p] = "head" => next[node'[p]] = head[IndexOf[ticket[p]]]
      BY <1>0, <1>f, <2>4 DEF LocksInv
    <3> QED
      BY <1>f, <2>1, <3>1, <3>2 DEF LocksInv
  <2>7. WalksInv'
    <3> SUFFICES ASSUME NEW r \in Asker, pc'[r] = "walk"
                 PROVE  /\ Linked(Nodes, node'[r], next')
                        /\ Reach(Nodes, node'[r], next') \subseteq ListNodes'[IndexOf'[ticket'[r]]]
                        /\ \A x \in ListNodes'[IndexOf'[ticket'[r]]] : value'[x] = ticket'[r] =>
                              \E y \in Reach(Nodes, node'[r], next') : value'[y] = ticket'[r]
      BY DEF WalksInv
    <3>1. CASE r = q
      <4>1. node'[q] = head[l] /\ Linked(Nodes, head[l], next)
        BY <1>0, <1>f, <1>t, <2>1 DEF ListsInv
      <4>2. ListNodes[l] = Reach(Nodes, head[l], next)
        BY <2>1 DEF ListNodes
      <4> QED
        BY <1>f, <2>0, <2>1, <2>5, <3>1, <4>1, <4>2
    <3>2. CASE r # q
      <4>1. pc[r] = "walk" /\ node'[r] = node[r] /\ ticket'[r] = ticket[r]
        BY <1>f, <2>4, <3>2
      <4> QED
        BY <1>0, <1>f, <2>1, <2>5, <4>1 DEF WalksInv
    <3> QED
      BY <3>1, <3>2
  <2> QED
    BY <2>1, <2>3, <2>5, <2>6, <2>7 DEF ListInv
<1>w. ASSUME pc[q] = "walk", NEW l, l = IndexOf[ticket[q]], NEW x, x = node[q]
      PROVE  /\ l \in M!Lists /\ head_lock[l] = q /\ ticket[q] \in Keys
             /\ M!L(q) = l /\ Linked(Nodes, x, next)
             /\ Reach(Nodes, x, next) \subseteq ListNodes[l]
             /\ \A y \in ListNodes[l] : value[y] = ticket[q] =>
                   \E z \in Reach(Nodes, x, next) : value[z] = ticket[q]
  <2>1. ticket[q] \in Keys
    BY <1>f, <1>t, <1>w
  <2>2. M!L(q) = l
    BY <1>w, <2>1 DEF M!L, IndexOf
  <2> QED
    BY <1>0, <1>f, <1>w, <2>1, <2>2 DEF LocksInv, WalksInv
<1>3. CASE M!Walk(q)
  <2>0. PICK l, x : l = IndexOf[ticket[q]] /\ x = node[q]
    OBVIOUS
  <2>1. /\ pc[q] = "walk" /\ x # "NULL" /\ value[x] # ticket[q]
        /\ node' = [node EXCEPT ![q] = next[x]]
        /\ UNCHANGED <<head, value, next, allocated, head_lock, pc, ticket, made, tmp, calls>>
    BY <1>3, <2>0 DEF M!Walk, M!Found, M!lvars, M!NULL
  <2>2. /\ l \in M!Lists /\ Linked(Nodes, x, next) /\ Reach(Nodes, x, next) \subseteq ListNodes[l]
        /\ \A y \in ListNodes[l] : value[y] = ticket[q] =>
              \E z \in Reach(Nodes, x, next) : value[z] = ticket[q]
    BY <1>w, <2>0, <2>1
  <2>3. /\ Linked(Nodes, next[x], next)
        /\ Reach(Nodes, next[x], next) = Reach(Nodes, x, next) \ {x}
    BY <1>f, <2>1, <2>2, LinkedRest
  <2>4. next[x] \in Nodes \cup {"NULL"}
    BY <1>f, <1>t, <2>0, <2>1
  <2>5. ListTypeOK'
    BY <1>f, <1>t, <2>1, <2>4 DEF ListTypeOK
  <2>6. \A t \in M!Procs : t # q =>
           pc'[t] = pc[t] /\ node'[t] = node[t] /\ ticket'[t] = ticket[t]
    BY <1>t, <2>1
  <2>7. ListsInv' /\ ListNodes' = ListNodes /\ M!Contents' = M!Contents
    BY <1>s, <2>1, <2>6
  <2>8. LocksInv'
    BY <1>0, <1>f, <2>1, <2>6 DEF LocksInv
  <2>9. WalksInv'
    <3> SUFFICES ASSUME NEW r \in Asker, pc'[r] = "walk"
                 PROVE  /\ Linked(Nodes, node'[r], next')
                        /\ Reach(Nodes, node'[r], next') \subseteq ListNodes'[IndexOf'[ticket'[r]]]
                        /\ \A y \in ListNodes'[IndexOf'[ticket'[r]]] : value'[y] = ticket'[r] =>
                              \E z \in Reach(Nodes, node'[r], next') : value'[z] = ticket'[r]
      BY DEF WalksInv
    <3>1. CASE r = q
      <4>1. node'[q] = next[x]
        BY <1>f, <1>t, <2>1
      <4> QED
        BY <1>f, <2>0, <2>1, <2>2, <2>3, <2>7, <3>1, <4>1
    <3>2. CASE r # q
      <4>1. pc[r] = "walk" /\ node'[r] = node[r] /\ ticket'[r] = ticket[r]
        BY <1>f, <2>1, <2>6, <3>2
      <4> QED
        BY <1>0, <1>f, <2>1, <2>7, <4>1 DEF WalksInv
    <3> QED
      BY <3>1, <3>2
  <2> QED
    BY <2>1, <2>5, <2>7, <2>8, <2>9 DEF ListInv
<1>4. CASE M!Answer(q)
  <2>0. PICK l, x, v : l = IndexOf[ticket[q]] /\ x = node[q] /\ v = ticket[q]
    OBVIOUS
  <2>1. pc[q] = "walk" /\ (x = "NULL" \/ M!Found(q))
    BY <1>4, <2>0 DEF M!Answer, M!Goto, M!NULL
  <2>2. /\ l \in M!Lists /\ head_lock[l] = q /\ v \in Keys /\ M!L(q) = l
        /\ Linked(Nodes, x, next) /\ Reach(Nodes, x, next) \subseteq ListNodes[l]
        /\ \A y \in ListNodes[l] : value[y] = v => \E z \in Reach(Nodes, x, next) : value[z] = v
    BY <1>w, <2>0, <2>1
  <2>3. /\ pc' = [pc EXCEPT ![q] = "call"]
        /\ tmp' = [tmp EXCEPT ![q] = <<v, M!Found(q)>>]
        /\ head_lock' = [head_lock EXCEPT ![l] = "none"]
        /\ calls' = [calls EXCEPT ![q] = @ + 1]
        /\ ticket' = [ticket EXCEPT ![q] = 0] /\ node' = [node EXCEPT ![q] = "NULL"]
        /\ UNCHANGED <<head, value, next, allocated, made>>
    BY <1>4, <2>0, <2>2 DEF M!Answer, M!Goto, M!Drop, M!lvars, M!None, M!NULL
  <2>4. M!Found(q) = (v \in M!Contents)
    <3>1. x = "NULL" => Reach(Nodes, x, next) = {}
      BY <1>f, <2>2, LinkedRest
    <3>2. x # "NULL" => x \in Reach(Nodes, x, next)
      BY <1>f, <2>2, LinkedRest
    <3>3. v \in M!Contents <=> \E i \in M!Lists : \E y \in ListNodes[i] : value[y] = v
      BY ListSame
    <3>4. v \in M!Contents <=> \E y \in ListNodes[l] : value[y] = v
      BY <1>0, <2>0, <2>2, <3>3 DEF ListsInv
    <3>5. M!Found(q) = (x # "NULL" /\ value[x] = v)
      BY <2>0 DEF M!Found, M!NULL
    <3>6. CASE x = "NULL"
      BY <2>2, <3>1, <3>4, <3>5, <3>6
    <3>7. CASE x # "NULL"
      BY <2>1, <2>2, <3>2, <3>4, <3>5, <3>7
    <3> QED
      BY <3>6, <3>7
  <2>5. ListTypeOK'
    BY <1>f, <1>t, <2>3 DEF ListTypeOK
  <2>6. \A t \in M!Procs : t # q =>
           pc'[t] = pc[t] /\ node'[t] = node[t] /\ ticket'[t] = ticket[t]
    BY <1>t, <2>3
  <2>7. ListsInv' /\ ListNodes' = ListNodes /\ M!Contents' = M!Contents
    BY <1>s, <2>3, <2>6
  <2>8. pc'[q] = "call"
    BY <1>f, <1>t, <2>3
  <2>9. LocksInv'
    <3>1. \A t \in M!Procs : pc'[t] \in {"next", "head", "walk"} =>
             IndexOf[ticket'[t]] \in M!Lists /\ head_lock'[IndexOf[ticket'[t]]] = t
      BY <1>0, <1>f, <1>t, <2>2, <2>3, <2>6, <2>8 DEF LocksInv
    <3>2. \A p \in Producers : pc'[p] = "head" => next[node'[p]] = head[IndexOf[ticket'[p]]]
      BY <1>0, <1>f, <2>6 DEF LocksInv
    <3> QED
      BY <1>f, <2>3, <3>1, <3>2 DEF LocksInv
  <2>10. \A r \in Asker : pc'[r] = "walk" =>
            pc[r] = "walk" /\ node'[r] = node[r] /\ ticket'[r] = ticket[r]
    BY <1>f, <2>6, <2>8
  <2>11. WalksInv'
    BY <1>0, <2>3, <2>7, <2>10, WalkFrame
  <2>12. Set!LookUp(q)
    BY <2>2, <2>3, <2>4, <2>7 DEF Set!LookUp
  <2> QED
    BY <2>5, <2>7, <2>9, <2>11, <2>12 DEF ListInv, Set!Next
<1> QED
  BY <1>1, <1>2, <1>3, <1>4 DEF M!LookUp

\* how a behaviour of the lists can end, but for a pointer to a deleted node
ListOver == /\ over = "destroyed" => M!HeadsLeak
            /\ over = "outside" => program = "hashmap-c.cpp"

\* abs keeps the index of a key inside of the array.
LEMMA IndexInside ==
  ASSUME NEW k \in Keys
  PROVE  M!Index(k) \in M!Lists \/ program = "hashmap-c.cpp"
<1>0. k \in Int /\ BUCKETS \in Nat /\ BUCKETS > 0
  BY NodesAssumption DEF Keys
<1>1. CASE ~M!Hash
  BY <1>1 DEF M!Index, M!Lists
<1>2. CASE M!Hash /\ M!CPlus
  <2>1. PICK a \in Nat : a = IF k < 0 THEN -k ELSE k
    BY <1>0
  <2>2. a % BUCKETS \in 0..(BUCKETS - 1)
    BY <1>0, <2>1
  <2>3. M!Index(k) = a % BUCKETS
    BY <1>2, <2>1 DEF M!Index
  <2> QED
    BY <1>2, <2>2, <2>3 DEF M!Lists
<1>3. CASE M!Hash /\ ~M!CPlus
  BY <1>3 DEF M!Hash, M!CPlus
<1> QED
  BY <1>1, <1>2, <1>3

\* A hash map that leaves its array ends the behaviour.
LEMMA ListOutside ==
  ASSUME ListInv, over = "no", program' = program, NEW t \in M!Procs, M!Outside(t)
  PROVE  ListInv' /\ ListOver' /\ UNCHANGED <<M!Contents, made, tmp, calls>>
<1>1. over' = "outside" /\ UNCHANGED <<head, value, next, allocated, made, tmp, calls>>
  BY DEF M!Outside, M!lvars
<1>2. ListNodes' = ListNodes
  BY <1>1, ListProgram DEF ListNodes
<1>3. M!Contents' = M!Contents
  BY <1>1, <1>2, ListKeep
<1>4. ticket[t] \in Keys /\ M!Index(ticket[t]) \notin M!Lists
  BY DEF ListInv, ListTypeOK, M!Outside, M!Goto, M!L
<1>5. program = "hashmap-c.cpp"
  BY <1>4, IndexInside
<1> QED
  BY <1>1, <1>3, <1>5 DEF ListInv, ListOver

\* So do the destructors.  When no call is in progress every node is on a list,
\* and where no destructor meets a deleted node no list has a second one.
LEMMA ListDestroyed ==
  ASSUME ListInv, M!Destroy
  PROVE  ListInv' /\ ListOver' /\ UNCHANGED <<M!Contents, made, tmp, calls>>
<1>1. /\ over = "no" /\ over' \in {"dangling", "destroyed"}
      /\ over' = "destroyed" => \A i \in M!Lists : head[i] = "NULL" \/ next[head[i]] = "NULL"
      /\ \A t \in M!Procs : pc[t] = "call"
      /\ UNCHANGED <<program, head, value, next, allocated, made, tmp, calls>>
  BY DEF M!Destroy, M!lvars, M!NULL
<1>2. ListNodes' = ListNodes
  BY <1>1, ListProgram DEF ListNodes
<1>3. M!Contents' = M!Contents
  BY <1>1, <1>2, ListKeep
<1>4. ListsInv /\ ListTypeOK
  BY <1>1 DEF ListInv
<1>5. ListOwners = {}
  BY <1>1, ListFacts DEF ListOwners
<1>6. ASSUME over' = "destroyed", NEW i \in M!Lists
      PROVE  ListNodes[i] = {head[i]} \ {"NULL"}
  <2>1. Linked(Nodes, head[i], next) /\ ListNodes[i] = Reach(Nodes, head[i], next)
    BY <1>4 DEF ListsInv, ListNodes
  <2>2. CASE head[i] = "NULL"
    BY <2>1, <2>2, ListFacts, LinkedRest
  <2>3. CASE head[i] # "NULL"
    <3>1. next[head[i]] = "NULL"
      BY <1>1, <1>6, <2>3
    <3>2. /\ head[i] \in Reach(Nodes, head[i], next)
          /\ Linked(Nodes, "NULL", next)
          /\ Reach(Nodes, "NULL", next) = Reach(Nodes, head[i], next) \ {head[i]}
      BY <2>1, <2>3, <3>1, ListFacts, LinkedRest
    <3>3. Reach(Nodes, "NULL", next) = {}
      BY <3>2, ListFacts, LinkedRest
    <3> QED
      BY <2>1, <2>3, <3>2, <3>3
  <2> QED
    BY <2>2, <2>3
<1>7. over' = "destroyed" => allocated = {head[i] : i \in M!Lists} \ {"NULL"}
  BY <1>4, <1>5, <1>6 DEF ListsInv
<1>8. M!HeadsLeak' <=> allocated = {head[i] : i \in M!Lists} \ {"NULL"}
  BY <1>1, ListProgram DEF M!HeadsLeak, M!NULL
<1> QED
  BY <1>1, <1>3, <1>7, <1>8 DEF ListInv, ListOver

\* Every step of the lists keeps the invariant.
LEMMA ListSteps ==
  ASSUME ListInv, NEW t \in Procs, M!Step(t)
  PROVE  /\ ListInv' /\ ListOver'
         /\ Set!Next \/ UNCHANGED <<M!Contents, made, tmp, calls>>
<1>0. over = "no" /\ program' = program
  BY DEF M!Step
<1>1. CASE t \in Producers /\ M!Insert(t)
  <2>1. over' = over \/ over' = "abort"
    BY <1>1 DEF M!Insert, M!Create, M!OutOfMemory, M!Lock, M!SetNext, M!SetHead
  <2> QED
    BY <1>0, <1>1, <2>1, ListInsert DEF ListOver
<1>2. CASE t \in Asker /\ M!LookUp(t)
  <2>1. over' = over
    BY <1>2 DEF M!LookUp, M!Ask, M!LockWalk, M!Walk, M!Answer
  <2> QED
    BY <1>0, <1>2, <2>1, ListLookUp DEF ListOver
<1>3. CASE t \in M!Procs /\ M!Outside(t)
  BY <1>0, <1>3, ListOutside
<1> QED
  BY <1>1, <1>2, <1>3 DEF M!Step

\* While the lists are in use every node is on a list or about to be put there;
\* the destructors leave the first nodes, and only one program leaves its array.
LEMMA ListSafe ==
  ASSUME ListInv, ListOver
  PROVE  /\ over = "no" => M!NodesKept
         /\ over = "destroyed" => M!HeadsLeak
         /\ over = "outside" => program = "hashmap-c.cpp"
<1>1. over = "no" => M!NodesKept
  BY ListSame DEF ListInv, ListsInv, ListOwners, M!NodesKept
<1> QED
  BY <1>1 DEF ListOver

------------------------------------------------------------------------------
(* The programs together *)

\* a thread has as many answers as calls that returned to it
RunInv == /\ Ring => RingInv /\ RingPast
          /\ Queue => QueueInv
          /\ Stack => StackInv
          /\ List => ListInv /\ ListOver
          /\ DOMAIN calls = IF List THEN Asker ELSE Consumers

\* A behaviour runs one program, and contents is what this program stores and
\* answers.
LEMMA ContentsOf ==
  /\ Ring => ~Queue /\ ~Stack /\ ~List /\ contents = <<Contents, made, Taken, Claimed, Answers>>
  /\ Queue => ~Ring /\ ~Stack /\ ~List /\ contents = <<Q!Contents, made, tmp, Q!Answers>>
  /\ Stack => ~Ring /\ ~Queue /\ ~List /\ contents = <<S!Contents, made, S!Popped, S!Answers>>
  /\ List => ~Ring /\ ~Queue /\ ~Stack /\ contents = <<M!Contents, made, tmp, calls>>
  /\ Ring \/ Queue \/ Stack \/ List
BY DEF contents, Ring, Queue, Stack, List

LEMMA ContentsNext ==
  /\ Ring' => contents' = <<Contents, made, Taken, Claimed, Answers>>'
  /\ Queue' => contents' = <<Q!Contents, made, tmp, Q!Answers>>'
  /\ Stack' => contents' = <<S!Contents, made, S!Popped, S!Answers>>'
  /\ List' => contents' = <<M!Contents, made, tmp, calls>>'
BY DEF contents, Ring, Queue, Stack, List

\* what a step of a program does to what the program stores and answers
ContainerStep == \/ (Ring \/ Queue) /\ Fifo!TryNext
                 \/ Stack /\ (Lifo!Next \/ aba')
                 \/ List /\ Set!Next

\* Every program starts in a state of its invariant, with nothing stored and
\* no answer given.
LEMMA RunStarts ==
  ASSUME RunInit
  PROVE  /\ RunInv
         /\ Ring \/ Queue => Fifo!TryInit
         /\ Stack => Lifo!Init
         /\ List => Set!Init
<1>0. Size \in Nat /\ Cardinality(Nodes) \in Nat
  BY SizeAssumption, NodesAssumption, FS_CardinalityType
<1>1. CASE Ring /\ Init
  <2>1. Contents = <<>> /\ Taken = [c \in Consumers |-> <<"none", 0>>]
    BY <1>1 DEF Init, Contents, Taken, Procs
  <2>2. Claimed = {} /\ Answers = [c \in Consumers |-> 0]
    BY <1>1 DEF Init, Claimed, Answers, Procs
  <2>3. Fifo!TryInit
    BY <1>0, <1>1, <2>1, <2>2 DEF Init, Fifo!Init, Fifo!TryInit
  <2>4. DOMAIN calls = Consumers
    BY <1>1 DEF Init
  <2> QED
    BY <1>1, <2>3, <2>4, ContentsOf, RingInit, RingPastInit DEF RunInv
<1>2. CASE Queue /\ Q!Init
  <2>1. QueueInv /\ Q!Contents = <<>> /\ ~Ring
    BY <1>2, QueueInit, ContentsOf
  <2>2. Q!Answers = [c \in Consumers |-> 0]
    BY <1>2 DEF Q!Init, Q!Answers, Q!Procs
  <2>3. Fifo!TryInit
    BY <1>0, <1>2, <2>1, <2>2 DEF Q!Init, Fifo!Init, Fifo!TryInit
  <2>4. DOMAIN calls = Consumers
    BY <1>2 DEF Q!Init
  <2> QED
    BY <1>2, <2>1, <2>3, <2>4, ContentsOf DEF RunInv
<1>3. CASE Stack /\ S!Init
  <2>1. DOMAIN calls = Consumers
    BY <1>3 DEF S!Init
  <2> QED
    BY <1>3, <2>1, StackInit, ContentsOf DEF RunInv
<1>4. CASE M!Init
  <2>1. List /\ over = "no" /\ DOMAIN calls = Asker
    BY <1>4 DEF M!Init, Ring, Queue, Stack, List
  <2> QED
    BY <1>4, <2>1, ListInit, ContentsOf DEF RunInv, ListOver
<1> QED
  BY <1>1, <1>2, <1>3, <1>4 DEF RunInit, Ring, Queue, Stack

\* No step adds or removes a thread.
LEMMA CallersStay ==
  ASSUME RunDestroy \/ \E t \in Procs : RunStep(t)
  PROVE  DOMAIN calls' = DOMAIN calls
<1>1. ASSUME NEW t \in Procs, Step(t)
      PROVE  DOMAIN calls' = DOMAIN calls
  BY <1>1 DEF Step, enqueue, EnqLoad, EnqSeq, EnqClaim, EnqFail, EnqWrite, EnqPublish,
              dequeue, DeqLoad, DeqSeq, DeqClaim, DeqFail, DeqRead, DeqPublish
<1>2. ASSUME NEW t \in Procs, Q!Step(t)
      PROVE  DOMAIN calls' = DOMAIN calls
  BY <1>2 DEF Q!Step, Q!Queue_Enqueue, Q!Create, Q!LockTail, Q!Link, Q!MoveTail, Q!UnlockTail,
              Q!Queue_Dequeue, Q!LockHead, Q!ReadEmpty, Q!MoveHead, Q!UnlockHead, Q!Free
<1>3. ASSUME NEW t \in Procs, S!Step(t)
      PROVE  DOMAIN calls' = DOMAIN calls
  BY <1>3 DEF S!Step, S!push, S!New, S!PushLoad, S!PushExchange, S!pop, S!PopLoad, S!PopEmpty,
              S!PopNext, S!PopExchange, S!PopFail, S!PopData, S!PopDelete
<1>4. ASSUME NEW t \in Procs, M!Step(t)
      PROVE  DOMAIN calls' = DOMAIN calls
  BY <1>4 DEF M!Step, M!Insert, M!Create, M!OutOfMemory, M!Lock, M!SetNext, M!SetHead,
              M!LookUp, M!Ask, M!LockWalk, M!Walk, M!Answer, M!Outside
<1>5. M!Destroy => DOMAIN calls' = DOMAIN calls
  BY DEF M!Destroy
<1> QED
  BY <1>1, <1>2, <1>3, <1>4, <1>5 DEF RunDestroy, RunStep

\* Every step of every program keeps the invariant of the program, and is a
\* step of its abstract container or changes neither what is stored nor what
\* was answered.
LEMMA RunSteps ==
  ASSUME RunInv, RunDestroy \/ \E t \in Procs : RunStep(t)
  PROVE  RunInv' /\ (ContainerStep \/ contents' = contents)
<1>0. program' = program
  BY DEF RunDestroy, RunStep, M!Step, M!Destroy
<1>p. Ring' = Ring /\ Queue' = Queue /\ Stack' = Stack /\ List' = List
  BY <1>0 DEF Ring, Queue, Stack, List
<1>d. DOMAIN calls' = IF List' THEN Asker ELSE Consumers
  BY <1>p, CallersStay DEF RunInv
<1>1. CASE RunDestroy
  <2>1. List /\ M!Destroy /\ ListInv
    BY <1>1 DEF RunDestroy, RunInv
  <2>2. ListInv' /\ ListOver' /\ UNCHANGED <<M!Contents, made, tmp, calls>>
    BY <2>1, ListDestroyed
  <2>3. contents' = contents
    BY <1>p, <2>1, <2>2, ContentsOf, ContentsNext
  <2> QED
    BY <1>d, <1>p, <2>1, <2>2, <2>3, ContentsOf DEF RunInv
<1>2. ASSUME NEW t \in Procs, Ring /\ Step(t)
      PROVE  RunInv' /\ (ContainerStep \/ contents' = contents)
  <2>1. RingInv /\ RingPast /\ Ring' /\ DOMAIN calls = Consumers
    BY <1>p, <1>2, ContentsOf DEF RunInv
  <2>2. RingInv' /\ RingPast'
    BY <1>2, <2>1, RingEnqueue, RingDequeue, RingPastStep DEF Step
  <2>3. Fifo!TryNext \/ UNCHANGED <<Contents, made, Taken, Claimed, Answers>>
    BY <1>2, <2>1, <2>2, RingTries
  <2>4. Fifo!TryNext \/ contents' = contents
    BY <1>2, <2>1, <2>3, ContentsOf, ContentsNext
  <2> QED
    BY <1>d, <1>p, <1>2, <2>2, <2>4, ContentsOf DEF RunInv, ContainerStep
<1>3. ASSUME NEW t \in Procs, Queue /\ Q!Step(t)
      PROVE  RunInv' /\ (ContainerStep \/ contents' = contents)
  <2>1. QueueInv /\ Queue' /\ ~Ring /\ ~Ring' /\ DOMAIN calls = Consumers
    BY <1>p, <1>3, ContentsOf DEF RunInv
  <2>2. QueueInv' /\ (Fifo!TryNext \/ UNCHANGED <<Q!Contents, made, tmp, Q!Answers>>)
    BY <1>3, <2>1, QueueTries
  <2>3. Fifo!TryNext \/ contents' = contents
    BY <1>3, <2>1, <2>2, ContentsOf, ContentsNext
  <2> QED
    BY <1>d, <1>p, <1>3, <2>2, <2>3, ContentsOf DEF RunInv, ContainerStep
<1>4. ASSUME NEW t \in Procs, Stack /\ S!Step(t)
      PROVE  RunInv' /\ (ContainerStep \/ contents' = contents)
  <2>1. StackInv /\ Stack' /\ ~aba /\ DOMAIN calls = Consumers
    BY <1>p, <1>4, ContentsOf DEF RunInv, S!Step
  <2>2. /\ StackInv'
        /\ Lifo!Next \/ aba' \/ UNCHANGED <<S!Contents, made, S!Popped, S!Answers>>
    BY <1>4, <2>1, StackTries
  <2>3. Lifo!Next \/ aba' \/ contents' = contents
    BY <1>4, <2>1, <2>2, ContentsOf, ContentsNext
  <2> QED
    BY <1>d, <1>p, <1>4, <2>2, <2>3, ContentsOf DEF RunInv, ContainerStep
<1>5. ASSUME NEW t \in Procs, List /\ M!Step(t)
      PROVE  RunInv' /\ (ContainerStep \/ contents' = contents)
  <2>1. ListInv /\ List'
    BY <1>p, <1>5 DEF RunInv
  <2>2. ListInv' /\ ListOver' /\ (Set!Next \/ UNCHANGED <<M!Contents, made, tmp, calls>>)
    BY <1>5, <2>1, ListSteps
  <2>3. Set!Next \/ contents' = contents
    BY <1>5, <2>1, <2>2, ContentsOf, ContentsNext
  <2> QED
    BY <1>d, <1>p, <1>5, <2>2, <2>3, ContentsOf DEF RunInv, ContainerStep
<1> QED
  BY <1>1, <1>2, <1>3, <1>4, <1>5 DEF RunStep

\* A step of no thread leaves the invariants alone.
LEMMA RunStutters ==
  ASSUME RunInv, UNCHANGED all
  PROVE  RunInv' /\ contents' = contents
<1>0. /\ UNCHANGED <<seq, data, head, tail, pc, ticket, made, calls, tmp, weak>>
      /\ UNCHANGED <<program, value, next, allocated, head_lock, tail_lock, node>>
      /\ UNCHANGED <<nextn, off, aba, over>>
  BY DEF all, vars
<1>p. Ring' = Ring /\ Queue' = Queue /\ Stack' = Stack /\ List' = List
  BY <1>0 DEF Ring, Queue, Stack, List
<1>d. DOMAIN calls' = IF List' THEN Asker ELSE Consumers
  BY <1>0, <1>p DEF RunInv
<1>1. CASE Ring
  <2>1. RingInv'
    BY <1>0, <1>1 DEF RunInv, RingInv, RingTypeOK, WindowInv, HolderInv, TryInv, Holds, Slot
  <2>2. RingPast'
    BY <1>0, <1>1 DEF RunInv, RingPast, Holds, Slot
  <2>3. Contents' = Contents /\ Taken' = Taken
    BY <1>0 DEF Contents, Taken, Item, Slot
  <2>4. Claimed' = Claimed /\ Answers' = Answers
    BY <1>0 DEF Claimed, Answers
  <2> QED
    BY <1>0, <1>d, <1>p, <1>1, <2>1, <2>2, <2>3, <2>4, ContentsOf, ContentsNext DEF RunInv
<1>2. CASE Queue
  <2>1. QueueInv'
    <3>1. QueueTypeOK /\ QueueLocks
      BY <1>2 DEF RunInv, QueueInv
    <3>2. PICK k, c : QueueNodes(c, k) /\ QueueEnds(c, k)
      BY <1>2 DEF RunInv, QueueInv, QueueIs
    <3>3. QueueTypeOK' /\ QueueLocks'
      BY <1>0, <3>1 DEF QueueTypeOK, QueueLocks
    <3>4. \A t : QueueOwns(t)' = QueueOwns(t)
      BY <1>0 DEF QueueOwns
    <3>5. QueueNodes(c, k)'
      BY <1>0, <3>2, <3>4 DEF QueueNodes
    <3>6. QueueEnds(c, k)'
      BY <1>0, <3>2 DEF QueueEnds
    <3> QED
      BY <3>3, <3>5, <3>6, QueueNext
  <2>2. Q!Contents' = Q!Contents /\ Q!Answers' = Q!Answers
    BY <1>0, QueueSame DEF Q!Answers
  <2> QED
    BY <1>0, <1>d, <1>p, <1>2, <2>1, <2>2, ContentsOf, ContentsNext DEF RunInv
<1>3. CASE Stack
  <2>0. StackInv
    BY <1>3 DEF RunInv
  <2>1. StackInv'
    <3>1. StackTypeOK => StackTypeOK'
      BY <1>0 DEF StackTypeOK
    <3>2. \A t : StackOwns(t)' <=> StackOwns(t)
      BY <1>0 DEF StackOwns
    <3>3. \A k : \A c : StackIs(c, k) => StackIs(c, k)'
      BY <1>0, <3>2 DEF StackIs
    <3> QED
      BY <1>0, <2>0, <3>1, <3>3 DEF StackInv
  <2>2. S!Contents' = S!Contents /\ S!Popped' = S!Popped /\ S!Answers' = S!Answers
    BY <1>0, StackSame DEF S!Popped, S!Answers
  <2> QED
    BY <1>0, <1>d, <1>p, <1>3, <2>1, <2>2, ContentsOf, ContentsNext DEF RunInv
<1>4. CASE List
  <2>0. ListInv /\ ListOver
    BY <1>4 DEF RunInv
  <2>1. M!Lists' = M!Lists /\ IndexOf' = IndexOf
    BY <1>0, ListProgram
  <2>2. ListNodes' = ListNodes
    BY <1>0, <2>1 DEF ListNodes
  <2>3. M!Contents' = M!Contents
    BY <1>0, <2>2, ListKeep
  <2>4. ListInv'
    <3>1. ListTypeOK => ListTypeOK'
      BY <1>0, <2>1 DEF ListTypeOK
    <3>2. ListOwners' = ListOwners
      BY <1>0 DEF ListOwners
    <3>3. ListsInv => ListsInv'
      BY <1>0, <2>1, <2>2, <3>2 DEF ListsInv
    <3>4. LocksInv => LocksInv'
      BY <1>0, <2>1 DEF LocksInv
    <3>5. WalksInv => WalksInv'
      BY <1>0, <2>1, <2>2 DEF WalksInv
    <3> QED
      BY <1>0, <2>0, <3>1, <3>3, <3>4, <3>5 DEF ListInv
  <2>5. ListOver'
    BY <1>0, <2>0, <2>1 DEF ListOver, M!HeadsLeak
  <2> QED
    BY <1>0, <1>d, <1>p, <1>4, <2>3, <2>4, <2>5, ContentsOf, ContentsNext DEF RunInv
<1> QED
  BY <1>1, <1>2, <1>3, <1>4, ContentsOf

\* In every state of the four programs the inductive invariant of the one that
\* runs holds: the window of tickets of the ring buffer, the chain of nodes of
\* the linked queue and of the stack, the chains and locks of the lists.
THEOREM Invariant == RunSpec => []RunInv
<1>1. RunInit => RunInv
  BY RunStarts
<1>2. RunInv /\ [RunDestroy \/ \E t \in Procs : RunStep(t)]_all => RunInv'
  BY RunSteps, RunStutters
<1> QED
  BY <1>1, <1>2, PTL DEF RunSpec

\* Every slot and every node has one owner: enqueue and dequeue of the ring
\* buffer never access the data of a slot at once, Queue_Enqueue and
\* Queue_Dequeue never follow a freed pointer, push and pop never lose a node
\* or delete one of another thread until an exchange mistakes a node.  While the
\* lists are in use they leak no node; ~LinkedList leaves the first node of every
\* list behind when it ends, and only hashmap-c.cpp leaves its array.
THEOREM MemoryIsSafe == RunSpec => []MemorySafe
<1>1. RunInv => MemorySafe
  BY RingRaceFree, QueueSafe, StackSafe, ListSafe DEF RunInv, MemorySafe
<1> QED
  BY <1>1, Invariant, PTL

\* Every answer of every container is one its abstract container gives, "empty"
\* too.  The linked queue is a bounded first-in first-out queue and the stack,
\* until its exchange mistakes a node, a last-in first-out stack that answer
\* "empty" only when they are; the ring buffer does so also when its first item
\* is not yet published; the lists and hash maps are sets of keys.
THEOREM ContainersImplemented == RunSpec => ImplementContainers
<1>1. RunInit => CASE Ring \/ Queue -> Fifo!TryInit [] Stack -> Lifo!Init [] List -> Set!Init
  BY RunStarts, ContentsOf
<1>2. RunInv /\ [RunDestroy \/ \E t \in Procs : RunStep(t)]_all =>
         [\/ (Ring \/ Queue) /\ Fifo!TryNext
          \/ Stack /\ (Lifo!Next \/ aba')
          \/ List /\ Set!Next]_contents
  BY RunSteps, RunStutters DEF ContainerStep
<1> QED
  BY <1>1, <1>2, Invariant, PTL DEF RunSpec, ImplementContainers

==============================================================================
