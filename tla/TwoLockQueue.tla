----------------------------- MODULE TwoLockQueue -----------------------------
(***************************************************************************)
(* threads-locks/locked data structures/queue.cpp: a linked queue with a   *)
(* dummy node and one lock for each end.  The two ends meet in the dummy   *)
(* node, whose next Queue_Enqueue writes under tail_lock and Queue_Dequeue *)
(* reads under head_lock.                                                  *)
(*                                                                         *)
(* A read of next that races with the write returns NULL or the new node,  *)
(* and a thread's stores are seen in program order, as on x86.  Nodes that *)
(* were freed may be handed out again by malloc.                           *)
(***************************************************************************)
EXTENDS Integers, Sequences, FiniteSets

CONSTANTS Producers,   (* threads that call Queue_Enqueue                  *)
          Consumers,   (* threads that call Queue_Dequeue                  *)
          Nodes,       (* the nodes malloc can hand out                    *)
          Loops,       (* calls of each producer                           *)
          Tries        (* calls of each consumer                           *)

NULL  == "NULL"
None  == "none"
Procs == Producers \cup Consumers

VARIABLES head, tail, value, next,
          allocated,              (* nodes handed out and not freed        *)
          head_lock, tail_lock,   (* owner, or None                        *)
          pc,
          node,                   (* node[t]: the local tmp                *)
          made,                   (* made[p]: nodes p has linked           *)
          tries,                  (* tries[c]: returns of Queue_Dequeue    *)
          got                     (* got[c]: *value after the last success *)

qvars == <<head, tail, value, next, allocated>>
vars  == <<qvars, head_lock, tail_lock, pc, node, made, tries, got>>

Goto(t, from, to) == pc[t] = from /\ pc' = [pc EXCEPT ![t] = to]

\* the local tmp is not used again
Drop(t) == node' = [node EXCEPT ![t] = NULL]

\* the node k hops behind head
Hop == LET f[k \in 0..Cardinality(Nodes)] ==
             IF k = 0 THEN head
             ELSE LET n == f[k - 1] IN IF n = NULL THEN NULL ELSE next[n]
       IN  [k \in 0..Cardinality(Nodes) |-> f[k]]

\* the queue: the values of the nodes behind the dummy
Contents == LET h == Hop
            IN  [i \in 1..Cardinality({k \in 1..Cardinality(Nodes) : h[k] # NULL})
                   |-> value[h[i]]]

\* a consumer that has moved head counts as having answered
Answers == [c \in Consumers |->
              IF pc[c] \in {"unlock", "free"} THEN tries[c] + 1 ELSE tries[c]]

------------------------------------------------------------------------------
\* Queue_Init
Init == /\ LET dummy == CHOOSE n \in Nodes : TRUE
           IN  head = dummy /\ tail = dummy /\ allocated = {dummy}
        /\ value = [n \in Nodes |-> <<"none", 0>>]
        /\ next = [n \in Nodes |-> NULL]
        /\ head_lock = None /\ tail_lock = None
        /\ pc = [t \in Procs |-> "call"]
        /\ node = [t \in Procs |-> NULL]
        /\ made = [p \in Producers |-> 0]
        /\ tries = [c \in Consumers |-> 0]
        /\ got = [c \in Consumers |-> <<"none", 0>>]

------------------------------------------------------------------------------
(* Queue_Enqueue *)

\* malloc and the stores into the new node
Create(p) == /\ made[p] < Loops
             /\ Goto(p, "call", "lock")
             /\ \E n \in Nodes \ allocated :
                  /\ allocated' = allocated \cup {n}
                  /\ value' = [value EXCEPT ![n] = <<p, made[p]>>]
                  /\ next' = [next EXCEPT ![n] = NULL]
                  /\ node' = [node EXCEPT ![p] = n]
             /\ UNCHANGED <<head, tail, head_lock, tail_lock, made, tries, got>>

LockTail(p) == /\ Goto(p, "lock", "link")
               /\ tail_lock = None /\ tail_lock' = p
               /\ UNCHANGED <<qvars, head_lock, node, made, tries, got>>

\* q->tail->next = tmp
Link(p) == /\ Goto(p, "link", "move")
           /\ next' = [next EXCEPT ![tail] = node[p]]
           /\ made' = [made EXCEPT ![p] = @ + 1]
           /\ UNCHANGED <<head, tail, value, allocated, head_lock, tail_lock, node, tries, got>>

\* q->tail = tmp
MoveTail(p) == /\ Goto(p, "move", "unlock")
               /\ tail' = node[p]
               /\ UNCHANGED <<head, value, next, allocated, head_lock, tail_lock, node, made, tries, got>>

UnlockTail(p) == /\ Goto(p, "unlock", "call")
                 /\ tail_lock' = None
                 /\ Drop(p)
                 /\ UNCHANGED <<qvars, head_lock, made, tries, got>>

------------------------------------------------------------------------------
(* Queue_Dequeue *)

\* lock, and tmp = q->head
LockHead(c) == /\ tries[c] < Tries
               /\ Goto(c, "call", "read")
               /\ head_lock = None /\ head_lock' = c
               /\ node' = [node EXCEPT ![c] = head]
               /\ UNCHANGED <<qvars, tail_lock, made, tries, got>>

\* new_head == NULL: return -1
ReadEmpty(c) == /\ Goto(c, "read", "call")
                /\ next[node[c]] = NULL
                /\ head_lock' = None
                /\ tries' = [tries EXCEPT ![c] = @ + 1]
                /\ Drop(c)
                /\ UNCHANGED <<qvars, tail_lock, made, got>>

\* *value = new_head->value; q->head = new_head
MoveHead(c) == /\ Goto(c, "read", "unlock")
               /\ next[node[c]] # NULL
               /\ got' = [got EXCEPT ![c] = value[next[node[c]]]]
               /\ head' = next[node[c]]
               /\ UNCHANGED <<tail, value, next, allocated, head_lock, tail_lock, node, made, tries>>

UnlockHead(c) == /\ Goto(c, "unlock", "free")
                 /\ head_lock' = None
                 /\ UNCHANGED <<qvars, tail_lock, node, made, tries, got>>

\* the node that was just read, the new dummy, is freed
MutantFree(c) == /\ Goto(c, "free", "call")
                 /\ allocated' = allocated \ {next[node[c]]}
                 /\ tries' = [tries EXCEPT ![c] = @ + 1]
                 /\ UNCHANGED <<head, tail, value, next, head_lock, tail_lock, node, made, got>>

\* free(tmp); return 0
Free(c) == /\ Goto(c, "free", "call")
           /\ allocated' = allocated \ {node[c]}
           /\ tries' = [tries EXCEPT ![c] = @ + 1]
           /\ Drop(c)
           /\ UNCHANGED <<head, tail, value, next, head_lock, tail_lock, made, got>>

------------------------------------------------------------------------------
Queue_Enqueue(p) == Create(p) \/ LockTail(p) \/ Link(p) \/ MoveTail(p) \/ UnlockTail(p)
Queue_Dequeue(c) == LockHead(c) \/ ReadEmpty(c) \/ MoveHead(c) \/ UnlockHead(c) \/ Free(c)

Step(t) == \/ t \in Producers /\ Queue_Enqueue(t)
           \/ t \in Consumers /\ Queue_Dequeue(t)

------------------------------------------------------------------------------
(* Properties *)

\* No thread dereferences a node that has been freed.  Between the two stores
\* of Queue_Enqueue a consumer may free the node q->tail still points to; it
\* has to be gone from the queue's pointers before anyone follows them again.
NoUseAfterFree ==
    /\ head \in allocated
    /\ tail_lock = None => tail \in allocated
    /\ \A p \in Producers : pc[p] = "link" => tail \in allocated
    /\ \A c \in Consumers : pc[c] \in {"read", "free"} => node[c] \in allocated

\* No node leaks: when no call is in progress the allocated nodes are the
\* dummy and the nodes of the queue.
NoLeak == (\A t \in Procs : pc[t] = "call") =>
              allocated = {Hop[k] : k \in 0..Cardinality(Nodes)} \ {NULL}
==============================================================================
