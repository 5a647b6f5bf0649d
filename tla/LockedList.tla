------------------------------ MODULE LockedList ------------------------------
(***************************************************************************)
(* threads-locks/Locked data structures: a list of keys with one lock      *)
(* (linkedlist-c.cpp, linkedlist.cpp) and a hash map that keeps such a     *)
(* list in every bucket (hashmap-c.cpp, hashmap-cpp.cpp).  An insert makes *)
(* its node before it takes the lock; a lookup walks the list under it.    *)
(*                                                                         *)
(* Where the C++ standard leaves the program undefined (a list outside the *)
(* array of the hash map, a pointer to a deleted node) the behaviour ends. *)
(***************************************************************************)
EXTENDS Integers, FiniteSets

CONSTANTS Producers,   (* threads that call insert                         *)
          Consumers,   (* threads that call lookup                         *)
          Nodes,       (* the nodes malloc and new can hand out            *)
          Keys,
          BUCKETS,     (* lists of a hash map                              *)
          Loops,       (* calls of each producer                           *)
          Asks         (* calls of each consumer                           *)

VARIABLES program,     (* the file                                         *)
          head, head_lock,        (* of every list                         *)
          value, next, allocated, (* the nodes                             *)
          pc, key, node,          (* the argument, and new_node or curr    *)
          made, calls, tmp,       (* returns, and the last answer          *)
          over                    (* "no", or how the behaviour ended      *)

None  == "none"
NULL  == "NULL"
Procs == Producers \cup Consumers

CPlus == program \in {"linkedlist.cpp", "hashmap-cpp.cpp"}
Hash  == program \in {"hashmap-c.cpp", "hashmap-cpp.cpp"}
Lists == IF Hash THEN 0..(BUCKETS - 1) ELSE {0}

lvars == <<head, value, next, allocated>>
vars  == <<program, lvars, head_lock, pc, key, node, made, calls, tmp, over>>

Goto(t, from, to) == pc[t] = from /\ pc' = [pc EXCEPT ![t] = to]

\* abs(value) % BUCKETS in C++; in C the remainder has the sign of the key
Index(k) == CASE ~Hash          -> 0
              [] Hash /\ CPlus  -> (IF k < 0 THEN -k ELSE k) % BUCKETS
              [] Hash /\ ~CPlus -> IF k < 0 THEN -((-k) % BUCKETS) ELSE k % BUCKETS

L(t) == Index(key[t])

\* the locals of the call are gone
Drop(t) == key' = [key EXCEPT ![t] = 0] /\ node' = [node EXCEPT ![t] = NULL]

\* the nodes of list i
Chain(i) == LET f[k \in 0..Cardinality(Nodes)] ==
                  IF k = 0 THEN head[i]
                  ELSE LET n == f[k - 1] IN IF n = NULL THEN NULL ELSE next[n]
            IN  {f[k] : k \in 0..Cardinality(Nodes)} \ {NULL}

OnLists  == UNION {Chain(i) : i \in Lists}
Contents == {value[n] : n \in OnLists}

------------------------------------------------------------------------------
\* List_Init, Hash_Init and the constructors
Init == /\ program \in {"linkedlist-c.cpp", "linkedlist.cpp", "hashmap-c.cpp", "hashmap-cpp.cpp"}
        /\ head = [i \in Lists |-> NULL]
        /\ head_lock = [i \in Lists |-> None]
        /\ value = [n \in Nodes |-> 0]
        /\ next = [n \in Nodes |-> NULL]
        /\ allocated = {}
        /\ pc = [t \in Procs |-> "call"]
        /\ key = [t \in Procs |-> 0]
        /\ node = [t \in Procs |-> NULL]
        /\ made = [p \in Producers |-> 0]
        /\ calls = [c \in Consumers |-> 0]
        /\ tmp = [c \in Consumers |-> <<0, FALSE>>]
        /\ over = "no"

------------------------------------------------------------------------------
(* insert *)

\* the new node; no node is freed while threads run, so which one does not matter
Create(p) == /\ made[p] < Loops
             /\ Goto(p, "call", "lock")
             /\ \E k \in Keys :
                  LET n == CHOOSE n \in Nodes : n \notin allocated
                  IN  /\ Nodes # allocated
                      /\ allocated' = allocated \cup {n}
                      /\ key' = [key EXCEPT ![p] = k]
                      /\ value' = [value EXCEPT ![n] = k]
                      /\ node' = [node EXCEPT ![p] = n]
             /\ UNCHANGED <<head, next, head_lock, made, calls, tmp, over>>

\* no memory: malloc gives NULL and List_Insert returns, the thread inserts no
\* more; new throws out of the thread
OutOfMemory(p) == /\ made[p] < Loops /\ Nodes = allocated
                  /\ Goto(p, "call", "end")
                  /\ over' = IF CPlus THEN "abort" ELSE over
                  /\ UNCHANGED <<lvars, head_lock, key, node, made, calls, tmp>>

\* &H->lists[key % BUCKETS] is outside of lists
Outside(t) == /\ Goto(t, "lock", "end")
              /\ L(t) \notin Lists
              /\ over' = "outside"
              /\ UNCHANGED <<lvars, head_lock, key, node, made, calls, tmp>>

Lock(p) == /\ p \in Producers
           /\ Goto(p, "lock", "next")
           /\ L(p) \in Lists
           /\ head_lock[L(p)] = None /\ head_lock' = [head_lock EXCEPT ![L(p)] = p]
           /\ UNCHANGED <<lvars, key, node, made, calls, tmp, over>>

\* new_node->next = L->head
SetNext(p) == /\ Goto(p, "next", "head")
              /\ next' = [next EXCEPT ![node[p]] = head[L(p)]]
              /\ UNCHANGED <<head, value, allocated, head_lock, key, node, made, calls, tmp, over>>

\* L->head = new_node, and unlock
SetHead(p) == /\ Goto(p, "head", "call")
              /\ head' = [head EXCEPT ![L(p)] = node[p]]
              /\ head_lock' = [head_lock EXCEPT ![L(p)] = None]
              /\ made' = [made EXCEPT ![p] = @ + 1]
              /\ Drop(p)
              /\ UNCHANGED <<value, next, allocated, calls, tmp, over>>

------------------------------------------------------------------------------
(* lookup *)

Ask(c) == /\ calls[c] < Asks
          /\ Goto(c, "call", "lock")
          /\ \E k \in Keys : key' = [key EXCEPT ![c] = k]
          /\ UNCHANGED <<lvars, head_lock, node, made, calls, tmp, over>>

\* lock, and curr = L->head
LockWalk(c) == /\ c \in Consumers
               /\ Goto(c, "lock", "walk")
               /\ L(c) \in Lists
               /\ head_lock[L(c)] = None /\ head_lock' = [head_lock EXCEPT ![L(c)] = c]
               /\ node' = [node EXCEPT ![c] = head[L(c)]]
               /\ UNCHANGED <<lvars, key, made, calls, tmp, over>>

Found(c) == node[c] # NULL /\ value[node[c]] = key[c]

\* curr = curr->next
Walk(c) == /\ pc[c] = "walk" /\ node[c] # NULL /\ ~Found(c)
           /\ node' = [node EXCEPT ![c] = next[node[c]]]
           /\ UNCHANGED <<lvars, head_lock, pc, key, made, calls, tmp, over>>

\* the loop ends; unlock, and return rv
Answer(c) == /\ Goto(c, "walk", "call")
             /\ node[c] = NULL \/ Found(c)
             /\ tmp' = [tmp EXCEPT ![c] = <<key[c], Found(c)>>]
             /\ head_lock' = [head_lock EXCEPT ![L(c)] = None]
             /\ calls' = [calls EXCEPT ![c] = @ + 1]
             /\ Drop(c)
             /\ UNCHANGED <<lvars, made, over>>

------------------------------------------------------------------------------
\* ~LinkedList of every list, when no call is in progress.  It deletes the node
\* behind curr and then goes on from that node: the first node of a list is
\* never deleted, and with two nodes it reads one that was.
Destroy == /\ CPlus /\ over = "no"
           /\ \A t \in Procs : pc[t] = "call"
           /\ over' = IF \E i \in Lists : head[i] # NULL /\ next[head[i]] # NULL
                        THEN "dangling" ELSE "destroyed"
           /\ UNCHANGED <<program, lvars, head_lock, pc, key, node, made, calls, tmp>>

Insert(p) == Create(p) \/ OutOfMemory(p) \/ Lock(p) \/ SetNext(p) \/ SetHead(p)
LookUp(c) == Ask(c) \/ LockWalk(c) \/ Walk(c) \/ Answer(c)

Step(t) == /\ over = "no"
           /\ \/ t \in Producers /\ Insert(t)
              \/ t \in Consumers /\ LookUp(t)
              \/ t \in Procs /\ Outside(t)
           /\ UNCHANGED program

------------------------------------------------------------------------------
(* What the properties speak of *)

\* every node is on a list or about to be put there by its thread
NodesKept ==
    allocated = OnLists \cup {node[p] : p \in {q \in Producers : pc[q] \in {"lock", "next", "head"}}}

\* the first node of every list, and no other, outlives its list
HeadsLeak == allocated = {head[i] : i \in Lists} \ {NULL}
==============================================================================
