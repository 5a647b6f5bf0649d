------------------------------ MODULE MCQueues ------------------------------
(***************************************************************************)
(* The containers that threads share: the lock-free ring buffer, the       *)
(* linked queue with two locks, the lock-free stack, and the lists and     *)
(* hash maps of keys.  One behaviour runs one of them; what they have in   *)
(* common (head, the nodes, the threads and their results) is the same     *)
(* variable.  The lists run with one lookup beside the inserts.            *)
(***************************************************************************)
EXTENDS RingBuffer

CONSTANTS Nodes,         (* the nodes malloc and new can hand out          *)
          BUCKETS        (* lists of a hash map                            *)

VARIABLES program,
          value, next, allocated, head_lock, tail_lock, node,
          nextn, off, aba, over

\* a negative key, and two that share a bucket with it or not
Keys == {-1, 2, 3}

Asker == {CHOOSE c \in Consumers : TRUE}
Asks  == 1

Q == INSTANCE TwoLockQueue WITH Tries <- Loops, tries <- calls, got <- tmp
S == INSTANCE LFStack WITH Nodes <- Nodes \ {CHOOSE n \in Nodes : TRUE}
M == INSTANCE LockedList WITH Consumers <- Asker, key <- ticket

ASSUME NodesAssumption ==
    /\ IsFiniteSet(Procs) /\ IsFiniteSet(Nodes) /\ Nodes # {} /\ Consumers # {}
    /\ Producers \cap Consumers = {} /\ Q!None \notin Procs /\ Q!NULL \notin Nodes
    /\ BUCKETS \in Nat \ {0}

all == <<program, vars, value, next, allocated, head_lock, tail_lock, node, nextn, off, aba, over>>

Ring  == program = "ring-buffer.cpp"
Queue == program = "queue.cpp"
Stack == program = "compare-and-exchange.cpp"
List  == ~Ring /\ ~Queue /\ ~Stack

------------------------------------------------------------------------------
RunInit ==
    \/ /\ program = "ring-buffer.cpp" /\ Init
       /\ value = 0 /\ next = 0 /\ allocated = {} /\ head_lock = 0 /\ tail_lock = 0
       /\ node = 0 /\ nextn = 0 /\ off = {} /\ aba = FALSE /\ over = "no"
    \/ /\ program = "queue.cpp" /\ Q!Init
       /\ seq = 0 /\ data = 0 /\ ticket = 0 /\ weak = 0
       /\ nextn = 0 /\ off = {} /\ aba = FALSE /\ over = "no"
    \/ /\ program = "compare-and-exchange.cpp" /\ S!Init
       /\ seq = 0 /\ data = 0 /\ tail = 0 /\ ticket = 0
       /\ head_lock = 0 /\ tail_lock = 0 /\ over = "no"
    \/ /\ M!Init
       /\ seq = 0 /\ data = 0 /\ tail = 0 /\ tail_lock = 0
       /\ nextn = 0 /\ off = {} /\ aba = FALSE /\ weak = 0

RunStep(t) ==
    \/ /\ Ring /\ Step(t)
       /\ UNCHANGED <<program, value, next, allocated, head_lock, tail_lock, node, nextn, off, aba, over>>
    \/ /\ Queue /\ Q!Step(t)
       /\ UNCHANGED <<program, seq, data, ticket, weak, nextn, off, aba, over>>
    \/ /\ Stack /\ S!Step(t)
       /\ UNCHANGED <<program, seq, data, tail, ticket, head_lock, tail_lock, over>>
    \/ /\ List /\ M!Step(t)
       /\ UNCHANGED <<seq, data, tail, tail_lock, nextn, off, aba, weak>>

RunDestroy == List /\ M!Destroy /\ UNCHANGED <<seq, data, tail, tail_lock, nextn, off, aba, weak>>

\* the scheduler eventually runs every thread
RunSpec == /\ RunInit /\ [][RunDestroy \/ \E t \in Procs : RunStep(t)]_all
           /\ \A t \in Procs : WF_all(RunStep(t))

------------------------------------------------------------------------------
(* Properties *)

Fifo == INSTANCE TryFifo
          WITH Ends <- 0,
               max     <- IF Ring THEN Size ELSE Cardinality(Nodes),
               q       <- IF Ring THEN Contents ELSE Q!Contents,
               tmp     <- IF Ring THEN Taken ELSE tmp,
               open    <- IF Ring THEN Claimed ELSE {},
               answers <- IF Ring THEN Answers ELSE Q!Answers

Lifo == INSTANCE LifoStack WITH s <- S!Contents, tmp <- S!Popped, answers <- S!Answers
Set  == INSTANCE KeySet WITH Consumers <- Asker, s <- M!Contents, answers <- calls

contents == CASE Ring -> <<Contents, made, Taken, Claimed, Answers>>
              [] Queue -> <<Q!Contents, made, tmp, Q!Answers>>
              [] Stack -> <<S!Contents, made, S!Popped, S!Answers>>
              [] List -> <<M!Contents, made, tmp, calls>>

\* Every container implements its abstract container, although each of its
\* operations takes several steps, and every answer is one the abstract
\* container gives, "empty" too.  The linked queue is a linearizable first-in
\* first-out queue: an item is there from the store to next to the store to
\* head.  The stack is a linearizable last-in first-out stack, from exchange to
\* exchange, until an exchange succeeds on a node that left the stack and came
\* back.  A lookup says of its key whether an insert has put it on the lists.
\* The ring buffer is a first-in first-out queue in the order of the tickets,
\* and not quite linearizable: dequeue also returns false when the next ticket
\* was claimed and not yet published, whatever is complete behind it.
ImplementContainers ==
    /\ CASE Ring \/ Queue -> Fifo!TryInit [] Stack -> Lifo!Init [] List -> Set!Init
    /\ [][\/ (Ring \/ Queue) /\ Fifo!TryNext
          \/ Stack /\ (Lifo!Next \/ aba')
          \/ List /\ Set!Next]_contents

\* Every slot and every node has one owner.  No two threads access the data of
\* a slot of the ring buffer at once.  No thread of the linked queue follows a
\* pointer to a node that was freed, even while q->tail lags behind the node
\* that was linked.  No node of the stack, and none that a pop has taken and not
\* yet deleted, was deleted by another pop, until an exchange mistakes a node
\* (pop may read the next of a deleted node before that; it counts only if the
\* exchange then succeeds).  While a queue, a stack or a list is in use none of
\* its nodes leaks.  ~LinkedList, when it ends, leaves the first node of every
\* list behind and no other, and only hashmap-c.cpp leaves its array.
MemorySafe == /\ Ring => NoDataRace
              /\ Queue => Q!NoUseAfterFree /\ Q!NoLeak
              /\ Stack /\ ~aba => S!NodesKept
              /\ List => /\ over = "no" => M!NodesKept
                         /\ over = "destroyed" => M!HeadsLeak
                         /\ over = "outside" => program = "hashmap-c.cpp"

\* Every call of dequeue, Queue_Dequeue, pop and lookup returns, with or
\* without a value, unless the program has already gone wrong.
DequeueReturns ==
    \A c \in Consumers :
        <>(aba \/ over # "no" \/ c \notin DOMAIN calls \/ calls[c] = (IF List THEN Asks ELSE Loops))
==============================================================================
