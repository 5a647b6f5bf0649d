------------------------------- MODULE LFStack -------------------------------
(***************************************************************************)
(* threads-locks/atomic-tutorial/compare-and-exchange.cpp: class LFS, a    *)
(* linked stack whose only shared pointer, _head, is changed by            *)
(* compare-and-exchange.  pop deletes the node it has taken, while another *)
(* pop may still hold a pointer to it.                                     *)
(*                                                                         *)
(* new may hand out a node that was deleted.  A read of a deleted node     *)
(* gives any pointer.  An exchange that fails for no reason leaves push as *)
(* it was; pop reads next again.  Locals that are out of scope and the     *)
(* fields of deleted nodes are cleared.  A behaviour ends when an exchange *)
(* has stored a pointer that was read from a node before that node left    *)
(* the stack and came back: what it leaves is no stack any more.           *)
(***************************************************************************)
EXTENDS Integers, Sequences, FiniteSets

CONSTANTS Producers,   (* threads that call push                           *)
          Consumers,   (* threads that call pop                            *)
          Nodes,       (* the nodes new can hand out                       *)
          Loops,       (* calls of each thread                             *)
          MaxWeak      (* bound on exchanges that fail for no reason       *)

nullptr == "NULL"
Procs   == Producers \cup Consumers

VARIABLES head,        (* _head                                            *)
          value, next, (* data and next of the nodes                       *)
          allocated,   (* nodes handed out and not deleted                 *)
          pc,
          node,        (* node[t]: new_node or got                         *)
          nextn,       (* nextn[c]: the local of pop                       *)
          made,        (* made[p]: nodes p has pushed                      *)
          calls,       (* calls[c]: returns of pop                         *)
          tmp,         (* tmp[c]: what pop returned last, unless false     *)
          off,         (* poppers whose node was off the stack when they   *)
                       (* read its next, or has been since                 *)
          aba,         (* the exchange of such a popper has succeeded      *)
          weak         (* exchanges that failed for no reason              *)

svars == <<head, value, next, allocated>>
vars  == <<svars, pc, node, nextn, made, calls, tmp, off, aba, weak>>

Goto(t, from, to) == pc[t] = from /\ pc' = [pc EXCEPT ![t] = to]

\* the node k hops behind head
Hop == LET f[k \in 0..Cardinality(Nodes)] ==
             IF k = 0 THEN head
             ELSE LET n == f[k - 1] IN IF n = nullptr THEN nullptr ELSE next[n]
       IN  [k \in 0..Cardinality(Nodes) |-> f[k]]

OnStack  == LET h == Hop IN {h[k] : k \in DOMAIN h} \ {nullptr}
Contents == LET h == Hop IN [i \in 1..Cardinality(OnStack) |-> value[h[i - 1]]]

------------------------------------------------------------------------------
Init == /\ head = nullptr
        /\ value = [n \in Nodes |-> <<"none", 0>>]
        /\ next = [n \in Nodes |-> nullptr]
        /\ allocated = {}
        /\ pc = [t \in Procs |-> "call"]
        /\ node = [t \in Procs |-> nullptr]
        /\ nextn = [c \in Consumers |-> nullptr]
        /\ made = [p \in Producers |-> 0]
        /\ calls = [c \in Consumers |-> 0]
        /\ tmp = [c \in Consumers |-> <<"none", 0>>]
        /\ off = {} /\ aba = FALSE
        /\ weak = 0

------------------------------------------------------------------------------
(* push *)

\* new node(val)
New(p) == /\ made[p] < Loops
          /\ Goto(p, "call", "load")
          /\ \E n \in Nodes \ allocated :
               /\ allocated' = allocated \cup {n}
               /\ value' = [value EXCEPT ![n] = <<p, made[p]>>]
               /\ next' = [next EXCEPT ![n] = nullptr]
               /\ node' = [node EXCEPT ![p] = n]
          /\ UNCHANGED <<head, nextn, made, calls, tmp, off, aba, weak>>

\* new_node->next = _head.load()
PushLoad(p) == /\ Goto(p, "load", "exchange")
               /\ next' = [next EXCEPT ![node[p]] = head]
               /\ UNCHANGED <<head, value, allocated, node, nextn, made, calls, tmp, off, aba, weak>>

\* compare_exchange_weak(new_node->next, new_node)
PushExchange(p) ==
    /\ \/ /\ Goto(p, "exchange", "call")
          /\ head = next[node[p]]
          /\ head' = node[p]
          /\ made' = [made EXCEPT ![p] = @ + 1]
          /\ node' = [node EXCEPT ![p] = nullptr]
          /\ UNCHANGED next
       \/ /\ pc[p] = "exchange" /\ head # next[node[p]]
          /\ next' = [next EXCEPT ![node[p]] = head]
          /\ UNCHANGED <<pc, head, node, made>>
    /\ UNCHANGED <<value, allocated, nextn, calls, tmp, off, aba, weak>>

------------------------------------------------------------------------------
(* pop *)

\* got = _head.load()
PopLoad(c) == /\ calls[c] < Loops
              /\ Goto(c, "call", "test")
              /\ node' = [node EXCEPT ![c] = head]
              /\ UNCHANGED <<svars, nextn, made, calls, tmp, off, aba, weak>>

\* got == nullptr: return false
PopEmpty(c) == /\ Goto(c, "test", "call")
               /\ node[c] = nullptr
               /\ calls' = [calls EXCEPT ![c] = @ + 1]
               /\ UNCHANGED <<svars, node, nextn, made, tmp, off, aba, weak>>

\* nextn = got->next
PopNext(c) == /\ Goto(c, "test", "exchange")
              /\ node[c] # nullptr
              /\ \E n \in IF node[c] \in allocated THEN {next[node[c]]} ELSE Nodes \cup {nullptr} :
                    nextn' = [nextn EXCEPT ![c] = n]
              /\ off' = IF node[c] \in OnStack THEN off ELSE off \cup {c}
              /\ UNCHANGED <<svars, node, made, calls, tmp, aba, weak>>

\* compare_exchange_weak(got, nextn) succeeds: whoever has read the next of
\* this node before has an old one
PopExchange(c) ==
    /\ Goto(c, "exchange", "data")
    /\ head = node[c]
    /\ head' = nextn[c]
    /\ aba' = (aba \/ c \in off)
    /\ nextn' = [nextn EXCEPT ![c] = nullptr]
    /\ off' = (off \cup {d \in Consumers : pc[d] = "exchange" /\ node[d] = node[c]}) \ {c}
    /\ UNCHANGED <<value, next, allocated, node, made, calls, tmp, weak>>

\* it fails: got is the new head, and the loop begins again
PopFail(c) ==
    /\ Goto(c, "exchange", "test")
    /\ IF head = node[c] THEN weak < MaxWeak /\ weak' = weak + 1 ELSE UNCHANGED weak
    /\ node' = [node EXCEPT ![c] = head]
    /\ nextn' = [nextn EXCEPT ![c] = nullptr]
    /\ off' = off \ {c}
    /\ UNCHANGED <<svars, made, calls, tmp, aba>>

\* m = got->data
PopData(c) == /\ Goto(c, "data", "delete")
              /\ tmp' = [tmp EXCEPT ![c] = value[node[c]]]
              /\ UNCHANGED <<svars, node, nextn, made, calls, off, aba, weak>>

\* delete got; return m
PopDelete(c) == /\ Goto(c, "delete", "call")
                /\ allocated' = allocated \ {node[c]}
                /\ value' = [value EXCEPT ![node[c]] = <<"none", 0>>]
                /\ next' = [next EXCEPT ![node[c]] = nullptr]
                /\ calls' = [calls EXCEPT ![c] = @ + 1]
                /\ node' = [node EXCEPT ![c] = nullptr]
                /\ UNCHANGED <<head, nextn, made, tmp, off, aba, weak>>

------------------------------------------------------------------------------
push(p) == New(p) \/ PushLoad(p) \/ PushExchange(p)
pop(c)  == \/ PopLoad(c) \/ PopEmpty(c) \/ PopNext(c) \/ PopExchange(c) \/ PopFail(c)
           \/ PopData(c) \/ PopDelete(c)

Step(t) == /\ ~aba
           /\ \/ t \in Producers /\ push(t)
              \/ t \in Consumers /\ pop(t)

------------------------------------------------------------------------------
(* What the properties speak of *)

\* pop takes effect at its exchange, before it has read the data
Popped == [c \in Consumers |-> IF pc[c] = "data" THEN value[node[c]] ELSE tmp[c]]

\* and it has answered that there is nothing when it has loaded nullptr
Answers == [c \in Consumers |->
              IF \/ pc[c] \in {"data", "delete"}
                 \/ pc[c] = "test" /\ node[c] = nullptr
                THEN calls[c] + 1 ELSE calls[c]]

\* no node of the stack and no node that pop has taken was deleted, and none
\* leaks
NodesKept ==
    /\ OnStack \subseteq allocated
    /\ \A c \in Consumers : pc[c] \in {"data", "delete"} => node[c] \in allocated \ OnStack
    /\ (\A t \in Procs : pc[t] = "call") => allocated = OnStack
==============================================================================
