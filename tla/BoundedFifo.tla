----------------------------- MODULE BoundedFifo -----------------------------
(***************************************************************************)
(* What the producer/consumer programs promise: a first-in first-out queue *)
(* of at most max items, to which every producer appends its own items in  *)
(* order and from which every item goes to exactly one consumer.           *)
(***************************************************************************)
EXTENDS Integers, Sequences

CONSTANTS Producers, Consumers,
          Loops,     (* items of each producer                             *)
          Ends       (* end-of-production markers after its items          *)

VARIABLES q,         (* the queue                                          *)
          max,       (* its capacity, which the program never changes      *)
          made,      (* made[p]: items and markers p has put               *)
          tmp        (* tmp[c]: what consumer c got last                   *)

vars == <<q, max, made, tmp>>

End == <<"end", 0>>  (* the marker, -1 in the programs                     *)

\* what producer p puts after n others
Value(p, n) == IF n < Loops THEN <<p, n>> ELSE End

Init == /\ q = <<>>
        /\ max \in Nat
        /\ made = [p \in Producers |-> 0]
        /\ tmp = [c \in Consumers |-> <<"none", 0>>]

Put(p) == /\ Len(q) < max
          /\ made[p] < Loops + Ends
          /\ q' = Append(q, Value(p, made[p]))
          /\ made' = [made EXCEPT ![p] = @ + 1]
          /\ UNCHANGED <<max, tmp>>

Get(c) == /\ q # <<>>
          /\ tmp' = [tmp EXCEPT ![c] = Head(q)]
          /\ q' = Tail(q)
          /\ UNCHANGED <<max, made>>

Next == (\E p \in Producers : Put(p)) \/ (\E c \in Consumers : Get(c))

Spec == Init /\ [][Next]_vars
==============================================================================
