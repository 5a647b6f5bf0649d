------------------------------- MODULE TryFifo -------------------------------
(***************************************************************************)
(* What a queue promises whose get never waits: it answers with the first  *)
(* item or that there is none.                                             *)
(*                                                                         *)
(* A put may give its item a place before it returns.  Until it returns    *)
(* the item is open: nobody gets it, nor what is behind it, and a get that *)
(* finds it first may answer that there is none.  A queue without open     *)
(* items is linearizable: it answers so only when it is empty.             *)
(***************************************************************************)
EXTENDS BoundedFifo

VARIABLES open,      (* places in q of the items that are open             *)
          answers    (* answers[c]: answers c got                          *)

TryInit == Init /\ open = {} /\ answers = [c \in Consumers |-> 0]

TryPut(p) == /\ Put(p)
             /\ open' \in {open, open \cup {Len(q) + 1}}
             /\ UNCHANGED answers

Return == /\ \E i \in open : open' = open \ {i}
          /\ UNCHANGED <<vars, answers>>

TryGet(c) == /\ 1 \notin open
             /\ Get(c)
             /\ open' = {i - 1 : i \in open}
             /\ answers' = [answers EXCEPT ![c] = @ + 1]

Empty(c) == /\ q = <<>> \/ 1 \in open
            /\ answers' = [answers EXCEPT ![c] = @ + 1]
            /\ UNCHANGED <<vars, open>>

TryNext == \/ \E p \in Producers : TryPut(p)
           \/ Return
           \/ \E c \in Consumers : TryGet(c) \/ Empty(c)
==============================================================================
