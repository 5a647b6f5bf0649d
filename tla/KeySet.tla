-------------------------------- MODULE KeySet --------------------------------
(***************************************************************************)
(* What a list or a hash map of keys shared by several threads promises:   *)
(* an insert adds its key, a lookup says whether its key is there.         *)
(***************************************************************************)
EXTENDS Integers

CONSTANTS Producers, Consumers, Keys

VARIABLES s,         (* the keys                                           *)
          made,      (* made[p]: keys p has inserted                       *)
          tmp,       (* tmp[c]: the key c looked up last and the answer    *)
          answers    (* answers[c]: answers c got                          *)

Init == /\ s = {}
        /\ made = [p \in Producers |-> 0]
        /\ tmp = [c \in Consumers |-> <<0, FALSE>>]
        /\ answers = [c \in Consumers |-> 0]

Insert(p) == /\ \E k \in Keys : s' = s \cup {k}
             /\ made' = [made EXCEPT ![p] = @ + 1]
             /\ UNCHANGED <<tmp, answers>>

LookUp(c) == /\ \E k \in Keys : tmp' = [tmp EXCEPT ![c] = <<k, k \in s>>]
             /\ answers' = [answers EXCEPT ![c] = @ + 1]
             /\ UNCHANGED <<s, made>>

Next == (\E p \in Producers : Insert(p)) \/ (\E c \in Consumers : LookUp(c))
==============================================================================
