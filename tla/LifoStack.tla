------------------------------ MODULE LifoStack ------------------------------
(***************************************************************************)
(* What a stack shared by several threads promises: every thread pushes    *)
(* its own items, and a pop takes the item on top or answers that there is *)
(* none.                                                                   *)
(***************************************************************************)
EXTENDS Integers, Sequences

CONSTANTS Producers, Consumers,
          Loops      (* items of each producer                             *)

VARIABLES s,         (* the stack, its top first                           *)
          made,      (* made[p]: items p has pushed                        *)
          tmp,       (* tmp[c]: what c popped last                         *)
          answers    (* answers[c]: answers c got                          *)

Init == /\ s = <<>>
        /\ made = [p \in Producers |-> 0]
        /\ tmp = [c \in Consumers |-> <<"none", 0>>]
        /\ answers = [c \in Consumers |-> 0]

Push(p) == /\ made[p] < Loops
           /\ s' = <<<<p, made[p]>>>> \o s
           /\ made' = [made EXCEPT ![p] = @ + 1]
           /\ UNCHANGED <<tmp, answers>>

Pop(c) == /\ s # <<>>
          /\ tmp' = [tmp EXCEPT ![c] = Head(s)]
          /\ s' = Tail(s)
          /\ answers' = [answers EXCEPT ![c] = @ + 1]
          /\ UNCHANGED made

Empty(c) == /\ s = <<>>
            /\ answers' = [answers EXCEPT ![c] = @ + 1]
            /\ UNCHANGED <<s, made, tmp>>

Next == (\E p \in Producers : Push(p)) \/ (\E c \in Consumers : Pop(c) \/ Empty(c))
==============================================================================
