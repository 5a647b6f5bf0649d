------------------------------ MODULE Semaphore ------------------------------
(***************************************************************************)
(* What a counting semaphore promises its callers, whatever implements it: *)
(* each wait and each post takes effect in one indivisible step, and a     *)
(* wait takes effect only when the value is positive.                      *)
(*                                                                         *)
(* Every process performs the operations its Script lists, in order; this  *)
(* is how join.c, binary.c, throttle.c and zemaphore.c use the semaphore.  *)
(***************************************************************************)
EXTENDS Integers, Sequences

CONSTANTS Procs,    (* the threads that share the semaphore                *)
          Script,   (* Script[p]: the sequence of "wait"/"post" p performs *)
          InitVal   (* the value given to Sem_init                         *)

VARIABLES val,      (* the semaphore's value                               *)
          done      (* done[p]: operations of p that have taken effect     *)

vars == <<val, done>>

HasOp(p, op) ==
    /\ done[p] < Len(Script[p])
    /\ Script[p][done[p] + 1] = op

Advance(p) == done' = [done EXCEPT ![p] = @ + 1]

Init == /\ val = InitVal
        /\ done = [p \in Procs |-> 0]

Wait(p) == /\ HasOp(p, "wait")
           /\ val > 0
           /\ val' = val - 1
           /\ Advance(p)

Post(p) == /\ HasOp(p, "post")
           /\ val' = val + 1
           /\ Advance(p)

Next == \E p \in Procs : Wait(p) \/ Post(p)

Spec == Init /\ [][Next]_vars

==============================================================================
