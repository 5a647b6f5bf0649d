-------------------------------- MODULE RWLock --------------------------------
(***************************************************************************)
(* What a reader-writer lock around a shared counter promises: readers may *)
(* be inside together, a writer is inside alone, and counter++ inside is   *)
(* one indivisible increment.                                              *)
(***************************************************************************)
EXTENDS Integers

CONSTANTS Readers, Writers

VARIABLES inside,    (* threads that hold the lock                         *)
          data       (* the counter the lock protects                      *)

vars == <<inside, data>>

Init == inside = {} /\ data = 0

ReadEnter(r) == /\ r \notin inside
                /\ inside \cap Writers = {}
                /\ inside' = inside \cup {r}
                /\ UNCHANGED data

WriteEnter(w) == /\ inside = {}
                 /\ inside' = {w}
                 /\ UNCHANGED data

Increment(w) == /\ w \in inside
                /\ data' = data + 1
                /\ UNCHANGED inside

Leave(p) == /\ p \in inside
            /\ inside' = inside \ {p}
            /\ UNCHANGED data

Next == \/ \E r \in Readers : ReadEnter(r) \/ Leave(r)
        \/ \E w \in Writers : WriteEnter(w) \/ Increment(w) \/ Leave(w)

Spec == Init /\ [][Next]_vars
==============================================================================
