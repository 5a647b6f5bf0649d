-------------------------------- MODULE PStack --------------------------------
(***************************************************************************)
(* file-intro/pstack.c: a stack of integers in a file that is mapped into  *)
(* memory.  A run of the program pushes and pops as its arguments say; the *)
(* next run finds what was left.  The process may be killed between any    *)
(* two of its steps: the file keeps the stores that were made, and the     *)
(* output that printf still has in its buffer is gone.                     *)
(*                                                                         *)
(* p->stack[p->n++] = ... makes two stores in an order C leaves open.      *)
(* Runs follow one another: the program takes no lock on the file.         *)
(***************************************************************************)
EXTENDS Integers, Sequences, FiniteSets

CONSTANTS Max,        (* items that fit into the file                      *)
          MaxPushes,  (* bound on the items that are pushed: 1..MaxPushes  *)
          MaxPops, MaxKills

VARIABLES n, stack,   (* the file                                          *)
          pc,         (* "off": no process; "run": between two arguments   *)
          buffer,     (* output that printf has not written                *)
          printed,    (* output                                            *)
          pushes, pops, kills,
          want,       (* the stack the pushes and pops so far call for     *)
          taken       (* what the pops so far should have printed          *)

vars == <<n, stack, pc, buffer, printed, pushes, pops, kills, want, taken>>

\* truncate makes a file of zeros
Init == /\ n = 0 /\ stack = [i \in 1..Max |-> 0]
        /\ pc = "off" /\ buffer = <<>> /\ printed = <<>>
        /\ pushes = 0 /\ pops = 0 /\ kills = 0
        /\ want = <<>> /\ taken = <<>>

Goto(from, to) == pc = from /\ pc' = to

\* open and mmap
Start == /\ Goto("off", "run")
         /\ UNCHANGED <<n, stack, buffer, printed, pushes, pops, kills, want, taken>>

------------------------------------------------------------------------------
\* the stack is full: the argument is passed over
PushFull == /\ pc = "run" /\ pushes < MaxPushes
            /\ n = Max
            /\ pushes' = pushes + 1
            /\ UNCHANGED <<n, stack, pc, buffer, printed, pops, kills, want, taken>>

\* the item is stored, and then counted
Store == /\ pushes < MaxPushes
         /\ Goto("run", "stored")
         /\ n < Max
         /\ stack' = [stack EXCEPT ![n + 1] = pushes + 1]
         /\ UNCHANGED <<n, buffer, printed, pushes, pops, kills, want, taken>>

ThenCount == /\ Goto("stored", "run")
             /\ n' = n + 1
             /\ pushes' = pushes + 1
             /\ want' = Append(want, pushes + 1)
             /\ UNCHANGED <<stack, buffer, printed, pops, kills, taken>>

\* or counted, and then stored
Count == /\ pushes < MaxPushes
         /\ Goto("run", "counted")
         /\ n < Max
         /\ n' = n + 1
         /\ pushes' = pushes + 1
         /\ want' = Append(want, pushes + 1)
         /\ UNCHANGED <<stack, buffer, printed, pops, kills, taken>>

ThenStore == /\ Goto("counted", "run")
             /\ stack' = [stack EXCEPT ![n] = pushes]
             /\ UNCHANGED <<n, buffer, printed, pushes, pops, kills, want, taken>>

------------------------------------------------------------------------------
PopEmpty == /\ pc = "run" /\ pops < MaxPops
            /\ n = 0
            /\ pops' = pops + 1
            /\ UNCHANGED <<n, stack, pc, buffer, printed, pushes, kills, want, taken>>

\* --p->n
Pop == /\ pops < MaxPops
       /\ Goto("run", "popped")
       /\ n > 0
       /\ n' = n - 1
       /\ pops' = pops + 1
       /\ want' = SubSeq(want, 1, Len(want) - 1)
       /\ taken' = Append(taken, want[Len(want)])
       /\ UNCHANGED <<stack, buffer, printed, pushes, kills>>

\* printf
Output == /\ Goto("popped", "run")
          /\ buffer' = Append(buffer, stack[n + 1])
          /\ UNCHANGED <<n, stack, printed, pushes, pops, kills, want, taken>>

\* printf writes at once to a terminal, and when its buffer is full
Flush == /\ pc = "run" /\ buffer # <<>>
         /\ printed' = printed \o buffer
         /\ buffer' = <<>>
         /\ UNCHANGED <<n, stack, pc, pushes, pops, kills, want, taken>>

\* the program ends without the library's exit
MutantExit == /\ Goto("run", "off")
              /\ buffer' = <<>>
              /\ UNCHANGED <<n, stack, printed, pushes, pops, kills, want, taken>>

\* return 0
Exit == /\ Goto("run", "off")
        /\ printed' = printed \o buffer
        /\ buffer' = <<>>
        /\ UNCHANGED <<n, stack, pushes, pops, kills, want, taken>>

Kill == /\ pc # "off" /\ kills < MaxKills
        /\ pc' = "off" /\ buffer' = <<>>
        /\ kills' = kills + 1
        /\ UNCHANGED <<n, stack, printed, pushes, pops, want, taken>>

Next == \/ Start \/ PushFull \/ Store \/ ThenCount \/ Count \/ ThenStore
        \/ PopEmpty \/ Pop \/ Output \/ Flush \/ Exit \/ Kill

------------------------------------------------------------------------------
(* What the properties speak of *)

\* between two arguments, and between two runs: without a kill the stack and
\* the output are exact, and every kill spoils one item at most
Persists ==
    pc \in {"off", "run"} =>
        /\ n = Len(want)
        /\ Cardinality({k \in 1..n : stack[k] # want[k]}) <= kills
        /\ kills = 0 => printed \o buffer = taken
==============================================================================
