---------------------------- MODULE MCSequential ----------------------------
(***************************************************************************)
(* The parts of the repository whose calls follow one another: the rate    *)
(* limiter, the lottery scheduler and the persistent stack.  One behaviour *)
(* runs one of them.                                                       *)
(***************************************************************************)
EXTENDS RateLimiter

CONSTANTS Tickets, MaxJobs, RandomValues, MaxLoops,
          Max, MaxPushes, MaxPops, MaxKills

ASSUME TicketsAssumption == Tickets \subseteq Nat \ {0} /\ RandomValues \in Nat
ASSUME FileAssumption == Max \in Nat

VARIABLES program,
          head, gtickets, i, current,
          n, stack, pc, buffer, printed, pushes, pops, kills, want, taken

lottery == <<head, gtickets, i, current>>
file    == <<n, stack, pc, buffer, printed, pushes, pops, kills, want, taken>>

L == INSTANCE Lottery
P == INSTANCE PStack

RunInit == /\ program \in {"RateLimiter", "lottery", "pstack"}
           /\ Init /\ L!Init /\ P!Init

RunNext == /\ \/ program = "RateLimiter" /\ Next /\ UNCHANGED <<lottery, file>>
              \/ program = "lottery" /\ L!Next /\ UNCHANGED <<vars, file>>
              \/ program = "pstack" /\ P!Next /\ UNCHANGED <<vars, lottery>>
           /\ UNCHANGED program

RunSpec == RunInit /\ [][RunNext]_<<program, vars, lottery, file>>

------------------------------------------------------------------------------
(* Properties *)

\* Every draw has a winner, and a job's chance is its share of the tickets:
\* for each of its tickets, wherever it is in the list, the job wins with as
\* many of the values of random() as every other ticket, give or take the last
\* round that % gtickets cuts short.
DrawIsFair == L!Fair

\* "The stack is persistent": what one run of pstack leaves the next one finds,
\* last in first out, and everything popped is printed, whatever is full or
\* empty.  A process that is killed between the two stores of a push leaves one
\* wrong item, never more, and loses only output.
PersistsUnlessKilled == P!Persists
==============================================================================
