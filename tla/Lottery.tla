------------------------------- MODULE Lottery -------------------------------
(***************************************************************************)
(* cpu-sched-lottery/lottery.c: every round draws one of gtickets tickets  *)
(* and walks the list of jobs until the tickets counted exceed its number. *)
(***************************************************************************)
EXTENDS Integers, Sequences, FiniteSets

CONSTANTS Tickets,       (* numbers of tickets a job may have              *)
          MaxJobs,       (* bound on the jobs                              *)
          RandomValues,  (* random() returns one of 0..RandomValues-1      *)
          MaxLoops       (* bound on the rounds                            *)

VARIABLES head,          (* the tickets of the jobs, the last inserted first *)
          gtickets,
          i,             (* rounds so far                                  *)
          current        (* place of the last winner; 0 for none or NULL   *)

vars == <<head, gtickets, i, current>>

Init == head = <<>> /\ gtickets = 0 /\ i = 0 /\ current = 0

\* insert, before the first round
insert(tickets) == /\ i = 0 /\ Len(head) < MaxJobs
                   /\ head' = <<tickets>> \o head
                   /\ gtickets' = gtickets + tickets
                   /\ UNCHANGED <<i, current>>

\* counter, after k jobs
Counter == LET f[k \in 0..Len(head)] == IF k = 0 THEN 0 ELSE f[k - 1] + head[k] IN f

\* the walk ends when the tickets counted reach the winner
MutantWinner(winner) ==
    LET past == {k \in DOMAIN head : Counter[k] >= winner}
    IN  IF past = {} THEN 0 ELSE CHOOSE k \in past : \A l \in past : k <= l

\* the walk: the first job with counter > winner, or NULL at the end
Winner(winner) ==
    LET past == {k \in DOMAIN head : Counter[k] > winner}
    IN  IF past = {} THEN 0 ELSE CHOOSE k \in past : \A l \in past : k <= l

\* one round
Draw == /\ head # <<>> /\ i < MaxLoops
        /\ \E random \in 0..(RandomValues - 1) : current' = Winner(random % gtickets)
        /\ i' = i + 1
        /\ UNCHANGED <<head, gtickets>>

Next == Draw \/ \E t \in Tickets : insert(t)

------------------------------------------------------------------------------
(* What the properties speak of *)

\* the values of random() that make job k the winner
WinsWith(k) == {r \in 0..(RandomValues - 1) : Winner(r % gtickets) = k}

\* every round has a winner, whose tickets line 69 prints; and a job wins for
\* each of its tickets as often as random() goes round all of them, or once more
Fair == /\ i > 0 => current \in DOMAIN head
        /\ head # <<>> => WinsWith(0) = {}
        /\ \A k \in DOMAIN head :
             LET turns == RandomValues \div gtickets
             IN  Cardinality(WinsWith(k)) \in (head[k] * turns)..(head[k] * (turns + 1))
==============================================================================
