---------------------------- MODULE RateLimiter ----------------------------
(***************************************************************************)
(* threads-locks/other-problems/IK- problems/RateLimiter: a token bucket   *)
(* that is refilled by whole periods when it is asked for a token.  The    *)
(* calls are serialised by mutex_, so a call is one step.                  *)
(*                                                                         *)
(* Times and tokens are unsigned: 64 and 32 bits in the code, TimeWrap and *)
(* Wrap here.  The clock is system_clock: it may be set while the limiter  *)
(* runs.  Set forward it counts periods that did not pass; set back, the   *)
(* difference of two times is a huge number.                               *)
(***************************************************************************)
EXTENDS Integers

CONSTANTS capacity_, intervalMS_, tokensPerPeriod_,
          Wrap,       (* 2^32: one more than the largest token count       *)
          TimeWrap,   (* 2^64: one more than the largest time              *)
          Epoch,      (* what the clock shows when the limiter is made     *)
          Latest,     (* the latest time the clock is set to               *)
          MaxTime,    (* bound on the time the limiter runs                *)
          MaxSets     (* bound on how often the clock is set               *)

ASSUME BucketAssumption ==
    /\ capacity_ \in Nat /\ intervalMS_ \in Nat \ {0} /\ tokensPerPeriod_ \in Nat
ASSUME WrapAssumption == Wrap \in Nat /\ capacity_ < Wrap /\ tokensPerPeriod_ < Wrap
ASSUME TimeAssumption ==
    /\ MaxTime \in Nat /\ MaxSets \in Nat /\ TimeWrap \in Nat
    /\ Latest \in Nat /\ Epoch \in 0..Latest /\ Latest + MaxTime < TimeWrap

VARIABLES available_tokens_, lastUpdatedTime_,
          clock,      (* the time system_clock shows                       *)
          now,        (* milliseconds that have passed since the limiter   *)
                      (* was created, whatever the clock shows             *)
          at,         (* now, at the last refill                           *)
          sets,       (* times the clock was set                           *)
          granted     (* calls of rateLimit that returned true             *)

vars == <<available_tokens_, lastUpdatedTime_, clock, now, at, sets, granted>>

\* the constructor
Init == /\ available_tokens_ = capacity_
        /\ lastUpdatedTime_ = Epoch /\ clock = Epoch
        /\ now = 0 /\ at = 0 /\ sets = 0
        /\ granted = 0

Least(a, b) == IF a < b THEN a ELSE b

\* elapsed_time_periods
Periods == ((clock - lastUpdatedTime_) % TimeWrap) \div intervalMS_

\* a period is counted when it is over by a millisecond
MutantTokensToAdd ==
    (tokensPerPeriod_ * (((clock - lastUpdatedTime_) % TimeWrap) \div (intervalMS_ + 1))) % Wrap

\* tokes_to_add, in the width of a token count
TokensToAdd == (tokensPerPeriod_ * Periods) % Wrap

\* available_tokens_ after refillTokensLocked
Refilled == IF TokensToAdd = 0 THEN available_tokens_
            ELSE Least(capacity_, (available_tokens_ + TokensToAdd) % Wrap)

\* the time of the last refill is taken from the last period but one
MutantRefillTime == IF TokensToAdd = 0 THEN lastUpdatedTime_
                    ELSE clock - intervalMS_

\* lastUpdatedTime_ after refillTokensLocked
RefillTime == IF TokensToAdd = 0 THEN lastUpdatedTime_ ELSE clock

\* rateLimit
rateLimit == /\ lastUpdatedTime_' = RefillTime
             /\ at' = (IF TokensToAdd = 0 THEN at ELSE now)
             /\ \/ /\ Refilled > 0
                   /\ available_tokens_' = Refilled - 1
                   /\ granted' = granted + 1
                \/ /\ Refilled = 0
                   /\ available_tokens_' = Refilled
                   /\ granted' = granted
             /\ UNCHANGED <<clock, now, sets>>

\* time passes between the calls
Tick == /\ now < MaxTime
        /\ now' = now + 1 /\ clock' = clock + 1
        /\ UNCHANGED <<available_tokens_, lastUpdatedTime_, at, sets, granted>>

\* the administrator, or the network time service, sets the clock back or forward
SetClock == /\ sets < MaxSets
            /\ \E t \in (0..Latest) \ {clock} : clock' = t
            /\ sets' = sets + 1
            /\ UNCHANGED <<available_tokens_, lastUpdatedTime_, now, at, granted>>

Next == rateLimit \/ Tick \/ SetClock

Spec == Init /\ [][Next]_vars

------------------------------------------------------------------------------
(* Properties *)

\* Every variable keeps its shape; the bucket never holds more than its
\* capacity, and no time is later than the clock can show.
TypeOK == /\ available_tokens_ \in 0..capacity_
          /\ now \in 0..MaxTime /\ at \in 0..now
          /\ lastUpdatedTime_ \in 0..(Latest + now) /\ clock \in 0..(Latest + now)
          /\ sets \in 0..MaxSets
          /\ granted \in Nat

\* The rate is limited: up to any time no more calls were granted than the
\* capacity, tokensPerPeriod_ for each period that has really passed, and one
\* more capacity for each time the clock was set, back or forward, however the
\* calls fall and whatever a wrapped sum or difference did to the bucket.
RateLimited ==
    granted <= capacity_ * (1 + sets) + tokensPerPeriod_ * (now \div intervalMS_)

\* what makes it inductive: the tokens still in the bucket count as granted,
\* nothing is added for the time since the last refill, and a clock that was set
\* back behind the last refill, or shows more time since then than has passed,
\* has still to give its one wrong refill
Astray == clock < lastUpdatedTime_ \/ clock - lastUpdatedTime_ > now - at

Accounted ==
    /\ Astray => sets > 0
    /\ granted + available_tokens_
         <= capacity_ * (IF Astray THEN sets ELSE 1 + sets)
              + tokensPerPeriod_ * (at \div intervalMS_)

\* "How many tokens we will add in each period": a call that comes a period or
\* more after the last refill is refused only when the clock was set since
\* then, or the tokens to add, or their sum with those in the bucket, do not
\* fit the width of a token count.
RefusedOnlyWithinPeriod ==
    LET periods == (now - at) \div intervalMS_
    IN  /\ Refilled = 0 /\ tokensPerPeriod_ > 0 /\ capacity_ > 0
        /\ clock - lastUpdatedTime_ = now - at
        /\ available_tokens_ + tokensPerPeriod_ * periods < Wrap
        => periods = 0
==============================================================================
