-------------------------- MODULE SequentialProofs --------------------------
(***************************************************************************)
(* The programs whose calls follow one another.                            *)
(*                                                                         *)
(* The token bucket limits the rate, for every capacity, period, number of *)
(* tokens per period, width of a token count and of a time, and however    *)
(* often the clock is set.  The persistent stack keeps its items, for      *)
(* a file of any size and any number of runs and kills.  The lottery is    *)
(* fair for any list of jobs with any tickets and any range of random().   *)
(***************************************************************************)
EXTENDS MCSequential, SequenceTheorems, FiniteSetTheorems, TLAPS

\* Whole periods of two stretches of time fit into their sum: rounding down
\* twice, once at each refill, never gives more periods than rounding once.
LEMMA DivSum ==
    ASSUME NEW a \in Nat, NEW b \in Nat, NEW w \in Nat \ {0}
    PROVE  (a \div w) + (b \div w) <= (a + b) \div w
<1> DEFINE x == a \div w
           y == b \div w
           z == (a + b) \div w
<1>1. /\ x \in Int /\ y \in Int /\ z \in Int
  BY SMT
<1>2. w * x <= a /\ w * y <= b /\ a + b < w * (z + 1)
  BY SMT
<1>3. w * (x + y) < w * (z + 1)
  BY <1>1, <1>2, SMT
<1>4. x + y < z + 1
  BY <1>1, <1>3, SMT
<1> QED
  BY <1>1, <1>4, SMT

\* A remainder is not more than what it is the remainder of.
LEMMA ModBound ==
    ASSUME NEW a \in Nat, NEW w \in Nat \ {0}
    PROVE  a % w \in 0..a
  BY SMT

\* A product does not fall when a factor rises.
LEMMA TimesMonotone ==
    ASSUME NEW k \in Nat, NEW a \in Int, NEW b \in Int, a <= b
    PROVE  k * a <= k * b
  BY SMT

\* Periods, and what is added for them, are natural numbers.
LEMMA DivNat ==
    ASSUME NEW a \in Nat, NEW w \in Nat \ {0}
    PROVE  a \div w \in Nat
  BY SMT

------------------------------------------------------------------------------
Inv == TypeOK /\ Accounted

\* What refillTokensLocked leaves in the bucket: at most the capacity and,
\* unless the clock went astray, at most tokensPerPeriod_ more for
\* each period the clock has counted.
LEMMA RefillBound ==
    ASSUME TypeOK
    PROVE  /\ Refilled \in 0..capacity_
           /\ TokensToAdd = 0 => Refilled = available_tokens_ /\ RefillTime = lastUpdatedTime_
           /\ TokensToAdd # 0 => RefillTime = clock
           /\ ~Astray => Refilled <= available_tokens_ +
                  tokensPerPeriod_ * ((clock - lastUpdatedTime_) \div intervalMS_)
<1> USE BucketAssumption, WrapAssumption, TimeAssumption
<1> DEFINE d == clock - lastUpdatedTime_
           add == tokensPerPeriod_ * Periods
<1>1. d \in Int /\ lastUpdatedTime_ \in Nat /\ clock \in Nat /\ available_tokens_ \in 0..capacity_
  BY DEF TypeOK
<1>2. Periods \in Nat
  <2>1. d % TimeWrap \in Nat
    BY <1>1, SMT
  <2> QED
    BY <2>1, DivNat DEF Periods
<1>3. add \in Nat
  BY <1>2, SMT
<1>4. TokensToAdd \in 0..add
  BY <1>3, ModBound DEF TokensToAdd
<1>5. Refilled \in 0..capacity_ /\ Refilled <= available_tokens_ + TokensToAdd
  <2> DEFINE s == (available_tokens_ + TokensToAdd) % Wrap
  <2>1. s \in 0..(available_tokens_ + TokensToAdd)
    BY <1>1, <1>3, <1>4, ModBound
  <2>2. Refilled = (IF TokensToAdd = 0 THEN available_tokens_ ELSE Least(capacity_, s))
    BY DEF Refilled
  <2> QED
    BY <1>1, <1>3, <1>4, <2>1, <2>2 DEF Least
<1>6. ASSUME ~Astray PROVE Periods = d \div intervalMS_
  <2>1. d \in 0..(TimeWrap - 1)
    BY <1>6 DEF Astray, TypeOK
  <2>2. d % TimeWrap = d
    BY <2>1, SMT
  <2> QED
    BY <2>2 DEF Periods
<1>7. ~Astray => Refilled <= available_tokens_ + tokensPerPeriod_ * (d \div intervalMS_)
  BY <1>1, <1>3, <1>4, <1>5, <1>6
<1> QED
  BY <1>5, <1>7 DEF Refilled, RefillTime

\* Later times have at least as many whole periods, and room for those of the
\* time between.
LEMMA PeriodsAdd ==
    ASSUME NEW a \in Nat, NEW b \in Nat, NEW d \in Nat, d <= b - a
    PROVE  /\ a \div intervalMS_ \in Nat /\ b \div intervalMS_ \in Nat /\ d \div intervalMS_ \in Nat
           /\ tokensPerPeriod_ * (a \div intervalMS_) + tokensPerPeriod_ * (d \div intervalMS_)
                <= tokensPerPeriod_ * (b \div intervalMS_)
<1> USE BucketAssumption
<1> DEFINE p == a \div intervalMS_
           e == d \div intervalMS_
           f == (b - a - d) \div intervalMS_
           m == (a + d) \div intervalMS_
           r == b \div intervalMS_
<1>1. p \in Nat /\ e \in Nat /\ r \in Nat /\ m \in Nat /\ f \in Nat
  BY DivNat
<1>2. p + e <= m
  BY DivSum
<1>3. m <= r
  <2>1. m + f <= ((a + d) + (b - a - d)) \div intervalMS_
    BY DivSum
  <2>2. (a + d) + (b - a - d) = b
    OBVIOUS
  <2> QED
    BY <1>1, <2>1, <2>2
<1>4. tokensPerPeriod_ * (p + e) <= tokensPerPeriod_ * r
  BY <1>1, <1>2, <1>3, TimesMonotone
<1>5. tokensPerPeriod_ * (p + e) = tokensPerPeriod_ * p + tokensPerPeriod_ * e
  BY <1>1, SMT
<1> QED
  BY <1>1, <1>4, <1>5

\* The accounting survives a call: a refill by a clock that is right gives what
\* the periods since the last refill allow, and one by a clock that went astray
\* fills the bucket at most once, and starts from the time the clock shows.
LEMMA CallKeepsInv == Inv /\ rateLimit => Inv'
<1> SUFFICES ASSUME Inv, rateLimit PROVE Inv'
  OBVIOUS
<1> USE BucketAssumption, TimeAssumption
<1> DEFINE d == clock - lastUpdatedTime_
           C == capacity_ * sets
           V == tokensPerPeriod_ * (at \div intervalMS_)
           R == tokensPerPeriod_ * (now \div intervalMS_)
           E == tokensPerPeriod_ * (d \div intervalMS_)
<1>1. /\ Refilled \in 0..capacity_
      /\ TokensToAdd = 0 => Refilled = available_tokens_ /\ RefillTime = lastUpdatedTime_
      /\ TokensToAdd # 0 => RefillTime = clock
      /\ ~Astray => Refilled <= available_tokens_ + E
  BY RefillBound DEF Inv
<1>2. /\ lastUpdatedTime_ \in 0..(Latest + now) /\ clock \in 0..(Latest + now)
      /\ now \in Nat /\ at \in 0..now /\ granted \in Nat
      /\ sets \in Nat /\ available_tokens_ \in 0..capacity_
  BY DEF Inv, TypeOK
<1>3. /\ granted' + available_tokens_' = granted + Refilled
      /\ granted' \in Nat /\ available_tokens_' \in 0..capacity_
      /\ lastUpdatedTime_' = RefillTime
      /\ at' = (IF TokensToAdd = 0 THEN at ELSE now)
      /\ clock' = clock /\ now' = now /\ sets' = sets
  BY <1>1, <1>2 DEF rateLimit
<1>4. TypeOK'
  BY <1>1, <1>2, <1>3 DEF TypeOK, Inv
<1>5. C \in Nat /\ capacity_ * (1 + sets) = capacity_ + C
  BY <1>2, SMT
<1>7. /\ Astray => sets > 0
      /\ granted + available_tokens_ <= (IF Astray THEN C ELSE capacity_ + C) + V
  BY <1>5 DEF Inv, Accounted
<1>8. CASE TokensToAdd = 0
  <2>1. /\ lastUpdatedTime_' = lastUpdatedTime_ /\ at' = at
        /\ granted' + available_tokens_' = granted + available_tokens_
    BY <1>1, <1>3, <1>8
  <2>2. Accounted'
    BY <1>3, <2>1 DEF Inv, Accounted, Astray
  <2> QED
    BY <1>4, <2>2 DEF Inv
<1>9. CASE TokensToAdd # 0
  <2>1. lastUpdatedTime_' = clock /\ at' = now /\ ~Astray'
    BY <1>1, <1>2, <1>3, <1>9 DEF Astray
  <2>2. /\ V \in Nat /\ R \in Nat /\ V <= R
        /\ ~Astray => E \in Nat /\ V + E <= R
    <3>1. /\ V \in Nat /\ R \in Nat /\ V <= R
      <4>1. /\ at \div intervalMS_ \in Nat /\ now \div intervalMS_ \in Nat /\ 0 \div intervalMS_ \in Nat
            /\ V + tokensPerPeriod_ * (0 \div intervalMS_) <= R
        BY <1>2, PeriodsAdd
      <4>2. V \in Nat /\ R \in Nat /\ tokensPerPeriod_ * (0 \div intervalMS_) \in Nat
        BY <4>1, SMT
      <4> QED
        BY <4>1, <4>2
    <3>2. ASSUME ~Astray PROVE E \in Nat /\ V + E <= R
      <4>1. d \in Nat /\ d <= now - at /\ at \in Nat
        BY <1>2, <3>2 DEF Astray
      <4>2. d \div intervalMS_ \in Nat /\ V + E <= R
        <5> HIDE DEF d
        <5> QED
          BY <1>2, <4>1, PeriodsAdd
      <4> QED
        BY <4>2, SMT
    <3> QED
      BY <3>1, <3>2
  <2>3. granted + Refilled <= capacity_ + C + R
    <3> HIDE DEF C, V, R, E
    <3>1. CASE Astray
      BY <1>1, <1>2, <1>5, <1>7, <2>2, <3>1
    <3>2. CASE ~Astray
      BY <1>1, <1>2, <1>5, <1>7, <2>2, <3>2
    <3> QED
      BY <3>1, <3>2
  <2>4. granted' + available_tokens_'
           <= capacity_ * (1 + sets') + tokensPerPeriod_ * (at' \div intervalMS_)
    BY <1>3, <1>5, <2>1, <2>3
  <2>5. Accounted'
    BY <2>1, <2>4 DEF Accounted
  <2> QED
    BY <1>4, <2>5 DEF Inv
<1> QED
  BY <1>8, <1>9

\* The accounting survives the passing of time, which may bring a clock
\* that was set back to the last refill again.
LEMMA TickKeepsInv == Inv /\ Tick => Inv'
<1> SUFFICES ASSUME Inv, Tick PROVE Inv'
  OBVIOUS
<1> USE BucketAssumption, TimeAssumption
<1> DEFINE C == capacity_ * sets
           V == tokensPerPeriod_ * (at \div intervalMS_)
<1>1. /\ lastUpdatedTime_ \in Nat /\ clock \in Nat /\ now \in Nat /\ at \in Nat
      /\ sets \in Nat /\ granted \in Nat /\ available_tokens_ \in Nat
  BY DEF Inv, TypeOK
<1>2. TypeOK'
  BY DEF Tick, Inv, TypeOK
<1>3. C \in Nat /\ capacity_ * (1 + sets) = capacity_ + C /\ V \in Nat
  BY <1>1, DivNat, SMT
<1>4. granted + available_tokens_ <= (IF Astray THEN C ELSE capacity_ + C) + V
  BY <1>3 DEF Inv, Accounted
<1>5. Astray' => Astray
  BY <1>1 DEF Tick, Astray
<1>6. granted + available_tokens_ <= (IF Astray' THEN C ELSE capacity_ + C) + V
  <2> HIDE DEF C, V
  <2> QED
    BY <1>1, <1>3, <1>4, <1>5
<1>7. Accounted'
  <2>1. Astray' => sets' > 0
    BY <1>5 DEF Tick, Inv, Accounted
  <2> QED
    BY <1>3, <1>6, <2>1 DEF Tick, Accounted
<1> QED
  BY <1>2, <1>7 DEF Inv

\* The accounting survives a clock that is set, to whatever time.
LEMMA SetClockKeepsInv == Inv /\ SetClock => Inv'
<1> SUFFICES ASSUME Inv, SetClock PROVE Inv'
  OBVIOUS
<1> USE BucketAssumption, TimeAssumption
<1> DEFINE C == capacity_ * sets
           V == tokensPerPeriod_ * (at \div intervalMS_)
<1>1. /\ lastUpdatedTime_ \in Nat /\ clock \in Nat /\ now \in Nat /\ at \in Nat
      /\ sets \in Nat /\ granted \in Nat /\ available_tokens_ \in Nat
  BY DEF Inv, TypeOK
<1>2. /\ clock' \in 0..Latest /\ sets' = sets + 1
      /\ available_tokens_' = available_tokens_ /\ granted' = granted
      /\ lastUpdatedTime_' = lastUpdatedTime_ /\ now' = now /\ at' = at
  BY <1>1 DEF SetClock
<1>3. TypeOK'
  BY <1>2 DEF SetClock, Inv, TypeOK
<1>4. /\ C \in Nat /\ V \in Nat
      /\ capacity_ * (1 + sets) = capacity_ + C
      /\ capacity_ * sets' = capacity_ + C
      /\ capacity_ * (1 + sets') = capacity_ + capacity_ + C
  BY <1>1, <1>2, DivNat, SMT
<1>5. granted + available_tokens_ <= (IF Astray THEN C ELSE capacity_ + C) + V
  BY <1>4 DEF Inv, Accounted
<1>6. granted + available_tokens_ <= capacity_ + C + V
  <2> HIDE DEF C, V
  <2> QED
    BY <1>1, <1>4, <1>5
<1>7. granted' + available_tokens_'
         <= capacity_ * (IF Astray' THEN sets' ELSE 1 + sets') + V
  <2> HIDE DEF C, V
  <2> QED
    BY <1>1, <1>2, <1>4, <1>6
<1>8. Accounted'
  <2>1. sets' > 0
    BY <1>1, <1>2
  <2> QED
    BY <1>2, <1>7, <2>1 DEF Accounted
<1> QED
  BY <1>3, <1>8 DEF Inv

\* The accounting implies the limit: time since the last refill only helps.
LEMMA InvLimits == Inv => RateLimited
<1> SUFFICES ASSUME Inv PROVE RateLimited
  OBVIOUS
<1> USE BucketAssumption
<1> DEFINE C == capacity_ * sets
           V == tokensPerPeriod_ * (at \div intervalMS_)
           R == tokensPerPeriod_ * (now \div intervalMS_)
           Z == tokensPerPeriod_ * (0 \div intervalMS_)
<1>1. /\ at \in Nat /\ now \in Nat /\ 0 <= now - at
      /\ sets \in Nat /\ granted \in Nat /\ available_tokens_ \in Nat
  BY DEF Inv, TypeOK
<1>2. /\ at \div intervalMS_ \in Nat /\ now \div intervalMS_ \in Nat /\ 0 \div intervalMS_ \in Nat
      /\ V + Z <= R
  BY <1>1, PeriodsAdd
<1>3. V \in Nat /\ R \in Nat /\ Z \in Nat
  BY <1>2, SMT
<1>4. C \in Nat /\ capacity_ * (1 + sets) = capacity_ + C
  BY <1>1, SMT
<1>5. granted + available_tokens_ <= (IF Astray THEN C ELSE capacity_ + C) + V
  BY <1>4 DEF Inv, Accounted
<1>6. granted <= capacity_ + C + R
  <2> HIDE DEF C, V, R, Z
  <2> QED
    BY <1>1, <1>2, <1>3, <1>4, <1>5
<1> QED
  BY <1>4, <1>6 DEF RateLimited

\* A refill that is due and fits the width of a token count puts at least one
\* token into the bucket.
LEMMA RefillIsDue == TypeOK => RefusedOnlyWithinPeriod
<1> USE BucketAssumption, WrapAssumption, TimeAssumption
<1> DEFINE d == now - at
           periods == d \div intervalMS_
           add == tokensPerPeriod_ * periods
<1> SUFFICES ASSUME TypeOK, Refilled = 0, tokensPerPeriod_ > 0, capacity_ > 0,
                    clock - lastUpdatedTime_ = d, available_tokens_ + add < Wrap,
                    periods # 0
             PROVE  FALSE
  BY DEF RefusedOnlyWithinPeriod
<1>1. d \in 0..(TimeWrap - 1) /\ d \in Nat /\ available_tokens_ \in 0..capacity_
  BY DEF TypeOK
<1>2. periods \in Nat /\ periods >= 1
  BY <1>1, DivNat
<1>3. Periods = periods
  <2>1. d % TimeWrap = d
    BY <1>1, SMT
  <2> QED
    BY <2>1 DEF Periods
<1>4. add \in Nat /\ add >= 1
  <2>1. tokensPerPeriod_ * 1 <= tokensPerPeriod_ * periods
    BY <1>2, TimesMonotone
  <2>2. tokensPerPeriod_ * 1 = tokensPerPeriod_ /\ add \in Nat
    BY <1>2, SMT
  <2> QED
    BY <2>1, <2>2
<1>5. TokensToAdd = add % Wrap
  BY <1>3 DEF TokensToAdd
<1> HIDE DEF periods, add
<1>6. TokensToAdd = add /\ (available_tokens_ + add) % Wrap = available_tokens_ + add
  <2>1. add \in 0..(Wrap - 1) /\ available_tokens_ + add \in 0..(Wrap - 1)
    BY <1>1, <1>4
  <2> QED
    BY <1>5, <2>1, SMT
<1>7. Refilled = Least(capacity_, available_tokens_ + add)
  BY <1>4, <1>6 DEF Refilled
<1> QED
  BY <1>1, <1>4, <1>7 DEF Least

------------------------------------------------------------------------------
(* pstack.c *)

FileTypes == /\ n \in 0..Max /\ stack \in [1..Max -> Nat]
             /\ pc \in {"off", "run", "stored", "counted", "popped"}
             /\ buffer \in Seq(Nat) /\ printed \in Seq(Nat) /\ taken \in Seq(Nat)
             /\ want \in Seq(Nat) /\ Len(want) = n
             /\ pushes \in Nat /\ kills \in Nat

\* between the two stores of a push
HalfInv == /\ pc = "stored" => n < Max /\ stack[n + 1] = pushes + 1
           /\ pc = "counted" => n > 0 /\ want[n] = pushes
           /\ pc = "popped" => n < Max

\* the items that are not what was pushed, the one still to be stored excepted
Spoilt == {k \in 1..n : stack[k] # want[k] /\ (pc = "counted" => k # n)}

\* what the program has popped and not yet printed
Pending == IF pc = "popped" THEN <<stack[n + 1]>> ELSE <<>>

FileInv == /\ FileTypes /\ HalfInv
           /\ Cardinality(Spoilt) <= kills
           /\ kills = 0 => (printed \o buffer) \o Pending = taken

\* There are finitely many spoilt items, and none where none was counted.
LEMMA SpoiltFinite ==
    ASSUME FileTypes
    PROVE  /\ IsFiniteSet(Spoilt) /\ Cardinality(Spoilt) \in Nat
           /\ Cardinality(Spoilt) = 0 => Spoilt = {}
<1>1. IsFiniteSet(1..n)
  BY FS_Interval DEF FileTypes
<1>2. Spoilt \subseteq 1..n
  BY DEF Spoilt
<1> QED
  BY <1>1, <1>2, FS_Subset, FS_CardinalityType, FS_EmptySet

\* A set within the items spoilt so far, and one more, has at most one more.
LEMMA SpoiltGrows ==
    ASSUME NEW X, IsFiniteSet(X), NEW x, NEW Y, Y \subseteq X \cup {x}
    PROVE  Cardinality(Y) \in Nat /\ Cardinality(Y) <= Cardinality(X) + 1
<1>1. /\ IsFiniteSet(X \cup {x})
      /\ Cardinality(X \cup {x}) \in Nat /\ Cardinality(X) \in Nat
      /\ Cardinality(X \cup {x}) <= Cardinality(X) + 1
  <2>1. Cardinality(X) \in Nat
    BY FS_CardinalityType
  <2>2. CASE x \in X
    <3>1. X \cup {x} = X
      BY <2>2
    <3> QED
      BY <2>1, <3>1
  <2>3. CASE x \notin X
    BY <2>1, <2>3, FS_AddElement
  <2> QED
    BY <2>2, <2>3
<1>2. Cardinality(Y) <= Cardinality(X \cup {x}) /\ Cardinality(Y) \in Nat
  BY <1>1, FS_Subset, FS_CardinalityType
<1> QED
  BY <1>1, <1>2

\* A step of pstack that moves no item keeps the invariant.
LEMMA QuietFile ==
    ASSUME FileInv, P!Start \/ P!PushFull \/ P!PopEmpty \/ P!Flush \/ P!Exit
    PROVE  FileInv'
<1> USE DEF FileInv, FileTypes
<1>1. /\ UNCHANGED <<n, stack, want, taken, kills>> /\ pushes' \in Nat
      /\ pc \in {"off", "run"} /\ pc' \in {"off", "run"}
      /\ \/ UNCHANGED <<buffer, printed>>
         \/ printed' = printed \o buffer /\ buffer' = <<>>
  BY DEF P!Start, P!PushFull, P!PopEmpty, P!Flush, P!Exit, P!Goto
<1>2. printed \o buffer \in Seq(Nat) /\ <<>> \in Seq(Nat)
  BY ConcatProperties, EmptySeq
<1>7. FileTypes' /\ HalfInv'
  BY <1>1, <1>2 DEF HalfInv
<1>3. Cardinality(Spoilt') <= kills'
  BY <1>1 DEF Spoilt
<1>4. Pending = <<>> /\ Pending' = <<>>
  BY <1>1 DEF Pending
<1>5. printed' \o buffer' = printed \o buffer
  BY <1>1, <1>2, ConcatEmptySeq
<1>6. kills' = 0 => (printed' \o buffer') \o Pending' = taken'
  BY <1>1, <1>4, <1>5
<1> QED
  BY <1>7, <1>3, <1>6

\* A push that stores first spoils nothing; the one that counts first owes the
\* item it counted.
LEMMA PushFile ==
    ASSUME FileInv, P!Store \/ P!ThenCount \/ P!Count \/ P!ThenStore
    PROVE  FileInv'
<1> USE DEF FileInv, FileTypes
<1> USE FileAssumption
<1>1. /\ UNCHANGED <<buffer, printed, taken, kills>>
      /\ pc # "popped" /\ pc' # "popped"
  BY DEF P!Store, P!ThenCount, P!Count, P!ThenStore, P!Goto
<1>2. kills' = 0 => (printed' \o buffer') \o Pending' = taken'
  BY <1>1 DEF Pending
<1>3. CASE P!Store
  <2>1. /\ n' = n /\ n < Max /\ pushes' = pushes /\ want' = want
        /\ pc = "run" /\ pc' = "stored"
        /\ stack' = [stack EXCEPT ![n + 1] = pushes + 1]
    BY <1>3 DEF P!Store, P!Goto
  <2>2. FileTypes' /\ HalfInv'
    BY <1>1, <2>1 DEF HalfInv
  <2>3. Spoilt' = Spoilt
    BY <2>1 DEF Spoilt
  <2> QED
    BY <1>1, <1>2, <2>2, <2>3
<1>4. CASE P!ThenCount
  <2>1. /\ n' = n + 1 /\ n < Max /\ stack[n + 1] = pushes + 1 /\ stack' = stack
        /\ pushes' = pushes + 1 /\ pc = "stored" /\ pc' = "run"
        /\ want' = Append(want, pushes + 1)
    BY <1>4 DEF P!ThenCount, P!Goto, HalfInv
  <2>2. /\ want' \in Seq(Nat) /\ Len(want') = n + 1
        /\ \A k \in 1..n : want'[k] = want[k]
        /\ want'[n + 1] = pushes + 1
    BY <2>1, AppendProperties
  <2>3. FileTypes' /\ HalfInv'
    BY <1>1, <2>1, <2>2 DEF HalfInv
  <2>4. Spoilt' = Spoilt
    BY <2>1, <2>2 DEF Spoilt
  <2> QED
    BY <1>1, <1>2, <2>3, <2>4
<1>5. CASE P!Count
  <2>1. /\ n' = n + 1 /\ n < Max /\ stack' = stack
        /\ pushes' = pushes + 1 /\ pc = "run" /\ pc' = "counted"
        /\ want' = Append(want, pushes + 1)
    BY <1>5 DEF P!Count, P!Goto
  <2>2. /\ want' \in Seq(Nat) /\ Len(want') = n + 1
        /\ \A k \in 1..n : want'[k] = want[k]
        /\ want'[n + 1] = pushes + 1
    BY <2>1, AppendProperties
  <2>3. FileTypes' /\ HalfInv'
    BY <1>1, <2>1, <2>2 DEF HalfInv
  <2>4. Spoilt' = Spoilt
    <3>1. Spoilt' = {k \in 1..(n + 1) : stack[k] # want'[k] /\ k # n + 1}
      BY <2>1 DEF Spoilt
    <3>2. Spoilt = {k \in 1..n : stack[k] # want[k]}
      BY <2>1 DEF Spoilt
    <3> QED
      BY <2>2, <3>1, <3>2
  <2> QED
    BY <1>1, <1>2, <2>3, <2>4
<1>6. CASE P!ThenStore
  <2>1. /\ n' = n /\ n > 0 /\ want[n] = pushes /\ pushes' = pushes /\ want' = want
        /\ pc = "counted" /\ pc' = "run"
        /\ stack' = [stack EXCEPT ![n] = pushes]
    BY <1>6 DEF P!ThenStore, P!Goto, HalfInv
  <2>2. FileTypes' /\ HalfInv'
    BY <1>1, <2>1 DEF HalfInv
  <2>3. Spoilt' = Spoilt
    BY <2>1 DEF Spoilt
  <2> QED
    BY <1>1, <1>2, <2>2, <2>3
<1> QED
  BY <1>3, <1>4, <1>5, <1>6

\* Output that is printed piece by piece is the same output.
LEMMA ConcatThree ==
    ASSUME NEW s \in Seq(Nat), NEW t \in Seq(Nat), NEW u \in Seq(Nat)
    PROVE  (s \o t) \o u = s \o (t \o u)
  BY ConcatAssociative

\* A pop takes the last item with it, and prints it if it was not spoilt.
LEMMA PopFile ==
    ASSUME FileInv, P!Pop \/ P!Output
    PROVE  FileInv'
<1> USE DEF FileInv, FileTypes
<1> USE FileAssumption
<1>1. CASE P!Pop
  <2>1. /\ n > 0 /\ n' = n - 1 /\ pc = "run" /\ pc' = "popped"
        /\ want' = SubSeq(want, 1, n - 1) /\ taken' = Append(taken, want[n])
        /\ UNCHANGED <<stack, buffer, printed, pushes, kills>>
    BY <1>1 DEF P!Pop, P!Goto
  <2>2. /\ want' \in Seq(Nat) /\ Len(want') = n - 1
        /\ \A k \in 1..(n - 1) : want'[k] = want[k]
        /\ want[n] \in Nat
    BY <2>1, SubSeqProperties
  <2>3. FileTypes' /\ HalfInv'
    <3>1. taken' \in Seq(Nat)
      BY <2>1, <2>2, AppendProperties
    <3> QED
      BY <2>1, <2>2, <3>1 DEF HalfInv
  <2>4. Spoilt' \subseteq Spoilt
    BY <2>1, <2>2 DEF Spoilt
  <2>5. Cardinality(Spoilt') <= kills'
    <3>1. /\ Cardinality(Spoilt') <= Cardinality(Spoilt)
          /\ Cardinality(Spoilt') \in Nat /\ Cardinality(Spoilt) \in Nat
      BY <2>4, SpoiltFinite, FS_Subset, FS_CardinalityType
    <3> QED
      BY <2>1, <3>1
  <2>6. ASSUME kills' = 0
        PROVE  (printed' \o buffer') \o Pending' = taken'
    <3>1. Spoilt = {}
      BY <2>1, <2>6, SpoiltFinite
    <3>2. stack[n] = want[n]
      <4>1. n \in 1..n /\ pc # "counted"
        BY <2>1
      <4> QED
        BY <3>1, <4>1 DEF Spoilt
    <3>3. Pending = <<>> /\ Pending' = <<want[n]>>
      BY <2>1, <3>2 DEF Pending
    <3>4. taken = printed \o buffer
      BY <2>1, <2>6, <3>3, ConcatEmptySeq, ConcatProperties
    <3>5. taken' = taken \o <<want[n]>>
      BY <2>1, <2>2, AppendIsConcat
    <3> QED
      BY <2>1, <3>3, <3>4, <3>5
  <2> QED
    BY <2>3, <2>5, <2>6
<1>2. CASE P!Output
  <2>1. /\ n < Max /\ pc = "popped" /\ pc' = "run"
        /\ buffer' = Append(buffer, stack[n + 1])
        /\ UNCHANGED <<n, stack, printed, pushes, kills, want, taken>>
    BY <1>2 DEF P!Output, P!Goto, HalfInv
  <2>2. stack[n + 1] \in Nat
    BY <2>1
  <2>3. FileTypes' /\ HalfInv'
    BY <2>1, <2>2, AppendProperties DEF HalfInv
  <2>4. Spoilt' = Spoilt
    BY <2>1 DEF Spoilt
  <2>5. buffer' = buffer \o <<stack[n + 1]>> /\ buffer' \in Seq(Nat)
    BY <2>1, <2>2, AppendIsConcat, AppendProperties
  <2>6. printed' \o buffer' = (printed \o buffer) \o <<stack[n + 1]>>
    <3>1. /\ <<stack[n + 1]>> \in Seq(Nat)
          /\ printed \in Seq(Nat) /\ buffer \in Seq(Nat)
      BY <2>2
    <3>2. (printed \o buffer) \o <<stack[n + 1]>> = printed \o (buffer \o <<stack[n + 1]>>)
      BY <3>1, ConcatThree
    <3> QED
      BY <2>1, <2>5, <3>2
  <2>7. (printed' \o buffer') \o Pending' = (printed \o buffer) \o Pending
    BY <2>1, <2>5, <2>6, ConcatEmptySeq, ConcatProperties DEF Pending
  <2> QED
    BY <2>1, <2>3, <2>4, <2>7
<1> QED
  BY <1>1, <1>2

\* A kill spoils one item at most, the one that was counted and not stored.
LEMMA KillFile ==
    ASSUME FileInv, P!Kill
    PROVE  FileInv'
<1> USE DEF FileInv, FileTypes
<1>1. /\ pc' = "off" /\ buffer' = <<>> /\ kills' = kills + 1
      /\ UNCHANGED <<n, stack, printed, pushes, want, taken>>
  BY DEF P!Kill
<1>2. FileTypes' /\ HalfInv'
  BY <1>1, EmptySeq DEF HalfInv
<1>3. Spoilt' \subseteq Spoilt \cup {n}
  BY <1>1 DEF Spoilt
<1>4. Cardinality(Spoilt') <= Cardinality(Spoilt) + 1 /\ Cardinality(Spoilt') \in Nat
  BY <1>2, <1>3, SpoiltFinite, SpoiltGrows
<1>5. Cardinality(Spoilt') <= kills'
  BY <1>1, <1>4, SpoiltFinite
<1> QED
  BY <1>1, <1>2, <1>5

\* Every step of pstack, and a kill at any time, keeps the invariant.
LEMMA FileNext == FileInv /\ P!Next => FileInv'
  BY QuietFile, PushFile, PopFile, KillFile DEF P!Next

\* The file that truncate makes is the empty stack.
LEMMA FileInit == P!Init => FileInv
<1> SUFFICES ASSUME P!Init PROVE FileInv
  OBVIOUS
<1>1. FileTypes /\ HalfInv
  BY EmptySeq, FileAssumption DEF P!Init, FileTypes, HalfInv
<1>2. Spoilt = {}
  BY DEF P!Init, Spoilt
<1>3. (printed \o buffer) \o Pending = taken
  BY EmptySeq, ConcatEmptySeq DEF P!Init, Pending
<1> QED
  BY <1>1, <1>2, <1>3, FS_EmptySet DEF P!Init, FileInv

\* Module PStack counts as this one does.
LEMMA SameCardinality == ASSUME NEW X PROVE P!Cardinality(X) = Cardinality(X)
  BY DEF P!Cardinality, Cardinality

\* The invariant says what persists between two arguments and two runs.
LEMMA FileInvPersists == FileInv => PersistsUnlessKilled
<1> SUFFICES ASSUME FileInv, pc \in {"off", "run"}
             PROVE  /\ n = Len(want)
                    /\ Cardinality({k \in 1..n : stack[k] # want[k]}) <= kills
                    /\ kills = 0 => printed \o buffer = taken
  BY SameCardinality DEF PersistsUnlessKilled, P!Persists
<1>1. Spoilt = {k \in 1..n : stack[k] # want[k]}
  BY DEF Spoilt
<1>2. Pending = <<>> /\ printed \o buffer \in Seq(Nat)
  BY ConcatProperties DEF Pending, FileInv, FileTypes
<1> QED
  BY <1>1, <1>2, ConcatEmptySeq DEF FileInv, FileTypes

------------------------------------------------------------------------------
(* lottery.c *)

\* A set of natural numbers that is not empty has a least element.
LEMMA LeastNat ==
    ASSUME NEW T, T \subseteq Nat, T # {}
    PROVE  \E x \in T : \A y \in T : x <= y
<1>1. PICK x \in T : \A y \in T : ~(<<y, x>> \in OpToRel(<, Nat))
  BY NatLessThanWellFounded, WFMin, Zenon
<1>2. \A y \in T : ~(y < x)
  BY <1>1 DEF OpToRel
<1> QED
  BY <1>2

\* Induction up to m: what holds of 0, and of k + 1 if it holds of k, holds.
LEMMA Induction ==
    ASSUME NEW m \in Nat, NEW S, 0 \in S, \A k \in 0..(m - 1) : k \in S => k + 1 \in S
    PROVE  \A k \in 0..m : k \in S
<1> DEFINE T == {k \in 0..m : k \notin S}
<1> SUFFICES ASSUME T # {} PROVE FALSE
  OBVIOUS
<1>1. T \subseteq Nat
  OBVIOUS
<1>2. PICK x \in T : \A y \in T : x <= y
  <2> HIDE DEF T
  <2> QED
    BY <1>1, LeastNat
<1>3. x # 0 /\ x \in 1..m /\ x - 1 \in 0..(m - 1)
  OBVIOUS
<1>4. x - 1 \in S
  BY <1>2, <1>3
<1>5. (x - 1) + 1 \in S
  BY <1>3, <1>4
<1> QED
  BY <1>3, <1>5

\* the counter of the walk over the list h, after each of its jobs
Sums(h) == LET f[k \in 0..Len(h)] == IF k = 0 THEN 0 ELSE f[k - 1] + h[k] IN f

\* The counter is what its definition says, and a natural number.
LEMMA SumsAdd ==
    ASSUME NEW h \in Seq(Nat)
    PROVE  /\ Sums(h)[0] = 0
           /\ \A k \in 0..Len(h) : Sums(h)[k] \in Nat
           /\ \A k \in 1..Len(h) : Sums(h)[k] = Sums(h)[k - 1] + h[k]
<1> DEFINE Sum(m, f) == /\ f \in [0..m -> Nat] /\ f[0] = 0
                        /\ \A k \in 1..m : f[k] = f[k - 1] + h[k]
           S == {m \in Nat : \E f : Sum(m, f)}
           s == Sums(h)
<1>0. Len(h) \in Nat /\ \A k \in 1..Len(h) : h[k] \in Nat
  OBVIOUS
<1>1. \A m \in 0..Len(h) : m \in S
  <2>1. 0 \in S
    <3>1. Sum(0, [k \in 0..0 |-> 0])
      OBVIOUS
    <3> QED
      BY <3>1
  <2>2. ASSUME NEW m \in 0..(Len(h) - 1), m \in S PROVE m + 1 \in S
    <3>1. PICK f : Sum(m, f)
      BY <2>2
    <3> DEFINE g == [k \in 0..(m + 1) |-> IF k = m + 1 THEN f[m] + h[m + 1] ELSE f[k]]
    <3>2. g \in [0..(m + 1) -> Nat]
      BY <1>0, <3>1
    <3>3. Sum(m + 1, g)
      BY <1>0, <3>1, <3>2
    <3>4. \E e : Sum(m + 1, e)
      <4> HIDE DEF g
      <4> QED
        BY <3>3
    <3> HIDE DEF Sum
    <3> QED
      BY <3>4
  <2> HIDE DEF S
  <2> QED
    BY <1>0, <2>1, <2>2, Induction
<1>2. PICK f : Sum(Len(h), f)
  <2>1. Len(h) \in S
    <3> HIDE DEF S
    <3> QED
      BY <1>0, <1>1
  <2> HIDE DEF Sum
  <2> QED
    BY <2>1
<1>3. f = [k \in 0..Len(h) |-> IF k = 0 THEN 0 ELSE f[k - 1] + h[k]]
  BY <1>0, <1>2
<1>4. s = [k \in 0..Len(h) |-> IF k = 0 THEN 0 ELSE s[k - 1] + h[k]]
  BY <1>3 DEF Sums
<1> HIDE DEF s
<1>5. s[0] = 0 /\ \A k \in 1..Len(h) : s[k] = s[k - 1] + h[k]
  BY <1>0, <1>4
<1>6. \A k \in 0..Len(h) : s[k] \in Nat
  <2> DEFINE N == {k \in Nat : s[k] \in Nat}
  <2>1. 0 \in N /\ \A k \in 0..(Len(h) - 1) : k \in N => k + 1 \in N
    BY <1>0, <1>5
  <2>2. \A k \in 0..Len(h) : k \in N
    <3> HIDE DEF N
    <3> QED
      BY <1>0, <2>1, Induction
  <2> QED
    BY <2>2
<1> QED
  BY <1>5, <1>6 DEF s

\* The counter does not fall on the way.
LEMMA SumsRise ==
    ASSUME NEW h \in Seq(Nat), NEW j \in 0..Len(h)
    PROVE  \A k \in 0..Len(h) : j <= k => Sums(h)[j] <= Sums(h)[k]
<1> DEFINE s == Sums(h)
           N == {k \in Nat : j <= k => s[j] <= s[k]}
<1>1. /\ \A k \in 0..Len(h) : s[k] \in Nat
      /\ \A k \in 1..Len(h) : s[k] = s[k - 1] + h[k]
      /\ Len(h) \in Nat /\ \A k \in 1..Len(h) : h[k] \in Nat
  BY SumsAdd
<1> HIDE DEF s
<1>2. 0 \in N
  BY <1>1
<1>3. ASSUME NEW k \in 0..(Len(h) - 1), k \in N PROVE k + 1 \in N
  <2>1. s[k + 1] = s[k] + h[k + 1] /\ s[k] \in Nat /\ h[k + 1] \in Nat /\ s[j] \in Nat
    BY <1>1
  <2> QED
    BY <1>3, <2>1
<1>4. \A k \in 0..Len(h) : k \in N
  <2> HIDE DEF N
  <2> QED
    BY <1>1, <1>2, <1>3, Induction
<1> QED
  BY <1>4 DEF s

\* insert puts a job before all others, which count its tickets from then on.
LEMMA SumsInsert ==
    ASSUME NEW h \in Seq(Nat), NEW t \in Nat
    PROVE  \A k \in 0..Len(h) : Sums(<<t>> \o h)[k + 1] = t + Sums(h)[k]
<1> DEFINE g == <<t>> \o h
           r == Sums(g)
           s == Sums(h)
           N == {k \in Nat : r[k + 1] = t + s[k]}
<1>1. g \in Seq(Nat) /\ Len(g) = Len(h) + 1 /\ g[1] = t /\ Len(h) \in Nat
  BY ConcatProperties
<1>2. \A k \in 1..Len(h) : g[k + 1] = h[k] /\ h[k] \in Nat
  BY ConcatProperties
<1> HIDE DEF g
<1>3. /\ r[0] = 0 /\ \A k \in 0..Len(g) : r[k] \in Nat
      /\ \A k \in 1..Len(g) : r[k] = r[k - 1] + g[k]
      /\ s[0] = 0 /\ \A k \in 0..Len(h) : s[k] \in Nat
      /\ \A k \in 1..Len(h) : s[k] = s[k - 1] + h[k]
  BY <1>1, SumsAdd
<1> HIDE DEF r, s
<1>4. 0 \in N
  BY <1>1, <1>3
<1>5. ASSUME NEW k \in 0..(Len(h) - 1), k \in N PROVE k + 1 \in N
  <2>1. r[k + 2] = r[k + 1] + g[k + 2] /\ g[k + 2] = h[k + 1] /\ h[k + 1] \in Nat
    BY <1>1, <1>2, <1>3
  <2>2. s[k + 1] = s[k] + h[k + 1] /\ s[k] \in Nat
    BY <1>1, <1>3
  <2>3. (k + 1) + 1 = k + 2
    OBVIOUS
  <2> QED
    BY <1>5, <2>1, <2>2, <2>3
<1>6. \A k \in 0..Len(h) : k \in N
  <2> HIDE DEF N
  <2> QED
    BY <1>1, <1>4, <1>5, Induction
<1> QED
  BY <1>6 DEF r, s, g

\* The job that wins with w is the one in whose tickets w falls.
LEMMA WinnerIs ==
    ASSUME head \in Seq(Nat), NEW w \in Nat, w < Sums(head)[Len(head)]
    PROVE  /\ L!Winner(w) \in 1..Len(head)
           /\ \A k \in 1..Len(head) :
                L!Winner(w) = k <=> Sums(head)[k - 1] <= w /\ w < Sums(head)[k]
<1> DEFINE s == Sums(head)
           past == {k \in 1..Len(head) : s[k] > w}
           First(k) == k \in past /\ \A l \in past : k <= l
<1>1. /\ s[0] = 0 /\ \A k \in 0..Len(head) : s[k] \in Nat
      /\ Len(head) \in Nat /\ DOMAIN head = 1..Len(head)
  BY SumsAdd
<1>2. \A j, k \in 0..Len(head) : j <= k => s[j] <= s[k]
  BY SumsRise
<1>3. L!Counter = s
  BY DEF L!Counter, Sums
<1>4. w < s[Len(head)]
  OBVIOUS
<1> HIDE DEF s
<1>5. Len(head) \in past
  BY <1>1, <1>4
<1>6. past \subseteq Nat /\ past # {}
  BY <1>1, <1>5
<1>7. L!Winner(w) = CHOOSE k \in past : \A l \in past : k <= l
  BY <1>1, <1>3, <1>6 DEF L!Winner
<1>8. First(L!Winner(w))
  <2> HIDE DEF past
  <2>1. \E k \in past : \A l \in past : k <= l
    BY <1>6, LeastNat
  <2> QED
    BY <1>7, <2>1
<1>9. ASSUME NEW k \in 1..Len(head)
      PROVE  First(k) <=> s[k - 1] <= w /\ w < s[k]
  <2>1. ASSUME First(k) PROVE s[k - 1] <= w /\ w < s[k]
    <3>1. w < s[k] /\ k - 1 \notin past
      BY <1>1, <2>1
    <3> QED
      BY <1>1, <3>1
  <2>2. ASSUME s[k - 1] <= w, w < s[k] PROVE First(k)
    <3>1. k \in past
      BY <1>1, <2>2
    <3>2. ASSUME NEW l \in past, l < k PROVE FALSE
      <4>1. s[l] <= s[k - 1] /\ s[l] \in Nat /\ s[k - 1] \in Nat /\ s[l] > w
        BY <1>1, <1>2, <3>2
      <4> QED
        BY <2>2, <4>1
    <3> QED
      BY <3>1, <3>2
  <2> QED
    BY <2>1, <2>2
<1>10. L!Winner(w) \in 1..Len(head)
  BY <1>8
<1>11. \A j, k \in past : First(j) /\ First(k) => j = k
  BY <1>1
<1> QED
  BY <1>8, <1>9, <1>10, <1>11 DEF s

\* Quotient and remainder determine a number.
LEMMA DivMod ==
    ASSUME NEW q \in Nat, NEW g \in Nat \ {0}, NEW x \in 0..(g - 1)
    PROVE  (q * g + x) \div g = q /\ (q * g + x) % g = x
<1> DEFINE v == q * g + x
           z == v \div g
<1>1. q * g \in Nat /\ v \in Nat /\ z \in Int /\ g * q = q * g
  BY SMT
<1>2. g * z <= v /\ v < g * (z + 1) /\ v % g = v - g * z
  BY <1>1, SMT
<1>3. g * z < g * (q + 1) /\ g * q < g * (z + 1)
  BY <1>1, <1>2, SMT
<1>4. z < q + 1 /\ q < z + 1
  BY <1>1, <1>3, SMT
<1>5. z = q
  BY <1>1, <1>4
<1> QED
  BY <1>1, <1>2, <1>5, SMT

\* A number is its quotient and its remainder.
LEMMA DivModOf ==
    ASSUME NEW r \in Nat, NEW g \in Nat \ {0}
    PROVE  /\ r \div g \in Nat /\ r % g \in 0..(g - 1)
           /\ r = (r \div g) * g + (r % g)
<1>1. r \div g \in Nat
  BY DivNat
<1>2. r % g \in 0..(g - 1)
  BY SMT
<1>3. r % g = r - g * (r \div g)
  BY <1>1, SMT
<1>4. g * (r \div g) = (r \div g) * g
  BY <1>1, SMT
<1>5. g * (r \div g) \in Int
  BY <1>1, SMT
<1>6. r = (r \div g) * g + (r % g)
  <2> DEFINE x == g * (r \div g)
             y == (r \div g) * g
             m == r % g
  <2>1. m \in Nat /\ x \in Int /\ x = y /\ m = r - x
    BY <1>2, <1>3, <1>4, <1>5
  <2> HIDE DEF x, y, m
  <2>2. r = y + m
    BY <2>1
  <2> QED
    BY <2>2 DEF y, m
<1> QED
  BY <1>1, <1>2, <1>6

\* The tickets of a job are as many as their numbers.
LEMMA TicketNumbers ==
    ASSUME NEW a \in Nat, NEW b \in Nat, a <= b
    PROVE  IsFiniteSet(a..(b - 1)) /\ Cardinality(a..(b - 1)) = b - a
<1>1. b - 1 \in Int
  OBVIOUS
<1>2. /\ IsFiniteSet(a..(b - 1))
      /\ Cardinality(a..(b - 1)) = IF a > b - 1 THEN 0 ELSE (b - 1) - a + 1
  BY <1>1, FS_Interval
<1> QED
  BY <1>2

\* How often random() % g falls between a and b: with the values random()
\* returns, once for each of the numbers in every full round, and at most once
\* more for each in the last.
LEMMA Chances ==
    ASSUME NEW g \in Nat \ {0}, NEW R \in Nat, NEW a \in Nat, NEW b \in Nat, a <= b, b <= g,
           NEW W, W = {r \in 0..(R - 1) : a <= r % g /\ r % g < b}
    PROVE  /\ IsFiniteSet(W)
           /\ Cardinality(W) \in ((b - a) * (R \div g))..((b - a) * ((R \div g) + 1))
<1> DEFINE t == R \div g
           A == a..(b - 1)
           Full == A \X (0..(t - 1))
           More == A \X (0..t)
<1>1. t \in Nat /\ t * g <= R /\ R < (t + 1) * g
  <2>1. t \in Nat /\ R % g \in 0..(g - 1) /\ R = t * g + (R % g)
    BY DivModOf
  <2>2. t * g \in Nat /\ (t + 1) * g = t * g + g
    BY <2>1, SMT
  <2> QED
    BY <2>1, <2>2
<1> HIDE DEF t
<1>2. /\ IsFiniteSet(A) /\ Cardinality(A) = b - a
      /\ IsFiniteSet(0..(t - 1)) /\ Cardinality(0..(t - 1)) = t
      /\ IsFiniteSet(0..t) /\ Cardinality(0..t) = t + 1
  <2>1. IsFiniteSet(A) /\ Cardinality(A) = b - a
    BY TicketNumbers
  <2>2. IsFiniteSet(0..(t - 1)) /\ Cardinality(0..(t - 1)) = t
    BY <1>1, FS_Interval
  <2>3. IsFiniteSet(0..t) /\ Cardinality(0..t) = t + 1
    BY <1>1, FS_Interval
  <2> QED
    BY <2>1, <2>2, <2>3
<1>3. /\ IsFiniteSet(Full) /\ Cardinality(Full) = (b - a) * t
      /\ IsFiniteSet(More) /\ Cardinality(More) = (b - a) * (t + 1)
  <2> HIDE DEF A
  <2>1. IsFiniteSet(Full) /\ Cardinality(Full) = Cardinality(A) * Cardinality(0..(t - 1))
    BY <1>2, FS_Product
  <2>2. IsFiniteSet(More) /\ Cardinality(More) = Cardinality(A) * Cardinality(0..t)
    BY <1>2, FS_Product
  <2> QED
    BY <1>2, <2>1, <2>2
<1>4. IsFiniteSet(W) /\ Cardinality(W) <= Cardinality(More)
  <2> DEFINE f == [r \in W |-> <<r % g, r \div g>>]
  <2>1. ASSUME NEW r \in W
        PROVE  r % g \in A /\ r \div g \in 0..t /\ r = (r \div g) * g + (r % g)
    <3>1. r \in Nat /\ r < R /\ a <= r % g /\ r % g < b
      OBVIOUS
    <3>2. r \div g \in Nat /\ r % g \in 0..(g - 1) /\ r = (r \div g) * g + (r % g)
      BY <3>1, DivModOf
    <3>3. r \div g <= t
      <4> DEFINE q == r \div g
      <4>1. q \in Nat /\ g * q < g * (t + 1)
        BY <1>1, <3>1, <3>2, SMT
      <4>2. q < t + 1
        <5> HIDE DEF q
        <5> QED
          BY <1>1, <4>1, SMT
      <4> QED
        BY <1>1, <4>1, <4>2
    <3> QED
      BY <1>1, <3>1, <3>2, <3>3
  <2>2. f \in [W -> More]
    BY <2>1
  <2>3. \A x, y \in W : f[x] = f[y] => x = y
    <3>1. \A x, y \in W : f[x] = f[y] => x % g = y % g /\ x \div g = y \div g
      OBVIOUS
    <3> QED
      BY <2>1, <3>1
  <2>4. f \in Injection(W, More)
    <3> HIDE DEF f, More
    <3>1. DOMAIN f = W
      BY <2>2
    <3> QED
      BY <2>2, <2>3, <3>1 DEF Injection, IsInjective
  <2> HIDE DEF f, More
  <2> QED
    BY <1>3, <2>4, FS_Injection
<1>5. Cardinality(Full) <= Cardinality(W)
  <2> DEFINE f == [x \in Full |-> x[2] * g + x[1]]
  <2>1. ASSUME NEW x \in Full
        PROVE  /\ f[x] \in W /\ f[x] % g = x[1] /\ f[x] \div g = x[2]
    <3>1. x[1] \in 0..(g - 1) /\ a <= x[1] /\ x[1] < b /\ x[2] \in Nat /\ x[2] <= t - 1
      BY <1>1
    <3>2. /\ (x[2] * g + x[1]) \div g = x[2] /\ (x[2] * g + x[1]) % g = x[1]
      BY <3>1, DivMod
    <3>3. x[2] * g + x[1] \in 0..(R - 1)
      <4>1. x[2] * g \in Nat /\ x[2] * g <= (t - 1) * g /\ (t - 1) * g = t * g - g
        BY <1>1, <3>1, SMT
      <4>2. t * g \in Nat
        BY <1>1, SMT
      <4> QED
        BY <1>1, <3>1, <4>1, <4>2
    <3> QED
      BY <3>1, <3>2, <3>3
  <2>2. f \in [Full -> W]
    BY <2>1
  <2>3. \A x, y \in Full : f[x] = f[y] => x = y
    <3>1. \A x, y \in Full : x[1] = y[1] /\ x[2] = y[2] => x = y
      OBVIOUS
    <3> HIDE DEF f, Full
    <3> QED
      BY <2>1, <3>1
  <2>4. f \in Injection(Full, W)
    <3> HIDE DEF f, Full
    <3>1. DOMAIN f = Full
      BY <2>2
    <3> QED
      BY <2>2, <2>3, <3>1 DEF Injection, IsInjective
  <2> HIDE DEF f, Full
  <2> QED
    BY <1>4, <2>4, FS_Injection
<1>6. Cardinality(W) \in Nat
  BY <1>4, FS_CardinalityType
<1> QED
  <2>1. (b - a) * t \in Int /\ (b - a) * (t + 1) \in Int
    BY <1>1, SMT
  <2>2. (b - a) * t <= Cardinality(W) /\ Cardinality(W) <= (b - a) * (t + 1)
    BY <1>3, <1>4, <1>5
  <2> HIDE DEF t
  <2>3. Cardinality(W) \in ((b - a) * t)..((b - a) * (t + 1))
    BY <1>6, <2>1, <2>2
  <2> QED
    BY <1>4, <2>3 DEF t

\* gtickets is the sum the walk ends with, and a round has found its winner
LotteryInv == /\ head \in Seq(Nat \ {0}) /\ i \in Nat
              /\ gtickets = Sums(head)[Len(head)]
              /\ i > 0 => current \in 1..Len(head)

\* A list that is not empty has a ticket, and a draw on it a winner.
LEMMA DrawWins ==
    ASSUME LotteryInv, head # <<>>, NEW r \in Nat
    PROVE  /\ gtickets \in Nat \ {0} /\ r % gtickets \in 0..(gtickets - 1)
           /\ L!Winner(r % gtickets) \in 1..Len(head)
           /\ \A k \in 1..Len(head) :
                L!Winner(r % gtickets) = k
                  <=> Sums(head)[k - 1] <= r % gtickets /\ r % gtickets < Sums(head)[k]
<1>1. head \in Seq(Nat) /\ Len(head) \in Nat \ {0} /\ head[1] \in Nat \ {0}
  BY DEF LotteryInv
<1>2. /\ Sums(head)[0] = 0 /\ Sums(head)[1] = Sums(head)[0] + head[1]
      /\ Sums(head)[1] <= Sums(head)[Len(head)]
      /\ Sums(head)[Len(head)] \in Nat
  BY <1>1, SumsAdd, SumsRise
<1>3. gtickets \in Nat \ {0}
  BY <1>1, <1>2 DEF LotteryInv
<1>4. r % gtickets \in 0..(gtickets - 1)
  BY <1>3, DivModOf
<1>5. r % gtickets \in Nat /\ r % gtickets < Sums(head)[Len(head)]
  BY <1>3, <1>4 DEF LotteryInv
<1> QED
  BY <1>1, <1>3, <1>4, <1>5, WinnerIs

\* insert and the draws keep the sum of the tickets and have a winner.
LEMMA LotteryNext == LotteryInv /\ L!Next => LotteryInv'
<1> SUFFICES ASSUME LotteryInv, L!Next PROVE LotteryInv'
  OBVIOUS
<1>1. ASSUME L!Draw PROVE LotteryInv'
  <2>1. PICK r \in 0..(RandomValues - 1) : current' = L!Winner(r % gtickets)
    BY <1>1 DEF L!Draw
  <2>2. r \in Nat /\ head # <<>> /\ i' = i + 1 /\ UNCHANGED <<head, gtickets>>
    BY <1>1, TicketsAssumption DEF L!Draw
  <2>3. current' \in 1..Len(head)
    BY <2>1, <2>2, DrawWins
  <2> QED
    BY <2>2, <2>3 DEF LotteryInv
<1>2. ASSUME NEW t \in Tickets, L!insert(t) PROVE LotteryInv'
  <2>1. /\ t \in Nat \ {0} /\ i = 0 /\ i' = i /\ current' = current
        /\ head' = <<t>> \o head /\ gtickets' = gtickets + t
    BY <1>2, TicketsAssumption DEF L!insert
  <2>2. head \in Seq(Nat) /\ Len(head) \in Nat
    BY DEF LotteryInv
  <2>3. head' \in Seq(Nat \ {0}) /\ Len(head') = Len(head) + 1
    BY <2>1, ConcatProperties DEF LotteryInv
  <2>4. Sums(head')[Len(head) + 1] = t + Sums(head)[Len(head)]
    BY <2>1, <2>2, SumsInsert
  <2>5. Sums(head)[Len(head)] \in Nat
    BY <2>2, SumsAdd
  <2>6. gtickets' = Sums(head')[Len(head')]
    BY <2>1, <2>3, <2>4, <2>5 DEF LotteryInv
  <2> QED
    BY <2>1, <2>3, <2>6 DEF LotteryInv
<1> QED
  BY <1>1, <1>2 DEF L!Next

\* Before the first insert there is nobody to draw.
LEMMA LotteryInit == L!Init => LotteryInv
<1> SUFFICES ASSUME L!Init PROVE LotteryInv
  OBVIOUS
<1>1. head = <<>> /\ head \in Seq(Nat) /\ head \in Seq(Nat \ {0}) /\ Len(head) = 0
  BY EmptySeq DEF L!Init
<1>2. Sums(head)[0] = 0
  BY <1>1, SumsAdd
<1> QED
  BY <1>1, <1>2 DEF L!Init, LotteryInv

\* Every job wins as often as its tickets say.
LEMMA LotteryFair == LotteryInv => DrawIsFair
<1> SUFFICES ASSUME LotteryInv PROVE L!Fair
  BY DEF DrawIsFair
<1> USE TicketsAssumption
<1> DEFINE R == RandomValues
           g == gtickets
<1>1. /\ head \in Seq(Nat) /\ Len(head) \in Nat /\ DOMAIN head = 1..Len(head)
      /\ \A k \in 1..Len(head) : head[k] \in Nat
  BY DEF LotteryInv
<1>2. i > 0 => current \in DOMAIN head
  BY <1>1 DEF LotteryInv
<1>3. ASSUME head # <<>> PROVE L!WinsWith(0) = {}
  BY <1>1, <1>3, DrawWins DEF L!WinsWith
<1>4. ASSUME NEW k \in DOMAIN head
      PROVE  L!Cardinality(L!WinsWith(k)) \in (head[k] * (R \div g))..(head[k] * ((R \div g) + 1))
  <2> DEFINE a == Sums(head)[k - 1]
             b == Sums(head)[k]
  <2>1. head # <<>> /\ k \in 1..Len(head)
    BY <1>1
  <2>2. a \in Nat /\ b \in Nat /\ b = a + head[k] /\ b <= g /\ g \in Nat
    <3>1. /\ a \in Nat /\ b \in Nat /\ b = a + head[k]
          /\ Sums(head)[Len(head)] \in Nat
      <4>1. k - 1 \in 0..Len(head) /\ k \in 0..Len(head) /\ Len(head) \in 0..Len(head)
        BY <1>1, <2>1
      <4> QED
        BY <1>1, <2>1, <4>1, SumsAdd
    <3>2. b <= Sums(head)[Len(head)]
      BY <1>1, <2>1, SumsRise
    <3> QED
      BY <3>1, <3>2 DEF LotteryInv
  <2>3. g \in Nat \ {0} /\ L!WinsWith(k) = {r \in 0..(R - 1) : a <= r % g /\ r % g < b}
    <3>1. \A r \in 0..(R - 1) : L!Winner(r % g) = k <=> a <= r % g /\ r % g < b
      <4>1. \A r \in 0..(R - 1) : r \in Nat
        OBVIOUS
      <4> QED
        BY <2>1, <4>1, DrawWins
    <3>2. g \in Nat \ {0}
      BY <2>1, DrawWins
    <3> QED
      BY <3>1, <3>2 DEF L!WinsWith
  <2>4. b - a = head[k] /\ a <= b
    BY <1>1, <2>1, <2>2
  <2> HIDE DEF a, b
  <2>5. Cardinality(L!WinsWith(k)) \in ((b - a) * (R \div g))..((b - a) * ((R \div g) + 1))
    BY <2>2, <2>3, <2>4, Chances
  <2>6. L!Cardinality(L!WinsWith(k)) = Cardinality(L!WinsWith(k))
    BY DEF L!Cardinality, Cardinality
  <2> QED
    BY <2>4, <2>5, <2>6
<1> QED
  BY <1>2, <1>3, <1>4 DEF L!Fair

------------------------------------------------------------------------------
(* The three programs *)

RunInv == Inv /\ FileInv /\ LotteryInv

\* The constructor of the limiter makes the bucket full.
LEMMA BucketInit == Init => Inv
<1> SUFFICES ASSUME Init PROVE Inv
  OBVIOUS
<1> USE BucketAssumption, TimeAssumption
<1>1. TypeOK
  BY DEF Init, TypeOK
<1>2. 0 \div intervalMS_ = 0
  BY SMT
<1>3. tokensPerPeriod_ * (0 \div intervalMS_) = 0
  BY <1>2, SMT
<1>4. capacity_ * (1 + 0) = capacity_
  BY SMT
<1>5. Accounted
  BY <1>3, <1>4 DEF Init, Accounted, Astray
<1> QED
  BY <1>1, <1>5 DEF Inv

\* The programs that do not run keep what they are.
LEMMA Rests ==
    /\ Inv /\ UNCHANGED vars => Inv'
    /\ FileInv /\ UNCHANGED file => FileInv'
    /\ LotteryInv /\ UNCHANGED lottery => LotteryInv'
<1>1. Inv /\ UNCHANGED vars => Inv'
  BY DEF vars, Inv, TypeOK, Accounted, Astray
<1>2. FileInv /\ UNCHANGED file => FileInv'
  BY DEF file, FileInv, FileTypes, HalfInv, Spoilt, Pending
<1>3. LotteryInv /\ UNCHANGED lottery => LotteryInv'
  BY DEF lottery, LotteryInv
<1> QED
  BY <1>1, <1>2, <1>3

\* The accounts of the limiter, the file with the items a kill has spoilt and
\* the sums of the tickets are as they should be in every reachable state.
THEOREM Invariant == RunSpec => []RunInv
<1>1. RunInit => RunInv
  BY BucketInit, FileInit, LotteryInit DEF RunInit, RunInv
<1>2. RunInv /\ [RunNext]_<<program, vars, lottery, file>> => RunInv'
  <2> SUFFICES ASSUME RunInv, [RunNext]_<<program, vars, lottery, file>> PROVE RunInv'
    OBVIOUS
  <2>1. CASE Next /\ UNCHANGED <<lottery, file>>
    BY <2>1, CallKeepsInv, TickKeepsInv, SetClockKeepsInv, Rests DEF Next, RunInv
  <2>2. CASE L!Next /\ UNCHANGED <<vars, file>>
    BY <2>2, LotteryNext, Rests DEF RunInv
  <2>3. CASE P!Next /\ UNCHANGED <<vars, lottery>>
    BY <2>3, FileNext, Rests DEF RunInv
  <2>4. CASE UNCHANGED <<program, vars, lottery, file>>
    BY <2>4, Rests DEF RunInv
  <2> QED
    BY <2>1, <2>2, <2>3, <2>4 DEF RunNext
<1> QED
  BY <1>1, <1>2, PTL DEF RunSpec

\* The bucket never holds more than its capacity, and no time is ahead of what
\* the clock can show, also when a sum of tokens or a difference of times wraps.
THEOREM TypeCorrect == RunSpec => []TypeOK
<1>1. RunInv => TypeOK
  BY DEF RunInv, Inv
<1> QED
  BY <1>1, Invariant, PTL

\* rateLimit grants no more calls than the capacity, tokensPerPeriod_ for each
\* period that has passed, and one capacity for each time the clock was set,
\* back or forward.
THEOREM Limited == RunSpec => []RateLimited
<1>1. RunInv => RateLimited
  BY InvLimits DEF RunInv
<1> QED
  BY <1>1, Invariant, PTL

\* A call is refused a period or more after the last refill only when the clock
\* was set or a count of tokens wrapped.
THEOREM RefusedInTime == RunSpec => []RefusedOnlyWithinPeriod
<1> QED
  BY TypeCorrect, RefillIsDue, PTL

\* pstack.c: what one run leaves the next one finds, last in first out, and a
\* kill between two stores spoils one item at most.
THEOREM StackPersists == RunSpec => []PersistsUnlessKilled
<1>1. RunInv => PersistsUnlessKilled
  BY FileInvPersists DEF RunInv
<1> QED
  BY <1>1, Invariant, PTL

\* lottery.c: every draw has a winner, and every ticket of every list has the
\* same chance, give or take one value of random().
THEOREM DrawsAreFair == RunSpec => []DrawIsFair
<1>1. RunInv => DrawIsFair
  BY LotteryFair DEF RunInv
<1> QED
  BY <1>1, Invariant, PTL
==============================================================================
