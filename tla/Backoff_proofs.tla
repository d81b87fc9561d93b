--------------------------- MODULE Backoff_proofs ---------------------------
(***************************************************************************)
(* The retry delay, for every base, limit, idle time and every duration of *)
(* the caller's own work.                                                  *)
(***************************************************************************)
EXTENDS Backoff, TLAPS

(* Growing by 15 per cent never shrinks, and keeps the order.              *)
LEMMA GrownFacts ==
    /\ \A d \in Nat : Grown(d) \in Nat /\ Grown(d) >= d
    /\ \A d, m \in Nat : d < m => Grown(d) < Grown(m)
BY DEF Grown

(* A delay goes beyond the idle time by one at most, and keeps its order.  *)
LEMMA CappedFacts ==
    /\ \A t \in Nat : Capped(t) \in 0..(Idle + 1)
    /\ \A t, u \in Nat : t <= u => Capped(t) <= Capped(u)
    /\ \A t \in Nat : t > Idle => Capped(t) > Idle
BY BackoffAssumption DEF Capped

(* At first nothing was delayed.                                           *)
LEMMA BackoffInit == Init => BackoffInv
BY BackoffAssumption, GrownFacts DEF Init, BackoffInv, TypeOK, UndelayedApart

(* An undelayed return: the idle test guarantees the distance.             *)
LEMMA ResetStep ==
    ASSUME BackoffInv, NEW now \in Work, duration = 0 \/ last + now > Idle, Reset(now)
    PROVE  BackoffInv' /\ slept' = 0
<1>1. now \in Nat /\ free \in Nat /\ last \in Nat /\ Idle \in Nat
  BY BackoffAssumption DEF BackoffInv, TypeOK
<1>2. free + now > Idle
  BY <1>1 DEF BackoffInv
<1>3. gap' > Idle /\ gap' \in 0..(Idle + 1)
  BY <1>1, <1>2, CappedFacts DEF Reset
<1>4. Base < Grown(Limit)
  BY GrownFacts, BackoffAssumption
<1> QED BY <1>1, <1>3, <1>4, BackoffAssumption
        DEF Reset, BackoffInv, TypeOK, UndelayedApart

(* A delayed return: the delay grows below the limit and stays above it.   *)
LEMMA DelayStep ==
    ASSUME BackoffInv, NEW now \in Work, duration # 0, Delay(now)
    PROVE  BackoffInv' /\ slept' >= duration /\ slept' >= slept
<1>1. /\ now \in Nat /\ free \in Nat /\ last \in Nat /\ Idle \in Nat
      /\ duration \in Nat /\ slept \in Nat /\ Limit \in Nat /\ Base \in Nat \ {0}
      /\ Base <= duration /\ duration < Grown(Limit) /\ slept <= duration
      /\ last <= free
  BY BackoffAssumption DEF BackoffInv, TypeOK
<1>2. /\ duration' \in Nat /\ duration' >= duration /\ duration' < Grown(Limit)
      /\ slept' = duration'
  BY <1>1, GrownFacts DEF Delay
<1>3. last' \in 0..(Idle + 1) /\ free' \in 0..(Idle + 1) /\ last' <= free'
  <2>1. PICK d \in Nat : d = duration'
    BY <1>2
  <2>2. PICK l \in Nat : /\ l = (IF duration < Limit THEN 0 ELSE last + now) + d
                         /\ l <= free + now + d
    <3>1. CASE duration < Limit
      BY <1>1, <3>1
    <3>2. CASE ~(duration < Limit)
      BY <1>1, <3>2
    <3> QED BY <3>1, <3>2
  <2>3. PICK f \in Nat : f = free + now + d
    BY <1>1
  <2>4. last' = Capped(l) /\ free' = Capped(f)
    BY <2>1, <2>2, <2>3 DEF Delay
  <2>5. l <= f
    BY <2>2, <2>3
  <2> QED BY <2>4, <2>5, CappedFacts
<1>4. gap' = gap
  BY DEF Delay
<1> QED BY <1>1, <1>2, <1>3, <1>4 DEF BackoffInv, TypeOK, UndelayedApart

(* Every step keeps delays and the time they end at in step.               *)
LEMMA BackoffStep ==
    BackoffInv /\ [Next]_vars =>
        BackoffInv' /\ [slept' # 0 => slept' >= duration /\ slept' >= slept]_vars
<1> SUFFICES ASSUME BackoffInv, [Next]_vars
             PROVE  /\ BackoffInv'
                    /\ [slept' # 0 => slept' >= duration /\ slept' >= slept]_vars
  OBVIOUS
<1>1. CASE UNCHANGED vars
  BY <1>1 DEF vars, BackoffInv, TypeOK, UndelayedApart
<1>2. ASSUME NEW now \in Work, Call(now)
      PROVE  BackoffInv' /\ (slept' # 0 => slept' >= duration /\ slept' >= slept)
  BY <1>2, ResetStep, DelayStep DEF Call
<1> QED BY <1>1, <1>2 DEF Next

(* The delay stays between 2 s and one growth step above 2 min.            *)
THEOREM DelayBounded == Spec => []TypeOK
<1>1. BackoffInv => TypeOK
  BY DEF BackoffInv
<1> QED BY <1>1, BackoffInit, BackoffStep, PTL DEF Spec

(* Two attempts that were not delayed are more than 30 minutes apart.      *)
THEOREM NeverHammers == Spec => []UndelayedApart
<1>1. BackoffInv => UndelayedApart
  BY DEF BackoffInv
<1> QED BY <1>1, BackoffInit, BackoffStep, PTL DEF Spec

(* Between two such attempts the delay never shrinks.                      *)
THEOREM DelayMonotone == Spec => DelayGrows
BY BackoffInit, BackoffStep, PTL DEF Spec, DelayGrows
=============================================================================
