------------------------------ MODULE Backoff ------------------------------
(***************************************************************************)
(* The retry delay of egress/helper: Next is called before every attempt   *)
(* to reach a server (egress/grpc, ingress/kafka, ingestion/clickhouse).   *)
(* Times are in milliseconds.  One action is one call of Next, sleep       *)
(* included, after the caller has spent some time on its own work.         *)
(***************************************************************************)
EXTENDS Integers

CONSTANTS
    Base,    \* first delay: 2 s
    Limit,   \* the delay grows while it is below this: 2 min
    Idle,    \* a backoff untouched for longer than this starts over: 30 min
    Work     \* durations of the caller's work between two calls

ASSUME BackoffAssumption ==
    /\ Base \in Nat \ {0} /\ Limit \in Nat /\ Idle \in Nat
    /\ Base < Limit
    /\ Work \subseteq Nat

VARIABLES
    duration,   \* b.duration, 0 before the first call
    last,       \* time since b.last was set, Idle + 1 standing for longer
    slept,      \* how long the latest call slept
    free,       \* time since a call last returned without sleeping
    gap         \* time between the latest two such returns

vars == <<duration, last, slept, free, gap>>

Init ==
    /\ duration = 0 /\ last = Idle + 1 /\ slept = 0
    /\ free = Idle + 1 /\ gap = Idle + 1

(* Time beyond Idle is all the same to Next.                               *)
Capped(t) == IF t > Idle THEN Idle + 1 ELSE t

Grown(d) == d + (d * 15) \div 100

(* b.reset() and return without a delay.                                   *)
Reset(now) ==
    /\ duration' = Base /\ last' = 0
    /\ slept' = 0 /\ free' = 0
    /\ gap' = Capped(free + now)

(* Sleep, after growing the delay and touching b.last below the limit.     *)
Delay(now) ==
    /\ duration' = IF duration < Limit THEN Grown(duration) ELSE duration
    /\ slept' = duration'
    /\ last' = Capped((IF duration < Limit THEN 0 ELSE last + now) + duration')
    /\ free' = Capped(free + now + duration')
    /\ UNCHANGED gap

(* Mutant: the idle test is not made against the time of the last call.    *)
CallImpatient(now) ==
    IF duration = 0 \/ duration >= Limit THEN Reset(now) ELSE Delay(now)

(* Mutant: the limit caps the delay of this call but is applied after the  *)
(* growth, so that the delay starts over once it is reached.               *)
CallWraps(now) ==
    IF duration = 0 \/ last + now > Idle
    THEN Reset(now)
    ELSE /\ duration' = IF Grown(duration) < Limit THEN Grown(duration) ELSE Base
         /\ slept' = duration'
         /\ last' = Capped(duration')
         /\ free' = Capped(free + now + duration')
         /\ UNCHANGED gap

(* Mutant: the delay keeps growing.                                        *)
CallUnlimited(now) ==
    IF duration = 0 \/ last + now > Idle
    THEN Reset(now)
    ELSE /\ duration < 4 * Limit
         /\ duration' = Grown(duration)
         /\ slept' = duration'
         /\ last' = Capped(duration')
         /\ free' = Capped(free + now + duration')
         /\ UNCHANGED gap

(* One call of Next after the caller has worked for `now'.                 *)
Call(now) == IF duration = 0 \/ last + now > Idle THEN Reset(now) ELSE Delay(now)

Next == \E now \in Work : Call(now)

Spec == Init /\ [][Next]_vars

-----------------------------------------------------------------------------
(* The delay is unset, or between the first delay and one growth step      *)
(* above the limit.                                                        *)
TypeOK ==
    /\ duration = 0 \/ (Base <= duration /\ duration < Grown(Limit))
    /\ duration \in Nat
    /\ last \in 0..(Idle + 1) /\ free \in 0..(Idle + 1) /\ gap \in 0..(Idle + 1)
    /\ slept \in Nat

(* A server is never hammered: two calls that return without a delay are   *)
(* more than Idle apart, however long the caller's own work takes, because *)
(* b.last is never older than the previous undelayed return.               *)
UndelayedApart == gap > Idle

(* Between two undelayed calls the delay only grows.                       *)
DelayGrows == [][slept' # 0 => slept' >= duration /\ slept' >= slept]_vars

(* Why: b.last is set no earlier than the latest undelayed return, and the *)
(* delay in force is at least the one slept last.                          *)
BackoffInv ==
    /\ TypeOK /\ UndelayedApart
    /\ duration # 0 => last <= free
    /\ duration = 0 => free = Idle + 1
    /\ slept <= duration
=============================================================================
