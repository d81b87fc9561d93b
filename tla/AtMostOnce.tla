----------------------------- MODULE AtMostOnce -----------------------------
(***************************************************************************)
(* What central collection promises for one egress: records 1, 2, ... are  *)
(* accepted in turn, and each of them reaches the collector at most once.  *)
(* Records may be lost, and may overtake one another.                      *)
(***************************************************************************)
EXTENDS Naturals, Sequences

VARIABLES
    accepted,   \* how many records were accepted
    delivered   \* the records that arrived, in order of arrival

Arrived == {delivered[i] : i \in DOMAIN delivered}

Init == accepted = 0 /\ delivered = <<>>

Accept == accepted' = accepted + 1 /\ UNCHANGED delivered

Deliver ==
    \E k \in 1..accepted :
        /\ k \notin Arrived
        /\ delivered' = Append(delivered, k)
        /\ UNCHANGED accepted

Next == Accept \/ Deliver

Spec == Init /\ [][Next]_<<accepted, delivered>>
=============================================================================
