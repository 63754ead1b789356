----------------------------- MODULE MCApproval -----------------------------
(* Instances of Approval for TLC. *)
EXTENDS Approval

CONSTANTS i1, o1, o2, s1, s2

OneId == {i1}
OneOwner == {o1}
TwoOwners == {o1, o2}
OneSweeper == {s1}
TwoSweepers == {s1, s2}
Nobody == {}
OwnersAndSweeper == {o1, o2, s1}

(* The clocks agree with the holding clock, or an owner's runs behind it   *)
(* and a sweeper's ahead.                                                  *)
InStep == [p \in Owners \cup Sweepers |-> 0]
Apart == [p \in Owners \cup Sweepers |-> IF p = o1 THEN -1 ELSE IF p = s1 THEN 1 ELSE 0]

=============================================================================
