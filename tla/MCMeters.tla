------------------------------ MODULE MCMeters ------------------------------
(* Instances of Meters for TLC. *)
EXTENDS Meters, TLC

CONSTANTS r1, r2, r3, w1, w2, w3

(* Every call costs one unit: the tight case of the overrun's bound. *)
MCUnit == [c \in Calls |-> 1]

(* The reads are alike. *)
Alike == Permutations({r1, r2, r3})
=============================================================================
