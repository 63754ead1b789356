---------------------------- MODULE MCEnforcement ----------------------------
(* Instances of Enforcement for TLC: a parent and its child draw on one    *)
(* delegation-tree pool.                                                   *)
EXTENDS Enforcement

CONSTANTS a1, a2, a3, k1, k2, parent, child

TwoCallers == {a1, a2}
ThreeCallers == {a1, a2, a3}
OneKey == {k1}
SecondKey == {k2}
TwoKeys == {k1, k2}
Tree == {parent, child}
ActsFor == [a \in Attempts |-> IF a = a2 THEN child ELSE parent]
Recoverable == {a1} \cap Attempts
None == {}
\* Caps the calls cannot exhaust, and caps of one.
RoomyOrTight == {[own |-> n, tree |-> n] : n \in {1, 3}}
OneCallEach == {[own |-> 1, tree |-> 2]}
ThreeVerbs == {"allow", "require_approval", "deny"}
==============================================================================
