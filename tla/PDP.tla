-------------------------------- MODULE PDP --------------------------------
(***************************************************************************)
(* The policy decision point of broker/pdp/engine.py: a pure function from *)
(* a brokered call and the facts about it to one of five verbs, the first  *)
(* rule of an ordered table that matches.                                  *)
(*                                                                         *)
(* A call is what its manifest entry says of its effect, and the taint of  *)
(* its turn.  transform_op says whether the PIP supplied a safer op; the   *)
(* two query bounds, which the table only reads together, are query_over.  *)
(***************************************************************************)
EXTENDS Integers

AutonomyLevel == {"in-loop", "on-loop", "out-of-loop"}
AUTONOMY_RANK(l) == IF l = "in-loop" THEN 0 ELSE IF l = "on-loop" THEN 1 ELSE 2

BrokeredCall == [effect : {"read", "write"}, external : BOOLEAN,
                 reversible : {"yes", "no", "unset"}, tainted : BOOLEAN]

Facts == [grant_present : BOOLEAN, grant_level : AutonomyLevel,
          error_budget_breached : BOOLEAN, cap_budget_breached : BOOLEAN,
          escalation_budget_available : BOOLEAN, human_reachable : BOOLEAN,
          transform_op : BOOLEAN, read_source_trusted : BOOLEAN,
          query_over : BOOLEAN, confidence_below_bar : BOOLEAN,
          destination_composed : BOOLEAN, harness_class_held : BOOLEAN]

Verbs == {"allow", "transform", "require_approval", "abstain", "deny"}

STRICTNESS == [allow |-> 0, transform |-> 1, require_approval |-> 2,
               abstain |-> 3, deny |-> 4]

(* The two verbs on which enforce() reaches the connector. *)
Runs(v) == v \in {"allow", "transform"}

pick_stricter(a, b) == IF STRICTNESS[b] > STRICTNESS[a] THEN b ELSE a

(* The single polarity seam: a hold needs a human to release it. *)
approval_or_deny(f) == IF f.human_reachable THEN "require_approval" ELSE "deny"

(* The predicates of the rule table, in its order. *)
no_grant(c, f) == ~f.grant_present
error_budget(c, f) == c.effect = "write" /\ f.error_budget_breached
confidence_below_bar(c, f) == c.effect = "write" /\ f.confidence_below_bar
read_query_exfil(c, f) == c.effect = "read" /\ f.query_over
tainted_harness_hold_uncapped(c, f) == c.tainted /\ f.harness_class_held
tainted_harness_hold(c, f) ==
    c.tainted /\ f.harness_class_held /\ ~f.cap_budget_breached
tainted_composed_destination(c, f) ==
    /\ c.tainted /\ f.destination_composed /\ ~f.cap_budget_breached
    /\ ~(c.external /\ c.effect = "write")
read_rung_gate(c, f) ==
    /\ c.effect = "read" /\ c.external
    /\ f.grant_level = "in-loop" /\ ~f.read_source_trusted
cap_budget_writes_only(c, f) == f.cap_budget_breached /\ c.effect = "write"
cap_budget(c, f) == f.cap_budget_breached
read_allow(c, f) == c.effect = "read"
transform_even_tainted(c, f) ==
    f.transform_op /\ c.effect = "write" /\ c.external /\ c.reversible # "no"
transform_to_safer_op(c, f) ==
    /\ f.transform_op /\ c.effect = "write" /\ c.external
    /\ c.reversible # "no" /\ ~c.tainted
tainted_external_write(c, f) == c.tainted /\ c.external /\ c.effect = "write"
external_irreversible(c, f) ==
    c.external /\ c.reversible = "no" /\ c.effect = "write"
in_loop_write(c, f) == c.effect = "write" /\ f.grant_level = "in-loop"
supervised_on_loop_only(c, f) == c.effect = "write" /\ f.grant_level = "on-loop"
supervised_write_allow(c, f) ==
    c.effect = "write" /\ f.grant_level \in {"on-loop", "out-of-loop"}

(* A budget breach goes to a human while escalations are left. *)
abstain_or_deny(f) == IF f.escalation_budget_available THEN "abstain" ELSE "deny"

decide(c, f) ==
    IF no_grant(c, f) THEN "deny"
    ELSE IF error_budget(c, f) THEN abstain_or_deny(f)
    ELSE IF confidence_below_bar(c, f) THEN abstain_or_deny(f)
    ELSE IF read_query_exfil(c, f) THEN "deny"
    ELSE IF tainted_harness_hold(c, f) THEN approval_or_deny(f)
    ELSE IF tainted_composed_destination(c, f) THEN approval_or_deny(f)
    ELSE IF read_rung_gate(c, f) THEN approval_or_deny(f)
    ELSE IF cap_budget(c, f) THEN "deny"
    ELSE IF read_allow(c, f) THEN "allow"
    ELSE IF transform_to_safer_op(c, f) THEN "transform"
    ELSE IF tainted_external_write(c, f) THEN approval_or_deny(f)
    ELSE IF external_irreversible(c, f) THEN approval_or_deny(f)
    ELSE IF in_loop_write(c, f) THEN approval_or_deny(f)
    ELSE IF supervised_write_allow(c, f) THEN "allow"
    ELSE "deny"
==============================================================================
