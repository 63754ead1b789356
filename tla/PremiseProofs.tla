--------------------------- MODULE PremiseProofs ---------------------------
(* What decide() promises on every call and every combination of facts,    *)
(* and what the second evaluation in enforce() adds to it.                 *)
EXTENDS Premise, TLAPS

(* decide() and pick_stricter() return one of the five verbs.              *)
LEMMA DecideVerb ==
    \A c, f : decide(c, f) \in Verbs
BY DEF decide, approval_or_deny, abstain_or_deny, Verbs

LEMMA StricterVerb ==
    \A a, b \in Verbs : pick_stricter(a, b) \in Verbs
BY DEF pick_stricter

(* The order of the verbs: every one is below deny, those that run below   *)
(* a hold.                                                                 *)
LEMMA StrictnessOrder ==
    /\ \A v \in Verbs : STRICTNESS[v] \in 0..4 /\ STRICTNESS["deny"] >= STRICTNESS[v]
    /\ \A v \in Verbs : Runs(v) => STRICTNESS["require_approval"] > STRICTNESS[v]
BY DEF STRICTNESS, Verbs, Runs

(* The stricter of two verbs runs only if both do.                         *)
LEMMA StricterRuns ==
    \A a, b \in Verbs : Runs(pick_stricter(a, b)) => Runs(a) /\ Runs(b)
BY DEF pick_stricter, Runs, Verbs, STRICTNESS

(* Premise is type correct: every path through the rule table and both     *)
(* evaluations end in a verb.                                              *)
THEOREM TypeCorrect == Spec => []TypeOK
<1>1. Init => TypeOK
  BY DEF Init, TypeOK
<1>2. TypeOK /\ [Next]_vars => TypeOK'
  <2> SUFFICES ASSUME TypeOK, [Next]_vars PROVE TypeOK'
    OBVIOUS
  <2>1. CASE Decide
    BY <2>1, DecideVerb DEF Decide, TypeOK
  <2>2. CASE StoreMoves
    BY <2>2 DEF StoreMoves, TypeOK, Facts
  <2>3. CASE Revalidate
    BY <2>3, DecideVerb, StricterVerb DEF Revalidate, TypeOK
  <2>4. CASE UNCHANGED vars
    BY <2>4 DEF vars, TypeOK
  <2> QED BY <2>1, <2>2, <2>3, <2>4 DEF Next
<1> QED BY <1>1, <1>2, PTL DEF Spec

(* The invariants of the rule table hold of every call and all facts, so   *)
(* they follow from the types alone.                                       *)
LEMMA TableTaint == TypeOK => TaintNeverLoosens
<1> SUFFICES ASSUME TypeOK PROVE TaintNeverLoosens
  OBVIOUS
<1> DEFINE hot == [call EXCEPT !.tainted = TRUE]
           cold == [call EXCEPT !.tainted = FALSE]
<1>1. /\ hot.tainted = TRUE /\ cold.tainted = FALSE
      /\ hot.effect = cold.effect /\ hot.external = cold.external
      /\ hot.reversible = cold.reversible
      /\ hot.effect \in {"read", "write"}
      /\ hot.external \in BOOLEAN
  BY DEF TypeOK, BrokeredCall
<1>2. facts.grant_level \in AutonomyLevel
  BY DEF TypeOK, Facts
<1> HIDE DEF hot, cold
<1>3. \/ decide(hot, facts) = decide(cold, facts)
      \/ decide(hot, facts) = "deny"
      \/ decide(hot, facts) = "require_approval" /\ Runs(decide(cold, facts))
  BY <1>1, <1>2 DEF decide, Runs, approval_or_deny, abstain_or_deny, no_grant,
     error_budget, confidence_below_bar, read_query_exfil, tainted_harness_hold,
     tainted_composed_destination, read_rung_gate, cap_budget, read_allow,
     transform_to_safer_op, tainted_external_write, external_irreversible,
     in_loop_write, supervised_write_allow, AutonomyLevel
<1>4. decide(hot, facts) \in Verbs /\ decide(cold, facts) \in Verbs
  BY DecideVerb
<1>5. STRICTNESS[decide(hot, facts)] >= STRICTNESS[decide(cold, facts)]
  BY <1>3, <1>4, StrictnessOrder DEF Runs
<1> QED BY <1>5 DEF TaintNeverLoosens, Stricter, hot, cold

(* A lower level that runs is above the in-loop rules or untouched by them.*)
LEMMA TableDemotion == TypeOK => DemotionNeverRuns
<1> SUFFICES ASSUME TypeOK,
                    NEW l \in AutonomyLevel, NEW m \in AutonomyLevel,
                    AUTONOMY_RANK(l) < AUTONOMY_RANK(m),
                    Runs(decide(call, [facts EXCEPT !.grant_level = l]))
             PROVE  Runs(decide(call, [facts EXCEPT !.grant_level = m]))
  BY DEF DemotionNeverRuns
<1> DEFINE low == [facts EXCEPT !.grant_level = l]
           high == [facts EXCEPT !.grant_level = m]
<1>1. /\ low.grant_level = l /\ high.grant_level = m
      /\ low.grant_present = high.grant_present
      /\ low.error_budget_breached = high.error_budget_breached
      /\ low.cap_budget_breached = high.cap_budget_breached
      /\ low.escalation_budget_available = high.escalation_budget_available
      /\ low.human_reachable = high.human_reachable
      /\ low.transform_op = high.transform_op
      /\ low.read_source_trusted = high.read_source_trusted
      /\ low.query_over = high.query_over
      /\ low.confidence_below_bar = high.confidence_below_bar
      /\ low.destination_composed = high.destination_composed
      /\ low.harness_class_held = high.harness_class_held
  BY DEF TypeOK, Facts
<1>2. m # "in-loop"
  BY DEF AUTONOMY_RANK, AutonomyLevel
<1>3. Runs(decide(call, low))
  OBVIOUS
<1> HIDE DEF low, high
<1>4. call.effect \in {"read", "write"}
  BY DEF TypeOK, BrokeredCall
<1>5. Runs(decide(call, high))
  BY <1>1, <1>2, <1>3, <1>4 DEF decide, Runs, approval_or_deny, abstain_or_deny, no_grant,
     error_budget, confidence_below_bar, read_query_exfil, tainted_harness_hold,
     tainted_composed_destination, read_rung_gate, cap_budget, read_allow,
     transform_to_safer_op, tainted_external_write, external_irreversible,
     in_loop_write, supervised_write_allow, AutonomyLevel
<1> QED BY <1>5 DEF high

(* Only the seam reads the human, and it turns a hold into a deny.         *)
LEMMA TableHuman == TypeOK => AbsentHumanNeverLoosens
<1> SUFFICES ASSUME TypeOK PROVE AbsentHumanNeverLoosens
  OBVIOUS
<1> DEFINE alone == [facts EXCEPT !.human_reachable = FALSE]
           reached == [facts EXCEPT !.human_reachable = TRUE]
<1>1. /\ alone.human_reachable = FALSE /\ reached.human_reachable = TRUE
      /\ alone.grant_level = reached.grant_level
      /\ alone.grant_present = reached.grant_present
      /\ alone.error_budget_breached = reached.error_budget_breached
      /\ alone.cap_budget_breached = reached.cap_budget_breached
      /\ alone.escalation_budget_available = reached.escalation_budget_available
      /\ alone.transform_op = reached.transform_op
      /\ alone.read_source_trusted = reached.read_source_trusted
      /\ alone.query_over = reached.query_over
      /\ alone.confidence_below_bar = reached.confidence_below_bar
      /\ alone.destination_composed = reached.destination_composed
      /\ alone.harness_class_held = reached.harness_class_held
  BY DEF TypeOK, Facts
<1> HIDE DEF alone, reached
<1>2. \/ decide(call, alone) = decide(call, reached)
      \/ decide(call, alone) = "deny"
  BY <1>1 DEF decide, approval_or_deny, abstain_or_deny, no_grant,
     error_budget, confidence_below_bar, read_query_exfil, tainted_harness_hold,
     tainted_composed_destination, read_rung_gate, cap_budget, read_allow,
     transform_to_safer_op, tainted_external_write, external_irreversible,
     in_loop_write, supervised_write_allow
<1>3. STRICTNESS[decide(call, alone)] >= STRICTNESS[decide(call, reached)]
  BY <1>2, DecideVerb, StrictnessOrder
<1> QED BY <1>3 DEF AbsentHumanNeverLoosens, Stricter, alone, reached

(* The bounds, and the taint cut, stand ahead of every allow.              *)
LEMMA TableBounds == TypeOK => SpentBoundNeverRuns
BY DEF SpentBoundNeverRuns, TypeOK, BrokeredCall, decide, Runs, approval_or_deny,
   abstain_or_deny, no_grant, error_budget, confidence_below_bar, read_query_exfil,
   tainted_harness_hold, tainted_composed_destination, read_rung_gate, cap_budget

LEMMA TableCut == TypeOK => TaintedExternalWriteHeld
BY DEF TaintedExternalWriteHeld, decide, Runs, approval_or_deny, abstain_or_deny,
   no_grant, error_budget, confidence_below_bar, read_query_exfil,
   tainted_harness_hold, tainted_composed_destination, read_rung_gate, cap_budget,
   read_allow, transform_to_safer_op, tainted_external_write

(* decide() on every call and all facts: taint never loosens a verb.       *)
THEOREM TaintMonotone == Spec => []TaintNeverLoosens
BY TypeCorrect, TableTaint, PTL

(* A demotion between the two reads never turns a refusal into an effect.  *)
THEOREM DemotionMonotone == Spec => []DemotionNeverRuns
BY TypeCorrect, TableDemotion, PTL

(* Losing the human never loosens a verb.                                  *)
THEOREM HumanMonotone == Spec => []AbsentHumanNeverLoosens
BY TypeCorrect, TableHuman, PTL

(* A call whose bound is spent never runs.                                 *)
THEOREM BoundsBind == Spec => []SpentBoundNeverRuns
BY TypeCorrect, TableBounds, PTL

(* A tainted external write never runs, whatever the facts.                *)
THEOREM TaintCut == Spec => []TaintedExternalWriteHeld
BY TypeCorrect, TableCut, PTL

(* The second evaluation: a verb that runs is one the facts at             *)
(* revalidation also let run.                                              *)
THEOREM PremiseHolds == Spec => []StalePremiseNeverRuns
<1>1. Init => StalePremiseNeverRuns
  BY DEF Init, StalePremiseNeverRuns
<1>2. TypeOK /\ StalePremiseNeverRuns /\ [Next]_vars => StalePremiseNeverRuns'
  <2> SUFFICES ASSUME TypeOK, StalePremiseNeverRuns, [Next]_vars
               PROVE  StalePremiseNeverRuns'
    OBVIOUS
  <2>1. CASE Decide
    BY <2>1 DEF Decide, StalePremiseNeverRuns
  <2>2. CASE StoreMoves
    BY <2>2 DEF StoreMoves, StalePremiseNeverRuns
  <2>3. CASE Revalidate
    <3>1. effective \in Verbs /\ decide(call, facts) \in Verbs
      BY <2>3, DecideVerb DEF Revalidate, TypeOK
    <3>2. Runs(effective') => Runs(decide(call, facts))
      BY <2>3, <3>1, StricterRuns DEF Revalidate
    <3> QED BY <2>3, <3>2 DEF Revalidate, StalePremiseNeverRuns
  <2>4. CASE UNCHANGED vars
    BY <2>4 DEF vars, StalePremiseNeverRuns
  <2> QED BY <2>1, <2>2, <2>3, <2>4 DEF Next
<1> QED BY <1>1, <1>2, TypeCorrect, PTL DEF Spec
==============================================================================
