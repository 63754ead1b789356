------------------------------ MODULE Premise ------------------------------
(***************************************************************************)
(* One call's two evaluations: handle_request() decides on the facts the   *)
(* PIP reads (runtime/pep.py), the stores move on under other processes,   *)
(* and enforce() decides again on fresh facts and keeps the stricter verb. *)
(* Every call and every combination of facts is a starting point.          *)
(***************************************************************************)
EXTENDS PDP

VARIABLES
    call,       \* the call, fixed when it is materialised
    facts,      \* what the PIP would read now
    effective,  \* the decision in force, "none" before the first
    pc          \* arrived, decided, revalidated

vars == <<call, facts, effective, pc>>

Init ==
    /\ call \in BrokeredCall
    /\ facts \in Facts
    /\ effective = "none"
    /\ pc = "arrived"

Decide ==
    /\ pc = "arrived"
    /\ effective' = decide(call, facts)
    /\ pc' = "decided"
    /\ UNCHANGED <<call, facts>>

(* Another process moves a store between the two reads: a grant is written *)
(* or withdrawn, a level changes, a counter is drawn or its period rolls.  *)
StoreMoves ==
    /\ pc = "decided"
    /\ \/ \E b \in BOOLEAN : facts' = [facts EXCEPT !.grant_present = b]
       \/ \E l \in AutonomyLevel : facts' = [facts EXCEPT !.grant_level = l]
       \/ \E b \in BOOLEAN : facts' = [facts EXCEPT !.error_budget_breached = b]
       \/ \E b \in BOOLEAN : facts' = [facts EXCEPT !.cap_budget_breached = b]
       \/ \E b \in BOOLEAN : facts' = [facts EXCEPT !.query_over = b]
    /\ pc' = "moved"
    /\ UNCHANGED <<call, effective>>

Revalidate_keeps_initial ==
    /\ pc \in {"decided", "moved"}
    /\ pc' = "revalidated"
    /\ UNCHANGED <<call, facts, effective>>
Revalidate ==
    /\ pc \in {"decided", "moved"}
    /\ effective' = pick_stricter(effective, decide(call, facts))
    /\ pc' = "revalidated"
    /\ UNCHANGED <<call, facts>>

Next == Decide \/ StoreMoves \/ Revalidate

Spec == Init /\ [][Next]_vars

-----------------------------------------------------------------------------
(* The decision is always one of the five verbs. *)
TypeOK ==
    /\ call \in BrokeredCall
    /\ facts \in Facts
    /\ effective \in Verbs \cup {"none"}
    /\ pc \in {"arrived", "decided", "moved", "revalidated"}
    /\ pc # "arrived" => effective \in Verbs

Stricter(a, b) == STRICTNESS[a] >= STRICTNESS[b]

(* decide() never gives a tainted turn a looser verb than the same call on *)
(* the same facts gets on a clean one: the taint holds sit ahead of the    *)
(* allows, and each yields to whatever is stricter than a hold.            *)
TaintNeverLoosens ==
    Stricter(decide([call EXCEPT !.tainted = TRUE], facts),
             decide([call EXCEPT !.tainted = FALSE], facts))

(* A call that runs at a level runs at every higher one: a demotion or a   *)
(* lapsed term between two reads never turns a refusal into an effect.     *)
DemotionNeverRuns ==
    \A l, m \in AutonomyLevel :
        /\ AUTONOMY_RANK(l) < AUTONOMY_RANK(m)
        /\ Runs(decide(call, [facts EXCEPT !.grant_level = l]))
        => Runs(decide(call, [facts EXCEPT !.grant_level = m]))

(* Losing the human never makes decide() looser, whichever hold applies.   *)
AbsentHumanNeverLoosens ==
    Stricter(decide(call, [facts EXCEPT !.human_reachable = FALSE]),
             decide(call, [facts EXCEPT !.human_reachable = TRUE]))

(* A call whose bound is spent does not run, reads included, wherever its  *)
(* rule stands in the table.                                               *)
SpentBoundNeverRuns ==
    \/ facts.cap_budget_breached
    \/ call.effect = "read" /\ facts.query_over
    \/ call.effect = "write" /\ facts.error_budget_breached
    => ~Runs(decide(call, facts))

(* A tainted external write runs on no facts whatever, the PIP's safer op  *)
(* included.                                                               *)
TaintedExternalWriteHeld ==
    call.tainted /\ call.external /\ call.effect = "write"
    => ~Runs(decide(call, facts))

(* enforce() reaches the connector only on a verb that the facts as they   *)
(* stand at revalidation would also let run: a premise gone stale between  *)
(* the two reads never does.                                               *)
StalePremiseNeverRuns ==
    pc = "revalidated" /\ Runs(effective) => Runs(decide(call, facts))

==============================================================================
