-------------------------- MODULE EnforcementProofs --------------------------
(***************************************************************************)
(* Theorems about Enforcement, for every number of callers, keys and       *)
(* principals, every cap and every bound on clears.                        *)
(***************************************************************************)
EXTENDS Enforcement, FiniteSetTheorems, TLAPS

(* Which points of enforce() an executed, an evicting and a keyed          *)
(* invocation can be at, and that an executed row names its outcome.       *)
Phases ==
    /\ \A a \in ran : /\ pc[a] \in {"saga", "burn", "commit", "settle", "returned",
                                    "raised", "crashed"}
                      /\ decision[a] \in Executing
    /\ \A a \in Attempts : pc[a] = "evict" => key[a] \in LegacyKeys
    /\ \A a \in Attempts :
          pc[a] \in {"get", "evict", "put", "reread", "unwind", "burn"} => key[a] \in Keys
    /\ \A a \in Attempts :
          pc[a] \in {"draw", "draw_tree", "execute"} => decision[a] \in Executing
    /\ \A k \in Keys : idem[k] = "legacy" => k \in LegacyKeys
    /\ \A k \in Keys : idem[k] = "executed" => resultOf[k] \in Attempts

-----------------------------------------------------------------------------
(* The type invariant and Phases are inductive together: a replay reads    *)
(* the decision of the invocation its row names.                           *)
LEMMA PhasesInductive == TypeOK /\ Phases /\ [Next]_vars => TypeOK' /\ Phases'
<1> SUFFICES ASSUME TypeOK, Phases, [Next]_vars PROVE TypeOK' /\ Phases'
  OBVIOUS
<1> USE EnforcementConstants
    DEF TypeOK, Phases, Kinds, Executing, IdemStatus, LedgerStatus, Steps, Final, Goto,
        callVars, rowVars, budgetVars, delete_idempotency
<1>1. ASSUME NEW a \in Attempts, Begin(a) PROVE TypeOK' /\ Phases'
  BY <1>1 DEF Begin
<1>2. ASSUME NEW a \in Attempts, GetIdempotency(a) PROVE TypeOK' /\ Phases'
  BY <1>2 DEF GetIdempotency, Answer, _settled_outcome
<1>3. ASSUME NEW a \in Attempts, EvictLegacy(a) PROVE TypeOK' /\ Phases'
  BY <1>3 DEF EvictLegacy
<1>4. ASSUME NEW a \in Attempts, PutIfAbsent(a) PROVE TypeOK' /\ Phases'
  BY <1>4 DEF PutIfAbsent
<1>5. ASSUME NEW a \in Attempts, RereadIdempotency(a) PROVE TypeOK' /\ Phases'
  BY <1>5 DEF RereadIdempotency, Answer, _settled_outcome
<1>6. ASSUME NEW a \in Attempts, FaultInClaim(a) PROVE TypeOK' /\ Phases'
  BY <1>6 DEF FaultInClaim
<1>7. ASSUME NEW a \in Attempts, Revalidate(a) PROVE TypeOK' /\ Phases'
  BY <1>7 DEF Revalidate, _pick_stricter
<1>8. ASSUME NEW a \in Attempts, DrawOwn(a) PROVE TypeOK' /\ Phases'
  BY <1>8 DEF DrawOwn, try_increment
<1>9. ASSUME NEW a \in Attempts, DrawTree(a) PROVE TypeOK' /\ Phases'
  BY <1>9 DEF DrawTree, try_increment
<1>10. ASSUME NEW a \in Attempts, WriteLedger(a) PROVE TypeOK' /\ Phases'
  BY <1>10 DEF WriteLedger
<1>11. ASSUME NEW a \in Attempts, FaultBeforeEffect(a) PROVE TypeOK' /\ Phases'
  BY <1>11 DEF FaultBeforeEffect
<1>12. ASSUME NEW a \in Attempts, Unwind(a) PROVE TypeOK' /\ Phases'
  BY <1>12 DEF Unwind
<1>13. ASSUME NEW a \in Attempts, Execute(a) PROVE TypeOK' /\ Phases'
  BY <1>13 DEF Execute
<1>14. ASSUME NEW a \in Attempts, Saga(a) PROVE TypeOK' /\ Phases'
  BY <1>14 DEF Saga
<1>15. ASSUME NEW a \in Attempts, FailClaim(a) PROVE TypeOK' /\ Phases'
  BY <1>15 DEF FailClaim
<1>16. ASSUME NEW a \in Attempts, CommitLedger(a) PROVE TypeOK' /\ Phases'
  BY <1>16 DEF CommitLedger
<1>17. ASSUME NEW a \in Attempts, CompleteClaim(a) PROVE TypeOK' /\ Phases'
  BY <1>17 DEF CompleteClaim
<1>18. ASSUME NEW a \in Attempts, ReleaseClaim(a) PROVE TypeOK' /\ Phases'
  BY <1>18 DEF ReleaseClaim
<1>19. ASSUME NEW a \in Attempts, ReturnUnkeyed(a) PROVE TypeOK' /\ Phases'
  BY <1>19 DEF ReturnUnkeyed
<1>20. ASSUME NEW a \in Attempts, Crash(a) PROVE TypeOK' /\ Phases'
  BY <1>20 DEF Crash, Running
<1>21. ASSUME NEW k \in Keys, OperatorClear(k) PROVE TypeOK' /\ Phases'
  BY <1>21 DEF OperatorClear
<1>22. CASE UNCHANGED vars
  BY <1>22 DEF vars
<1> QED
  BY <1>1, <1>2, <1>3, <1>4, <1>5, <1>6, <1>7, <1>8, <1>9, <1>10, <1>11, <1>12, <1>13, <1>14, <1>15, <1>16, <1>17, <1>18, <1>19, <1>20, <1>21, <1>22 DEF Next, StepOf, Quiescent

(* enforce() keeps every variable within its type. *)
THEOREM TypeCorrect == Spec => []TypeOK
<1>1. Init => TypeOK /\ Phases
  BY EnforcementConstants
     DEF Init, TypeOK, Phases, Kinds, IdemStatus, LedgerStatus, Steps, Final
<1> QED BY <1>1, PhasesInductive, PTL DEF Spec

-----------------------------------------------------------------------------
(* A set of invocations is finite, and its cardinality is a natural number *)
(* that grows by at most one with an element and shrinks with one less.    *)
LEMMA AttemptSets ==
    ASSUME NEW S \in SUBSET Attempts
    PROVE  /\ IsFiniteSet(S) /\ Cardinality(S) \in Nat
           /\ \A T \in SUBSET S : Cardinality(T) <= Cardinality(S)
           /\ \A a : Cardinality(S \cup {a}) <= Cardinality(S) + 1
           /\ \A a \in S : Cardinality(S \ {a}) = Cardinality(S) - 1
<1>1. IsFiniteSet(S)
  BY FS_Subset, EnforcementConstants
<1>2. Cardinality(S) \in Nat
  BY <1>1, FS_CardinalityType
<1>3. \A T \in SUBSET S : Cardinality(T) <= Cardinality(S)
  BY <1>1, FS_Subset
<1>4. \A a : Cardinality(S \cup {a}) <= Cardinality(S) + 1
  <2> TAKE a
  <2>1. Cardinality(S \cup {a}) = IF a \in S THEN Cardinality(S) ELSE Cardinality(S) + 1
    BY <1>1, FS_AddElement
  <2> QED BY <2>1, <1>2
<1>5. \A a \in S : Cardinality(S \ {a}) = Cardinality(S) - 1
  BY <1>1, FS_RemoveElement
<1> QED BY <1>1, <1>2, <1>3, <1>4, <1>5

Row(k) == IF idem[k] = "absent" THEN 0 ELSE 1

(* The accounting of one key survives a step that leaves the key's row     *)
(* present or alone and adds no accountable invocation.                    *)
LEMMA AccountingMonotone ==
    ASSUME TypeOK, TypeOK', NEW k \in Keys,
           Cardinality(Accountable(k)) <= clears[k] + Row(k),
           Accountable(k)' \subseteq Accountable(k),
           Row(k) <= Row(k)', clears[k]' = clears[k]
    PROVE  Cardinality(Accountable(k)') <= clears[k]' + Row(k)'
<1>1. Accountable(k) \in SUBSET Attempts
  BY DEF Accountable
<1>2. /\ Cardinality(Accountable(k)) \in Nat
      /\ Cardinality(Accountable(k)') <= Cardinality(Accountable(k))
  BY <1>1, AttemptSets
<1>3. Cardinality(Accountable(k)') \in Nat
  BY AttemptSets DEF Accountable
<1>4. clears[k] \in Nat /\ Row(k) \in 0..1 /\ Row(k)' \in 0..1
  BY DEF TypeOK, Row
<1> QED BY <1>2, <1>3, <1>4

(* A step that takes one accountable invocation off pays for the row it    *)
(* deletes.                                                                *)
LEMMA AccountingRelease ==
    ASSUME TypeOK, TypeOK', NEW k \in Keys, NEW a \in Accountable(k),
           Cardinality(Accountable(k)) <= clears[k] + Row(k),
           Accountable(k)' \subseteq Accountable(k) \ {a},
           clears[k]' = clears[k]
    PROVE  Cardinality(Accountable(k)') <= clears[k]' + Row(k)'
<1>1. Accountable(k) \in SUBSET Attempts /\ (Accountable(k) \ {a}) \in SUBSET Attempts
  BY DEF Accountable
<1>2. /\ Cardinality(Accountable(k)) \in Nat
      /\ Cardinality(Accountable(k) \ {a}) = Cardinality(Accountable(k)) - 1
  BY <1>1, AttemptSets
<1>3. Cardinality(Accountable(k)') <= Cardinality(Accountable(k) \ {a})
  BY <1>1, AttemptSets
<1>4. Cardinality(Accountable(k)') \in Nat
  BY AttemptSets DEF Accountable
<1>5. clears[k] \in Nat /\ Row(k) \in 0..1 /\ Row(k)' \in 0..1
  BY DEF TypeOK, Row
<1> QED BY <1>2, <1>3, <1>4, <1>5

(* Every step of enforce() keeps the accounting of every key that does not *)
(* start with a stored refusal.                                            *)
LEMMA AccountingInductive ==
    TypeOK /\ TypeOK' /\ Phases /\ ClaimAccounting /\ [Next]_vars => ClaimAccounting'
<1> SUFFICES ASSUME TypeOK, TypeOK', Phases, ClaimAccounting, [Next]_vars,
                    NEW k \in Keys \ LegacyKeys
             PROVE  Cardinality(Accountable(k)') <= clears[k]' + Row(k)'
  BY DEF ClaimAccounting, Row
<1> DEFINE Goal == Cardinality(Accountable(k)') <= clears[k]' + Row(k)'
           Shrinks == /\ Accountable(k)' \subseteq Accountable(k)
                      /\ Row(k) <= Row(k)' /\ clears[k]' = clears[k]
<1>0. Cardinality(Accountable(k)) <= clears[k] + Row(k)
  BY DEF ClaimAccounting, Row
<1>shrink. ASSUME Shrinks PROVE Goal
  BY <1>shrink, <1>0, AccountingMonotone
<1> HIDE DEF Goal
<1> USE EnforcementConstants
    DEF TypeOK, Phases, Accountable, Holding, Row, Goto, rowVars, budgetVars, callVars
<1>1. ASSUME NEW a \in Attempts, Begin(a) PROVE Goal
  BY <1>1, <1>shrink DEF Begin
<1>2. ASSUME NEW a \in Attempts, GetIdempotency(a) PROVE Goal
  BY <1>2, <1>shrink DEF GetIdempotency, Answer
<1>3. ASSUME NEW a \in Attempts, RereadIdempotency(a) PROVE Goal
  BY <1>3, <1>shrink DEF RereadIdempotency, Answer
<1>4. ASSUME NEW a \in Attempts, FaultInClaim(a) PROVE Goal
  BY <1>4, <1>shrink DEF FaultInClaim
<1>5. ASSUME NEW a \in Attempts, Revalidate(a) PROVE Goal
  BY <1>5, <1>shrink DEF Revalidate
<1>6. ASSUME NEW a \in Attempts, DrawOwn(a) PROVE Goal
  BY <1>6, <1>shrink DEF DrawOwn
<1>7. ASSUME NEW a \in Attempts, DrawTree(a) PROVE Goal
  BY <1>7, <1>shrink DEF DrawTree
<1>8. ASSUME NEW a \in Attempts, WriteLedger(a) PROVE Goal
  BY <1>8, <1>shrink DEF WriteLedger
<1>9. ASSUME NEW a \in Attempts, FaultBeforeEffect(a) PROVE Goal
  BY <1>9, <1>shrink DEF FaultBeforeEffect
<1>10. ASSUME NEW a \in Attempts, Saga(a) PROVE Goal
  BY <1>10, <1>shrink DEF Saga
<1>11. ASSUME NEW a \in Attempts, CommitLedger(a) PROVE Goal
  BY <1>11, <1>shrink DEF CommitLedger
<1>12. ASSUME NEW a \in Attempts, ReturnUnkeyed(a) PROVE Goal
  BY <1>12, <1>shrink DEF ReturnUnkeyed
<1>13. ASSUME NEW a \in Attempts, Crash(a) PROVE Goal
  BY <1>13, <1>shrink DEF Crash, Running, Steps
<1>14. ASSUME NEW a \in Attempts, FailClaim(a) PROVE Goal
  BY <1>14, <1>shrink DEF FailClaim
<1>15. ASSUME NEW a \in Attempts, CompleteClaim(a) PROVE Goal
  BY <1>15, <1>shrink DEF CompleteClaim
<1>16. ASSUME NEW a \in Attempts, Execute(a) PROVE Goal
  BY <1>16, <1>shrink DEF Execute
<1>17. ASSUME NEW a \in Attempts, EvictLegacy(a) PROVE Goal
  BY <1>17, <1>shrink DEF EvictLegacy, delete_idempotency
<1>18. ASSUME NEW a \in Attempts, PutIfAbsent(a) PROVE Goal
  <2>1. CASE key[a] # k \/ idem[k] # "absent"
    BY <1>18, <2>1, <1>shrink DEF PutIfAbsent
  <2>2. CASE key[a] = k /\ idem[k] = "absent"
    <3>1. /\ Accountable(k)' \subseteq Accountable(k) \cup {a}
          /\ Row(k) = 0 /\ Row(k)' = 1 /\ clears[k]' = clears[k]
      BY <1>18, <2>2 DEF PutIfAbsent
    <3>2. /\ Accountable(k) \in SUBSET Attempts
          /\ Accountable(k) \cup {a} \in SUBSET Attempts
      OBVIOUS
    <3>3. /\ Cardinality(Accountable(k)) \in Nat
          /\ Cardinality(Accountable(k) \cup {a}) <= Cardinality(Accountable(k)) + 1
          /\ Cardinality(Accountable(k) \cup {a}) \in Nat
          /\ Cardinality(Accountable(k)') <= Cardinality(Accountable(k) \cup {a})
          /\ Cardinality(Accountable(k)') \in Nat
      BY <3>1, <3>2, AttemptSets
    <3>4. clears[k] \in Nat
      OBVIOUS
    <3> QED
      BY <1>0, <3>1, <3>3, <3>4 DEF Goal
  <2> QED BY <2>1, <2>2
<1>19. ASSUME NEW a \in Attempts, Unwind(a) PROVE Goal
  <2>1. CASE key[a] # k
    BY <1>19, <2>1, <1>shrink DEF Unwind, delete_idempotency
  <2>2. CASE key[a] = k
    <3>1. a \in Accountable(k) /\ a \notin ran
      BY <1>19, <2>2 DEF Unwind
    <3>2. Accountable(k)' \subseteq Accountable(k) \ {a} /\ clears[k]' = clears[k]
      BY <1>19, <2>2, <3>1 DEF Unwind
    <3> QED
      BY <1>0, <3>1, <3>2, AccountingRelease DEF Goal
  <2> QED BY <2>1, <2>2
<1>20. ASSUME NEW a \in Attempts, ReleaseClaim(a) PROVE Goal
  <2>1. CASE key[a] # k
    BY <1>20, <2>1, <1>shrink DEF ReleaseClaim, delete_idempotency
  <2>2. CASE key[a] = k
    <3>1. a \in Accountable(k) /\ a \notin ran
      BY <1>20, <2>2 DEF ReleaseClaim
    <3>2. Accountable(k)' \subseteq Accountable(k) \ {a} /\ clears[k]' = clears[k]
      BY <1>20, <2>2, <3>1 DEF ReleaseClaim
    <3> QED
      BY <1>0, <3>1, <3>2, AccountingRelease DEF Goal
  <2> QED BY <2>1, <2>2
<1>21. ASSUME NEW j \in Keys, OperatorClear(j) PROVE Goal
  <2>1. CASE j # k
    BY <1>21, <2>1, <1>shrink DEF OperatorClear, delete_idempotency
  <2>2. CASE j = k
    <3>1. /\ Accountable(k)' \subseteq Accountable(k)
          /\ Row(k) = 1 /\ Row(k)' = 0 /\ clears[k]' = clears[k] + 1
      BY <1>21, <2>2 DEF OperatorClear, delete_idempotency
    <3>2. /\ Cardinality(Accountable(k)) \in Nat /\ clears[k] \in Nat
          /\ Cardinality(Accountable(k)') <= Cardinality(Accountable(k))
          /\ Cardinality(Accountable(k)') \in Nat
      BY <3>1, AttemptSets
    <3> QED
      BY <1>0, <3>1, <3>2 DEF Goal
  <2> QED BY <2>1, <2>2
<1>22. ASSUME UNCHANGED vars PROVE Goal
  BY <1>22, <1>shrink DEF vars
<1> QED
  BY <1>1, <1>2, <1>3, <1>4, <1>5, <1>6, <1>7, <1>8, <1>9, <1>10, <1>11, <1>12, <1>13, <1>14, <1>15, <1>16, <1>17, <1>18, <1>19, <1>20, <1>21, <1>22 DEF Next, StepOf, Quiescent, Goal

(* The accounting of claims is an invariant: whatever callers, faults and  *)
(* crashes interleave, a key answers for at most one more invocation than  *)
(* an operator has cleared.                                                *)
THEOREM ClaimsAccounted == Spec => []ClaimAccounting
<1>1. Init => TypeOK /\ Phases
  BY EnforcementConstants
     DEF Init, TypeOK, Phases, Kinds, IdemStatus, LedgerStatus, Steps, Final
<1>2. Init => ClaimAccounting
  <2> SUFFICES ASSUME Init, NEW k \in Keys \ LegacyKeys
               PROVE  Cardinality(Accountable(k)) <= clears[k]
                                    + IF idem[k] = "absent" THEN 0 ELSE 1
    BY DEF ClaimAccounting
  <2>1. Accountable(k) = {}
    BY DEF Init, Accountable, Holding
  <2> QED BY <2>1, FS_EmptySet DEF Init
<1> QED BY <1>1, <1>2, PhasesInductive, AccountingInductive, PTL DEF Spec

(* enforce() attempts the effect of a key at most once, and once more for  *)
(* each operator clear: the row, when there is one, stands for one of the  *)
(* accountable invocations, which include all that executed.               *)
THEOREM AtMostOnce == Spec => []AtMostOncePerKey
<1>1. TypeOK /\ ClaimAccounting => AtMostOncePerKey
  <2> SUFFICES ASSUME TypeOK, ClaimAccounting, NEW k \in Keys \ LegacyKeys
               PROVE  Cardinality(RanUnder(k)) <= 1 + clears[k]
    BY DEF AtMostOncePerKey
  <2>1. Accountable(k) \in SUBSET Attempts /\ RanUnder(k) \in SUBSET Accountable(k)
    BY DEF Accountable, RanUnder, TypeOK
  <2>2. /\ Cardinality(RanUnder(k)) \in Nat /\ Cardinality(Accountable(k)) \in Nat
        /\ Cardinality(RanUnder(k)) <= Cardinality(Accountable(k))
    BY <2>1, AttemptSets
  <2>3. clears[k] \in Nat /\ Cardinality(Accountable(k)) <= clears[k] + Row(k)
    BY DEF TypeOK, ClaimAccounting, Row
  <2> QED BY <2>2, <2>3 DEF Row
<1> QED BY <1>1, TypeCorrect, ClaimsAccounted, PTL
==============================================================================
