----------------------------- MODULE Enforcement -----------------------------
(***************************************************************************)
(* enforce() of broker/enforcement/engine.py over an EnforcementStore: the *)
(* wrapper between a PDP decision and the connector that performs it.      *)
(*                                                                         *)
(* An element of Attempts is one invocation of enforce().  Invocations run *)
(* concurrently in any number of broker processes over one store; a step   *)
(* of an invocation is one store call (each is atomic: a lock, a           *)
(* transaction or a conditional write) with the local code around it.      *)
(* Every store call may raise, the connector may raise with its effect     *)
(* landed or not, a process may die between any two steps, and an operator *)
(* may clear a claim with delete_idempotency.                              *)
(***************************************************************************)
EXTENDS Integers, FiniteSets

CONSTANTS
    Attempts,      \* invocations of enforce()
    Keys,          \* idempotency keys callers supply
    NoKey,         \* idempotency_key=None: the call skips the claim
    Nobody,        \* no invocation
    Principals,    \* acting principals of one delegation tree
    PrincipalOf,   \* the principal each invocation acts for
    Reversible,    \* the invocations whose manifest.reversible is True
    Caps,          \* the caps a deployment may boot with
    LegacyKeys,    \* keys whose row an older broker left as a stored refusal
    Verbs,         \* the verbs decide() answers in the instance
    MaxClears      \* bound: operator clears per key

(* The five verbs of schemas/decision.py. *)
Kinds == {"allow", "transform", "require_approval", "abstain", "deny"}
Executing == {"allow", "transform"}

ASSUME EnforcementConstants ==
    /\ IsFiniteSet(Attempts)
    /\ NoKey \notin Keys
    /\ Nobody \notin Attempts
    /\ PrincipalOf \in [Attempts -> Principals]
    /\ Reversible \subseteq Attempts
    /\ Caps \subseteq [own : Nat, tree : Nat]
    /\ LegacyKeys \subseteq Keys
    /\ Verbs \subseteq Kinds
    /\ MaxClears \in Nat

VARIABLES
    pc,        \* where each invocation stands
    key,       \* the idempotency key it was called with
    decision,  \* initial_decision, and from the revalidation on `effective`
    idem,      \* status of the idempotency row of each key
    resultOf,  \* the invocation whose outcome an executed row replays
    counter,   \* spent on each principal's own counter
    pool,      \* spent on the tree pool
    caps,      \* counter_cap, each principal's own, and the pool's; set at boot
    ledger,    \* status of the ledger entry each invocation writes
    ran,       \* invocations whose executor has been called
    clears     \* operator clears of each key so far

callVars == <<pc, key, decision>>
rowVars == <<idem, resultOf>>
budgetVars == <<counter, pool, caps>>
vars == <<pc, key, decision, idem, resultOf, counter, pool, caps, ledger, ran,
          clears>>

(* Their order of strictness. *)
_STRICTNESS(kind) ==
    CASE kind = "allow" -> 0
      [] kind = "transform" -> 1
      [] kind = "require_approval" -> 2
      [] kind = "abstain" -> 3
      [] kind = "deny" -> 4

_pick_stricter(a, b) == IF _STRICTNESS(b) > _STRICTNESS(a) THEN b ELSE a

(* "legacy" is a row an older broker wrote for a call it did not execute;  *)
(* its stored status reads back as executed and its decision as a refusal. *)
IdemStatus == {"absent", "in_flight", "executed", "failed", "legacy"}
LedgerStatus == {"none", "uncommitted", "committed", "compensated", "escalated"}

(* Final points: "refused" answers a deny from the row alone, "replayed"   *)
(* the stored outcome, "returned" the effective decision and "leaked" the  *)
(* same with the claim not released for a store fault; "raised" is an      *)
(* exception and "crashed" the death of the process.                       *)
Final == {"refused", "replayed", "returned", "leaked", "raised", "crashed"}
Steps == {"get", "evict", "put", "reread", "revalidate", "draw", "draw_tree",
          "journal", "unwind", "execute", "saga", "burn", "commit", "settle"}
Running(a) == pc[a] \in Steps

(***************************************************************************)
(* The rows.  try_increment(spent, cap) is the compare-and-set condition.  *)
(***************************************************************************)
try_increment_off_by_one(spent, cap) == spent <= cap
try_increment(spent, cap) == spent + 1 <= cap

delete_idempotency(k) ==
    /\ idem' = [idem EXCEPT ![k] = "absent"]
    /\ resultOf' = [resultOf EXCEPT ![k] = Nobody]

Goto(a, label) == pc' = [pc EXCEPT ![a] = label]

-----------------------------------------------------------------------------
Init ==
    /\ pc = [a \in Attempts |-> "idle"]
    /\ key = [a \in Attempts |-> NoKey]
    /\ decision = [a \in Attempts |-> "deny"]
    /\ idem = [k \in Keys |-> IF k \in LegacyKeys THEN "legacy" ELSE "absent"]
    /\ resultOf = [k \in Keys |-> Nobody]
    /\ counter = [p \in Principals |-> 0]
    /\ pool = 0
    /\ caps \in Caps
    /\ ledger = [a \in Attempts |-> "none"]
    /\ ran = {}
    /\ clears = [k \in Keys |-> 0]

(* The PEP calls enforce() with the decision decide() gave it. *)
Begin(a) ==
    /\ pc[a] = "idle"
    /\ \E k \in Keys \cup {NoKey}, d \in Verbs :
          /\ key' = [key EXCEPT ![a] = k]
          /\ decision' = [decision EXCEPT ![a] = d]
          /\ Goto(a, IF k = NoKey THEN "revalidate" ELSE "get")
    /\ UNCHANGED <<rowVars, budgetVars, ledger, ran, clears>>

(* _settled_outcome: where a row sends its reader. *)
_settled_outcome_retries_failed(status) ==
    CASE status = "in_flight" -> "refused"
      [] status = "executed" -> "replayed"
      [] status \in {"legacy", "failed"} -> "evict"
      [] status = "absent" -> "none"
_settled_outcome(status) ==
    CASE status \in {"in_flight", "failed"} -> "refused"
      [] status = "executed" -> "replayed"
      [] status = "legacy" -> "evict"
      [] status = "absent" -> "none"

(* Return from step 1: a deny, or the decision the row's outcome had. *)
Answer(a, how) ==
    /\ Goto(a, how)
    /\ decision' = [decision EXCEPT ![a] =
          IF how = "replayed" THEN decision[resultOf[key[a]]] ELSE "deny"]

(* Step 1: read the row ... *)
GetIdempotency(a) ==
    /\ pc[a] = "get"
    /\ LET settled == _settled_outcome(idem[key[a]])
       IN  \/ idem[key[a]] = "absent" /\ Goto(a, "put") /\ UNCHANGED decision
           \/ settled = "evict" /\ Goto(a, "evict") /\ UNCHANGED decision
           \/ settled \in {"refused", "replayed"} /\ Answer(a, settled)
    /\ UNCHANGED <<key, rowVars, budgetVars, ledger, ran, clears>>

(* ... drop a stored refusal (the delete is unconditional) ... *)
EvictLegacy(a) ==
    /\ pc[a] = "evict"
    /\ delete_idempotency(key[a])
    /\ Goto(a, "put")
    /\ UNCHANGED <<key, decision, budgetVars, ledger, ran, clears>>

(* ... claim the key with a conditional put ... *)
PutIfAbsent_unconditional(a) ==
    /\ pc[a] = "put"
    /\ idem' = [idem EXCEPT ![key[a]] = "in_flight"]
    /\ Goto(a, "revalidate")
    /\ UNCHANGED <<key, decision, resultOf, budgetVars, ledger, ran, clears>>
PutIfAbsent(a) ==
    /\ pc[a] = "put"
    /\ IF idem[key[a]] = "absent"
       THEN /\ idem' = [idem EXCEPT ![key[a]] = "in_flight"]
            /\ Goto(a, "revalidate")
       ELSE /\ idem' = idem
            /\ Goto(a, "reread")
    /\ UNCHANGED <<key, decision, resultOf, budgetVars, ledger, ran, clears>>

(* ... and, when the put lost, answer from the row or refuse. *)
RereadIdempotency(a) ==
    /\ pc[a] = "reread"
    /\ Answer(a, IF _settled_outcome(idem[key[a]]) = "replayed"
                 THEN "replayed" ELSE "refused")
    /\ UNCHANGED <<key, rowVars, budgetVars, ledger, ran, clears>>

(* Step 2: fresh_facts and decider are parameters of enforce(); they may   *)
(* answer any verb, and the stricter of the two decisions is effective.    *)
Revalidate(a) ==
    /\ pc[a] = "revalidate"
    /\ \E fresh \in Verbs :
          LET effective == _pick_stricter(decision[a], fresh)
          IN  /\ decision' = [decision EXCEPT ![a] = effective]
              /\ Goto(a, IF effective \in Executing THEN "draw" ELSE "journal")
    /\ UNCHANGED <<key, rowVars, budgetVars, ledger, ran, clears>>

(* Step 3: the principal's own counter first ... *)
DrawOwn(a) ==
    /\ pc[a] = "draw"
    /\ LET p == PrincipalOf[a]
       IN  IF try_increment(counter[p], caps.own)
           THEN /\ counter' = [counter EXCEPT ![p] = @ + 1]
                /\ Goto(a, "draw_tree")
                /\ UNCHANGED decision
           ELSE /\ decision' = [decision EXCEPT ![a] = "deny"]
                /\ Goto(a, "journal")
                /\ UNCHANGED counter
    /\ UNCHANGED <<key, rowVars, pool, caps, ledger, ran, clears>>

(* ... then the tree pool; a refusal here leaves the first draw spent. *)
DrawTree_add_then_compare(a) ==
    /\ pc[a] = "draw_tree"
    /\ Goto(a, "journal")
    /\ pool' = pool + 1
    /\ IF pool' <= caps.tree THEN UNCHANGED decision
       ELSE decision' = [decision EXCEPT ![a] = "deny"]
    /\ UNCHANGED <<key, rowVars, counter, caps, ledger, ran, clears>>
DrawTree(a) ==
    /\ pc[a] = "draw_tree"
    /\ Goto(a, "journal")
    /\ IF try_increment(pool, caps.tree)
       THEN pool' = pool + 1 /\ UNCHANGED decision
       ELSE decision' = [decision EXCEPT ![a] = "deny"] /\ UNCHANGED pool
    /\ UNCHANGED <<key, rowVars, counter, caps, ledger, ran, clears>>

(* Step 4: the ledger entry is durable before anything executes. *)
WriteLedger(a) ==
    /\ pc[a] = "journal"
    /\ ledger' = [ledger EXCEPT ![a] = "uncommitted"]
    /\ Goto(a, CASE decision[a] \in Executing -> "execute"
                 [] decision[a] = "require_approval" -> "settle"
                 [] OTHER -> "commit")
    /\ UNCHANGED <<key, decision, rowVars, budgetVars, ran, clears>>

(* A fault in steps 2 to 4 executed nothing: the claim is released. *)
FaultBeforeEffect(a) ==
    /\ pc[a] \in {"revalidate", "draw", "draw_tree", "journal"}
    /\ Goto(a, IF key[a] = NoKey THEN "raised" ELSE "unwind")
    /\ UNCHANGED <<key, decision, rowVars, budgetVars, ledger, ran, clears>>

(* _release_claim on that path; its own store fault is logged and dropped. *)
Unwind(a) ==
    /\ pc[a] = "unwind"
    /\ delete_idempotency(key[a]) \/ UNCHANGED rowVars
    /\ Goto(a, "raised")
    /\ UNCHANGED <<key, decision, budgetVars, ledger, ran, clears>>

(* Step 5: the executor returns, or raises with the effect landed or not. *)
Execute(a) ==
    /\ pc[a] = "execute"
    /\ ran' = ran \cup {a}
    /\ Goto(a, "commit") \/ Goto(a, "saga")
    /\ UNCHANGED <<key, decision, rowVars, budgetVars, ledger, clears>>

(* The executor raised: compensate or escalate the entry (not guarded: a   *)
(* store fault here leaves before the claim is marked failed) ...          *)
Saga_drops_fault(a) ==
    /\ pc[a] = "saga"
    /\ \/ ledger' = [ledger EXCEPT ![a] =
                       IF a \in Reversible THEN "compensated" ELSE "escalated"]
       \/ UNCHANGED ledger
    /\ Goto(a, IF key[a] = NoKey THEN "raised" ELSE "burn")
    /\ UNCHANGED <<key, decision, rowVars, budgetVars, ran, clears>>
Saga(a) ==
    /\ pc[a] = "saga"
    /\ \/ /\ ledger' = [ledger EXCEPT ![a] =
                          IF a \in Reversible THEN "compensated" ELSE "escalated"]
          /\ Goto(a, IF key[a] = NoKey THEN "raised" ELSE "burn")
       \/ Goto(a, "raised") /\ UNCHANGED ledger
    /\ UNCHANGED <<key, decision, rowVars, budgetVars, ran, clears>>

(* ... and burn the key; fail_idempotency only moves an in_flight row, and *)
(* its fault is logged and dropped.                                        *)
FailClaim_releases(a) ==
    /\ pc[a] = "burn"
    /\ delete_idempotency(key[a])
    /\ Goto(a, "raised")
    /\ UNCHANGED <<key, decision, budgetVars, ledger, ran, clears>>
FailClaim(a) ==
    /\ pc[a] = "burn"
    /\ \/ idem[key[a]] = "in_flight" /\ idem' = [idem EXCEPT ![key[a]] = "failed"]
       \/ UNCHANGED idem
    /\ Goto(a, "raised")
    /\ UNCHANGED <<key, decision, resultOf, budgetVars, ledger, ran, clears>>

(* commit_ledger after an execution or a refusal; its fault propagates. *)
CommitLedger_drops_fault(a) ==
    /\ pc[a] = "commit"
    /\ ledger' = [ledger EXCEPT ![a] = "committed"] \/ UNCHANGED ledger
    /\ Goto(a, "settle")
    /\ UNCHANGED <<key, decision, rowVars, budgetVars, ran, clears>>
CommitLedger(a) ==
    /\ pc[a] = "commit"
    /\ \/ ledger' = [ledger EXCEPT ![a] = "committed"] /\ Goto(a, "settle")
       \/ Goto(a, "raised") /\ UNCHANGED ledger
    /\ UNCHANGED <<key, decision, rowVars, budgetVars, ran, clears>>

(* Step 6, an executed outcome: complete_idempotency only moves an         *)
(* in_flight row, and its fault propagates.                                *)
CompleteClaim(a) ==
    /\ pc[a] = "settle" /\ key[a] # NoKey /\ decision[a] \in Executing
    /\ \/ /\ Goto(a, "returned")
          /\ IF idem[key[a]] = "in_flight"
             THEN /\ idem' = [idem EXCEPT ![key[a]] = "executed"]
                  /\ resultOf' = [resultOf EXCEPT ![key[a]] = a]
             ELSE UNCHANGED rowVars
       \/ Goto(a, "raised") /\ UNCHANGED rowVars
    /\ UNCHANGED <<key, decision, budgetVars, ledger, ran, clears>>

(* Step 6, any other outcome: release the claim; a fault is dropped. *)
ReleaseClaim_keeps_row(a) ==
    /\ pc[a] = "settle" /\ key[a] # NoKey /\ decision[a] \notin Executing
    /\ Goto(a, "returned")
    /\ UNCHANGED <<key, decision, rowVars, budgetVars, ledger, ran, clears>>
ReleaseClaim(a) ==
    /\ pc[a] = "settle" /\ key[a] # NoKey /\ decision[a] \notin Executing
    /\ \/ delete_idempotency(key[a]) /\ Goto(a, "returned")
       \/ UNCHANGED rowVars /\ Goto(a, "leaked")
    /\ UNCHANGED <<key, decision, budgetVars, ledger, ran, clears>>

(* Step 6 without a key: nothing to settle. *)
ReturnUnkeyed(a) ==
    /\ pc[a] = "settle" /\ key[a] = NoKey
    /\ Goto(a, "returned")
    /\ UNCHANGED <<key, decision, rowVars, budgetVars, ledger, ran, clears>>

(* A get or put of step 1 that raises has claimed nothing. *)
FaultInClaim(a) ==
    /\ pc[a] \in {"get", "evict", "put", "reread"}
    /\ Goto(a, "raised")
    /\ UNCHANGED <<key, decision, rowVars, budgetVars, ledger, ran, clears>>

Crash(a) ==
    /\ Running(a)
    /\ Goto(a, "crashed")
    /\ UNCHANGED <<key, decision, rowVars, budgetVars, ledger, ran, clears>>

(* The operator's clearing path for a stranded claim; nothing stops the    *)
(* operator from clearing one whose owner is alive.                        *)
OperatorClear(k) ==
    /\ idem[k] = "in_flight"
    /\ clears[k] < MaxClears
    /\ delete_idempotency(k)
    /\ clears' = [clears EXCEPT ![k] = @ + 1]
    /\ UNCHANGED <<callVars, budgetVars, ledger, ran>>

(* Every invocation has answered. *)
Quiescent == (\A a \in Attempts : pc[a] \in Final) /\ UNCHANGED vars

StepOf(a) ==
    \/ GetIdempotency(a) \/ EvictLegacy(a) \/ PutIfAbsent(a) \/ RereadIdempotency(a)
    \/ FaultInClaim(a)
    \/ Revalidate(a) \/ DrawOwn(a) \/ DrawTree(a) \/ WriteLedger(a)
    \/ FaultBeforeEffect(a) \/ Unwind(a)
    \/ Execute(a) \/ Saga(a) \/ FailClaim(a)
    \/ CommitLedger(a) \/ CompleteClaim(a) \/ ReleaseClaim(a) \/ ReturnUnkeyed(a)

Next ==
    \/ \E a \in Attempts : Begin(a) \/ StepOf(a) \/ Crash(a)
    \/ \E k \in Keys : OperatorClear(k)
    \/ Quiescent

Spec == Init /\ [][Next]_vars

(* A process that is alive keeps running its code; nothing obliges it to   *)
(* crash or the operator to clear a row.                                   *)
FairSpec == Spec /\ \A a \in Attempts : WF_vars(StepOf(a))

-----------------------------------------------------------------------------
(* Every invocation stands at a point of enforce() and holds one of the    *)
(* five verbs; every row and ledger entry has a status its type lists.     *)
TypeOK ==
    /\ pc \in [Attempts -> {"idle"} \cup Steps \cup Final]
    /\ key \in [Attempts -> Keys \cup {NoKey}]
    /\ decision \in [Attempts -> Kinds]
    /\ idem \in [Keys -> IdemStatus]
    /\ resultOf \in [Keys -> Attempts \cup {Nobody}]
    /\ counter \in [Principals -> Nat]
    /\ pool \in Nat
    /\ caps \in Caps
    /\ ledger \in [Attempts -> LedgerStatus]
    /\ ran \subseteq Attempts
    /\ clears \in [Keys -> Nat]

RanUnder(k) == {a \in ran : key[a] = k}

(* enforce() calls the executor at most once under an idempotency key, and *)
(* once more at most for every time an operator has cleared the key's      *)
(* claim, whatever the interleaving of callers, faults and crashes.  Not   *)
(* claimed for a key that starts with a stored refusal: EvictLegacy        *)
(* deletes the row without a condition, a claim made since included.       *)
AtMostOncePerKey ==
    \A k \in Keys \ LegacyKeys : Cardinality(RanUnder(k)) <= 1 + clears[k]

(* The invocations a key is accountable for: those that hold a claim on it *)
(* and have not given it back, and those that have executed under it.      *)
Holding == {"revalidate", "draw", "draw_tree", "journal", "unwind", "execute",
            "commit", "settle"}
Accountable(k) == {a \in Attempts : key[a] = k /\ (a \in ran \/ pc[a] \in Holding)}

(* Why AtMostOncePerKey holds: a key's row stands for one accountable      *)
(* invocation, and only an operator's clear takes the row of one that is   *)
(* still accountable.  Releasing, burning and completing keep the balance  *)
(* even when the row they hit is another caller's.                         *)
ClaimAccounting ==
    \A k \in Keys \ LegacyKeys :
        Cardinality(Accountable(k)) <= clears[k] + IF idem[k] = "absent" THEN 0 ELSE 1

(* The counters drawn before execution bound what executes: a principal's  *)
(* calls stay within its own cap and all principals of the tree together   *)
(* within the pool's, even though the two draws are not atomic as a group. *)
ExecutionsWithinBudget ==
    /\ \A p \in Principals :
          Cardinality({a \in ran : PrincipalOf[a] = p}) <= caps.own
    /\ Cardinality(ran) <= caps.tree

(* The invocations past both draws that no budget refused. *)
Unrefused ==
    {a \in Attempts :
        /\ decision[a] \in Executing
        /\ pc[a] \notin {"idle", "get", "evict", "put", "reread", "revalidate",
                         "draw", "draw_tree", "refused", "replayed"}}

(* A call some budget refuses never spends the pool its siblings share:    *)
(* the own counter is drawn first so that the over-charge of a refusal     *)
(* lands on the single child.                                              *)
RefusedCallSparesPool == pool <= Cardinality(Unrefused)

(* What a replay hands back is the outcome of an invocation that really    *)
(* executed under that very key and whose ledger entry is committed.       *)
ReplayBackedByLedger ==
    \A k \in Keys : idem[k] = "executed" =>
        \E a \in RanUnder(k) : resultOf[k] = a /\ ledger[a] = "committed"

(* A burned key always leaves an entry for the saga to pick up: escalated  *)
(* for an irreversible call and compensated for a reversible one.          *)
BurnedKeyJournalled ==
    \A k \in Keys : idem[k] = "failed" =>
        \E a \in RanUnder(k) :
            ledger[a] = IF a \in Reversible THEN "compensated" ELSE "escalated"

(* A settled row is never reopened by enforce() itself: what was executed  *)
(* keeps replaying and a burned key stays burned, unless an operator has   *)
(* cleared the key's claim before.                                         *)
SettledRowIsFinal ==
    [][\A k \in Keys \ LegacyKeys :
          (idem[k] \in {"executed", "failed"} /\ clears[k] = 0) =>
              idem'[k] = idem[k] /\ resultOf'[k] = resultOf[k]]_vars

(* A claim blocks its key only while its owner runs, unless a crash or a   *)
(* store fault stranded it; there is no other way to lose a key.           *)
Stranded(k) == \E a \in Attempts : key[a] = k /\ pc[a] \in {"crashed", "raised", "leaked"}
LiveClaimSettles ==
    \A k \in Keys : idem[k] = "in_flight" ~> (idem[k] # "in_flight" \/ Stranded(k))

(* Without operator clears, enforce() implements the abstract key of       *)
(* KeyedEffect on every key that does not start with a stored refusal: a   *)
(* claimed key is given back only when nothing was attempted under it, and *)
(* a settled one never again.                                              *)
FreshKeys == Keys \ LegacyKeys
EffectPerKey == INSTANCE KeyedEffect
    WITH Keys <- FreshKeys,
         status <- [k \in FreshKeys |-> idem[k]],
         attempts <- [k \in FreshKeys |-> Cardinality(RanUnder(k))]
ImplementsKeyedEffect == EffectPerKey!KeySpec

=============================================================================
