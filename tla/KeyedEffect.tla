----------------------------- MODULE KeyedEffect -----------------------------
(***************************************************************************)
(* What an idempotency key promises its callers, with no caller, store or  *)
(* fault in sight: under one key the side effect is attempted at most once.*)
(* A key is free, taken, or settled for good; it is given back only while  *)
(* nothing has been attempted under it.                                    *)
(***************************************************************************)
EXTENDS Naturals

CONSTANT Keys

VARIABLES
    status,    \* of each key
    attempts   \* how often the effect was attempted under each key

kvars == <<status, attempts>>

KeyInit ==
    /\ status = [k \in Keys |-> "absent"]
    /\ attempts = [k \in Keys |-> 0]

Claim(k) ==
    /\ status[k] = "absent" /\ attempts[k] = 0
    /\ status' = [status EXCEPT ![k] = "in_flight"]
    /\ UNCHANGED attempts

Attempt(k) ==
    /\ status[k] = "in_flight" /\ attempts[k] = 0
    /\ attempts' = [attempts EXCEPT ![k] = 1]
    /\ UNCHANGED status

Settle(k) ==
    /\ status[k] = "in_flight" /\ attempts[k] = 1
    /\ \E final \in {"executed", "failed"} :
          status' = [status EXCEPT ![k] = final]
    /\ UNCHANGED attempts

GiveBack(k) ==
    /\ status[k] = "in_flight" /\ attempts[k] = 0
    /\ status' = [status EXCEPT ![k] = "absent"]
    /\ UNCHANGED attempts

KeyNext == \E k \in Keys : Claim(k) \/ Attempt(k) \/ Settle(k) \/ GiveBack(k)

KeySpec == KeyInit /\ [][KeyNext]_kvars
==============================================================================
