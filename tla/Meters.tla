------------------------------- MODULE Meters -------------------------------
(***************************************************************************)
(* What the PEP meters around an execution: the bytes a read's composed    *)
(* argument sends out, the error budget a write draws, the breach signal,  *)
(* and the observation label (_executor of runtime/pep.py), against the    *)
(* two readings of the counters that gate a call (the PIP, at the decision *)
(* and again at enforce()'s revalidation).  Held calls that a human lets   *)
(* go take the release path of approve_intent, which has an observation    *)
(* label and no other meter.                                               *)
(*                                                                         *)
(* One read op and one write op of one principal, each with its counter    *)
(* per period.  A broker serves its calls one at a time (Width = 1: its    *)
(* server must be single-threaded), but the counters are in the shared     *)
(* store, where another broker process of the same principal draws them    *)
(* too (Width > 1); the meter's comment speaks of racers.  Budgets the PDP *)
(* has besides these are off.                                              *)
(***************************************************************************)
EXTENDS Integers, FiniteSets, FiniteSetsExt

CONSTANTS
    Reads, Writes, \* the calls, by the op they are of
    Held,          \* the calls a human releases; the others run inline
    Cost,          \* the bytes a read sends, the budget a write draws
    Width,         \* calls in flight at a time
    EgressBudget,  \* Envelope.query_egress_budget
    Tolerance,     \* the confidence knob's error_budget_tolerance
    Faulty,        \* the calls a counter fault may hit
    LastPeriod     \* bound on counter periods

Calls == Reads \cup Writes
Periods == 0..LastPeriod
NoKey == -1

ASSUME MetersAssumption ==
    /\ IsFiniteSet(Reads) /\ IsFiniteSet(Writes) /\ Reads \cap Writes = {}
    /\ Reads # {} /\ Writes # {}
    /\ Held \subseteq Calls /\ Faulty \subseteq Calls
    /\ Cost \in [Calls -> Nat \ {0}]
    /\ Width \in Nat \ {0} /\ LastPeriod \in Nat
    /\ EgressBudget \in Nat /\ Tolerance \in Nat \ {0}

VARIABLES
    period,       \* current_period_bucket
    pc,           \* where each call stands
    key,          \* the period a write's error-budget key was derived in
    queryBytes,   \* the query_bytes counter, by period
    errorSpent,   \* the error_budget counter, by period
    observations, \* the observations counter, by period
    signals,      \* DemotionSignals fired, by the crossing's period and the named
    raced         \* history: the periods two writes drew in before a reading back

vars == <<period, pc, key, queryBytes, errorSpent, observations, signals, raced>>
counters == <<queryBytes, errorSpent, observations>>

InFlight == {"decided", "cleared", "executed", "metered", "drawn", "observing"}
Running == {c \in Calls : pc[c] \in InFlight}

Goto(c, point) == pc' = [pc EXCEPT ![c] = point]

Init ==
    /\ period = 0
    /\ pc = [c \in Calls |-> "new"]
    /\ key = [c \in Calls |-> NoKey]
    /\ queryBytes = [b \in Periods |-> 0]
    /\ errorSpent = [b \in Periods |-> 0]
    /\ observations = [b \in Periods |-> 0]
    /\ signals = [b \in Periods |-> [n \in Periods |-> 0]]
    /\ raced = {}

(* The facts the PIP reads of the two counters, and the rules on them. *)
breached_past(c) ==
    IF c \in Reads THEN queryBytes[period] > EgressBudget
                   ELSE errorSpent[period] > Tolerance
breached(c) ==
    IF c \in Reads THEN queryBytes[period] >= EgressBudget
                   ELSE errorSpent[period] >= Tolerance

(* The first decision of an inline call.  A held call had it long ago.     *)
Decide(c) ==
    /\ pc[c] = "new" /\ Cardinality(Running) < Width
    /\ IF c \notin Held /\ breached(c) THEN Goto(c, "refused") ELSE Goto(c, "decided")
    /\ UNCHANGED <<period, key, counters, signals, raced>>

(* enforce() reads the facts again, inline and on release.                 *)
Revalidate(c) ==
    /\ pc[c] = "decided"
    /\ IF breached(c) THEN Goto(c, "refused") ELSE Goto(c, "cleared")
    /\ UNCHANGED <<period, key, counters, signals, raced>>

(* The connector.  A failure is recorded and metered nowhere.              *)
Execute(c) ==
    /\ pc[c] = "cleared"
    /\ Goto(c, "executed") \/ Goto(c, "failed")
    /\ UNCHANGED <<period, key, counters, signals, raced>>

(* The query-bytes meter of _executor.  The release path has none.         *)
MeterBytes_every_op(c) ==
    /\ pc[c] = "executed"
    /\ queryBytes' = IF c \notin Held
                     THEN [queryBytes EXCEPT ![period] = @ + Cost[c]] ELSE queryBytes
    /\ Goto(c, "metered")
    /\ UNCHANGED <<period, key, errorSpent, observations, signals, raced>>
MeterBytes(c) ==
    /\ pc[c] = "executed"
    /\ queryBytes' = IF c \in Reads \ Held
                     THEN [queryBytes EXCEPT ![period] = @ + Cost[c]] ELSE queryBytes
    /\ Goto(c, "metered")
    /\ UNCHANGED <<period, key, errorSpent, observations, signals, raced>>

(* The error-budget draw of _executor: derive the key, increment.          *)
DrawError(c) ==
    /\ pc[c] = "metered"
    /\ IF c \in Writes \ Held
       THEN /\ errorSpent' = [errorSpent EXCEPT ![period] = @ + Cost[c]]
            /\ key' = [key EXCEPT ![c] = period]
            /\ raced' = IF \E d \in Writes : pc[d] = "drawn" /\ key[d] = period
                        THEN raced \cup {period} ELSE raced
            /\ Goto(c, "drawn")
       ELSE Goto(c, "observing") /\ UNCHANGED <<key, errorSpent, raced>>
    /\ UNCHANGED <<period, queryBytes, observations, signals>>

(* The reading back under the same key, the crossing test and the signal,  *)
(* which names the period _emit_demotion_signal derives afresh.            *)
Crosses(c, spent) == spent >= Tolerance /\ spent - Cost[c] < Tolerance
Signal_rederives_key(c) ==
    /\ pc[c] = "drawn"
    /\ signals' = IF Crosses(c, errorSpent[period])
                  THEN [signals EXCEPT ![period][period] = @ + 1] ELSE signals
    /\ Goto(c, "observing")
    /\ UNCHANGED <<period, key, counters, raced>>
Signal(c) ==
    /\ pc[c] = "drawn"
    /\ signals' = IF Crosses(c, errorSpent[key[c]])
                  THEN [signals EXCEPT ![key[c]][period] = @ + 1] ELSE signals
    /\ Goto(c, "observing")
    /\ UNCHANGED <<period, key, counters, raced>>

(* The observation label, last; a fault in it is swallowed.                *)
Observe(c) ==
    /\ pc[c] = "observing"
    /\ \/ observations' = [observations EXCEPT ![period] = @ + 1]
       \/ c \in Faulty /\ UNCHANGED observations
    /\ Goto(c, "done")
    /\ UNCHANGED <<period, key, queryBytes, errorSpent, signals, raced>>

(* A counter write or reading raises: the op has run, the call fails.      *)
Fault(c) ==
    /\ c \in Faulty \ Held
    /\ \/ pc[c] = "executed" /\ c \in Reads
       \/ pc[c] \in {"metered", "drawn"} /\ c \in Writes
    /\ Goto(c, "faulted")
    /\ UNCHANGED <<period, key, counters, signals, raced>>

NewPeriod ==
    /\ period < LastPeriod
    /\ period' = period + 1
    /\ UNCHANGED <<pc, key, counters, signals, raced>>

Next ==
    \/ \E c \in Calls :
         \/ Decide(c) \/ Revalidate(c) \/ Execute(c) \/ MeterBytes(c)
         \/ DrawError(c) \/ Signal(c) \/ Observe(c) \/ Fault(c)
    \/ NewPeriod

Spec == Init /\ [][Next]_vars

-----------------------------------------------------------------------------
Sum(S) == MapThenSumSet(LAMBDA c : Cost[c], S)
Total(counter) == MapThenSumSet(LAMBDA b : counter[b], Periods)
Ran == {c \in Calls : pc[c] \notin {"new", "decided", "cleared", "refused", "failed"}}
Largest(S) == Max({Cost[c] : c \in S})

(* The meters are written after the effect they measure, so a budget is    *)
(* overrun, but never by more than the calls in flight when it was last    *)
(* read: a breach stops the next call however the periods turn.            *)
OverrunBounded ==
    \A b \in Periods :
        /\ queryBytes[b] < EgressBudget + Width * Largest(Reads)
        /\ errorSpent[b] < Tolerance + Width * Largest(Writes)

(* EVIDENCE.md E14, "exactly once per crossing": a period whose budget was *)
(* crossed has fired one signal, whatever period it names, and another     *)
(* none, unless a fault took a call between its draw and its reading back, *)
(* or two writes drew before either read back: each then sees a spend that *)
(* includes the other's draw.                                              *)
CrossingSignalledOnce ==
    \A b \in Periods \ raced :
        (\A c \in Writes : pc[c] \in {"drawn", "faulted"} => key[c] # b)
           => Total(signals[b]) = IF errorSpent[b] >= Tolerance THEN 1 ELSE 0

(* EVIDENCE.md E14, "with the right action-class and period": the signal   *)
(* for a crossing names the period whose budget was crossed.  The code     *)
(* names the period it is in when it signals.                              *)
SignalNamesItsPeriod ==
    \A b, n \in Periods : signals[b][n] > 0 => n = b

Through == \A c \in Calls : pc[c] \in {"new", "done", "refused", "failed"}

(* Once every call is through, and none met a counter fault, the meters of *)
(* _executor have counted every inline run, however the periods turned     *)
(* under it, and nothing twice or for a call that did not run.             *)
InlineRunsMetered ==
    Through =>
        /\ Total(queryBytes) \in Sum((Ran \cap Reads) \ Held)..Sum(Ran \cap Reads)
        /\ Total(errorSpent) \in Sum((Ran \cap Writes) \ Held)..Sum(Ran \cap Writes)

(* EVIDENCE.md E13, "a write draws ... exactly once": what the writes that *)
(* ran cost is what the error budget was charged.  The release path of     *)
(* approve_intent draws nothing.                                           *)
EveryWriteDraws ==
    Through => Total(errorSpent) = Sum(Ran \cap Writes)
=============================================================================
