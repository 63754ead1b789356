------------------------------ MODULE Approval ------------------------------
(***************************************************************************)
(* The life of a held call: materialize(), approve(), reject(),            *)
(* expire_if_due() of broker/approval/engine.py over an IntentStore, under *)
(* the four out-of-band entries of broker/runtime/pep.py that drive them:  *)
(* approve_intent, reject_intent, flag_intent and sweep_expired_intents.   *)
(*                                                                         *)
(* A hold is one materialized call, numbered in the order they are made.   *)
(* The store has one row per intent id.  Without dedup an id carries the   *)
(* call's timestamp and names one hold; with dedup it is a digest of the   *)
(* call's content, and a resolved row is overwritten by the next hold of   *)
(* the same content.                                                       *)
(*                                                                         *)
(* Owners act on ids concurrently, from any number of processes, beside    *)
(* the sweepers.  A step is one store, connector or audit call.  A member  *)
(* of Mortal may stop between any two steps: its process dies, or a store  *)
(* or audit fault propagates out of the handler.  Paths that only answer   *)
(* the caller (an unknown id, another principal's intent) change nothing.  *)
(*                                                                         *)
(* A read that fails verification (a quarantined row) and an approval of   *)
(* something other than what the row holds are answered with a record of   *)
(* outcome denied that decides nothing: the row stays as it is.  The tape  *)
(* tells them from a release's own denial by their reason, and the model   *)
(* by keeping them in turnedAway, by kind and not by number.               *)
(*                                                                         *)
(* Holds of a harness's own tool, which approve_intent marks and never     *)
(* runs, are left out.                                                     *)
(***************************************************************************)
EXTENDS Integers, FiniteSets, FiniteSetsExt

CONSTANTS
    Ids,        \* intent ids
    Owners,     \* concurrent owner actions, each with its process's clock
    Sweepers,   \* hosts that run the expiry sweep
    Mortal,     \* the owners and sweepers that may stop half way
    Dedup,      \* approval-queue dedup: content-derived intent ids
    Window,     \* expiry_seconds of a hold
    Skew,       \* the releasing runtime's clock-skew bound
    DriftOf,    \* each process's clock minus the clock that stamps holds
    Rewrites,   \* whether a stored row may stop verifying
    Period,     \* length of a counter period
    MaxHolds,   \* bound: holds made
    Horizon     \* bound: last instant of the clock

ASSUME ApprovalConstants ==
    /\ IsFiniteSet(Ids) /\ Ids # {}
    /\ Owners \cap Sweepers = {}
    /\ Mortal \subseteq Owners \cup Sweepers
    /\ Dedup \in BOOLEAN
    /\ Window \in Nat \ {0}
    /\ Skew \in Nat
    /\ DriftOf \in [Owners \cup Sweepers -> (-Skew)..Skew]
    /\ Rewrites \in BOOLEAN
    /\ Period \in Nat \ {0}
    /\ MaxHolds \in Nat
    /\ Horizon \in Nat

VARIABLES
    now,          \* the clock that stamps holds
    made,         \* holds made so far
    heldAt,       \* Intent.ts of each hold
    row,          \* the stored intent under each id
    pc,           \* where each owner's action stands
    task,         \* its locals
    sweep,        \* each sweeper's pass
    ran,          \* times the connector was called with each hold's request
    tape,         \* audit records of each hold, by outcome
    marker,       \* flag marker of each id
    observations, \* evidence counters, by period bucket
    override,
    falseAction,
    verifies,     \* whether the bytes of each row match their HMAC
    turnedAway    \* the denials of each hold that decide nothing, by kind

storeVars == <<made, heldAt, row>>
evidence == <<marker, observations, override, falseAction>>
quarantine == <<verifies, turnedAway>>
vars == <<now, made, heldAt, row, pc, task, sweep, ran, tape,
          marker, observations, override, falseAction,
          verifies, turnedAway>>

Holds == 1..MaxHolds
NoHold == 0
Never == -1
Time == 0..(Horizon + 2 * Skew)
Bucket(t) == t \div Period
Buckets == {Bucket(t) : t \in Time}

Statuses == {"absent", "pending", "approved", "rejected", "expired", "executed",
             "refused"}
Outcomes == {"executed", "failed", "denied", "rejected", "expired", "flagged"}
TurnedAway == {"shown", "quarantined"}

Absent == [status |-> "absent", hold |-> NoHold, executedAt |-> Never]
NoTask == [id |-> CHOOSE i \in Ids : TRUE, verb |-> "none", first |-> NoHold,
           began |-> Never, at |-> Never, seen |-> NoHold]
NoSweep == [step |-> "idle", at |-> Never, todo |-> {}, id |-> NoTask.id,
            seen |-> NoHold]

(* The points of approve_intent after the pending -> approved claim. *)
Releasing == {"released", "ran", "taped", "observed", "refusing"}
Points == {"idle", "held", "clocked", "read", "late", "rejected", "overridden",
           "labelled", "flagging", "marked", "counted"} \cup Releasing

Clock(p) == now + DriftOf[p]
expiry(h) == heldAt[h] + Window

-----------------------------------------------------------------------------
(* transition_status: the compare-and-set every resolution goes through.   *)
transition_status_unchecked(i, expected, new) ==
    /\ row[i].status # "absent"
    /\ row' = [row EXCEPT ![i].status = new]
transition_status(i, expected, new) ==
    /\ row[i].status = expected
    /\ row' = [row EXCEPT ![i].status = new]

TurnAway(h, kind) == turnedAway' = [turnedAway EXCEPT ![h] = @ \cup {kind}]
Emit(h, outcome) == tape' = [tape EXCEPT ![h][outcome] = @ + 1]
Goto(o, point) == pc' = [pc EXCEPT ![o] = point]
SetTask(o, t) == task' = [task EXCEPT ![o] = t]
Return(o) == Goto(o, "idle") /\ SetTask(o, NoTask)
SetSweep(s, pass) == sweep' = [sweep EXCEPT ![s] = pass]

Init ==
    /\ now = Skew
    /\ made = 0
    /\ heldAt = [h \in Holds |-> 0]
    /\ row = [i \in Ids |-> Absent]
    /\ pc = [o \in Owners |-> "idle"]
    /\ task = [o \in Owners |-> NoTask]
    /\ sweep = [s \in Sweepers |-> NoSweep]
    /\ ran = [h \in Holds |-> 0]
    /\ tape = [h \in Holds |-> [x \in Outcomes |-> 0]]
    /\ marker = [i \in Ids |-> 0]
    /\ observations = [b \in Buckets |-> 0]
    /\ override = [b \in Buckets |-> 0]
    /\ falseAction = [b \in Buckets |-> 0]
    /\ verifies = [i \in Ids |-> TRUE]
    /\ turnedAway = [h \in Holds |-> {}]

Tick ==
    /\ now < Skew + Horizon
    /\ now' = now + 1
    /\ UNCHANGED <<storeVars, pc, task, sweep, ran, tape, evidence, quarantine>>

(* A require_approval call is held.  put_intent is conditional on the id   *)
(* not being pending: a second identical call coalesces (dedup), a         *)
(* different one is denied, and neither changes the row.  The bound on now *)
(* leaves every hold room to expire.                                       *)
Materialize(i) ==
    /\ made < MaxHolds
    /\ now + Window <= Skew + Horizon
    /\ IF Dedup THEN row[i].status # "pending" ELSE row[i].status = "absent"
    /\ made' = made + 1
    /\ heldAt' = [heldAt EXCEPT ![made + 1] = now]
    /\ row' = [row EXCEPT ![i] = [status |-> "pending", hold |-> made + 1,
                                  executedAt |-> Never]]
    /\ verifies' = [verifies EXCEPT ![i] = TRUE]
    /\ UNCHANGED <<now, pc, task, sweep, ran, tape, evidence, turnedAway>>

(* external: the stored bytes change under the HMAC.  The status is not    *)
(* covered by it, and no compare-and-set verifies.                         *)
Rewrite(i) ==
    /\ Rewrites /\ row[i].status # "absent"
    /\ verifies' = [verifies EXCEPT ![i] = FALSE]
    /\ UNCHANGED <<now, storeVars, pc, task, sweep, ran, tape, evidence, turnedAway>>

-----------------------------------------------------------------------------
(* approve_intent and reject_intent start alike: the PEP's own read, then  *)
(* the engine's clock reading and its read of the row.                     *)
FirstRead(o, i, verb) ==
    /\ pc[o] = "idle"
    /\ verifies[i]
    /\ SetTask(o, [task[o] EXCEPT !.id = i, !.verb = verb, !.first = row[i].hold,
                                  !.began = now])
    /\ Goto(o, "held")
    /\ UNCHANGED <<now, storeVars, sweep, ran, tape, evidence, quarantine>>

(* _quarantined_intent_result: the first read of approve_intent,           *)
(* reject_intent or flag_intent raises, and the attempt ends recorded, as  *)
(* does that of a description, or of a call that finds the row pending.    *)
QuarantinedRead(i) ==
    /\ ~verifies[i]
    /\ TurnAway(row[i].hold, "quarantined")
    /\ UNCHANGED <<now, storeVars, pc, task, sweep, ran, tape, evidence, verifies>>

(* The approver was shown another input than the row's: recorded, refused. *)
RefuseShown(o) ==
    /\ pc[o] = "held"
    /\ task[o].verb = "approve" /\ task[o].first # NoHold
    /\ TurnAway(task[o].first, "shown")
    /\ Return(o)
    /\ UNCHANGED <<now, storeVars, sweep, ran, tape, evidence, verifies>>

ReadClock(o) ==
    /\ pc[o] = "held"
    /\ SetTask(o, [task[o] EXCEPT !.at = Clock(o)])
    /\ Goto(o, "clocked")
    /\ UNCHANGED <<now, storeVars, sweep, ran, tape, evidence, quarantine>>

GetIntent(o) ==
    /\ pc[o] = "clocked"
    /\ \/ /\ row[task[o].id].status = "absent"
          /\ Return(o)
       \/ /\ row[task[o].id].status # "absent"
          /\ verifies[task[o].id]
          /\ SetTask(o, [task[o] EXCEPT !.seen = row[task[o].id].hold])
          /\ Goto(o, "read")
    /\ UNCHANGED <<now, storeVars, sweep, ran, tape, evidence, quarantine>>

(* _is_expired: a release takes the expiry up to Skew early, a "no" not.   *)
_is_expired_without_skew(o) == task[o].at >= expiry(task[o].seen)
_is_expired(o) ==
    task[o].at + (IF task[o].verb = "approve" THEN Skew ELSE 0)
        >= expiry(task[o].seen)

(* A compare-and-set that finds the row not pending refuses; a claim reads *)
(* the row again for the reason it gives.                                  *)
LoseClaim(o) ==
    /\ pc[o] = "read"
    /\ row[task[o].id].status # "pending"
    /\ _is_expired(o) \/ verifies[task[o].id]
    /\ Return(o)
    /\ UNCHANGED <<now, storeVars, sweep, ran, tape, evidence, quarantine>>

(* _expired_result, and _record_late_expiry for the one that won it.       *)
ExpireLate_records_always(o) ==
    /\ pc[o] = "read"
    /\ _is_expired(o)
    /\ row' = [row EXCEPT ![task[o].id].status = IF @ = "pending" THEN "expired" ELSE @]
    /\ Goto(o, "late")
    /\ UNCHANGED <<now, made, heldAt, task, sweep, ran, tape, evidence, quarantine>>
ExpireLate(o) ==
    /\ pc[o] = "read"
    /\ _is_expired(o)
    /\ transition_status(task[o].id, "pending", "expired")
    /\ Goto(o, "late")
    /\ UNCHANGED <<now, made, heldAt, task, sweep, ran, tape, evidence, quarantine>>

(* The PEP's first read, or a fresh one if that found nothing.             *)
Stored(o) == IF task[o].first # NoHold THEN task[o].first ELSE row[task[o].id].hold
CanRead(o) == task[o].first # NoHold \/ verifies[task[o].id]

(* A later read of the row raises: the engine's own, the one after a lost  *)
(* claim, or the one that makes up for a first read that found nothing.    *)
Surface(o) ==
    /\ \/ pc[o] = "clocked"
       \/ pc[o] = "read" /\ row[task[o].id].status # "pending" /\ ~_is_expired(o)
       \/ pc[o] \in {"late", "rejected"} /\ task[o].first = NoHold
    /\ ~verifies[task[o].id]
    /\ TurnAway(row[task[o].id].hold, "quarantined")
    /\ Return(o)
    /\ UNCHANGED <<now, storeVars, sweep, ran, tape, evidence, verifies>>

RecordLateExpiry(o) ==
    /\ pc[o] = "late" /\ CanRead(o)
    /\ Emit(Stored(o), "expired")
    /\ Return(o)
    /\ UNCHANGED <<now, storeVars, sweep, ran, evidence, quarantine>>

-----------------------------------------------------------------------------
(* approve(): claim, then run the request this call read through enforce(). *)
ClaimApproval(o) ==
    /\ pc[o] = "read"
    /\ task[o].verb = "approve" /\ ~_is_expired(o)
    /\ transition_status(task[o].id, "pending", "approved")
    /\ Goto(o, "released")
    /\ UNCHANGED <<now, made, heldAt, task, sweep, ran, tape, evidence, quarantine>>

(* Revalidation or a budget refuses the release (recorded as denied), or   *)
(* the inheritance write fails before the connector (recorded as failed).  *)
RefuseRelease(o) ==
    /\ pc[o] = "released"
    /\ \E outcome \in {"denied", "failed"} : Emit(task[o].seen, outcome)
    /\ Goto(o, "refusing")
    /\ UNCHANGED <<now, storeVars, task, sweep, ran, evidence, quarantine>>

MarkRefused(o) ==
    /\ pc[o] = "refusing"
    /\ \/ transition_status(task[o].id, "approved", "refused")
       \/ row[task[o].id].status # "approved" /\ UNCHANGED row
    /\ Return(o)
    /\ UNCHANGED <<now, made, heldAt, sweep, ran, tape, evidence, quarantine>>

RunConnector(o) ==
    /\ pc[o] = "released"
    /\ ran' = [ran EXCEPT ![task[o].seen] = @ + 1]
    /\ Goto(o, "ran")
    /\ UNCHANGED <<now, storeVars, task, sweep, tape, evidence, quarantine>>

(* ConnectorExecutionError: recorded and raised, the row stays approved.   *)
RecordFailed(o) ==
    /\ pc[o] = "ran"
    /\ Emit(task[o].seen, "failed")
    /\ Return(o)
    /\ UNCHANGED <<now, storeVars, sweep, ran, evidence, quarantine>>

RecordExecuted(o) ==
    /\ pc[o] = "ran"
    /\ Emit(task[o].seen, "executed")
    /\ Goto(o, "taped")
    /\ UNCHANGED <<now, storeVars, task, sweep, ran, evidence, quarantine>>

(* The observation label; a fault in it is logged and the release goes on. *)
CountObservation(o) ==
    /\ pc[o] = "taped"
    /\ \/ observations' = [observations EXCEPT ![Bucket(Clock(o))] = @ + 1]
       \/ UNCHANGED observations
    /\ Goto(o, "observed")
    /\ UNCHANGED <<now, storeVars, task, sweep, ran, tape, marker, override, falseAction, quarantine>>

MarkExecuted(o) ==
    /\ pc[o] = "observed"
    /\ LET i == task[o].id
       IN row' = IF row[i].status = "approved"
                 THEN [row EXCEPT ![i].status = "executed", ![i].executedAt = Clock(o)]
                 ELSE row
    /\ Return(o)
    /\ UNCHANGED <<now, made, heldAt, sweep, ran, tape, evidence, quarantine>>

-----------------------------------------------------------------------------
(* reject(): claim, then both labels under one bucket, override first; a   *)
(* fault in either label skips to the record.                              *)
ClaimRejection(o) ==
    /\ pc[o] = "read"
    /\ task[o].verb = "reject" /\ ~_is_expired(o)
    /\ transition_status(task[o].id, "pending", "rejected")
    /\ Goto(o, "rejected")
    /\ UNCHANGED <<now, made, heldAt, task, sweep, ran, tape, evidence, quarantine>>

(* Both labels, observation first. *)
LabelOverride_observation_first(o) ==
    /\ pc[o] = "rejected" /\ CanRead(o)
    /\ SetTask(o, [task[o] EXCEPT !.first = Stored(o), !.at = Clock(o)])
    /\ observations' = [observations EXCEPT ![Bucket(Clock(o))] = @ + 1]
    /\ Goto(o, "labelled")
    /\ UNCHANGED <<now, storeVars, sweep, ran, tape, marker, override, falseAction, quarantine>>
LabelOverride(o) ==
    /\ pc[o] = "rejected" /\ CanRead(o)
    /\ SetTask(o, [task[o] EXCEPT !.first = Stored(o), !.at = Clock(o)])
    /\ \/ /\ override' = [override EXCEPT ![Bucket(Clock(o))] = @ + 1]
          /\ Goto(o, "overridden")
       \/ UNCHANGED override /\ Goto(o, "labelled")
    /\ UNCHANGED <<now, storeVars, sweep, ran, tape, marker, observations, falseAction, quarantine>>

LabelObservation(o) ==
    /\ pc[o] = "overridden"
    /\ \/ observations' = [observations EXCEPT ![Bucket(task[o].at)] = @ + 1]
       \/ UNCHANGED observations
    /\ Goto(o, "labelled")
    /\ UNCHANGED <<now, storeVars, task, sweep, ran, tape, marker, override, falseAction, quarantine>>

RecordRejection(o) ==
    /\ pc[o] = "labelled"
    /\ Emit(task[o].first, "rejected")
    /\ Return(o)
    /\ UNCHANGED <<now, storeVars, sweep, ran, evidence, quarantine>>

-----------------------------------------------------------------------------
(* flag_intent: an executed row, the id's cap-1 marker, the false_action   *)
(* label in the bucket of executedAt, the record.                          *)
FlagRead(o, i) ==
    /\ pc[o] = "idle"
    /\ verifies[i] /\ row[i].status = "executed"
    /\ SetTask(o, [task[o] EXCEPT !.id = i, !.verb = "flag",
                                  !.seen = row[i].hold, !.at = row[i].executedAt])
    /\ Goto(o, "flagging")
    /\ UNCHANGED <<now, storeVars, sweep, ran, tape, evidence, quarantine>>

ClaimMarker_checks_later(o) ==
    /\ pc[o] = "flagging"
    /\ Goto(o, "marked")
    /\ UNCHANGED <<now, storeVars, task, sweep, ran, tape, evidence, quarantine>>
ClaimMarker(o) ==
    /\ pc[o] = "flagging"
    /\ \/ /\ marker[task[o].id] = 0
          /\ marker' = [marker EXCEPT ![task[o].id] = 1]
          /\ Goto(o, "marked") /\ UNCHANGED task
       \/ /\ marker[task[o].id] = 1
          /\ Return(o) /\ UNCHANGED marker
    /\ UNCHANGED <<now, storeVars, sweep, ran, tape, observations, override, falseAction, quarantine>>

CountFalseAction(o) ==
    /\ pc[o] = "marked"
    /\ falseAction' = [falseAction EXCEPT ![Bucket(task[o].at)] = @ + 1]
    /\ Goto(o, "counted")
    /\ UNCHANGED <<now, storeVars, task, sweep, ran, tape, marker, observations, override, quarantine>>

RecordFlag(o) ==
    /\ pc[o] = "counted"
    /\ Emit(task[o].seen, "flagged")
    /\ Return(o)
    /\ UNCHANGED <<now, storeVars, sweep, ran, evidence, quarantine>>

(* The owner's process dies, or a fault propagates to the caller.          *)
Stop(o) ==
    /\ o \in Mortal
    /\ pc[o] # "idle"
    /\ Return(o)
    /\ UNCHANGED <<now, storeVars, sweep, ran, tape, evidence, quarantine>>

-----------------------------------------------------------------------------
(* sweep_expired_intents: candidates from the pending index, then for each *)
(* the verified read, expire_if_due and the record of the one that won.    *)
Due_any_pending(i, t) == row[i].status = "pending"
Due(i, t) == row[i].status = "pending" /\ expiry(row[i].hold) <= t

SweepStart(s) ==
    /\ sweep[s].step = "idle"
    /\ LET candidates == {i \in Ids : Due(i, Clock(s))}
       IN /\ candidates # {}
          /\ SetSweep(s, [sweep[s] EXCEPT !.step = "next", !.at = Clock(s),
                                         !.todo = candidates])
    /\ UNCHANGED <<now, storeVars, pc, task, ran, tape, evidence, quarantine>>

(* The loop goes on, or the pass ends. *)
NextCandidate(s) ==
    IF sweep[s].todo = {} THEN NoSweep
    ELSE [sweep[s] EXCEPT !.step = "next", !.id = NoTask.id, !.seen = NoHold]

(* A row that fails to verify is surfaced, once by a process, and left.    *)
SweepQuarantined(s, i) ==
    /\ sweep[s].step = "next"
    /\ i \in sweep[s].todo /\ ~verifies[i]
    /\ TurnAway(row[i].hold, "quarantined")
    /\ SetSweep(s, IF sweep[s].todo = {i} THEN NoSweep
                   ELSE [sweep[s] EXCEPT !.todo = @ \ {i}])
    /\ UNCHANGED <<now, storeVars, pc, task, ran, tape, evidence, verifies>>

SweepGet(s, i) ==
    /\ sweep[s].step = "next"
    /\ i \in sweep[s].todo /\ verifies[i]
    /\ LET rest == sweep[s].todo \ {i}
       IN SetSweep(s,
             IF Due(i, sweep[s].at)
             THEN [sweep[s] EXCEPT !.step = "due", !.todo = rest, !.id = i,
                                   !.seen = row[i].hold]
             ELSE IF rest = {} THEN NoSweep ELSE [sweep[s] EXCEPT !.todo = rest])
    /\ UNCHANGED <<now, storeVars, pc, task, ran, tape, evidence, quarantine>>

SweepExpire_no_transition(s) ==
    /\ sweep[s].step = "due"
    /\ SetSweep(s, NextCandidate(s))
    /\ UNCHANGED <<now, storeVars, pc, task, ran, tape, evidence, quarantine>>
SweepExpire(s) ==
    /\ sweep[s].step = "due"
    /\ \/ /\ transition_status(sweep[s].id, "pending", "expired")
          /\ SetSweep(s, [sweep[s] EXCEPT !.step = "won"])
       \/ /\ row[sweep[s].id].status # "pending"
          /\ SetSweep(s, NextCandidate(s))
          /\ UNCHANGED row
    /\ UNCHANGED <<now, made, heldAt, pc, task, ran, tape, evidence, quarantine>>

SweepRecord_forgets(s) ==
    /\ sweep[s].step = "won"
    /\ SetSweep(s, NextCandidate(s))
    /\ UNCHANGED <<now, storeVars, pc, task, ran, tape, evidence, quarantine>>
SweepRecord(s) ==
    /\ sweep[s].step = "won"
    /\ Emit(sweep[s].seen, "expired")
    /\ SetSweep(s, NextCandidate(s))
    /\ UNCHANGED <<now, storeVars, pc, task, ran, evidence, quarantine>>

SweepStop(s) ==
    /\ s \in Mortal
    /\ sweep[s].step # "idle"
    /\ SetSweep(s, NoSweep)
    /\ UNCHANGED <<now, storeVars, pc, task, ran, tape, evidence, quarantine>>

-----------------------------------------------------------------------------
(* The rest of an action an owner has begun. *)
Continue(o) ==
    \/ RefuseShown(o) \/ ReadClock(o) \/ GetIntent(o) \/ LoseClaim(o) \/ Surface(o)
    \/ ExpireLate(o) \/ RecordLateExpiry(o)
    \/ ClaimApproval(o) \/ RefuseRelease(o) \/ MarkRefused(o)
    \/ RunConnector(o) \/ RecordFailed(o) \/ RecordExecuted(o)
    \/ CountObservation(o) \/ MarkExecuted(o)
    \/ ClaimRejection(o) \/ LabelOverride(o) \/ LabelObservation(o) \/ RecordRejection(o)
    \/ ClaimMarker(o) \/ CountFalseAction(o) \/ RecordFlag(o)

Sweep(s) ==
    \/ SweepStart(s) \/ SweepExpire(s) \/ SweepRecord(s)
    \/ \E i \in Ids : SweepGet(s, i) \/ SweepQuarantined(s, i)

Next ==
    \/ Tick
    \/ \E i \in Ids : Materialize(i) \/ Rewrite(i) \/ QuarantinedRead(i)
    \/ \E o \in Owners, i \in Ids, verb \in {"approve", "reject"} : FirstRead(o, i, verb)
    \/ \E o \in Owners, i \in Ids : FlagRead(o, i)
    \/ \E o \in Owners : Continue(o) \/ Stop(o)
    \/ \E s \in Sweepers : Sweep(s) \/ SweepStop(s)

Spec == Init /\ [][Next]_vars

(* Time passes, a handler that runs goes on, and a host keeps sweeping     *)
(* (ExpirySweeper retries on every interval).  Nobody is obliged to act.   *)
FairSpec ==
    /\ Spec
    /\ WF_vars(Tick)
    /\ \A o \in Owners : WF_vars(Continue(o))
    /\ \A s \in Sweepers : WF_vars(Sweep(s))

-----------------------------------------------------------------------------
RowType == [status : Statuses, hold : 0..MaxHolds, executedAt : Time \cup {Never}]
TaskType == [id : Ids, verb : {"none", "approve", "reject", "flag"}, first : 0..MaxHolds,
             began : Time \cup {Never}, at : Time \cup {Never}, seen : 0..MaxHolds]
SweepType == [step : {"idle", "next", "due", "won"}, at : Time \cup {Never},
              todo : SUBSET Ids, id : Ids, seen : 0..MaxHolds]

(* Every field keeps its domain: a row its statuses, an audit record the   *)
(* outcomes the PEP writes for an intent, a label an existing bucket.      *)
TypeOK ==
    /\ now \in Skew..(Skew + Horizon)
    /\ made \in 0..MaxHolds
    /\ heldAt \in [Holds -> Time]
    /\ row \in [Ids -> RowType]
    /\ pc \in [Owners -> Points]
    /\ task \in [Owners -> TaskType]
    /\ sweep \in [Sweepers -> SweepType]
    /\ ran \in [Holds -> Nat]
    /\ tape \in [Holds -> [Outcomes -> Nat]]
    /\ marker \in [Ids -> 0..1]
    /\ observations \in [Buckets -> Nat]
    /\ override \in [Buckets -> Nat]
    /\ falseAction \in [Buckets -> Nat]
    /\ verifies \in [Ids -> BOOLEAN]
    /\ turnedAway \in [Holds -> SUBSET TurnedAway]

Total(f) == MapThenSumSet(LAMBDA x : f[x], DOMAIN f)
VerdictsOf(h) == tape[h]["executed"] + tape[h]["failed"] + tape[h]["denied"]
                 + tape[h]["rejected"] + tape[h]["expired"]

(* approve(), "Two concurrent approval attempts on the same intent cannot  *)
(* both succeed": a held request reaches the connector at most once,       *)
(* however approvals, rejections and sweeps of it interleave and stop.     *)
OneReleasePerHold == \A h \in Holds : ran[h] <= 1

(* One decision per hold on the tape: a hold is never recorded twice, nor  *)
(* as two of executed, failed, denied at its release, rejected and         *)
(* expired, however many approvals of it were turned away before or since  *)
(* because of what the approver was shown or a row that did not verify.    *)
OneVerdictPerHold == \A h \in Holds : VerdictsOf(h) <= 1

(* The tape and the store tell one story: a verdict is recorded only for a *)
(* row in the state that verdict moved it to, and a hold that reached the  *)
(* connector is approved or executed, never rejected, expired or refused.  *)
(* An attempt turned away says nothing of the row, which it leaves alone.  *)
TapeAgreesWithRow ==
    \A i \in Ids : LET h == row[i].hold IN h # NoHold =>
        /\ ran[h] > 0 => row[i].status \in {"approved", "executed"}
        /\ tape[h]["executed"] > 0 => ran[h] > 0
        /\ tape[h]["denied"] > 0 => row[i].status \in {"approved", "refused"}
        /\ tape[h]["rejected"] > 0 => row[i].status = "rejected"
        /\ tape[h]["expired"] > 0 => row[i].status = "expired"
        /\ tape[h]["flagged"] > 0 => row[i].status = "executed"

(* An approval asked for once the hold's expiry has passed never takes     *)
(* effect, on a clock that is behind by up to the declared skew (PTC-49).  *)
(* One asked for in time may: see ExpiredNeverRuns.                        *)
NoLateApproval ==
    \A o \in Owners : pc[o] \in Releasing => task[o].began < expiry(task[o].seen)

(* approval/engine.py approve(): "An intent past its expiry never          *)
(* executes."  Expiry is judged once, on a clock reading taken before the  *)
(* row is read, claimed and revalidated, so time may pass it before the    *)
(* connector is called.                                                    *)
ExpiredNeverRuns ==
    [][\A h \in Holds : ran'[h] > ran[h] => now < expiry(h)]_vars

(* reject_intent orders the labels so that a fault between them leaves an  *)
(* override without its observation, never the reverse: every observation  *)
(* is a connector run or has its override.  This is what keeps a promotion *)
(* predicate from reading fewer errors than there were.                    *)
ObservationsAccounted == Total(observations) <= Total(ran) + Total(override)

(* A flag labels an execution, labels it once and in the period that       *)
(* observed it: false_action never outgrows, in any period, the calls that *)
(* were executed in it, however late and by how many owners they are       *)
(* flagged.                                                                *)
ExecutedIn(b) == {i \in Ids : row[i].status = "executed" /\ Bucket(row[i].executedAt) = b}
FlagsWithinExecutions ==
    \A b \in Buckets : falseAction[b] <= Cardinality(ExecutedIn(b))

(* No hold is expired before its time by more than the clocks may differ:  *)
(* a sweep and a "no" judge on their own clock, with no allowance, and an  *)
(* approval takes the expiry a further skew early.  Of ids that name one   *)
(* hold: a pass that read one hold may otherwise expire the next.          *)
Early(i) == row[i].status = "pending" /\ row'[i].status = "expired" /\ now < expiry(row[i].hold)
ExpiresOnlyWhenDue ==
    [][\A i \in Ids : Early(i) =>
          \/ now + Skew >= expiry(row[i].hold)
          \/ /\ now + 2 * Skew >= expiry(row[i].hold)
             /\ \E o \in Owners : pc'[o] = "late" /\ task[o].verb = "approve"]_vars

Pending(h) == \E i \in Ids : row[i].status = "pending" /\ row[i].hold = h
Expired(h) == \E i \in Ids : row[i].status = "expired" /\ row[i].hold = h

Quarantined(h) == \E i \in Ids : row[i].hold = h /\ ~verifies[i]

(* An intent nobody decides never hangs open: the sweep moves it, unless   *)
(* its row stopped verifying, which no sweep may touch.                    *)
EveryHoldResolves == \A h \in Holds : Pending(h) ~> ~Pending(h) \/ Quarantined(h)

(* Expiry is an event: whoever expired a hold puts it on the tape, as long *)
(* as no process stops and no row is rewritten between the two.            *)
EveryExpiryRecorded ==
    \A h \in Holds : Expired(h) ~> tape[h]["expired"] = 1 \/ Quarantined(h)

=============================================================================
