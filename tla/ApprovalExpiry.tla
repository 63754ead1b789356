--------------------------- MODULE ApprovalExpiry ---------------------------
(***************************************************************************)
(* The types of Approval and its skew argument, for every number of ids,   *)
(* owners, sweepers and holds, every window and skew, dedup on or off, and *)
(* every owner or sweeper stopping anywhere.                               *)
(***************************************************************************)
EXTENDS Approval, TLAPS

(* The blank task names an id. *)
LEMMA SomeId == NoTask.id \in Ids
  BY ApprovalConstants DEF NoTask

(* A clock within the skew reads an instant of Time. *)
LEMMA ClockInTime ==
  ASSUME TypeOK, NEW p \in Owners \cup Sweepers PROVE Clock(p) \in Time
  BY ApprovalConstants DEF TypeOK, Clock, Time

(* The stamping clock reads an instant of Time. *)
LEMMA NowInTime ==
  ASSUME TypeOK PROVE now \in Time
  BY ApprovalConstants DEF TypeOK, Time

(* What an action leaves behind has the type of a task, or of a pass.      *)
LEMMA BlankTypes == NoTask \in TaskType /\ NoSweep \in SweepType
  BY SomeId, ApprovalConstants DEF NoTask, NoSweep, TaskType, SweepType,
     NoHold, Never

(* An audit record of a hold keeps the type of the tape. *)
LEMMA EmitTyped ==
  ASSUME TypeOK, NEW h, NEW x \in Outcomes, Emit(h, x)
  PROVE  tape' \in [Holds -> [Outcomes -> Nat]]
<1>1. tape \in [Holds -> [Outcomes -> Nat]]
  BY DEF TypeOK
<1>2. ASSUME NEW g \in Holds PROVE tape'[g] \in [Outcomes -> Nat]
  <2>1. tape[g] \in [Outcomes -> Nat] /\ tape[g][x] + 1 \in Nat
    BY <1>1
  <2>2. tape'[g] = IF g = h THEN [tape[g] EXCEPT ![x] = tape[g][x] + 1] ELSE tape[g]
    BY <1>1 DEF Emit
  <2> QED
    BY <2>1, <2>2
<1>3. DOMAIN tape' = Holds /\ tape' = [g \in Holds |-> tape'[g]]
  BY <1>1 DEF Emit
<1> QED
  BY <1>2, <1>3

(* An attempt turned away keeps the type of what is kept of them. *)
LEMMA TurnAwayTyped ==
  ASSUME TypeOK, NEW h, NEW kind \in TurnedAway, TurnAway(h, kind)
  PROVE  turnedAway' \in [Holds -> SUBSET TurnedAway]
<1>1. turnedAway \in [Holds -> SUBSET TurnedAway]
  BY DEF TypeOK
<1>2. ASSUME NEW g \in Holds PROVE turnedAway'[g] \subseteq TurnedAway
  BY <1>1 DEF TurnAway
<1>3. turnedAway' = [g \in Holds |-> turnedAway'[g]]
  BY <1>1 DEF TurnAway
<1> QED
  BY <1>2, <1>3

(* An owner moves between the points of its handler. *)
LEMMA GotoTyped ==
  ASSUME TypeOK, NEW o, NEW point \in Points, Goto(o, point)
  PROVE  pc' \in [Owners -> Points]
  BY DEF TypeOK, Goto

(* A handler that returns leaves the blank task behind. *)
LEMMA ReturnTyped ==
  ASSUME TypeOK, NEW o, Return(o)
  PROVE  pc' \in [Owners -> Points] /\ task' \in [Owners -> TaskType]
  BY BlankTypes DEF TypeOK, Return, Goto, SetTask, Points

(* The compare-and-set keeps the type of the rows. *)
LEMMA TransitionTyped ==
  ASSUME TypeOK, NEW i \in Ids, NEW expected, NEW new \in Statuses,
         transition_status(i, expected, new)
  PROVE  row' \in [Ids -> RowType]
  BY DEF TypeOK, transition_status, RowType

(* The id an owner works on, and what its reads leave in its locals.       *)
LEMMA TaskTyped ==
  ASSUME TypeOK, NEW o \in Owners,
         NEW t \in TaskType, SetTask(o, t)
  PROVE  task' \in [Owners -> TaskType]
  BY DEF TypeOK, SetTask

LEMMA TaskFields ==
  ASSUME NEW t \in TaskType
  PROVE  /\ t.id \in Ids
         /\ t.first \in 0..MaxHolds /\ t.seen \in 0..MaxHolds
         /\ t.began \in Time \cup {Never} /\ t.at \in Time \cup {Never}
  BY DEF TaskType

LEMMA TaskUpdates ==
  ASSUME NEW t \in TaskType, NEW i \in Ids, NEW h \in 0..MaxHolds,
         NEW at \in Time \cup {Never}, NEW verb \in {"approve", "reject"}
  PROVE  /\ [t EXCEPT !.at = at] \in TaskType
         /\ [t EXCEPT !.seen = h] \in TaskType
         /\ [t EXCEPT !.first = h, !.at = at] \in TaskType
         /\ [t EXCEPT !.id = i, !.verb = verb, !.first = h, !.began = at] \in TaskType
         /\ [t EXCEPT !.id = i, !.verb = "flag", !.seen = h, !.at = at] \in TaskType
<1>1. [t EXCEPT !.at = at] \in TaskType
  BY DEF TaskType
<1>2. [t EXCEPT !.seen = h] \in TaskType
  BY DEF TaskType
<1>3. [t EXCEPT !.first = h, !.at = at] \in TaskType
  BY DEF TaskType
<1>4. [t EXCEPT !.id = i, !.verb = verb, !.first = h, !.began = at] \in TaskType
  BY DEF TaskType
<1>5. [t EXCEPT !.id = i, !.verb = "flag", !.seen = h, !.at = at] \in TaskType
  BY DEF TaskType
<1> QED
  BY <1>1, <1>2, <1>3, <1>4, <1>5

(* A row of the store has the fields of an intent. *)
LEMMA RowTyped ==
  ASSUME TypeOK, NEW i \in Ids
  PROVE  /\ row[i].hold \in 0..MaxHolds
         /\ row[i].executedAt \in Time \cup {Never}
  BY DEF TypeOK, RowType

(* A pass has the fields of a pass. *)
LEMMA SweepTyped ==
  ASSUME TypeOK, NEW s \in Sweepers, NEW pass \in SweepType, SetSweep(s, pass)
  PROVE  sweep' \in [Sweepers -> SweepType]
  BY DEF TypeOK, SetSweep

(* The absent hold is below the first. *)
LEMMA NoHoldTyped == NoHold \in 0..MaxHolds
  BY ApprovalConstants DEF NoHold

(* What the steps of a sweep leave in its pass. *)
LEMMA SweepUpdates ==
  ASSUME NEW pass \in SweepType, NEW i \in Ids, NEW h \in 0..MaxHolds,
         NEW at \in Time, NEW todo \in SUBSET Ids
  PROVE  /\ pass.id \in Ids /\ pass.todo \in SUBSET Ids /\ pass.seen \in 0..MaxHolds
         /\ [pass EXCEPT !.step = "next", !.at = at, !.todo = todo] \in SweepType
         /\ [pass EXCEPT !.step = "due", !.todo = todo, !.id = i, !.seen = h] \in SweepType
         /\ [pass EXCEPT !.todo = todo] \in SweepType
         /\ [pass EXCEPT !.step = "won"] \in SweepType
<1>1. pass.id \in Ids /\ pass.todo \in SUBSET Ids /\ pass.seen \in 0..MaxHolds
  BY DEF SweepType
<1>2. [pass EXCEPT !.step = "next", !.at = at, !.todo = todo] \in SweepType
  BY DEF SweepType
<1>3. [pass EXCEPT !.step = "due", !.todo = todo, !.id = i, !.seen = h] \in SweepType
  BY DEF SweepType
<1>4. [pass EXCEPT !.todo = todo] \in SweepType
  BY DEF SweepType
<1>5. [pass EXCEPT !.step = "won"] \in SweepType
  BY DEF SweepType
<1> QED
  BY <1>1, <1>2, <1>3, <1>4, <1>5

(* Going on to the next candidate leaves a pass. *)
LEMMA NextCandidateTyped ==
  ASSUME TypeOK, NEW s \in Sweepers
  PROVE  sweep[s] \in SweepType /\ NextCandidate(s) \in SweepType
<1>1. sweep[s] \in SweepType
  BY DEF TypeOK
<1>2. NoSweep \in SweepType /\ NoTask.id \in Ids
  BY BlankTypes, SomeId
<1>3. [sweep[s] EXCEPT !.step = "next", !.id = NoTask.id, !.seen = NoHold] \in SweepType
  BY <1>1, <1>2, NoHoldTyped DEF SweepType
<1> QED
  BY <1>1, <1>2, <1>3 DEF NextCandidate

(* Counters only count. *)
LEMMA Incremented ==
  ASSUME NEW S, NEW f \in [S -> Nat], NEW b
  PROVE  [f EXCEPT ![b] = @ + 1] \in [S -> Nat]
<1> DEFINE g == [f EXCEPT ![b] = @ + 1]
<1>1. ASSUME NEW x \in S PROVE g[x] \in Nat
  OBVIOUS
<1>2. g = [x \in S |-> g[x]]
  OBVIOUS
<1> QED
  BY <1>1, <1>2

(* Every step keeps the types. *)
LEMMA TypesInductive ==
  ASSUME TypeOK, [Next]_vars
  PROVE  TypeOK'
<1>1. ASSUME UNCHANGED vars
      PROVE  TypeOK'
  BY <1>1 DEF vars, TypeOK, storeVars, evidence, quarantine
<1>2. ASSUME Tick
      PROVE  TypeOK'
  BY <1>2, ApprovalConstants DEF Tick, TypeOK, storeVars, evidence, quarantine
<1>3. ASSUME NEW i \in Ids, Materialize(i)
      PROVE  TypeOK'
  <2>1. row' \in [Ids -> RowType]
    BY <1>3, ApprovalConstants DEF Materialize, TypeOK, RowType, Statuses
  <2>2. made' \in 0..MaxHolds
    BY <1>3, ApprovalConstants DEF Materialize, TypeOK
  <2> QED
    BY <1>3, <2>1, <2>2, NowInTime, ApprovalConstants DEF Materialize, Holds,
       TypeOK, storeVars, evidence, quarantine
<1>4. ASSUME NEW o \in Owners, NEW i \in Ids, NEW verb \in {"approve", "reject"},
             FirstRead(o, i, verb)
      PROVE  TypeOK'
  <2>1. pc' \in [Owners -> Points]
    BY <1>4, GotoTyped DEF FirstRead, Points, Releasing
  <2>2. task' \in [Owners -> TaskType]
    BY <1>4, TaskTyped, TaskUpdates, RowTyped, NowInTime DEF FirstRead, TypeOK
  <2> QED
    BY <1>4, <2>1, <2>2 DEF FirstRead, TypeOK, storeVars, evidence, quarantine
<1>5. ASSUME NEW o \in Owners, NEW i \in Ids, FlagRead(o, i)
      PROVE  TypeOK'
  <2>1. pc' \in [Owners -> Points]
    BY <1>5, GotoTyped DEF FlagRead, Points, Releasing
  <2>2. task' \in [Owners -> TaskType]
    BY <1>5, TaskTyped, TaskUpdates, RowTyped DEF FlagRead, TypeOK
  <2> QED
    BY <1>5, <2>1, <2>2 DEF FlagRead, TypeOK, storeVars, evidence, quarantine
<1>6. ASSUME NEW o \in Owners, ReadClock(o)
      PROVE  TypeOK'
  <2>1. pc' \in [Owners -> Points]
    BY <1>6, GotoTyped DEF ReadClock, Points, Releasing
  <2>2. task' \in [Owners -> TaskType]
    <3>1. task[o] \in TaskType /\ Clock(o) \in Time
      BY ClockInTime DEF TypeOK
    <3>2. [task[o] EXCEPT !.at = Clock(o)] \in TaskType
      BY <3>1 DEF TaskType
    <3> QED
      BY <1>6, <3>2, TaskTyped DEF ReadClock
  <2> QED
    BY <1>6, <2>1, <2>2 DEF ReadClock, TypeOK, storeVars, evidence, quarantine
<1>7. ASSUME NEW o \in Owners, GetIntent(o)
      PROVE  TypeOK'
  <2>1. pc' \in [Owners -> Points]
    BY <1>7, GotoTyped, ReturnTyped DEF GetIntent, Points, Releasing
  <2>2. task' \in [Owners -> TaskType]
    BY <1>7, ReturnTyped, TaskTyped, TaskUpdates, TaskFields, RowTyped DEF
       GetIntent, TypeOK
  <2> QED
    BY <1>7, <2>1, <2>2 DEF GetIntent, TypeOK, storeVars, evidence, quarantine
<1>8. ASSUME NEW o \in Owners, LoseClaim(o)
      PROVE  TypeOK'
  <2>1. pc' \in [Owners -> Points] /\ task' \in [Owners -> TaskType]
    BY <1>8, ReturnTyped DEF LoseClaim
  <2> QED
    BY <1>8, <2>1 DEF LoseClaim, TypeOK, storeVars, evidence, quarantine
<1>9. ASSUME NEW o \in Owners, Stop(o)
      PROVE  TypeOK'
  <2>1. pc' \in [Owners -> Points] /\ task' \in [Owners -> TaskType]
    BY <1>9, ReturnTyped DEF Stop
  <2> QED
    BY <1>9, <2>1 DEF Stop, TypeOK, storeVars, evidence, quarantine
<1>10. ASSUME NEW o \in Owners, ExpireLate(o)
      PROVE  TypeOK'
  <2>1. pc' \in [Owners -> Points]
    BY <1>10, GotoTyped DEF ExpireLate, Points, Releasing
  <2>2. row' \in [Ids -> RowType]
    BY <1>10, TransitionTyped, TaskFields DEF ExpireLate, Statuses, TypeOK
  <2> QED
    BY <1>10, <2>1, <2>2 DEF ExpireLate, TypeOK, storeVars, evidence, quarantine
<1>11. ASSUME NEW o \in Owners, ClaimApproval(o)
      PROVE  TypeOK'
  <2>1. pc' \in [Owners -> Points]
    BY <1>11, GotoTyped DEF ClaimApproval, Points, Releasing
  <2>2. row' \in [Ids -> RowType]
    BY <1>11, TransitionTyped, TaskFields DEF ClaimApproval, Statuses, TypeOK
  <2> QED
    BY <1>11, <2>1, <2>2 DEF ClaimApproval, TypeOK, storeVars, evidence, quarantine
<1>12. ASSUME NEW o \in Owners, ClaimRejection(o)
      PROVE  TypeOK'
  <2>1. pc' \in [Owners -> Points]
    BY <1>12, GotoTyped DEF ClaimRejection, Points, Releasing
  <2>2. row' \in [Ids -> RowType]
    BY <1>12, TransitionTyped, TaskFields DEF ClaimRejection, Statuses, TypeOK
  <2> QED
    BY <1>12, <2>1, <2>2 DEF ClaimRejection, TypeOK, storeVars, evidence, quarantine
<1>13. ASSUME NEW o \in Owners, RecordLateExpiry(o)
      PROVE  TypeOK'
  <2>1. pc' \in [Owners -> Points] /\ task' \in [Owners -> TaskType]
    BY <1>13, ReturnTyped DEF RecordLateExpiry
  <2>2. tape' \in [Holds -> [Outcomes -> Nat]]
    BY <1>13, EmitTyped DEF RecordLateExpiry, Outcomes
  <2> QED
    BY <1>13, <2>1, <2>2 DEF RecordLateExpiry, TypeOK, storeVars, evidence, quarantine
<1>14. ASSUME NEW o \in Owners, RecordFailed(o)
      PROVE  TypeOK'
  <2>1. pc' \in [Owners -> Points] /\ task' \in [Owners -> TaskType]
    BY <1>14, ReturnTyped DEF RecordFailed
  <2>2. tape' \in [Holds -> [Outcomes -> Nat]]
    BY <1>14, EmitTyped DEF RecordFailed, Outcomes
  <2> QED
    BY <1>14, <2>1, <2>2 DEF RecordFailed, TypeOK, storeVars, evidence, quarantine
<1>15. ASSUME NEW o \in Owners, RecordRejection(o)
      PROVE  TypeOK'
  <2>1. pc' \in [Owners -> Points] /\ task' \in [Owners -> TaskType]
    BY <1>15, ReturnTyped DEF RecordRejection
  <2>2. tape' \in [Holds -> [Outcomes -> Nat]]
    BY <1>15, EmitTyped DEF RecordRejection, Outcomes
  <2> QED
    BY <1>15, <2>1, <2>2 DEF RecordRejection, TypeOK, storeVars, evidence, quarantine
<1>16. ASSUME NEW o \in Owners, RecordFlag(o)
      PROVE  TypeOK'
  <2>1. pc' \in [Owners -> Points] /\ task' \in [Owners -> TaskType]
    BY <1>16, ReturnTyped DEF RecordFlag
  <2>2. tape' \in [Holds -> [Outcomes -> Nat]]
    BY <1>16, EmitTyped DEF RecordFlag, Outcomes
  <2> QED
    BY <1>16, <2>1, <2>2 DEF RecordFlag, TypeOK, storeVars, evidence, quarantine
<1>17. ASSUME NEW o \in Owners, RefuseRelease(o)
      PROVE  TypeOK'
  <2>1. pc' \in [Owners -> Points]
    BY <1>17, GotoTyped DEF RefuseRelease, Points, Releasing
  <2>2. tape' \in [Holds -> [Outcomes -> Nat]]
    BY <1>17, EmitTyped DEF RefuseRelease, Outcomes
  <2> QED
    BY <1>17, <2>1, <2>2 DEF RefuseRelease, TypeOK, storeVars, evidence, quarantine
<1>18. ASSUME NEW o \in Owners, RecordExecuted(o)
      PROVE  TypeOK'
  <2>1. pc' \in [Owners -> Points]
    BY <1>18, GotoTyped DEF RecordExecuted, Points, Releasing
  <2>2. tape' \in [Holds -> [Outcomes -> Nat]]
    BY <1>18, EmitTyped DEF RecordExecuted, Outcomes
  <2> QED
    BY <1>18, <2>1, <2>2 DEF RecordExecuted, TypeOK, storeVars, evidence, quarantine
<1>19. ASSUME NEW o \in Owners, MarkRefused(o)
      PROVE  TypeOK'
  <2>1. pc' \in [Owners -> Points] /\ task' \in [Owners -> TaskType]
    BY <1>19, ReturnTyped DEF MarkRefused
  <2>2. row' \in [Ids -> RowType]
    BY <1>19, TransitionTyped, TaskFields DEF MarkRefused, Statuses, TypeOK
  <2> QED
    BY <1>19, <2>1, <2>2 DEF MarkRefused, TypeOK, storeVars, evidence, quarantine
<1>20. ASSUME NEW o \in Owners, RunConnector(o)
      PROVE  TypeOK'
  <2>1. pc' \in [Owners -> Points]
    BY <1>20, GotoTyped DEF RunConnector, Points, Releasing
  <2> QED
    BY <1>20, <2>1, Incremented DEF RunConnector, TypeOK, storeVars, evidence, quarantine
<1>21. ASSUME NEW o \in Owners, CountObservation(o)
      PROVE  TypeOK'
  <2>1. pc' \in [Owners -> Points]
    BY <1>21, GotoTyped DEF CountObservation, Points, Releasing
  <2>2. observations \in [Buckets -> Nat]
    BY DEF TypeOK
  <2>3. [observations EXCEPT ![Bucket(Clock(o))] = @ + 1] \in [Buckets -> Nat]
    BY <2>2, Incremented
  <2>4. observations' \in [Buckets -> Nat]
    BY <1>21, <2>2, <2>3 DEF CountObservation
  <2> QED
    BY <1>21, <2>1, <2>4 DEF CountObservation, TypeOK, storeVars, quarantine
<1>22. ASSUME NEW o \in Owners, LabelObservation(o)
      PROVE  TypeOK'
  <2>1. pc' \in [Owners -> Points]
    BY <1>22, GotoTyped DEF LabelObservation, Points, Releasing
  <2>2. observations' \in [Buckets -> Nat]
    BY <1>22, Incremented DEF LabelObservation, TypeOK
  <2> QED
    BY <1>22, <2>1, <2>2 DEF LabelObservation, TypeOK, storeVars, quarantine
<1>23. ASSUME NEW o \in Owners, CountFalseAction(o)
      PROVE  TypeOK'
  <2>1. pc' \in [Owners -> Points]
    BY <1>23, GotoTyped DEF CountFalseAction, Points, Releasing
  <2> QED
    BY <1>23, <2>1, Incremented DEF CountFalseAction, TypeOK, storeVars,
       evidence, quarantine
<1>24. ASSUME NEW o \in Owners, MarkExecuted(o)
      PROVE  TypeOK'
  <2>1. pc' \in [Owners -> Points] /\ task' \in [Owners -> TaskType]
    BY <1>24, ReturnTyped DEF MarkExecuted
  <2>2. row' \in [Ids -> RowType]
    BY <1>24, ClockInTime, TaskFields DEF MarkExecuted, TypeOK, RowType,
       Statuses
  <2> QED
    BY <1>24, <2>1, <2>2 DEF MarkExecuted, TypeOK, storeVars, evidence, quarantine
<1>25. ASSUME NEW o \in Owners, LabelOverride(o)
      PROVE  TypeOK'
  <2>1. pc' \in [Owners -> Points]
    BY <1>25, GotoTyped DEF LabelOverride, Points, Releasing
  <2>2. Stored(o) \in 0..MaxHolds
    BY <1>25, TaskFields, RowTyped DEF Stored, TypeOK
  <2>3. task' \in [Owners -> TaskType]
    <3>1. task[o] \in TaskType /\ Clock(o) \in Time
      BY ClockInTime DEF TypeOK
    <3>2. [task[o] EXCEPT !.first = Stored(o), !.at = Clock(o)] \in TaskType
      BY <3>1, <2>2 DEF TaskType
    <3> QED
      BY <1>25, <3>2, TaskTyped DEF LabelOverride
  <2> QED
    BY <1>25, <2>1, <2>2, <2>3, Incremented DEF LabelOverride, TypeOK,
       storeVars, evidence, quarantine
<1>26. ASSUME NEW o \in Owners, ClaimMarker(o)
      PROVE  TypeOK'
  <2>1. pc' \in [Owners -> Points]
    BY <1>26, GotoTyped, ReturnTyped DEF ClaimMarker, Points, TypeOK
  <2>2. task' \in [Owners -> TaskType]
    BY <1>26, ReturnTyped DEF ClaimMarker, TypeOK
  <2> QED
    BY <1>26, <2>1, <2>2 DEF ClaimMarker, TypeOK, storeVars, evidence, quarantine
<1>27. ASSUME NEW s \in Sweepers, SweepStart(s)
      PROVE  TypeOK'
  <2>1. sweep' \in [Sweepers -> SweepType]
    BY <1>27, SweepTyped, SweepUpdates, NextCandidateTyped, ClockInTime, SomeId
       DEF SweepStart, TypeOK
  <2> QED
    BY <1>27, <2>1 DEF SweepStart, TypeOK, storeVars, evidence, quarantine
<1>28. ASSUME NEW s \in Sweepers, NEW i \in Ids, SweepGet(s, i)
      PROVE  TypeOK'
  <2>1. sweep[s] \in SweepType /\ sweep[s].todo \ {i} \in SUBSET Ids
    BY <1>28, NextCandidateTyped DEF SweepType
  <2>2. [sweep[s] EXCEPT !.step = "due", !.todo = sweep[s].todo \ {i}, !.id = i,
                          !.seen = row[i].hold] \in SweepType
    BY <1>28, <2>1, RowTyped DEF SweepType
  <2>3. [sweep[s] EXCEPT !.todo = sweep[s].todo \ {i}] \in SweepType
    BY <1>28, <2>1 DEF SweepType
  <2>4. sweep' \in [Sweepers -> SweepType]
    BY <1>28, <2>2, <2>3, BlankTypes, SweepTyped DEF SweepGet
  <2> QED
    BY <1>28, <2>1, <2>2, <2>3, <2>4 DEF SweepGet, TypeOK, storeVars, evidence, quarantine
<1>29. ASSUME NEW s \in Sweepers, SweepExpire(s)
      PROVE  TypeOK'
  <2>1. sweep[s].id \in Ids /\ [sweep[s] EXCEPT !.step = "won"] \in SweepType
    BY <1>29, NextCandidateTyped DEF SweepType
  <2>2. row' \in [Ids -> RowType]
    BY <1>29, <2>1, TransitionTyped DEF SweepExpire, Statuses, TypeOK
  <2>3. sweep' \in [Sweepers -> SweepType]
    BY <1>29, <2>1, NextCandidateTyped, SweepTyped DEF SweepExpire
  <2> QED
    BY <1>29, <2>1, <2>2, <2>3 DEF SweepExpire, TypeOK, storeVars, evidence, quarantine
<1>30. ASSUME NEW s \in Sweepers, SweepRecord(s)
      PROVE  TypeOK'
  <2>1. tape' \in [Holds -> [Outcomes -> Nat]]
    BY <1>30, EmitTyped DEF SweepRecord, Outcomes
  <2>2. sweep' \in [Sweepers -> SweepType]
    BY <1>30, NextCandidateTyped, SweepTyped DEF SweepRecord
  <2> QED
    BY <1>30, <2>1, <2>2 DEF SweepRecord, TypeOK, storeVars, evidence, quarantine
<1>31. ASSUME NEW s \in Sweepers, SweepStop(s)
      PROVE  TypeOK'
  <2>1. sweep' \in [Sweepers -> SweepType]
    BY <1>31, BlankTypes, SweepTyped DEF SweepStop
  <2> QED
    BY <1>31, <2>1 DEF SweepStop, TypeOK, storeVars, evidence, quarantine
<1>32. ASSUME NEW i \in Ids, Rewrite(i) \/ QuarantinedRead(i)
      PROVE  TypeOK'
  <2>1. verifies' \in [Ids -> BOOLEAN]
    BY <1>32 DEF Rewrite, QuarantinedRead, TypeOK
  <2>2. turnedAway' \in [Holds -> SUBSET TurnedAway]
    BY <1>32, TurnAwayTyped DEF Rewrite, QuarantinedRead, TypeOK, TurnedAway
  <2> QED
    BY <1>32, <2>1, <2>2 DEF Rewrite, QuarantinedRead, TypeOK, storeVars, evidence
<1>33. ASSUME NEW o \in Owners, RefuseShown(o) \/ Surface(o)
      PROVE  TypeOK'
  <2>1. pc' \in [Owners -> Points] /\ task' \in [Owners -> TaskType]
    BY <1>33, ReturnTyped DEF RefuseShown, Surface
  <2>2. turnedAway' \in [Holds -> SUBSET TurnedAway]
    BY <1>33, TurnAwayTyped DEF RefuseShown, Surface, TurnedAway
  <2> QED
    BY <1>33, <2>1, <2>2 DEF RefuseShown, Surface, TypeOK, storeVars, evidence
<1>34. ASSUME NEW s \in Sweepers, NEW i \in Ids, SweepQuarantined(s, i)
      PROVE  TypeOK'
  <2>1. sweep[s] \in SweepType /\ sweep[s].todo \ {i} \in SUBSET Ids
    BY <1>34, NextCandidateTyped DEF SweepType
  <2>2. [sweep[s] EXCEPT !.todo = sweep[s].todo \ {i}] \in SweepType
    BY <2>1 DEF SweepType
  <2>3. sweep' \in [Sweepers -> SweepType]
    BY <1>34, <2>2, BlankTypes, SweepTyped DEF SweepQuarantined
  <2>4. turnedAway' \in [Holds -> SUBSET TurnedAway]
    BY <1>34, TurnAwayTyped DEF SweepQuarantined, TurnedAway
  <2> QED
    BY <1>34, <2>3, <2>4 DEF SweepQuarantined, TypeOK, storeVars, evidence
<1> QED
  BY <1>1, <1>2, <1>3, <1>4, <1>5, <1>6, <1>7, <1>8, <1>9, <1>10, <1>11,
     <1>12, <1>13, <1>14, <1>15, <1>16, <1>17, <1>18, <1>19, <1>20, <1>21,
     <1>22, <1>23, <1>24, <1>25, <1>26, <1>27, <1>28, <1>29, <1>30, <1>31,
     <1>32, <1>33, <1>34 DEF Next, Continue, Sweep

(* What the counting argument needs of the types. *)
Shape ==
    /\ made \in 0..MaxHolds
    /\ row \in [Ids -> RowType]
    /\ pc \in [Owners -> Points]
    /\ task \in [Owners -> TaskType]
    /\ sweep \in [Sweepers -> SweepType]

(* The shape is part of the type invariant. *)
LEMMA TypesShape == TypeOK => Shape
  BY DEF TypeOK, Shape

(* The initial state has the types. *)
LEMMA InitTypes == Init => TypeOK
<1> SUFFICES ASSUME Init PROVE TypeOK
  OBVIOUS
<1>1. now \in Skew..(Skew + Horizon) /\ made \in 0..MaxHolds /\ 0 \in Time /\ NoHold \in 0..MaxHolds
  BY ApprovalConstants DEF Init, Time, NoHold
<1>2. row \in [Ids -> RowType]
  BY <1>1 DEF Init, Absent, RowType, Statuses
<1>3. task \in [Owners -> TaskType] /\ sweep \in [Sweepers -> SweepType]
  BY BlankTypes DEF Init
<1>4. /\ heldAt \in [Holds -> Time] /\ pc \in [Owners -> Points]
      /\ ran \in [Holds -> Nat] /\ tape \in [Holds -> [Outcomes -> Nat]]
  BY <1>1 DEF Init, Points
<1>5. /\ marker \in [Ids -> 0..1] /\ observations \in [Buckets -> Nat]
      /\ override \in [Buckets -> Nat] /\ falseAction \in [Buckets -> Nat]
  BY DEF Init
<1>6. verifies \in [Ids -> BOOLEAN] /\ turnedAway \in [Holds -> SUBSET TurnedAway]
  BY DEF Init
<1> QED
  BY <1>1, <1>2, <1>3, <1>4, <1>5, <1>6 DEF TypeOK

(* Rows, tasks, passes, the tape and the evidence labels keep their types  *)
(* in every behaviour of the approval flow, dedup on or off.               *)
THEOREM TypeCorrect == Spec => []TypeOK
<1>1. Init => TypeOK
  BY InitTypes
<1>2. TypeOK /\ [Next]_vars => TypeOK'
  BY TypesInductive
<1> QED
  BY <1>1, <1>2, PTL DEF Spec

(* The other rows stay as they are. *)
OtherRows(i) == \A j \in Ids \ {i} : row'[j] = row[j]

(* The compare-and-set changes one status and no hold. *)
LEMMA TransitionRows ==
  ASSUME Shape, NEW i \in Ids, NEW expected, NEW new, transition_status(i, expected, new)
  PROVE  /\ row[i].status = expected /\ row'[i].status = new
         /\ row'[i].hold = row[i].hold /\ OtherRows(i)
<1>1. row \in [Ids -> RowType] /\ row[i] \in RowType
  BY DEF Shape
<1>2. row' = [row EXCEPT ![i] = [row[i] EXCEPT !.status = new]]
  BY DEF transition_status
<1>3. row'[i] = [row[i] EXCEPT !.status = new] /\ OtherRows(i)
  BY <1>1, <1>2 DEF OtherRows
<1> QED
  BY <1>1, <1>3 DEF RowType, transition_status

(* The fields a read replaces. *)
LEMMA ReadFields ==
  ASSUME NEW t \in TaskType, NEW i, NEW h, NEW at, NEW verb
  PROVE  /\ LET u == [t EXCEPT !.id = i, !.verb = verb, !.first = h, !.began = at]
            IN u.id = i /\ u.first = h /\ u.began = at /\ u.seen = t.seen
         /\ LET u == [t EXCEPT !.at = at]
            IN /\ u.id = t.id /\ u.first = t.first /\ u.seen = t.seen
               /\ u.began = t.began /\ u.at = at
         /\ LET u == [t EXCEPT !.seen = h]
            IN /\ u.id = t.id /\ u.first = t.first /\ u.seen = h
               /\ u.began = t.began /\ u.at = t.at
         /\ LET u == [t EXCEPT !.first = h, !.at = at]
            IN u.id = t.id /\ u.first = h /\ u.seen = t.seen
         /\ LET u == [t EXCEPT !.id = i, !.verb = verb, !.seen = h, !.at = at]
            IN u.id = i /\ u.first = t.first /\ u.seen = h
  BY DEF TaskType

-----------------------------------------------------------------------------
(* The skew argument.  It needs no more of the ids than that a hold once   *)
(* read was made, so that its expiry no longer changes.                    *)
ReadsMade ==
    /\ \A i \in Ids :
          /\ row[i].hold <= made
          /\ row[i].status # "absent" => row[i].hold # NoHold
    /\ \A o \in Owners :
          /\ task[o].seen <= made
          /\ pc[o] \in Releasing \cup {"read"} => task[o].seen # NoHold

(* Only the claim enters the release, and it keeps the reading it judged.  *)
Releases ==
    \A p \in Owners : pc'[p] \in Releasing =>
        /\ task'[p] = task[p]
        /\ \/ pc[p] \in Releasing
           \/ pc[p] = "read" /\ task[p].verb = "approve" /\ ~_is_expired(p)

HeldAtKept == \A h \in 1..made : heldAt'[h] = heldAt[h]

(* How a step moves a row and an owner's reading, dedup on or off. *)
RowsMade ==
    /\ made' \in {made, made + 1}
    /\ \A i \in Ids :
          \/ /\ row'[i].hold = row[i].hold
             /\ row'[i].status # "absent" => row[i].status # "absent"
          \/ made' = made + 1 /\ row'[i].hold = made'
SeenMade(o) ==
    /\ \/ task'[o].seen = task[o].seen
       \/ task'[o].seen = NoHold
       \/ \E i \in Ids : task'[o].seen = row[i].hold
    /\ pc'[o] \in Releasing \cup {"read"} =>
          \/ pc[o] \in Releasing \cup {"read"} /\ task'[o].seen = task[o].seen
          \/ \E i \in Ids : row[i].status # "absent" /\ task'[o].seen = row[i].hold

(* A compare-and-set, or no change, moves the rows this way. *)
LEMMA TransitionMade ==
  ASSUME Shape, UNCHANGED made,
         UNCHANGED row
           \/ \E i \in Ids, expected \in Statuses \ {"absent"}, new \in Statuses :
                  transition_status(i, expected, new)
  PROVE  RowsMade
<1>1. CASE UNCHANGED row
  BY <1>1 DEF RowsMade
<1>2. ASSUME NEW i \in Ids, NEW expected \in Statuses \ {"absent"}, NEW new \in Statuses,
             transition_status(i, expected, new)
      PROVE  RowsMade
  BY <1>2, TransitionRows DEF RowsMade, OtherRows
<1> QED
  BY <1>1, <1>2

(* Every step moves the rows this way. *)
LEMMA StepRows ==
  ASSUME Shape, [Next]_vars
  PROVE  RowsMade
<1>0. /\ \A o \in Owners : task[o].id \in Ids
      /\ \A s \in Sweepers : sweep[s].id \in Ids
      /\ {"pending", "approved", "rejected", "expired", "executed", "refused"}
            \subseteq Statuses \ {"absent"}
  BY DEF Shape, TaskType, SweepType, Statuses
<1>1. ASSUME NEW i \in Ids, Materialize(i) PROVE RowsMade
  BY <1>1 DEF Materialize, RowsMade, Shape
<1>2. ASSUME NEW o \in Owners, Continue(o) \/ Stop(o) PROVE RowsMade
  <2>1. CASE MarkExecuted(o)
    <3> DEFINE i == task[o].id
    <3>1. CASE row[i].status = "approved"
      <4>1. row' = [row EXCEPT ![i].status = "executed", ![i].executedAt = Clock(o)]
            /\ UNCHANGED made
        BY <2>1, <3>1 DEF MarkExecuted
      <4>2. row'[i].hold = row[i].hold /\ OtherRows(i)
        BY <1>0, <4>1 DEF Shape, RowType, OtherRows
      <4> QED
        BY <3>1, <4>1, <4>2 DEF RowsMade, OtherRows
    <3>2. CASE row[i].status # "approved"
      BY <2>1, <3>2 DEF MarkExecuted, RowsMade
    <3> QED
      BY <3>1, <3>2
  <2>2. CASE ExpireLate(o) \/ ClaimApproval(o) \/ ClaimRejection(o) \/ MarkRefused(o)
    <3>1. UNCHANGED made /\ (\/ UNCHANGED row
                             \/ transition_status(task[o].id, "pending", "expired")
                             \/ transition_status(task[o].id, "pending", "approved")
                             \/ transition_status(task[o].id, "pending", "rejected")
                             \/ transition_status(task[o].id, "approved", "refused"))
      BY <2>2 DEF ExpireLate, ClaimApproval, ClaimRejection, MarkRefused
    <3> QED
      BY <1>0, <3>1, TransitionMade DEF Statuses
  <2>3. ASSUME \/ ReadClock(o) \/ GetIntent(o) \/ LoseClaim(o) \/ RecordLateExpiry(o)
               \/ RefuseRelease(o) \/ RunConnector(o) \/ RecordFailed(o) \/ RecordExecuted(o)
               \/ CountObservation(o) \/ RefuseShown(o) \/ Surface(o)
        PROVE  UNCHANGED storeVars
    BY <2>3, Zenon DEF ReadClock, GetIntent, LoseClaim, RecordLateExpiry, RefuseRelease,
       RunConnector, RecordFailed, RecordExecuted, CountObservation, RefuseShown, Surface
  <2>4. ASSUME \/ LabelOverride(o) \/ LabelObservation(o) \/ RecordRejection(o)
               \/ ClaimMarker(o) \/ CountFalseAction(o) \/ RecordFlag(o) \/ Stop(o)
        PROVE  UNCHANGED storeVars
    BY <2>4, Zenon DEF LabelOverride, LabelObservation, RecordRejection, ClaimMarker,
       CountFalseAction, RecordFlag, Stop
  <2>5. UNCHANGED storeVars => RowsMade
    BY TransitionMade DEF storeVars
  <2> QED
    BY <1>2, <2>1, <2>2, <2>3, <2>4, <2>5 DEF Continue
<1>3. ASSUME NEW o \in Owners, NEW i \in Ids, NEW verb,
             FlagRead(o, i) \/ FirstRead(o, i, verb)
      PROVE  RowsMade
  <2>1. UNCHANGED storeVars
    BY <1>3, Zenon DEF FlagRead, FirstRead
  <2> QED
    BY <2>1, TransitionMade DEF storeVars
<1>4. ASSUME NEW s \in Sweepers, Sweep(s) \/ SweepStop(s) PROVE RowsMade
  <2>1. ASSUME NEW i \in Ids, \/ SweepStart(s) \/ SweepGet(s, i) \/ SweepQuarantined(s, i)
                              \/ SweepRecord(s) \/ SweepStop(s)
        PROVE  UNCHANGED storeVars
    BY <2>1, Zenon DEF SweepStart, SweepGet, SweepQuarantined, SweepRecord, SweepStop
  <2>2. UNCHANGED storeVars => RowsMade
    BY TransitionMade DEF storeVars
  <2>3. CASE SweepExpire(s)
    <3>1. UNCHANGED made /\ (UNCHANGED row \/ transition_status(sweep[s].id, "pending", "expired"))
      BY <2>3 DEF SweepExpire
    <3> QED
      BY <1>0, <3>1, TransitionMade DEF Statuses
  <2>4. PICK i \in Ids : TRUE
    BY ApprovalConstants
  <2> QED
    BY <1>4, <2>1, <2>2, <2>3, <2>4 DEF Sweep
<1>5. ASSUME UNCHANGED vars \/ Tick PROVE RowsMade
  BY <1>5, TransitionMade DEF vars, Tick, storeVars
<1>6. ASSUME NEW i \in Ids, Rewrite(i) \/ QuarantinedRead(i) PROVE RowsMade
  BY <1>6, TransitionMade DEF Rewrite, QuarantinedRead, storeVars
<1> QED
  BY <1>1, <1>2, <1>3, <1>4, <1>5, <1>6 DEF Next

(* A handler that holds a new task moves its reading this way. *)
LEMMA TaskSeen ==
  ASSUME Shape, NEW p \in Owners, NEW o \in Owners, NEW point, Goto(o, point),
         NEW t, SetTask(o, t),
         \/ t.seen = NoHold /\ point \notin Releasing \cup {"read"}
         \/ t.seen = task[o].seen /\ point \notin Releasing \cup {"read"}
         \/ \E i \in Ids : row[i].status # "absent" /\ t.seen = row[i].hold
  PROVE  SeenMade(p)
<1>1. /\ pc'[o] = point /\ task'[o] = t
      /\ p # o => pc'[p] = pc[p] /\ task'[p] = task[p]
  BY DEF Goto, SetTask, Shape
<1>2. CASE p # o
  BY <1>1, <1>2 DEF SeenMade
<1>3. CASE p = o
  BY <1>1, <1>3 DEF SeenMade
<1> QED
  BY <1>2, <1>3

(* A handler that returns has no reading. *)
LEMMA ReturnSeen ==
  ASSUME Shape, NEW p \in Owners, NEW o \in Owners, Return(o)
  PROVE  SeenMade(p)
<1>1. Goto(o, "idle") /\ SetTask(o, NoTask)
  BY DEF Return
<1>2. NoTask.seen = NoHold
  BY DEF NoTask
<1>3. "idle" \notin Releasing \cup {"read"}
  BY DEF Releasing
<1> QED
  BY <1>1, <1>2, <1>3, TaskSeen

(* Every step moves an owner's reading this way. *)
LEMMA StepSeen ==
  ASSUME Shape, [Next]_vars, NEW p \in Owners
  PROVE  SeenMade(p)
<1>0. /\ \A o \in Owners : task[o] \in TaskType /\ task[o].id \in Ids
      /\ NoTask.seen = NoHold
  BY DEF Shape, TaskType, NoTask
<1>1. UNCHANGED <<pc, task>> => SeenMade(p)
  BY DEF SeenMade
<1>2. {"held", "clocked", "overridden", "labelled"} \cap (Releasing \cup {"read"}) = {}
  BY DEF Releasing
<1>3. ASSUME NEW o \in Owners, Return(o) PROVE SeenMade(p)
  BY <1>3, ReturnSeen
<1>4. ASSUME NEW o \in Owners, NEW point, Goto(o, point), UNCHANGED task,
             point \in Releasing => pc[o] \in Releasing \cup {"read"}, point # "read"
      PROVE  SeenMade(p)
  BY <1>4 DEF Goto, Shape, SeenMade
<1>5. ASSUME NEW o \in Owners, Continue(o) \/ Stop(o) PROVE SeenMade(p)
  <2>1. CASE ReadClock(o)
    <3> DEFINE t == [task[o] EXCEPT !.at = Clock(o)]
    <3>1. t.seen = task[o].seen
      BY <1>0, ReadFields
    <3>2. Goto(o, "clocked") /\ SetTask(o, t)
      BY <2>1 DEF ReadClock
    <3> HIDE DEF t
    <3> QED
      BY <1>2, <3>1, <3>2, TaskSeen
  <2>2. CASE GetIntent(o)
    <3> DEFINE t == [task[o] EXCEPT !.seen = row[task[o].id].hold]
    <3>1. t.seen = row[task[o].id].hold
      BY <1>0, ReadFields
    <3>2. \/ Return(o)
          \/ Goto(o, "read") /\ SetTask(o, t) /\ row[task[o].id].status # "absent"
      BY <2>2 DEF GetIntent
    <3> HIDE DEF t
    <3> QED
      BY <1>0, <1>3, <3>1, <3>2, TaskSeen
  <2>3. CASE LabelOverride(o)
    <3> DEFINE t == [task[o] EXCEPT !.first = Stored(o), !.at = Clock(o)]
    <3>1. t.seen = task[o].seen
      BY <1>0, ReadFields
    <3>2. (Goto(o, "overridden") \/ Goto(o, "labelled")) /\ SetTask(o, t)
      BY <2>3 DEF LabelOverride
    <3> HIDE DEF t
    <3> QED
      BY <1>2, <3>1, <3>2, TaskSeen
  <2>4. CASE \/ LoseClaim(o) \/ RecordLateExpiry(o) \/ MarkRefused(o) \/ RecordFailed(o)
             \/ MarkExecuted(o) \/ RecordRejection(o) \/ RecordFlag(o) \/ Stop(o)
             \/ RefuseShown(o) \/ Surface(o)
    BY <1>3, <2>4 DEF LoseClaim, RecordLateExpiry, MarkRefused, RecordFailed,
       MarkExecuted, RecordRejection, RecordFlag, Stop, RefuseShown, Surface
  <2>5. CASE \/ ExpireLate(o) \/ ClaimApproval(o) \/ RefuseRelease(o) \/ RunConnector(o)
             \/ RecordExecuted(o) \/ CountObservation(o)
    <3>1. UNCHANGED task /\ (\/ Goto(o, "late")
                             \/ pc[o] = "read" /\ Goto(o, "released")
                             \/ pc[o] = "released" /\ Goto(o, "refusing")
                             \/ pc[o] = "released" /\ Goto(o, "ran")
                             \/ pc[o] = "ran" /\ Goto(o, "taped")
                             \/ pc[o] = "taped" /\ Goto(o, "observed"))
      BY <2>5 DEF ExpireLate, ClaimApproval, RefuseRelease, RunConnector,
         RecordExecuted, CountObservation
    <3> QED
      BY <1>4, <3>1 DEF Releasing
  <2>6. CASE ClaimRejection(o) \/ LabelObservation(o) \/ ClaimMarker(o) \/ CountFalseAction(o)
    <3>1. \/ UNCHANGED task /\ (\/ Goto(o, "rejected") \/ Goto(o, "labelled")
                                \/ Goto(o, "marked") \/ Goto(o, "counted"))
          \/ Return(o)
      BY <2>6 DEF ClaimRejection, LabelObservation, ClaimMarker, CountFalseAction
    <3> QED
      BY <1>3, <1>4, <3>1 DEF Releasing
  <2> QED
    BY <1>5, <2>1, <2>2, <2>3, <2>4, <2>5, <2>6 DEF Continue
<1>6. ASSUME NEW o \in Owners, NEW i \in Ids, NEW verb, FirstRead(o, i, verb)
      PROVE  SeenMade(p)
  <2> DEFINE t == [task[o] EXCEPT !.id = i, !.verb = verb, !.first = row[i].hold,
                                  !.began = now]
  <2>1. t.seen = task[o].seen
    BY <1>0, ReadFields
  <2>2. Goto(o, "held") /\ SetTask(o, t)
    BY <1>6 DEF FirstRead
  <2> HIDE DEF t
  <2> QED
    BY <1>2, <2>1, <2>2, TaskSeen
<1>7. ASSUME NEW o \in Owners, NEW i \in Ids, FlagRead(o, i) PROVE SeenMade(p)
  <2> DEFINE t == [task[o] EXCEPT !.id = i, !.verb = "flag",
                                  !.seen = row[i].hold, !.at = row[i].executedAt]
  <2>1. t.seen = row[i].hold
    BY <1>0, ReadFields
  <2>2. Goto(o, "flagging") /\ SetTask(o, t) /\ row[i].status = "executed"
    BY <1>7 DEF FlagRead
  <2> HIDE DEF t
  <2> QED
    BY <2>1, <2>2, TaskSeen
<1>8. ASSUME NEW i \in Ids,
             UNCHANGED vars \/ Tick \/ Materialize(i) \/ Rewrite(i) \/ QuarantinedRead(i)
      PROVE  UNCHANGED <<pc, task>>
  BY <1>8 DEF vars, Tick, Materialize, Rewrite, QuarantinedRead
<1>9. ASSUME NEW s \in Sweepers, NEW i \in Ids,
             \/ SweepStart(s) \/ SweepGet(s, i) \/ SweepQuarantined(s, i)
             \/ SweepExpire(s) \/ SweepRecord(s) \/ SweepStop(s)
      PROVE  UNCHANGED <<pc, task>>
  BY <1>9, Zenon DEF SweepStart, SweepGet, SweepQuarantined, SweepExpire, SweepRecord,
     SweepStop
<1>10. PICK i \in Ids : TRUE
  BY ApprovalConstants
<1>11. ASSUME NEW s \in Sweepers, Sweep(s) \/ SweepStop(s) PROVE UNCHANGED <<pc, task>>
  BY <1>9, <1>10, <1>11 DEF Sweep
<1> QED
  BY <1>1, <1>5, <1>6, <1>7, <1>8, <1>10, <1>11 DEF Next

(* Every step keeps what is read made. *)
LEMMA MadeInductive ==
  ASSUME Shape, ReadsMade, [Next]_vars
  PROVE  ReadsMade'
<1>0. /\ made \in Nat /\ \A i \in Ids : row[i].hold \in Nat
      /\ \A o \in Owners : task[o].seen \in Nat
      /\ RowsMade /\ \A o \in Owners : SeenMade(o)
  BY ApprovalConstants, StepRows, StepSeen DEF Shape, RowType, TaskType
<1>1. \A i \in Ids : row'[i].hold <= made' /\ (row'[i].status # "absent" => row'[i].hold # NoHold)
  BY <1>0 DEF RowsMade, ReadsMade, NoHold
<1>2. made' \in Nat /\ made <= made'
  BY <1>0 DEF RowsMade
<1>3. ASSUME NEW o \in Owners PROVE task'[o].seen <= made'
  <2>1. task'[o].seen \in Nat /\ task'[o].seen <= made
    BY <1>0 DEF SeenMade, ReadsMade, NoHold
  <2> QED
    BY <1>0, <1>2, <2>1
<1>4. \A o \in Owners : pc'[o] \in Releasing \cup {"read"} => task'[o].seen # NoHold
  BY <1>0 DEF SeenMade, ReadsMade
<1> QED
  BY <1>1, <1>3, <1>4 DEF ReadsMade

(* No step restamps a hold that was made. *)
LEMMA OldHoldsKept ==
  ASSUME TypeOK, [Next]_vars
  PROVE  HeldAtKept
<1>1. ASSUME NEW i \in Ids, Materialize(i) PROVE HeldAtKept
  <2>1. made \in Nat /\ heldAt \in [Holds -> Time] /\ made + 1 \in Holds
    BY <1>1, ApprovalConstants DEF Materialize, TypeOK, Holds
  <2> QED
    BY <2>1, <1>1 DEF Materialize, HeldAtKept, Holds
<1>2. CASE UNCHANGED heldAt
  BY <1>2 DEF HeldAtKept
<1>3. (\E i \in Ids : Materialize(i)) \/ UNCHANGED heldAt
  BY DEF Next, Continue, Sweep, vars, storeVars, Tick, FirstRead, FlagRead,
     ReadClock, GetIntent, LoseClaim, ExpireLate, RecordLateExpiry,
     ClaimApproval, RefuseRelease, MarkRefused, RunConnector, RecordFailed,
     RecordExecuted, CountObservation, MarkExecuted, ClaimRejection,
     LabelOverride, LabelObservation, RecordRejection, ClaimMarker,
     CountFalseAction, RecordFlag, Stop, SweepStart, SweepGet, SweepExpire,
     SweepRecord, SweepStop, Rewrite, QuarantinedRead, RefuseShown, Surface,
     SweepQuarantined
<1> QED
  BY <1>1, <1>2, <1>3

(* Every step that ends in a release keeps its reading. *)
LEMMA ReleaseStep ==
  ASSUME Shape, [Next]_vars
  PROVE  Releases
<1> USE DEF Shape, Releases, Releasing, Goto, SetTask, Return
<1>1. CASE UNCHANGED <<pc, task>>
  BY <1>1
<1>2. ASSUME NEW o \in Owners, Continue(o) \/ Stop(o) PROVE Releases
  BY <1>2 DEF Continue, ReadClock, GetIntent, LoseClaim, ExpireLate,
     RecordLateExpiry, ClaimApproval, RefuseRelease, MarkRefused,
     RunConnector, RecordFailed, RecordExecuted, CountObservation,
     MarkExecuted, ClaimRejection, LabelOverride, LabelObservation,
     RecordRejection, ClaimMarker, CountFalseAction, RecordFlag, Stop,
     RefuseShown, Surface
<1>3. ASSUME NEW o \in Owners, NEW i \in Ids,
             FlagRead(o, i) \/ \E verb \in {"approve", "reject"} : FirstRead(o, i, verb)
      PROVE  Releases
  BY <1>3 DEF FlagRead, FirstRead
<1> HIDE DEF Releases, Releasing, Goto, SetTask, Return
<1>4. UNCHANGED <<pc, task>> \/ (\E o \in Owners : Continue(o) \/ Stop(o))
      \/ \E o \in Owners, i \in Ids :
            FlagRead(o, i) \/ \E verb \in {"approve", "reject"} : FirstRead(o, i, verb)
  BY DEF Next, Sweep, vars, Tick, Materialize, Rewrite, QuarantinedRead,
     SweepStart, SweepGet, SweepQuarantined, SweepExpire, SweepRecord, SweepStop
<1> QED
  BY <1>1, <1>2, <1>3, <1>4

(* An action reads its clock after it began: what it judges by is at most  *)
(* the skew before the instant it was asked for.                           *)
ClockedSince ==
    \A o \in Owners :
        /\ pc[o] = "held" => task[o].began <= now
        /\ pc[o] \in {"clocked", "read"} => task[o].began <= task[o].at + Skew

(* How a step moves an action up to its read of the row. *)
Clocks(p) ==
    /\ pc'[p] = "held" =>
          \/ pc[p] = "held" /\ task'[p] = task[p]
          \/ task'[p].began = now
    /\ pc'[p] = "clocked" =>
          \/ pc[p] = "clocked" /\ task'[p] = task[p]
          \/ /\ pc[p] = "held"
             /\ task'[p].began = task[p].began /\ task'[p].at = Clock(p)
    /\ pc'[p] = "read" =>
          /\ pc[p] \in {"clocked", "read"}
          /\ task'[p].began = task[p].began /\ task'[p].at = task[p].at

(* The other owners stay where they are. *)
LEMMA OthersClock ==
  ASSUME Shape, NEW o \in Owners, NEW p \in Owners, p # o, NEW point, Goto(o, point),
         UNCHANGED task \/ \E t : SetTask(o, t)
  PROVE  Clocks(p)
<1>1. pc'[p] = pc[p] /\ task'[p] = task[p]
  BY DEF Goto, SetTask, Shape
<1> QED
  BY <1>1 DEF Clocks

(* A handler that goes past the read, or returns, is no longer judging.    *)
LEMMA PastClock ==
  ASSUME Shape, NEW o \in Owners, NEW p \in Owners, NEW point \in Points, Goto(o, point),
         point \notin {"held", "clocked", "read"},
         UNCHANGED task \/ \E t : SetTask(o, t)
  PROVE  Clocks(p)
<1>1. CASE p = o
  BY <1>1 DEF Goto, Shape, Clocks
<1> QED
  BY <1>1, OthersClock

(* Every step moves an action this way. *)
LEMMA StepClocks ==
  ASSUME Shape, [Next]_vars, NEW p \in Owners
  PROVE  Clocks(p)
<1>0. \A o \in Owners : task[o] \in TaskType
  BY DEF Shape
<1>1. CASE UNCHANGED <<pc, task>>
  BY <1>1 DEF Clocks
<1>2. ASSUME NEW o \in Owners, Return(o) PROVE Clocks(p)
  BY <1>2, PastClock DEF Return, Points
<1>3. ASSUME NEW o \in Owners, NEW i \in Ids, NEW verb, FirstRead(o, i, verb)
      PROVE  Clocks(p)
  <2> DEFINE t == [task[o] EXCEPT !.id = i, !.verb = verb, !.first = row[i].hold,
                                  !.began = now]
  <2>1. t.began = now
    BY <1>0, ReadFields
  <2>2. Goto(o, "held") /\ SetTask(o, t)
    BY <1>3 DEF FirstRead
  <2> HIDE DEF t
  <2>3. CASE p = o
    <3>1. pc'[p] = "held" /\ task'[p] = t
      BY <2>2, <2>3 DEF Goto, SetTask, Shape
    <3> QED
      BY <2>1, <3>1 DEF Clocks
  <2> QED
    BY <2>2, <2>3, OthersClock
<1>4. ASSUME NEW o \in Owners, ReadClock(o) PROVE Clocks(p)
  <2> DEFINE t == [task[o] EXCEPT !.at = Clock(o)]
  <2>1. t.began = task[o].began /\ t.at = Clock(o)
    BY <1>0, ReadFields
  <2>2. pc[o] = "held" /\ Goto(o, "clocked") /\ SetTask(o, t)
    BY <1>4 DEF ReadClock
  <2> HIDE DEF t
  <2>3. CASE p = o
    <3>1. pc'[p] = "clocked" /\ task'[p] = t
      BY <2>2, <2>3 DEF Goto, SetTask, Shape
    <3> QED
      BY <2>1, <2>2, <2>3, <3>1 DEF Clocks
  <2> QED
    BY <2>2, <2>3, OthersClock
<1>5. ASSUME NEW o \in Owners, GetIntent(o) PROVE Clocks(p)
  <2> DEFINE t == [task[o] EXCEPT !.seen = row[task[o].id].hold]
  <2>1. t.began = task[o].began /\ t.at = task[o].at
    BY <1>0, ReadFields
  <2>2. /\ pc[o] = "clocked"
        /\ \/ Return(o)
           \/ Goto(o, "read") /\ SetTask(o, t)
    BY <1>5, Zenon DEF GetIntent
  <2> HIDE DEF t
  <2>3. CASE Goto(o, "read") /\ SetTask(o, t) /\ p = o
    <3>1. pc'[p] = "read" /\ task'[p] = t
      BY <2>3 DEF Goto, SetTask, Shape
    <3> QED
      BY <2>1, <2>2, <2>3, <3>1 DEF Clocks
  <2> QED
    BY <1>2, <2>2, <2>3, OthersClock
<1>6. ASSUME NEW o \in Owners, Continue(o) \/ Stop(o) PROVE Clocks(p)
  <2>1. CASE \/ LoseClaim(o) \/ RecordLateExpiry(o) \/ MarkRefused(o) \/ RecordFailed(o)
             \/ MarkExecuted(o) \/ RecordRejection(o) \/ RecordFlag(o) \/ Stop(o)
             \/ RefuseShown(o) \/ Surface(o)
    BY <1>2, <2>1 DEF LoseClaim, RecordLateExpiry, MarkRefused, RecordFailed,
       MarkExecuted, RecordRejection, RecordFlag, Stop, RefuseShown, Surface
  <2>2. CASE \/ ExpireLate(o) \/ ClaimApproval(o) \/ RefuseRelease(o) \/ RunConnector(o)
             \/ RecordExecuted(o) \/ CountObservation(o)
    <3>1. UNCHANGED task /\ (\/ Goto(o, "late") \/ Goto(o, "released")
                             \/ Goto(o, "refusing") \/ Goto(o, "ran")
                             \/ Goto(o, "taped") \/ Goto(o, "observed"))
      BY <2>2 DEF ExpireLate, ClaimApproval, RefuseRelease, RunConnector,
         RecordExecuted, CountObservation
    <3> QED
      BY <3>1, PastClock DEF Points, Releasing
  <2>3. CASE ClaimRejection(o) \/ LabelObservation(o) \/ ClaimMarker(o) \/ CountFalseAction(o)
    <3>1. \/ UNCHANGED task /\ (\/ Goto(o, "rejected") \/ Goto(o, "labelled")
                                \/ Goto(o, "marked") \/ Goto(o, "counted"))
          \/ Return(o)
      BY <2>3 DEF ClaimRejection, LabelObservation, ClaimMarker, CountFalseAction
    <3> QED
      BY <1>2, <3>1, PastClock DEF Points
  <2>4. CASE LabelOverride(o)
    <3>1. (\E t : SetTask(o, t)) /\ (Goto(o, "overridden") \/ Goto(o, "labelled"))
      BY <2>4 DEF LabelOverride
    <3> QED
      BY <3>1, PastClock DEF Points
  <2> QED
    BY <1>4, <1>5, <1>6, <2>1, <2>2, <2>3, <2>4 DEF Continue
<1>7. ASSUME NEW o \in Owners, NEW i \in Ids, FlagRead(o, i) PROVE Clocks(p)
  <2>1. Goto(o, "flagging") /\ \E t : SetTask(o, t)
    BY <1>7 DEF FlagRead
  <2> QED
    BY <2>1, PastClock DEF Points
<1>8. \/ UNCHANGED <<pc, task>>
      \/ \E o \in Owners : Continue(o) \/ Stop(o)
      \/ \E o \in Owners, i \in Ids :
            FlagRead(o, i) \/ \E verb \in {"approve", "reject"} : FirstRead(o, i, verb)
  BY DEF Next, Sweep, vars, Tick, Materialize, Rewrite, QuarantinedRead,
     SweepStart, SweepGet, SweepQuarantined, SweepExpire, SweepRecord, SweepStop
<1> QED
  BY <1>1, <1>3, <1>6, <1>7, <1>8

(* The clock that stamps holds does not go back. *)
LEMMA ClockAdvances ==
  ASSUME TypeOK, [Next]_vars
  PROVE  now \in Int /\ now' \in Int /\ now <= now'
<1>1. now \in Int
  BY ApprovalConstants DEF TypeOK
<1>2. CASE Tick
  BY <1>1, <1>2 DEF Tick
<1>3. Tick \/ UNCHANGED now
  <2>1. ASSUME NEW o \in Owners, Continue(o) PROVE UNCHANGED now
    BY <2>1 DEF Continue, RefuseShown, Surface,
       ReadClock, GetIntent, LoseClaim, ExpireLate, RecordLateExpiry,
       ClaimApproval, RefuseRelease, MarkRefused, RunConnector, RecordFailed,
       RecordExecuted, CountObservation, MarkExecuted, ClaimRejection,
       LabelOverride, LabelObservation, RecordRejection, ClaimMarker,
       CountFalseAction, RecordFlag
  <2>2. ASSUME NEW s \in Sweepers, Sweep(s) \/ SweepStop(s) PROVE UNCHANGED now
    BY <2>2 DEF Sweep, SweepStart, SweepGet, SweepQuarantined, SweepExpire, SweepRecord,
       SweepStop
  <2> QED
    BY <2>1, <2>2 DEF Next, vars, Materialize, Rewrite, QuarantinedRead, FirstRead,
       FlagRead, Stop
<1> QED
  BY <1>1, <1>2, <1>3

(* Every step keeps a clock reading no earlier than the asking. *)
LEMMA ClockedInductive ==
  ASSUME TypeOK, ClockedSince, [Next]_vars
  PROVE  ClockedSince'
<1>0. Shape
  BY TypesShape
<1> SUFFICES ASSUME NEW o \in Owners
             PROVE  /\ pc'[o] = "held" => task'[o].began <= now'
                    /\ pc'[o] \in {"clocked", "read"} => task'[o].began <= task'[o].at + Skew
  BY DEF ClockedSince
<1>1. Clocks(o) /\ now \in Int /\ now' \in Int /\ now <= now'
  BY <1>0, StepClocks, ClockAdvances
<1>2. /\ task[o].began \in Int /\ task[o].at \in Int /\ Skew \in Nat
      /\ DriftOf[o] \in (-Skew)..Skew
  BY ApprovalConstants DEF TypeOK, TaskType, Time, Never
<1>3. ASSUME pc'[o] = "held" PROVE task'[o].began <= now'
  BY <1>1, <1>2, <1>3 DEF Clocks, ClockedSince
<1>4. ASSUME pc'[o] = "clocked" PROVE task'[o].began <= task'[o].at + Skew
  <2>1. CASE pc[o] = "clocked" /\ task'[o] = task[o]
    BY <2>1 DEF ClockedSince
  <2>2. CASE pc[o] = "held" /\ task'[o].began = task[o].began /\ task'[o].at = Clock(o)
    <3>1. task[o].began <= now /\ task'[o].at = now + DriftOf[o]
      BY <2>2 DEF ClockedSince, Clock
    <3> QED
      BY <1>1, <1>2, <2>2, <3>1
  <2> QED
    BY <1>1, <1>4, <2>1, <2>2 DEF Clocks
<1>5. ASSUME pc'[o] = "read" PROVE task'[o].began <= task'[o].at + Skew
  BY <1>1, <1>5 DEF Clocks, ClockedSince
<1> QED
  BY <1>3, <1>4, <1>5

(* Every step keeps the approvals in time. *)
LEMMA LateInductive ==
  ASSUME TypeOK, ReadsMade, ClockedSince, NoLateApproval, [Next]_vars
  PROVE  NoLateApproval'
<1>1. Shape /\ Releases /\ HeldAtKept
  BY TypesShape, ReleaseStep, OldHoldsKept
<1> SUFFICES ASSUME NEW o \in Owners, pc'[o] \in Releasing
             PROVE  task'[o].began < expiry(task[o].seen)'
  BY DEF NoLateApproval
<1>2. /\ task'[o] = task[o]
      /\ \/ pc[o] \in Releasing
         \/ pc[o] = "read" /\ task[o].verb = "approve" /\ ~_is_expired(o)
  BY <1>1 DEF Releases
<1>3. task[o].seen \in 1..made /\ task[o].seen \in Holds
  <2>1. task[o].seen \in 0..MaxHolds /\ made \in 0..MaxHolds
    BY <1>1 DEF Shape, TaskType
  <2>2. pc[o] \in Releasing \cup {"read"}
    BY <1>2
  <2>3. task[o].seen <= made /\ task[o].seen # 0
    BY <2>2 DEF ReadsMade, NoHold
  <2> QED
    BY <2>1, <2>3, ApprovalConstants DEF Holds
<1>4. expiry(task[o].seen)' = expiry(task[o].seen)
  BY <1>1, <1>2, <1>3 DEF HeldAtKept, expiry
<1>5. /\ Skew \in Nat /\ Window \in Nat
      /\ task[o].began \in Int /\ task[o].at \in Int /\ heldAt[task[o].seen] \in Int
  BY <1>3, ApprovalConstants DEF TypeOK, TaskType, Time, Never
<1>6. task[o].began < expiry(task[o].seen)
  <2>1. CASE pc[o] \in Releasing
    BY <2>1 DEF NoLateApproval
  <2>2. CASE pc[o] = "read" /\ task[o].verb = "approve" /\ ~_is_expired(o)
    <3>1. ~(task[o].at + Skew >= heldAt[task[o].seen] + Window)
      BY <2>2 DEF _is_expired, expiry
    <3>2. task[o].began <= task[o].at + Skew
      BY <2>2 DEF ClockedSince
    <3>3. task[o].began < heldAt[task[o].seen] + Window
      BY <1>5, <3>1, <3>2
    <3> QED
      BY <3>3 DEF expiry
  <2> QED
    BY <2>1, <2>2, <1>2
<1> QED
  BY <1>2, <1>4, <1>6

(* An approval that takes effect was asked for before the hold's expiry on *)
(* the clock that stamped it, for any drift within the declared skew,      *)
(* however long its reads took, dedup on or off (PTC-49).                  *)
THEOREM ApprovalsInTime == Spec => []NoLateApproval
<1> DEFINE LateInv == ReadsMade /\ ClockedSince /\ NoLateApproval
<1>1. Init => LateInv
  BY DEF Init, ReadsMade, ClockedSince, NoLateApproval, Absent, NoTask, NoHold, Releasing
<1>2. TypeOK /\ LateInv /\ [Next]_vars => LateInv'
  BY TypesShape, MadeInductive, ClockedInductive, LateInductive
<1>3. LateInv => NoLateApproval
  OBVIOUS
<1> QED
  BY <1>1, <1>2, <1>3, TypeCorrect, PTL DEF Spec

=============================================================================
