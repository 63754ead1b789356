--------------------------- MODULE ApprovalProofs ---------------------------
(***************************************************************************)
(* The counting argument about Approval: one release and one verdict per   *)
(* hold, where an id names one hold, for every number of ids, owners,      *)
(* sweepers and holds and every one of them stopping anywhere.             *)
(***************************************************************************)
EXTENDS ApprovalExpiry

(***************************************************************************)
(* The inductive invariant, for dedup off.  An id names one hold, so what  *)
(* an actor read under an id is what the row still holds.  The pen on a    *)
(* hold passes from the row (pending) to the one actor whose compare-and-  *)
(* set moved it, and no verdict is written before that actor writes its.   *)
(***************************************************************************)
OneHoldPerId ==
    /\ \A i \in Ids : row[i].status = "absent" <=> row[i].hold = NoHold
    /\ \A i \in Ids : row[i].hold <= made
    /\ \A i, j \in Ids : row[i].hold = row[j].hold /\ row[i].hold # NoHold => i = j

Rejecting == {"rejected", "overridden", "labelled"}
(* Past a compare-and-set of pending that it won. *)
Winner == Releasing \cup Rejecting \cup {"late"}
(* Its verdict is still to be written. *)
Unwritten == {"released", "ran", "late"} \cup Rejecting

(* What an owner, or a pass, read under an id is what its row holds. *)
ReadsOf(o) ==
    /\ task[o].first # NoHold => task[o].first = row[task[o].id].hold
    /\ task[o].seen # NoHold => task[o].seen = row[task[o].id].hold
    /\ pc[o] = "idle" => task[o].first = NoHold /\ task[o].seen = NoHold
    /\ pc[o] \in Winner \cup {"read"} => task[o].seen # NoHold
    /\ pc[o] \in {"overridden", "labelled"} => task[o].first # NoHold
PassOf(s) ==
    sweep[s].step \in {"due", "won"} =>
        sweep[s].seen # NoHold /\ sweep[s].seen = row[sweep[s].id].hold

ReadsCurrent ==
    /\ \A o \in Owners : ReadsOf(o)
    /\ \A s \in Sweepers : PassOf(s)

PenMatchesRow ==
    /\ \A o \in Owners :
          /\ pc[o] \in Releasing => row[task[o].id].status = "approved"
          /\ pc[o] \in Rejecting => row[task[o].id].status = "rejected"
          /\ pc[o] = "late" => row[task[o].id].status = "expired"
    /\ \A s \in Sweepers :
          sweep[s].step = "won" => row[sweep[s].id].status = "expired"

OnePen ==
    /\ \A o, p \in Owners :
          pc[o] \in Winner /\ pc[p] \in Winner /\ task[o].id = task[p].id => o = p
    /\ \A o \in Owners, s \in Sweepers :
          ~(pc[o] = "late" /\ sweep[s].step = "won" /\ task[o].id = sweep[s].id)
    /\ \A s, t \in Sweepers :
          sweep[s].step = "won" /\ sweep[t].step = "won" /\ sweep[s].id = sweep[t].id
             => s = t

RunsCounted ==
    /\ \A h \in Holds : ran[h] <= 1
    /\ \A h \in Holds : h > made => ran[h] = 0
    /\ \A i \in Ids : row[i].status \in {"pending", "rejected", "expired", "refused"}
          => ran[row[i].hold] = 0
    /\ \A o \in Owners : pc[o] \in {"released", "refusing"} => ran[task[o].seen] = 0

VerdictsCounted ==
    /\ \A h \in Holds : VerdictsOf(h) <= 1
    /\ \A h \in Holds : h > made => VerdictsOf(h) = 0
    /\ \A i \in Ids : row[i].status = "pending" => VerdictsOf(row[i].hold) = 0
    /\ \A o \in Owners : pc[o] \in Unwritten => VerdictsOf(task[o].seen) = 0
    /\ \A s \in Sweepers : sweep[s].step = "won" => VerdictsOf(sweep[s].seen) = 0

ReadsInv == OneHoldPerId /\ ReadsCurrent
PensInv == PenMatchesRow /\ OnePen
HoldInv == ReadsInv /\ PensInv /\ RunsCounted /\ VerdictsCounted

-----------------------------------------------------------------------------
(* The kinds of step the counting argument tells apart, and the one frame  *)
(* lemma: every action is a step of one of these kinds.                    *)
Others(o) == \A p \in Owners \ {o} : pc'[p] = pc[p] /\ task'[p] = task[p]
OtherPasses(s) == \A t \in Sweepers \ {s} : sweep'[t] = sweep[t]

(* An owner past its claim keeps it until it lays it down. *)
SameClaim(o) ==
    /\ task'[o].id = task[o].id /\ task'[o].seen = task[o].seen
    /\ pc[o] \in Releasing <=> pc'[o] \in Releasing
    /\ pc[o] \in Rejecting <=> pc'[o] \in Rejecting
    /\ pc[o] = "late" <=> pc'[o] = "late"
    /\ pc'[o] \in {"released", "refusing"} => pc[o] = "released"
    /\ pc'[o] \in Unwritten => pc[o] \in Unwritten

Puts(i) ==
    /\ row[i].status = "absent" /\ made + 1 \in Holds /\ made' = made + 1
    /\ row'[i].status = "pending" /\ row'[i].hold = made + 1
    /\ OtherRows(i) /\ UNCHANGED <<pc, task, sweep, ran, tape>>

Local(o) ==
    /\ Others(o) /\ UNCHANGED <<made, row, sweep>>
    /\ ReadsOf(o)'
    /\ pc'[o] \in Winner => SameClaim(o)

Claims(o) ==
    /\ pc[o] = "read" /\ row[task[o].id].status = "pending"
    /\ row'[task[o].id].hold = row[task[o].id].hold /\ OtherRows(task[o].id)
    /\ \/ pc'[o] = "late" /\ row'[task[o].id].status = "expired"
       \/ pc'[o] = "released" /\ row'[task[o].id].status = "approved"
       \/ pc'[o] = "rejected" /\ row'[task[o].id].status = "rejected"
    /\ Others(o) /\ UNCHANGED <<made, task, sweep, ran, tape>>

Settles(o) ==
    /\ row[task[o].id].status = "approved"
    /\ row'[task[o].id].hold = row[task[o].id].hold /\ OtherRows(task[o].id)
    /\ \/ pc[o] = "refusing" /\ row'[task[o].id].status = "refused"
       \/ pc[o] = "observed" /\ row'[task[o].id].status = "executed"
    /\ pc'[o] = "idle" /\ task'[o].first = NoHold /\ task'[o].seen = NoHold
    /\ Others(o) /\ UNCHANGED <<made, sweep, ran, tape>>

PassLocal(s) ==
    /\ OtherPasses(s) /\ UNCHANGED <<made, row, pc, task, ran>>
    /\ PassOf(s)' /\ sweep'[s].step # "won"

PassClaims(s) ==
    /\ sweep[s].step = "due" /\ row[sweep[s].id].status = "pending"
    /\ row'[sweep[s].id].hold = row[sweep[s].id].hold /\ OtherRows(sweep[s].id)
    /\ row'[sweep[s].id].status = "expired"
    /\ sweep'[s].step = "won"
    /\ sweep'[s].id = sweep[s].id /\ sweep'[s].seen = sweep[s].seen
    /\ OtherPasses(s) /\ UNCHANGED <<made, pc, task, ran, tape>>

(* A handler that returns. *)
LEMMA ReturnLocal ==
  ASSUME Shape, NEW o \in Owners, Return(o), UNCHANGED <<made, row, sweep>>
  PROVE  Local(o)
<1>1. pc'[o] = "idle" /\ task'[o] = NoTask /\ Others(o)
  BY DEF Shape, Return, Goto, SetTask, Others
<1>2. NoTask.first = NoHold /\ NoTask.seen = NoHold
  BY DEF NoTask
<1> QED
  BY <1>1, <1>2 DEF Local, ReadsOf, Winner, Releasing, Rejecting

(* A handler that moves on with what it has. *)
LEMMA GotoLocal ==
  ASSUME Shape, NEW o \in Owners, ReadsOf(o), NEW point, Goto(o, point),
         UNCHANGED <<made, row, task, sweep>>,
         point \notin {"idle", "read", "overridden"},
         point = "labelled" => pc[o] = "overridden",
         point \in Winner => /\ pc[o] \in Releasing <=> point \in Releasing
                             /\ pc[o] \in Rejecting <=> point \in Rejecting
                             /\ pc[o] = "late" <=> point = "late",
         point \in {"released", "refusing"} => pc[o] = "released",
         point \in Unwritten => pc[o] \in Unwritten
  PROVE  Local(o)
<1>1. pc'[o] = point /\ Others(o)
  BY DEF Shape, Goto, Others
<1>2. point \in Winner => pc[o] \in Winner
  BY DEF Winner
<1>3. ReadsOf(o)'
  BY <1>1, <1>2 DEF ReadsOf
<1>4. point \in Winner => SameClaim(o)
  BY <1>1 DEF SameClaim
<1> QED
  BY <1>1, <1>3, <1>4 DEF Local

(* A handler that reads, before it claims anything. *)
LEMMA ReadLocal ==
  ASSUME Shape, NEW o \in Owners, NEW point, Goto(o, point), NEW t, SetTask(o, t),
         UNCHANGED <<made, row, sweep>>,
         point \notin Winner \cup {"idle"},
         t.first # NoHold => t.first = row[t.id].hold,
         t.seen # NoHold => t.seen = row[t.id].hold,
         point = "read" => t.seen # NoHold
  PROVE  Local(o)
<1>1. pc'[o] = point /\ task'[o] = t /\ Others(o)
  BY DEF Shape, Goto, SetTask, Others
<1> QED
  BY <1>1 DEF Local, ReadsOf, Winner, Rejecting

(* The owner's claim, whichever verb made it. *)
LEMMA ClaimKind ==
  ASSUME Shape, NEW o \in Owners, pc[o] = "read", NEW point, Goto(o, point), NEW new,
         transition_status(task[o].id, "pending", new),
         UNCHANGED <<made, task, sweep, ran, tape>>,
         \/ point = "late" /\ new = "expired"
         \/ point = "released" /\ new = "approved"
         \/ point = "rejected" /\ new = "rejected"
  PROVE  Claims(o)
<1>1. pc'[o] = point /\ Others(o) /\ task[o].id \in Ids
  BY DEF Shape, Goto, Others, TaskType
<1> QED
  BY <1>1, TransitionRows DEF Claims

(* The PEP's first read of the row. *)
LEMMA FirstReadLocal ==
  ASSUME Shape, NEW o \in Owners, ReadsOf(o), NEW i \in Ids,
         NEW verb \in {"approve", "reject"}, FirstRead(o, i, verb)
  PROVE  Local(o)
<1> DEFINE t == [task[o] EXCEPT !.id = i, !.verb = verb, !.first = row[i].hold,
                                !.began = now]
<1>1. task[o] \in TaskType /\ task[o].seen = NoHold
  BY DEF Shape, FirstRead, ReadsOf
<1>2. t.id = i /\ t.first = row[i].hold /\ t.seen = NoHold
  BY <1>1, ReadFields
<1>3. Goto(o, "held") /\ SetTask(o, t) /\ UNCHANGED <<made, row, sweep>>
  BY DEF FirstRead, storeVars
<1> HIDE DEF t
<1> QED
  BY <1>2, <1>3, ReadLocal DEF Winner, Releasing, Rejecting

(* The read of an executed row a flag starts with. *)
LEMMA FlagReadLocal ==
  ASSUME Shape, NEW o \in Owners, ReadsOf(o), NEW i \in Ids, FlagRead(o, i)
  PROVE  Local(o)
<1> DEFINE t == [task[o] EXCEPT !.id = i, !.verb = "flag",
                                !.seen = row[i].hold, !.at = row[i].executedAt]
<1>1. task[o] \in TaskType /\ task[o].first = NoHold
  BY DEF Shape, FlagRead, ReadsOf
<1>2. t.id = i /\ t.seen = row[i].hold /\ t.first = NoHold
  BY <1>1, ReadFields
<1>3. Goto(o, "flagging") /\ SetTask(o, t) /\ UNCHANGED <<made, row, sweep>>
  BY DEF FlagRead, storeVars
<1> HIDE DEF t
<1> QED
  BY <1>2, <1>3, ReadLocal DEF Winner, Releasing, Rejecting

(* Every step of an owner is of one of the kinds. *)
LEMMA OwnerKinds ==
  ASSUME Shape, ReadsInv, NEW o \in Owners,
         \/ Continue(o) \/ Stop(o)
         \/ \E i \in Ids : FlagRead(o, i)
         \/ \E i \in Ids, verb \in {"approve", "reject"} : FirstRead(o, i, verb)
  PROVE  Local(o) \/ Claims(o) \/ Settles(o)
<1>0. /\ ReadsOf(o) /\ task[o] \in TaskType /\ task[o].id \in Ids
      /\ \A i \in Ids : row[i].status # "absent" => row[i].hold # NoHold
  BY DEF Shape, TaskType, ReadsInv, ReadsCurrent, OneHoldPerId
<1>1. ASSUME NEW i \in Ids, NEW verb \in {"approve", "reject"}, FirstRead(o, i, verb)
      PROVE  Local(o)
  BY <1>0, <1>1, FirstReadLocal
<1>2. ASSUME NEW i \in Ids, FlagRead(o, i) PROVE Local(o)
  BY <1>0, <1>2, FlagReadLocal
<1>3. ASSUME ReadClock(o) PROVE Local(o)
  <2> DEFINE t == [task[o] EXCEPT !.at = Clock(o)]
  <2>1. t.id = task[o].id /\ t.first = task[o].first /\ t.seen = task[o].seen
    BY <1>0, ReadFields
  <2>2. Goto(o, "clocked") /\ SetTask(o, t) /\ UNCHANGED <<made, row, sweep>>
    BY <1>3 DEF ReadClock, storeVars
  <2> HIDE DEF t
  <2> QED
    BY <1>0, <2>1, <2>2, ReadLocal DEF ReadsOf, Winner, Releasing, Rejecting
<1>4. ASSUME GetIntent(o) PROVE Local(o)
  <2> DEFINE t == [task[o] EXCEPT !.seen = row[task[o].id].hold]
  <2>1. t.id = task[o].id /\ t.first = task[o].first /\ t.seen = row[task[o].id].hold
    BY <1>0, ReadFields
  <2>2. /\ UNCHANGED <<made, row, sweep>>
        /\ \/ Return(o)
           \/ Goto(o, "read") /\ SetTask(o, t) /\ row[task[o].id].status # "absent"
    BY <1>4 DEF GetIntent, storeVars
  <2> HIDE DEF t
  <2>3. CASE Return(o)
    BY <2>2, <2>3, ReturnLocal
  <2>4. CASE Goto(o, "read") /\ SetTask(o, t) /\ row[task[o].id].status # "absent"
    BY <1>0, <2>1, <2>2, <2>4, ReadLocal DEF ReadsOf, Winner, Releasing, Rejecting
  <2> QED
    BY <2>2, <2>3, <2>4
<1>5. ASSUME LoseClaim(o) \/ RecordLateExpiry(o) \/ RecordFailed(o)
             \/ RecordRejection(o) \/ RecordFlag(o) \/ Stop(o)
             \/ RefuseShown(o) \/ Surface(o)
      PROVE  Local(o)
  BY <1>5, ReturnLocal DEF LoseClaim, RecordLateExpiry, RecordFailed,
     RecordRejection, RecordFlag, Stop, RefuseShown, Surface, storeVars
<1>6. ASSUME ExpireLate(o) \/ ClaimApproval(o) \/ ClaimRejection(o) PROVE Claims(o)
  BY <1>6, ClaimKind DEF ExpireLate, ClaimApproval, ClaimRejection
<1>7. ASSUME RefuseRelease(o) \/ RunConnector(o) \/ RecordExecuted(o)
             \/ CountObservation(o)
      PROVE  Local(o)
  <2>1. /\ UNCHANGED <<made, row, task, sweep>>
        /\ \/ pc[o] = "released" /\ Goto(o, "refusing")
           \/ pc[o] = "released" /\ Goto(o, "ran")
           \/ pc[o] = "ran" /\ Goto(o, "taped")
           \/ pc[o] = "taped" /\ Goto(o, "observed")
    BY <1>7 DEF RefuseRelease, RunConnector, RecordExecuted, CountObservation,
       storeVars
  <2> QED
    BY <1>0, <2>1, GotoLocal DEF Winner, Releasing, Rejecting, Unwritten
<1>8. ASSUME LabelObservation(o) \/ CountFalseAction(o) PROVE Local(o)
  <2>1. /\ UNCHANGED <<made, row, task, sweep>>
        /\ \/ pc[o] = "overridden" /\ Goto(o, "labelled")
           \/ pc[o] = "marked" /\ Goto(o, "counted")
    BY <1>8 DEF LabelObservation, CountFalseAction, storeVars
  <2> QED
    BY <1>0, <2>1, GotoLocal DEF Winner, Releasing, Rejecting, Unwritten
<1>9. ASSUME ClaimMarker(o) PROVE Local(o)
  <2>1. /\ UNCHANGED <<made, row, sweep>>
        /\ Return(o) \/ (Goto(o, "marked") /\ UNCHANGED task)
    BY <1>9 DEF ClaimMarker, storeVars
  <2>2. CASE Return(o)
    BY <2>1, <2>2, ReturnLocal
  <2>3. CASE Goto(o, "marked") /\ UNCHANGED task
    BY <1>0, <2>1, <2>3, GotoLocal DEF Winner, Releasing, Rejecting, Unwritten
  <2> QED
    BY <2>1, <2>2, <2>3
<1>10. ASSUME LabelOverride(o) PROVE Local(o)
  <2> DEFINE t == [task[o] EXCEPT !.first = Stored(o), !.at = Clock(o)]
  <2>1. t.id = task[o].id /\ t.first = Stored(o) /\ t.seen = task[o].seen
    BY <1>0, ReadFields
  <2>2. /\ UNCHANGED <<made, row, sweep>> /\ pc[o] = "rejected" /\ SetTask(o, t)
        /\ Goto(o, "overridden") \/ Goto(o, "labelled")
    BY <1>10 DEF LabelOverride, storeVars
  <2> HIDE DEF t
  <2>3. /\ pc'[o] \in {"overridden", "labelled"} /\ task'[o] = t /\ Others(o)
    BY <2>2 DEF Shape, Goto, SetTask, Others
  <2>4. task[o].seen # NoHold /\ task[o].seen = row[task[o].id].hold
    BY <1>0, <2>2 DEF ReadsOf, Winner, Rejecting
  <2>5. Stored(o) = row[task[o].id].hold
    BY <1>0 DEF Stored, ReadsOf
  <2>6. ReadsOf(o)'
    BY <2>1, <2>2, <2>3, <2>4, <2>5 DEF ReadsOf
  <2>7. SameClaim(o)
    BY <2>1, <2>2, <2>3 DEF SameClaim, Releasing, Rejecting, Unwritten
  <2> QED
    BY <2>2, <2>3, <2>6, <2>7 DEF Local
<1>11. ASSUME MarkRefused(o) \/ MarkExecuted(o) PROVE Local(o) \/ Settles(o)
  <2>1. Return(o) /\ UNCHANGED <<made, sweep, ran, tape>>
    BY <1>11 DEF MarkRefused, MarkExecuted
  <2>2. pc'[o] = "idle" /\ task'[o].first = NoHold /\ task'[o].seen = NoHold /\ Others(o)
    <3>1. NoTask.first = NoHold /\ NoTask.seen = NoHold
      BY DEF NoTask
    <3> QED
      BY <2>1, <3>1 DEF Return, Goto, SetTask, Others, Shape
  <2>3. CASE row' = row
    BY <2>1, <2>3, ReturnLocal
  <2>4. CASE MarkRefused(o) /\ row' # row
    BY <1>0, <2>1, <2>2, <2>4, TransitionRows DEF MarkRefused, Settles
  <2>5. CASE MarkExecuted(o) /\ row' # row
    <3> DEFINE i == task[o].id
    <3>1. /\ row[i].status = "approved" /\ pc[o] = "observed"
          /\ row' = [row EXCEPT ![i].status = "executed", ![i].executedAt = Clock(o)]
      BY <2>5 DEF MarkExecuted
    <3>2. /\ row'[i].status = "executed" /\ row'[i].hold = row[i].hold
          /\ OtherRows(i)
      BY <1>0, <3>1 DEF Shape, RowType, OtherRows
    <3> QED
      BY <2>1, <2>2, <3>1, <3>2 DEF Settles
  <2> QED
    BY <1>11, <2>3, <2>4, <2>5
<1> QED
  BY <1>1, <1>2, <1>3, <1>4, <1>5, <1>6, <1>7, <1>8, <1>9, <1>10, <1>11 DEF Continue

(* Every step of a sweeper is of one of the kinds. *)
LEMMA SweepKinds ==
  ASSUME Shape, ReadsInv, NEW s \in Sweepers, Sweep(s) \/ SweepStop(s)
  PROVE  PassLocal(s) \/ PassClaims(s)
<1>0. /\ sweep[s] \in SweepType /\ sweep[s].id \in Ids
      /\ NoSweep.step = "idle"
      /\ \A i \in Ids : row[i].status # "absent" => row[i].hold # NoHold
  BY DEF Shape, SweepType, NoSweep, ReadsInv, OneHoldPerId
<1>1. ASSUME NEW pass, SetSweep(s, pass), pass.step \in {"idle", "next"},
             UNCHANGED <<made, row, pc, task, ran>>
      PROVE  PassLocal(s)
  <2>1. sweep'[s] = pass /\ OtherPasses(s)
    BY <1>1 DEF SetSweep, OtherPasses, Shape
  <2> QED
    BY <1>1, <2>1 DEF PassLocal, PassOf
<1>2. NextCandidate(s).step \in {"idle", "next"}
  BY <1>0 DEF NextCandidate, SweepType
<1>3. ASSUME SweepStart(s) PROVE PassLocal(s)
  <2> DEFINE pass == [sweep[s] EXCEPT !.step = "next", !.at = Clock(s),
                                      !.todo = {i \in Ids : Due(i, Clock(s))}]
  <2>1. pass.step = "next" /\ SetSweep(s, pass) /\ UNCHANGED <<made, row, pc, task, ran>>
    BY <1>0, <1>3 DEF SweepStart, SweepType, storeVars
  <2> HIDE DEF pass
  <2> QED
    BY <1>1, <2>1
<1>4. ASSUME NEW i \in Ids, SweepGet(s, i) PROVE PassLocal(s)
  <2> DEFINE rest == sweep[s].todo \ {i}
             due == [sweep[s] EXCEPT !.step = "due", !.todo = rest, !.id = i,
                                     !.seen = row[i].hold]
             next == IF rest = {} THEN NoSweep ELSE [sweep[s] EXCEPT !.todo = rest]
  <2>1. /\ SetSweep(s, IF Due(i, sweep[s].at) THEN due ELSE next)
        /\ UNCHANGED <<made, row, pc, task, ran>> /\ sweep[s].step = "next"
    BY <1>4 DEF SweepGet, storeVars
  <2>2. due.step = "due" /\ due.id = i /\ due.seen = row[i].hold
    BY <1>0 DEF SweepType
  <2>3. next.step \in {"idle", "next"}
    BY <1>0, <2>1 DEF SweepType
  <2> HIDE DEF due, next
  <2>4. CASE Due(i, sweep[s].at)
    <3>1. sweep'[s] = due /\ OtherPasses(s)
      BY <2>1, <2>4 DEF SetSweep, OtherPasses, Shape
    <3>2. row[i].hold # NoHold
      BY <1>0, <2>4 DEF Due
    <3> QED
      BY <2>1, <2>2, <3>1, <3>2 DEF PassLocal, PassOf
  <2>5. CASE ~Due(i, sweep[s].at)
    BY <1>1, <2>1, <2>3, <2>5
  <2> QED
    BY <2>4, <2>5
<1>5. ASSUME SweepExpire(s), row[sweep[s].id].status = "pending" PROVE PassClaims(s)
  <2>1. /\ SetSweep(s, [sweep[s] EXCEPT !.step = "won"]) /\ sweep[s].step = "due"
        /\ transition_status(sweep[s].id, "pending", "expired")
        /\ UNCHANGED <<made, pc, task, ran, tape>>
    BY <1>5 DEF SweepExpire
  <2>2. /\ sweep'[s].step = "won" /\ sweep'[s].id = sweep[s].id
        /\ sweep'[s].seen = sweep[s].seen /\ OtherPasses(s)
    BY <1>0, <2>1 DEF SetSweep, OtherPasses, Shape, SweepType
  <2> QED
    BY <1>0, <2>1, <2>2, TransitionRows DEF PassClaims
<1>6. ASSUME SweepExpire(s), row[sweep[s].id].status # "pending" PROVE PassLocal(s)
  <2>1. SetSweep(s, NextCandidate(s)) /\ UNCHANGED <<made, row, pc, task, ran>>
    BY <1>6 DEF SweepExpire, transition_status
  <2> QED
    BY <1>1, <1>2, <2>1
<1>7. ASSUME SweepRecord(s) PROVE PassLocal(s)
  BY <1>1, <1>2, <1>7 DEF SweepRecord, storeVars
<1>8. ASSUME SweepStop(s) PROVE PassLocal(s)
  BY <1>0, <1>1, <1>8 DEF SweepStop, storeVars
<1>9. ASSUME NEW i \in Ids, SweepQuarantined(s, i) PROVE PassLocal(s)
  <2> DEFINE next == IF sweep[s].todo = {i} THEN NoSweep
                     ELSE [sweep[s] EXCEPT !.todo = @ \ {i}]
  <2>1. SetSweep(s, next) /\ sweep[s].step = "next" /\ UNCHANGED <<made, row, pc, task, ran>>
    BY <1>9 DEF SweepQuarantined, storeVars
  <2>2. next.step \in {"idle", "next"}
    BY <1>0, <2>1 DEF SweepType
  <2> HIDE DEF next
  <2> QED
    BY <1>1, <2>1, <2>2
<1> QED
  BY <1>3, <1>4, <1>5, <1>6, <1>7, <1>8, <1>9 DEF Sweep

(* Every step is of one of the kinds. *)
LEMMA StepKinds ==
  ASSUME ~Dedup, Shape, ReadsInv, [Next]_vars
  PROVE  \/ UNCHANGED <<made, row, pc, task, sweep, ran, tape>>
         \/ \E i \in Ids : Puts(i)
         \/ \E o \in Owners : Local(o) \/ Claims(o) \/ Settles(o)
         \/ \E s \in Sweepers : PassLocal(s) \/ PassClaims(s)
<1>1. ASSUME NEW i \in Ids, Materialize(i) PROVE Puts(i)
  BY <1>1, ApprovalConstants DEF Materialize, Puts, OtherRows, Shape, RowType, Holds
<1>2. UNCHANGED vars \/ Tick => UNCHANGED <<made, row, pc, task, sweep, ran, tape>>
  BY DEF vars, Tick, storeVars
<1>3. ASSUME NEW i \in Ids, Rewrite(i) \/ QuarantinedRead(i)
      PROVE  UNCHANGED <<made, row, pc, task, sweep, ran, tape>>
  BY <1>3 DEF Rewrite, QuarantinedRead, storeVars
<1> QED
  BY <1>1, <1>2, <1>3, OwnerKinds, SweepKinds DEF Next

(* Every step keeps what was read under an id current. *)
LEMMA ReadsInductive ==
  ASSUME ~Dedup, Shape, ReadsInv, [Next]_vars
  PROVE  ReadsInv'
<1>0. /\ \A o \in Owners : ReadsOf(o) /\ task[o].id \in Ids
      /\ \A s \in Sweepers : PassOf(s) /\ sweep[s].id \in Ids
      /\ made \in Nat /\ \A i \in Ids : row[i].hold \in Nat
  BY ApprovalConstants DEF Shape, TaskType, SweepType, RowType, ReadsInv, ReadsCurrent
<1>1. ASSUME UNCHANGED <<made, row, pc, task, sweep>> PROVE ReadsInv'
  BY <1>1 DEF ReadsInv, OneHoldPerId, ReadsCurrent, ReadsOf, PassOf
<1>2. ASSUME NEW i \in Ids, Puts(i) PROVE ReadsInv'
  <2>1. row[i].hold = NoHold
    BY <1>2 DEF Puts, ReadsInv, OneHoldPerId
  <2>2. OneHoldPerId'
    BY <1>0, <1>2, <2>1 DEF Puts, OtherRows, ReadsInv, OneHoldPerId, NoHold
  <2>3. \A j \in Ids : row[j].hold # NoHold => row'[j].hold = row[j].hold
    BY <1>2, <2>1 DEF Puts, OtherRows
  <2>4. \A o \in Owners : ReadsOf(o)'
    BY <1>0, <1>2, <2>3 DEF Puts, ReadsOf
  <2>5. \A s \in Sweepers : PassOf(s)'
    BY <1>0, <1>2, <2>3 DEF Puts, PassOf
  <2> QED
    BY <2>2, <2>4, <2>5 DEF ReadsInv, ReadsCurrent
<1>3. ASSUME NEW o \in Owners, Local(o) PROVE ReadsInv'
  <2>1. OneHoldPerId' /\ \A s \in Sweepers : PassOf(s)'
    BY <1>0, <1>3 DEF Local, ReadsInv, OneHoldPerId, PassOf
  <2>2. \A p \in Owners \ {o} : ReadsOf(p)'
    BY <1>0, <1>3 DEF Local, Others, ReadsOf
  <2> QED
    BY <1>3, <2>1, <2>2 DEF Local, ReadsInv, ReadsCurrent
<1>4. ASSUME made' = made,
             \A j \in Ids : /\ row'[j].hold = row[j].hold
                            /\ row'[j].status = "absent" <=> row[j].status = "absent"
      PROVE  OneHoldPerId'
  BY <1>4 DEF ReadsInv, OneHoldPerId
<1>5. ASSUME NEW o \in Owners, Claims(o) PROVE ReadsInv'
  <2>1. \A j \in Ids : /\ row'[j].hold = row[j].hold
                       /\ row'[j].status = "absent" <=> row[j].status = "absent"
    BY <1>0, <1>5 DEF Claims, OtherRows
  <2>2. \A p \in Owners \ {o} : ReadsOf(p)'
    BY <1>0, <1>5, <2>1 DEF Claims, Others, ReadsOf
  <2>3. ReadsOf(o)'
    BY <1>0, <1>5, <2>1 DEF Claims, ReadsOf
  <2>4. \A s \in Sweepers : PassOf(s)'
    BY <1>0, <1>5, <2>1 DEF Claims, PassOf
  <2> QED
    BY <1>4, <1>5, <2>1, <2>2, <2>3, <2>4 DEF Claims, ReadsInv, ReadsCurrent
<1>6. ASSUME NEW o \in Owners, Settles(o) PROVE ReadsInv'
  <2>1. \A j \in Ids : /\ row'[j].hold = row[j].hold
                       /\ row'[j].status = "absent" <=> row[j].status = "absent"
    BY <1>0, <1>6 DEF Settles, OtherRows
  <2>2. \A p \in Owners \ {o} : ReadsOf(p)'
    BY <1>0, <1>6, <2>1 DEF Settles, Others, ReadsOf
  <2>3. ReadsOf(o)'
    BY <1>6 DEF Settles, ReadsOf, Winner, Releasing, Rejecting
  <2>4. \A s \in Sweepers : PassOf(s)'
    BY <1>0, <1>6, <2>1 DEF Settles, PassOf
  <2> QED
    BY <1>4, <1>6, <2>1, <2>2, <2>3, <2>4 DEF Settles, ReadsInv, ReadsCurrent
<1>7. ASSUME NEW s \in Sweepers, PassLocal(s) PROVE ReadsInv'
  <2>1. OneHoldPerId' /\ \A o \in Owners : ReadsOf(o)'
    BY <1>0, <1>7 DEF PassLocal, ReadsInv, OneHoldPerId, ReadsOf
  <2>2. \A t \in Sweepers \ {s} : PassOf(t)'
    BY <1>0, <1>7 DEF PassLocal, OtherPasses, PassOf
  <2> QED
    BY <1>7, <2>1, <2>2 DEF PassLocal, ReadsInv, ReadsCurrent
<1>8. ASSUME NEW s \in Sweepers, PassClaims(s) PROVE ReadsInv'
  <2>1. \A j \in Ids : /\ row'[j].hold = row[j].hold
                       /\ row'[j].status = "absent" <=> row[j].status = "absent"
    BY <1>0, <1>8 DEF PassClaims, OtherRows
  <2>2. \A o \in Owners : ReadsOf(o)'
    BY <1>0, <1>8, <2>1 DEF PassClaims, ReadsOf
  <2>3. \A t \in Sweepers : PassOf(t)'
    BY <1>0, <1>8, <2>1 DEF PassClaims, OtherPasses, PassOf
  <2> QED
    BY <1>4, <1>8, <2>1, <2>2, <2>3 DEF PassClaims, ReadsInv, ReadsCurrent
<1> QED
  BY <1>1, <1>2, <1>3, <1>5, <1>6, <1>7, <1>8, StepKinds

(* Every step keeps the pen on a hold with one actor. *)
LEMMA PensInductive ==
  ASSUME ~Dedup, Shape, ReadsInv, PensInv, [Next]_vars
  PROVE  PensInv'
<1>0. /\ \A o \in Owners : task[o].id \in Ids
      /\ \A s \in Sweepers : sweep[s].id \in Ids
      /\ \A o \in Owners : pc[o] \in Winner => row[task[o].id].status \notin {"absent", "pending"}
      /\ \A s \in Sweepers : sweep[s].step = "won" => row[sweep[s].id].status = "expired"
  BY DEF Shape, TaskType, SweepType, PensInv, PenMatchesRow, Winner
<1>1. ASSUME UNCHANGED <<made, row, pc, task, sweep>> PROVE PensInv'
  BY <1>1 DEF PensInv, PenMatchesRow, OnePen
<1>2. ASSUME NEW i \in Ids, Puts(i) PROVE PensInv'
  <2>1. \A j \in Ids : row[j].status # "absent" => row'[j].status = row[j].status
    BY <1>2 DEF Puts, OtherRows
  <2>2. PenMatchesRow'
    BY <1>0, <1>2, <2>1 DEF Puts, PensInv, PenMatchesRow, Winner
  <2> QED
    BY <1>2, <2>2 DEF Puts, PensInv, OnePen
<1>3. ASSUME NEW o \in Owners, Local(o) PROVE PensInv'
  <2>1. /\ UNCHANGED <<row, sweep>> /\ Others(o)
        /\ pc'[o] \in Winner => SameClaim(o) /\ pc[o] \in Winner
    BY <1>3 DEF Local, SameClaim, Winner
  <2>2. PenMatchesRow'
    BY <2>1 DEF Others, SameClaim, PensInv, PenMatchesRow, Winner
  <2>3. OnePen'
    BY <2>1 DEF Others, SameClaim, PensInv, OnePen, Winner
  <2> QED
    BY <2>2, <2>3 DEF PensInv
<1>4. ASSUME NEW o \in Owners, Claims(o) PROVE PensInv'
  <2> DEFINE i == task[o].id
  <2>1. /\ row[i].status = "pending" /\ pc[o] \notin Winner
        /\ Others(o) /\ OtherRows(i) /\ UNCHANGED <<task, sweep>>
    BY <1>4 DEF Claims, Winner, Releasing, Rejecting
  <2>2. /\ \A p \in Owners : pc[p] \in Winner => task[p].id # i
        /\ \A s \in Sweepers : sweep[s].step = "won" => sweep[s].id # i
    BY <1>0, <2>1
  <2>3. PenMatchesRow'
    <3>1. \A p \in Owners \ {o} : pc'[p] \in Winner =>
              pc'[p] = pc[p] /\ row'[task'[p].id] = row[task[p].id]
      BY <1>0, <2>1, <2>2 DEF Others, OtherRows
    <3>2. \A s \in Sweepers : sweep[s].step = "won" => row'[sweep[s].id] = row[sweep[s].id]
      BY <1>0, <2>1, <2>2 DEF OtherRows
    <3>3. /\ pc'[o] \in Releasing => row'[task'[o].id].status = "approved"
          /\ pc'[o] \in Rejecting => row'[task'[o].id].status = "rejected"
          /\ pc'[o] = "late" => row'[task'[o].id].status = "expired"
      BY <1>4 DEF Claims, Releasing, Rejecting
    <3>4. \A p \in Owners :
             /\ pc'[p] \in Releasing => row'[task'[p].id].status = "approved"
             /\ pc'[p] \in Rejecting => row'[task'[p].id].status = "rejected"
             /\ pc'[p] = "late" => row'[task'[p].id].status = "expired"
      BY <3>1, <3>3 DEF PensInv, PenMatchesRow, Winner
    <3>5. \A s \in Sweepers : sweep'[s].step = "won" => row'[sweep'[s].id].status = "expired"
      BY <2>1, <3>2 DEF PensInv, PenMatchesRow
    <3> QED
      BY <3>4, <3>5 DEF PenMatchesRow
  <2>4. OnePen'
    BY <2>1, <2>2 DEF Others, PensInv, OnePen, Winner
  <2> QED
    BY <2>3, <2>4 DEF PensInv
<1>5. ASSUME NEW o \in Owners, Settles(o) PROVE PensInv'
  <2> DEFINE i == task[o].id
  <2>1. /\ pc[o] \in Winner /\ pc'[o] \notin Winner /\ row[i].status = "approved"
        /\ Others(o) /\ OtherRows(i) /\ UNCHANGED sweep
    BY <1>5 DEF Settles, Winner, Releasing, Rejecting
  <2>2. /\ \A p \in Owners \ {o} : pc[p] \in Winner => task[p].id # i
        /\ \A s \in Sweepers : sweep[s].step = "won" => sweep[s].id # i
    BY <1>0, <2>1 DEF PensInv, OnePen
  <2>3. /\ \A p \in Owners \ {o} : pc'[p] \in Winner =>
              pc'[p] = pc[p] /\ task'[p] = task[p] /\ row'[task'[p].id] = row[task[p].id]
        /\ \A s \in Sweepers : sweep[s].step = "won" => row'[sweep[s].id] = row[sweep[s].id]
    BY <1>0, <2>1, <2>2 DEF Others, OtherRows
  <2>4. PenMatchesRow'
    BY <2>1, <2>3 DEF PensInv, PenMatchesRow, Winner
  <2>5. OnePen'
    BY <2>1, <2>3 DEF PensInv, OnePen, Winner
  <2> QED
    BY <2>4, <2>5 DEF PensInv
<1>6. ASSUME NEW s \in Sweepers, PassLocal(s) PROVE PensInv'
  <2>1. /\ UNCHANGED <<row, pc, task>>
        /\ \A t \in Sweepers : sweep'[t].step = "won" => sweep'[t] = sweep[t]
    BY <1>6 DEF PassLocal, OtherPasses
  <2>2. PenMatchesRow'
    BY <2>1 DEF PensInv, PenMatchesRow
  <2>3. OnePen'
    BY <2>1 DEF PensInv, OnePen
  <2> QED
    BY <2>2, <2>3 DEF PensInv
<1>7. ASSUME NEW s \in Sweepers, PassClaims(s) PROVE PensInv'
  <2> DEFINE i == sweep[s].id
  <2>1. /\ row[i].status = "pending" /\ OtherRows(i) /\ OtherPasses(s)
        /\ UNCHANGED <<pc, task>> /\ row'[i].status = "expired"
        /\ sweep'[s].step = "won" /\ sweep'[s].id = i
    BY <1>7 DEF PassClaims
  <2>2. /\ \A o \in Owners : pc[o] \in Winner =>
              task[o].id # i /\ row'[task[o].id] = row[task[o].id]
        /\ \A t \in Sweepers : sweep[t].step = "won" =>
              sweep[t].id # i /\ row'[sweep[t].id] = row[sweep[t].id]
    BY <1>0, <2>1 DEF OtherRows
  <2>3. PenMatchesRow'
    BY <2>1, <2>2 DEF OtherPasses, PensInv, PenMatchesRow, Winner
  <2>4. OnePen'
    BY <2>1, <2>2 DEF OtherPasses, PensInv, OnePen, Winner
  <2> QED
    BY <2>3, <2>4 DEF PensInv
<1> QED
  BY <1>1, <1>2, <1>3, <1>4, <1>5, <1>6, <1>7, StepKinds

-----------------------------------------------------------------------------
(* The owner that holds the pen writes its verdict and lays the pen down. *)
Writes(o) ==
    /\ pc[o] \in Unwritten /\ pc'[o] \notin Unwritten
    /\ \E x \in Outcomes : Emit(row[task[o].id].hold, x)
    /\ Others(o) /\ UNCHANGED <<made, row, sweep, ran>>

(* The record a verdict is written with names the hold of the row. *)
LEMMA OwnerWrites ==
  ASSUME Shape, ReadsInv, NEW o \in Owners,
         \/ RecordLateExpiry(o) \/ RefuseRelease(o) \/ RecordFailed(o)
         \/ RecordExecuted(o) \/ RecordRejection(o)
  PROVE  Writes(o)
<1>0. ReadsOf(o)
  BY DEF ReadsInv, ReadsCurrent
<1>1. pc[o] \in Unwritten /\ UNCHANGED <<made, row, sweep, ran>>
  BY DEF RecordLateExpiry, RefuseRelease, RecordFailed, RecordExecuted,
     RecordRejection, Unwritten, Rejecting, storeVars
<1>2. Return(o) \/ (UNCHANGED task /\ (Goto(o, "refusing") \/ Goto(o, "taped")))
  <2>1. RecordLateExpiry(o) \/ RecordFailed(o) \/ RecordRejection(o) => Return(o)
    BY DEF RecordLateExpiry, RecordFailed, RecordRejection
  <2>2. RefuseRelease(o) => Goto(o, "refusing") /\ UNCHANGED task
    BY DEF RefuseRelease
  <2>3. RecordExecuted(o) => Goto(o, "taped") /\ UNCHANGED task
    BY DEF RecordExecuted
  <2> QED
    BY <2>1, <2>2, <2>3
<1>3. pc'[o] \notin Unwritten /\ Others(o)
  BY <1>2 DEF Return, Goto, SetTask, Others, Shape, Unwritten, Rejecting
<1>4. task[o].seen = row[task[o].id].hold /\ Stored(o) = row[task[o].id].hold
  BY <1>0, <1>1 DEF ReadsOf, Stored, Winner, Unwritten, Rejecting, Releasing
<1>5. pc[o] = "labelled" => task[o].first = row[task[o].id].hold
  BY <1>0 DEF ReadsOf
<1>6. \E x \in Outcomes : Emit(row[task[o].id].hold, x)
  BY <1>4, <1>5 DEF RecordLateExpiry, RefuseRelease, RecordFailed,
     RecordExecuted, RecordRejection, Outcomes
<1> QED
  BY <1>1, <1>3, <1>6 DEF Writes

(* Who runs the connector, and who writes to the tape. *)
LEMMA StepEffects ==
  ASSUME Shape, ReadsInv, [Next]_vars
  PROVE  \/ UNCHANGED <<ran, tape>>
         \/ \E o \in Owners : RunConnector(o) \/ Writes(o) \/ RecordFlag(o)
         \/ \E s \in Sweepers : SweepRecord(s)
<1>1. ASSUME NEW o \in Owners, NEW i \in Ids, NEW verb,
             FlagRead(o, i) \/ FirstRead(o, i, verb)
      PROVE  UNCHANGED <<ran, tape>>
  BY <1>1, Zenon DEF FlagRead, FirstRead
<1>2. ASSUME NEW o \in Owners,
             \/ ReadClock(o) \/ GetIntent(o) \/ LoseClaim(o) \/ ExpireLate(o)
             \/ ClaimApproval(o) \/ MarkRefused(o) \/ CountObservation(o)
             \/ MarkExecuted(o) \/ ClaimRejection(o)
      PROVE  UNCHANGED <<ran, tape>>
  BY <1>2, Zenon DEF ReadClock, GetIntent, LoseClaim, ExpireLate, ClaimApproval,
     MarkRefused, CountObservation, MarkExecuted, ClaimRejection
<1>3. ASSUME NEW o \in Owners,
             \/ LabelOverride(o) \/ LabelObservation(o) \/ ClaimMarker(o)
             \/ CountFalseAction(o) \/ Stop(o) \/ RefuseShown(o) \/ Surface(o)
      PROVE  UNCHANGED <<ran, tape>>
  BY <1>3, Zenon DEF LabelOverride, LabelObservation, ClaimMarker,
     CountFalseAction, Stop, RefuseShown, Surface
<1>4. ASSUME NEW s \in Sweepers, NEW i \in Ids,
             \/ SweepStart(s) \/ SweepGet(s, i) \/ SweepQuarantined(s, i)
             \/ SweepExpire(s) \/ SweepStop(s)
      PROVE  UNCHANGED <<ran, tape>>
  BY <1>4, Zenon DEF SweepStart, SweepGet, SweepQuarantined, SweepExpire, SweepStop
<1>5. ASSUME NEW i \in Ids, Materialize(i) \/ Rewrite(i) \/ QuarantinedRead(i)
      PROVE  UNCHANGED <<ran, tape>>
  BY <1>5 DEF Materialize, Rewrite, QuarantinedRead
<1>6. ASSUME NEW o \in Owners, Continue(o) \/ Stop(o)
      PROVE  UNCHANGED <<ran, tape>> \/ RunConnector(o) \/ Writes(o) \/ RecordFlag(o)
  BY <1>2, <1>3, <1>6, OwnerWrites DEF Continue
<1>7. ASSUME NEW s \in Sweepers, Sweep(s) \/ SweepStop(s)
      PROVE  UNCHANGED <<ran, tape>> \/ SweepRecord(s)
  <2>1. PICK i \in Ids : TRUE
    BY ApprovalConstants
  <2> QED
    BY <1>4, <1>7, <2>1 DEF Sweep
<1>8. ASSUME UNCHANGED vars \/ Tick PROVE UNCHANGED <<ran, tape>>
  BY <1>8 DEF vars, Tick
<1> QED
  BY <1>1, <1>5, <1>6, <1>7, <1>8 DEF Next

(* The connector runs for a hold that never ran, on behalf of the only     *)
(* owner past its claim.                                                   *)
LEMMA RunCounted ==
  ASSUME Shape, ReadsInv, PensInv, RunsCounted, ran \in [Holds -> Nat],
         NEW o \in Owners, RunConnector(o)
  PROVE  RunsCounted'
<1> DEFINE h == task[o].seen
<1>1. /\ pc[o] = "released" /\ pc'[o] = "ran" /\ Others(o)
      /\ ran' = [ran EXCEPT ![h] = ran[h] + 1]
      /\ UNCHANGED <<made, row, task, sweep>>
  BY DEF RunConnector, Goto, Others, Shape, storeVars
<1>2. h = row[task[o].id].hold /\ h # NoHold /\ task[o].id \in Ids /\ ran[h] = 0
  BY <1>1 DEF Shape, TaskType, ReadsInv, ReadsCurrent, ReadsOf, Winner, Releasing,
     RunsCounted
<1>3. h \in Holds /\ h <= made /\ made \in Nat
  BY <1>2, ApprovalConstants DEF Shape, TaskType, ReadsInv, OneHoldPerId, Holds, NoHold
<1>4. \A g \in Holds : ran'[g] = IF g = h THEN 1 ELSE ran[g]
  BY <1>1, <1>2, <1>3
<1>5. \A g \in Holds : ran'[g] <= 1 /\ (g > made => ran'[g] = 0)
  BY <1>3, <1>4 DEF RunsCounted, Holds
<1>6. ASSUME NEW i \in Ids, row[i].status \in {"pending", "rejected", "expired", "refused"}
      PROVE  ran'[row[i].hold] = 0
  <2>1. row[i].hold \in Holds
    BY <1>6, ApprovalConstants DEF ReadsInv, OneHoldPerId, Shape, RowType, Holds, NoHold
  <2>2. row[i].hold # h
    BY <1>1, <1>2, <1>6 DEF ReadsInv, OneHoldPerId, PensInv, PenMatchesRow, Releasing
  <2> QED
    BY <1>4, <1>6, <2>1, <2>2 DEF RunsCounted
<1>7. ASSUME NEW p \in Owners, pc'[p] \in {"released", "refusing"}
      PROVE  ran'[task[p].seen] = 0
  <2>1. p # o /\ pc[p] = pc'[p]
    BY <1>1, <1>7 DEF Others
  <2>2. task[p].id \in Ids /\ task[p].seen # NoHold /\ task[p].seen = row[task[p].id].hold
    BY <1>7, <2>1 DEF Shape, TaskType, ReadsInv, ReadsCurrent, ReadsOf, Winner, Releasing
  <2>3. task[p].seen \in Holds
    BY <2>2, ApprovalConstants DEF Shape, TaskType, Holds, NoHold
  <2>4. task[p].seen # h
    <3>1. SUFFICES ASSUME task[p].seen = h PROVE FALSE
      OBVIOUS
    <3>2. task[p].id = task[o].id
      BY <1>2, <2>2, <3>1 DEF ReadsInv, OneHoldPerId
    <3> QED
      BY <1>1, <1>7, <2>1, <3>2 DEF PensInv, OnePen, Winner, Releasing
  <2> QED
    BY <1>4, <1>7, <2>1, <2>3, <2>4 DEF RunsCounted
<1>8. \A p \in Owners : task'[p] = task[p]
  BY <1>1
<1> QED
  BY <1>1, <1>5, <1>6, <1>7, <1>8 DEF RunsCounted

(* Every step keeps the count of connector runs. *)
LEMMA RunsInductive ==
  ASSUME ~Dedup, Shape, ReadsInv, PensInv, RunsCounted, ran \in [Holds -> Nat],
         [Next]_vars
  PROVE  RunsCounted'
<1>0. /\ \A o \in Owners : ReadsOf(o) /\ task[o].id \in Ids
      /\ \A s \in Sweepers : PassOf(s) /\ sweep[s].id \in Ids
      /\ made \in Nat
  BY ApprovalConstants DEF Shape, TaskType, SweepType, ReadsInv, ReadsCurrent
<1>1. CASE \E o \in Owners : RunConnector(o)
  BY <1>1, RunCounted
<1>2. CASE UNCHANGED ran
  <2>1. ASSUME UNCHANGED <<made, row, pc, task, sweep>> PROVE RunsCounted'
    BY <1>2, <2>1 DEF RunsCounted
  <2>2. ASSUME NEW i \in Ids, Puts(i) PROVE RunsCounted'
    <3>1. ran[made + 1] = 0
      BY <1>0, <2>2 DEF Puts, RunsCounted
    <3>2. \A j \in Ids : row'[j].status \in {"pending", "rejected", "expired", "refused"}
             => ran[row'[j].hold] = 0
      BY <2>2, <3>1 DEF Puts, OtherRows, RunsCounted
    <3>3. \A h \in Holds : ran[h] <= 1 /\ (h > made' => ran[h] = 0)
      BY <1>0, <2>2 DEF Puts, RunsCounted, Holds
    <3> QED
      BY <1>2, <2>2, <3>2, <3>3 DEF Puts, RunsCounted
  <2>3. ASSUME NEW o \in Owners, Local(o) PROVE RunsCounted'
    <3>1. pc'[o] \in {"released", "refusing"} =>
             pc[o] = "released" /\ task'[o].seen = task[o].seen
      BY <2>3 DEF Local, SameClaim, Winner, Releasing
    <3> QED
      BY <1>2, <2>3, <3>1 DEF Local, Others, RunsCounted
  <2>4. ASSUME NEW o \in Owners, Claims(o) PROVE RunsCounted'
    <3>1. ran[row[task[o].id].hold] = 0 /\ task[o].seen = row[task[o].id].hold
      BY <1>0, <2>4 DEF Claims, RunsCounted, ReadsOf
    <3>2. \A j \in Ids : row'[j].status \in {"pending", "rejected", "expired", "refused"}
             => ran[row'[j].hold] = 0
      BY <2>4, <3>1 DEF Claims, OtherRows, RunsCounted
    <3>3. \A p \in Owners : pc'[p] \in {"released", "refusing"} => ran[task[p].seen] = 0
      BY <2>4, <3>1 DEF Claims, Others, RunsCounted
    <3> QED
      BY <1>2, <2>4, <3>2, <3>3 DEF Claims, RunsCounted
  <2>5. ASSUME NEW o \in Owners, Settles(o) PROVE RunsCounted'
    <3>1. task[o].seen = row[task[o].id].hold
      BY <1>0, <2>5 DEF Settles, ReadsOf, Winner, Releasing
    <3>2. row'[task[o].id].status = "refused" => ran[row[task[o].id].hold] = 0
      BY <2>5, <3>1 DEF Settles, RunsCounted
    <3>3. row'[task[o].id].status \in {"executed", "refused"}
      BY <2>5 DEF Settles
    <3>4. \A j \in Ids : row'[j].status \in {"pending", "rejected", "expired", "refused"}
             => ran[row'[j].hold] = 0
      BY <2>5, <3>2, <3>3 DEF Settles, OtherRows, RunsCounted
    <3>5. \A p \in Owners : pc'[p] \in {"released", "refusing"} => ran[task'[p].seen] = 0
      BY <2>5 DEF Settles, Others, RunsCounted
    <3> QED
      BY <1>2, <2>5, <3>4, <3>5 DEF Settles, RunsCounted
  <2>6. ASSUME NEW s \in Sweepers, PassLocal(s) PROVE RunsCounted'
    BY <2>6 DEF PassLocal, RunsCounted
  <2>7. ASSUME NEW s \in Sweepers, PassClaims(s) PROVE RunsCounted'
    <3>1. \A j \in Ids : row'[j].status \in {"pending", "rejected", "expired", "refused"}
             => ran[row'[j].hold] = 0
      BY <1>0, <2>7 DEF PassClaims, OtherRows, RunsCounted
    <3> QED
      BY <2>7, <3>1 DEF PassClaims, RunsCounted
  <2> QED
    BY <2>1, <2>2, <2>3, <2>4, <2>5, <2>6, <2>7, StepKinds
<1>3. (\E o \in Owners : RunConnector(o)) \/ UNCHANGED ran
  BY StepEffects DEF Writes, RecordFlag, SweepRecord
<1> QED
  BY <1>1, <1>2, <1>3

(* A step that leaves the tape alone changes no count. *)
LEMMA VerdictsSame ==
  ASSUME UNCHANGED tape, NEW h PROVE VerdictsOf(h)' = VerdictsOf(h)
  BY DEF VerdictsOf

(* A record adds one to the verdicts of its hold; a flag adds none. *)
LEMMA VerdictAdded ==
  ASSUME TypeOK, NEW h \in Holds, NEW x \in Outcomes, Emit(h, x), NEW g \in Holds
  PROVE  /\ VerdictsOf(g) \in Nat
         /\ g # h \/ x = "flagged" => VerdictsOf(g)' = VerdictsOf(g)
         /\ g = h /\ x # "flagged" => VerdictsOf(g)' = VerdictsOf(g) + 1
<1>1. tape \in [Holds -> [Outcomes -> Nat]]
  BY DEF TypeOK
<1>2. tape[g] \in [Outcomes -> Nat]
  BY <1>1
<1>3. tape'[g] = IF g = h THEN [tape[g] EXCEPT ![x] = tape[g][x] + 1] ELSE tape[g]
  BY <1>1 DEF Emit
<1> QED
  BY <1>2, <1>3 DEF VerdictsOf, Outcomes

(* A flag record is no verdict. *)
LEMMA FlagNoVerdict ==
  ASSUME TypeOK, NEW h, Emit(h, "flagged"), NEW g \in Holds
  PROVE  VerdictsOf(g)' = VerdictsOf(g)
<1>1. tape \in [Holds -> [Outcomes -> Nat]]
  BY DEF TypeOK
<1>2. tape[g] \in [Outcomes -> Nat]
  BY <1>1
<1>3. tape'[g] = IF g = h THEN [tape[g] EXCEPT !["flagged"] = tape[g]["flagged"] + 1]
                 ELSE tape[g]
  BY <1>1 DEF Emit
<1> QED
  BY <1>2, <1>3 DEF VerdictsOf, Outcomes

(* What an actor writes its verdict under is a hold. *)
LEMMA IndicesAreHolds ==
  ASSUME Shape, ReadsInv
  PROVE  /\ \A p \in Owners : pc[p] \in Unwritten => task[p].seen \in Holds
         /\ \A t \in Sweepers : sweep[t].step = "won" => sweep[t].seen \in Holds
         /\ \A i \in Ids : row[i].status = "pending" => row[i].hold \in Holds
<1>1. \A p \in Owners : pc[p] \in Unwritten => task[p].seen \in Holds
  BY ApprovalConstants DEF Shape, ReadsInv, ReadsCurrent, ReadsOf, TaskType,
     Holds, NoHold, Unwritten, Winner, Rejecting, Releasing
<1>2. \A t \in Sweepers : sweep[t].step = "won" => sweep[t].seen \in Holds
  BY ApprovalConstants DEF Shape, ReadsInv, ReadsCurrent, PassOf, SweepType,
     Holds, NoHold
<1>3. \A i \in Ids : row[i].status = "pending" => row[i].hold \in Holds
  BY ApprovalConstants DEF Shape, ReadsInv, OneHoldPerId, RowType, Holds,
     NoHold
<1> QED
  BY <1>1, <1>2, <1>3

(* The owner that holds the pen writes its one verdict and puts it down.   *)
LEMMA PenWrites ==
  ASSUME TypeOK, Shape, ReadsInv, PensInv, VerdictsCounted,
         NEW o \in Owners, Writes(o)
  PROVE  VerdictsCounted'
<1>0. /\ pc[o] \in Unwritten /\ pc'[o] \notin Unwritten
      /\ \A p \in Owners \ {o} : pc'[p] = pc[p] /\ task'[p] = task[p]
      /\ UNCHANGED <<made, row, sweep>>
  BY DEF Writes, Others
<1>a. PICK x \in Outcomes : Emit(row[task[o].id].hold, x)
  BY DEF Writes
<1> DEFINE h == row[task[o].id].hold
<1>1. h = task[o].seen /\ h # NoHold /\ task[o].id \in Ids
  BY <1>0 DEF ReadsInv, ReadsCurrent, ReadsOf, Unwritten, Winner, Rejecting, Releasing,
     Shape, TaskType
<1>2. h \in Holds /\ VerdictsOf(h) = 0 /\ h <= made
  BY <1>0, <1>1, IndicesAreHolds DEF VerdictsCounted, ReadsInv, OneHoldPerId
<1>3. \A g \in Holds : VerdictsOf(g) \in Nat /\ VerdictsOf(g)' <= 1
                      /\ (g # h => VerdictsOf(g)' = VerdictsOf(g))
  <2> SUFFICES ASSUME NEW g \in Holds
               PROVE  VerdictsOf(g) \in Nat /\ VerdictsOf(g)' <= 1
                      /\ (g # h => VerdictsOf(g)' = VerdictsOf(g))
    OBVIOUS
  <2>1. /\ VerdictsOf(g) \in Nat
        /\ g # h => VerdictsOf(g)' = VerdictsOf(g)
        /\ g = h => VerdictsOf(g)' = VerdictsOf(g) \/ VerdictsOf(g)' = VerdictsOf(g) + 1
    BY <1>a, <1>2, VerdictAdded
  <2>2. VerdictsOf(g) <= 1 /\ VerdictsOf(h) = 0
    BY <1>2 DEF VerdictsCounted
  <2> HIDE DEF h
  <2> QED
    BY <2>1, <2>2
<1>4. row[task[o].id].status \in {"approved", "rejected", "expired"}
  BY <1>0 DEF PensInv, PenMatchesRow, Unwritten, Rejecting, Releasing
<1>5. \A p \in Owners \ {o} : pc[p] \in Unwritten => task[p].seen \in Holds \ {h}
  <2> SUFFICES ASSUME NEW p \in Owners \ {o}, pc[p] \in Unwritten, task[p].seen = h
               PROVE  FALSE
    BY IndicesAreHolds
  <2>1. task[p].id \in Ids /\ row[task[p].id].hold = h
    BY <1>1 DEF ReadsInv, ReadsCurrent, ReadsOf, Shape, TaskType,
       Unwritten, Winner, Rejecting, Releasing
  <2>2. task[p].id = task[o].id
    BY <1>1, <2>1 DEF ReadsInv, OneHoldPerId
  <2> QED
    BY <1>0, <2>2 DEF PensInv, OnePen, Unwritten, Winner, Rejecting, Releasing
<1>6. \A t \in Sweepers : sweep[t].step = "won" => sweep[t].seen \in Holds \ {h}
  <2> SUFFICES ASSUME NEW t \in Sweepers, sweep[t].step = "won", sweep[t].seen = h
               PROVE  FALSE
    BY IndicesAreHolds
  <2>1. sweep[t].id \in Ids /\ row[sweep[t].id].hold = h
    BY <1>1 DEF ReadsInv, ReadsCurrent, PassOf, Shape, SweepType
  <2>2. sweep[t].id = task[o].id
    BY <1>1, <2>1 DEF ReadsInv, OneHoldPerId
  <2> QED
    BY <1>0, <2>2 DEF PensInv, OnePen, PenMatchesRow, Unwritten, Rejecting,
       Releasing
<1>7. \A i \in Ids : row[i].status = "pending" => row[i].hold \in Holds \ {h}
  BY <1>1, <1>4, IndicesAreHolds DEF ReadsInv, OneHoldPerId
<1>8. (\A g \in Holds : VerdictsOf(g) <= 1)' /\ (\A g \in Holds : g > made => VerdictsOf(g) = 0)'
  <2>1. made \in Nat /\ Holds' = Holds /\ \A g \in Holds : g > made => g # h
    BY <1>0, <1>2, ApprovalConstants DEF Shape, Holds
  <2> QED
    BY <1>0, <1>3, <2>1 DEF VerdictsCounted
<1>9. (\A i \in Ids : row[i].status = "pending" => VerdictsOf(row[i].hold) = 0)'
  BY <1>0, <1>3, <1>7 DEF VerdictsCounted
<1>10. (\A p \in Owners : pc[p] \in Unwritten => VerdictsOf(task[p].seen) = 0)'
  BY <1>0, <1>3, <1>5 DEF VerdictsCounted
<1>11. (\A t \in Sweepers : sweep[t].step = "won" => VerdictsOf(sweep[t].seen) = 0)'
  BY <1>0, <1>3, <1>6 DEF VerdictsCounted
<1> QED
  BY <1>8, <1>9, <1>10, <1>11 DEF VerdictsCounted
(* The sweeper that holds the pen writes the expiry. *)
LEMMA SweepWrites ==
  ASSUME TypeOK, Shape, ReadsInv, PensInv, VerdictsCounted,
         NEW s \in Sweepers, SweepRecord(s)
  PROVE  VerdictsCounted'
<1> DEFINE h == sweep[s].seen
<1>0. /\ sweep[s].step = "won" /\ Emit(h, "expired") /\ UNCHANGED <<made, row, pc, task>>
      /\ sweep'[s].step # "won" /\ OtherPasses(s)
  <2>1. sweep[s].step = "won" /\ Emit(h, "expired") /\ UNCHANGED <<made, row, pc, task>>
    BY DEF SweepRecord, storeVars
  <2>2. PassLocal(s)
    BY <2>1, SweepKinds DEF Sweep, PassClaims
  <2> QED
    BY <2>1, <2>2 DEF PassLocal
<1>1. h = row[sweep[s].id].hold /\ h # NoHold /\ sweep[s].id \in Ids
      /\ row[sweep[s].id].status = "expired"
  BY <1>0 DEF ReadsInv, ReadsCurrent, PassOf, Shape, SweepType, PensInv, PenMatchesRow
<1>2. h \in Holds /\ VerdictsOf(h) = 0 /\ h <= made
  BY <1>0, <1>1, IndicesAreHolds DEF VerdictsCounted, ReadsInv, OneHoldPerId
<1>3. \A g \in Holds : VerdictsOf(g)' <= 1 /\ (g # h => VerdictsOf(g)' = VerdictsOf(g))
  <2> SUFFICES ASSUME NEW g \in Holds
               PROVE  VerdictsOf(g)' <= 1 /\ (g # h => VerdictsOf(g)' = VerdictsOf(g))
    OBVIOUS
  <2>1. /\ g # h => VerdictsOf(g)' = VerdictsOf(g)
        /\ g = h => VerdictsOf(g)' = VerdictsOf(g) + 1
    BY <1>0, <1>2, VerdictAdded DEF Outcomes
  <2>2. VerdictsOf(g) <= 1 /\ VerdictsOf(h) = 0
    BY <1>2 DEF VerdictsCounted
  <2> HIDE DEF h
  <2> QED
    BY <2>1, <2>2
<1>4. \A p \in Owners : pc[p] \in Unwritten => task[p].seen \in Holds \ {h}
  <2> SUFFICES ASSUME NEW p \in Owners, pc[p] \in Unwritten, task[p].seen = h
               PROVE  FALSE
    BY IndicesAreHolds
  <2>1. task[p].id \in Ids /\ row[task[p].id].hold = h
    BY <1>1 DEF ReadsInv, ReadsCurrent, ReadsOf, Shape, TaskType,
       Unwritten, Winner, Rejecting, Releasing
  <2>2. task[p].id = sweep[s].id
    BY <1>1, <2>1 DEF ReadsInv, OneHoldPerId
  <2> QED
    BY <1>0, <1>1, <2>2 DEF PensInv, OnePen, PenMatchesRow, Unwritten, Rejecting,
       Releasing
<1>5. \A t \in Sweepers \ {s} : sweep[t].step = "won" => sweep[t].seen \in Holds \ {h}
  <2> SUFFICES ASSUME NEW t \in Sweepers \ {s}, sweep[t].step = "won", sweep[t].seen = h
               PROVE  FALSE
    BY IndicesAreHolds
  <2>1. sweep[t].id \in Ids /\ row[sweep[t].id].hold = h
    BY <1>1 DEF ReadsInv, ReadsCurrent, PassOf, Shape, SweepType
  <2>2. sweep[t].id = sweep[s].id
    BY <1>1, <2>1 DEF ReadsInv, OneHoldPerId
  <2> QED
    BY <1>0, <2>2 DEF PensInv, OnePen
<1>6. \A i \in Ids : row[i].status = "pending" => row[i].hold \in Holds \ {h}
  BY <1>1, IndicesAreHolds DEF ReadsInv, OneHoldPerId
<1>7. (\A g \in Holds : VerdictsOf(g) <= 1)' /\ (\A g \in Holds : g > made => VerdictsOf(g) = 0)'
  <2>1. made \in Nat /\ Holds' = Holds /\ \A g \in Holds : g > made => g # h
    BY <1>0, <1>2, ApprovalConstants DEF Shape, Holds
  <2> QED
    BY <1>0, <1>3, <2>1 DEF VerdictsCounted
<1>8. (\A i \in Ids : row[i].status = "pending" => VerdictsOf(row[i].hold) = 0)'
  BY <1>0, <1>3, <1>6 DEF VerdictsCounted
<1>9. (\A p \in Owners : pc[p] \in Unwritten => VerdictsOf(task[p].seen) = 0)'
  BY <1>0, <1>3, <1>4 DEF VerdictsCounted
<1>10. (\A t \in Sweepers : sweep[t].step = "won" => VerdictsOf(sweep[t].seen) = 0)'
  BY <1>0, <1>3, <1>5 DEF VerdictsCounted, OtherPasses
<1> QED
  BY <1>7, <1>8, <1>9, <1>10 DEF VerdictsCounted

(* The verdicts of a hold after the step. *)
VerdictsNext(h) == tape'[h]["executed"] + tape'[h]["failed"] + tape'[h]["denied"]
                   + tape'[h]["rejected"] + tape'[h]["expired"]

(* The count after the step, in terms of the holds it then names. *)
LEMMA CountNext ==
  ASSUME \A h \in Holds : VerdictsNext(h) <= 1 /\ (h > made' => VerdictsNext(h) = 0),
         \A i \in Ids : row'[i].status = "pending" => VerdictsNext(row'[i].hold) = 0,
         \A p \in Owners : pc'[p] \in Unwritten => VerdictsNext(task'[p].seen) = 0,
         \A t \in Sweepers : sweep'[t].step = "won" => VerdictsNext(sweep'[t].seen) = 0
  PROVE  VerdictsCounted'
  BY DEF VerdictsCounted, VerdictsOf, VerdictsNext

(* Every step that writes no verdict keeps the count. *)
LEMMA CountKept ==
  ASSUME ~Dedup, Shape, ReadsInv, PensInv, VerdictsCounted, [Next]_vars,
         \A h \in Holds : VerdictsNext(h) = VerdictsOf(h)
  PROVE  VerdictsCounted'
<1> DEFINE V(h) == VerdictsOf(h)
           W(h) == VerdictsNext(h)
<1>0. /\ \A o \in Owners : ReadsOf(o) /\ task[o].id \in Ids
      /\ \A s \in Sweepers : PassOf(s) /\ sweep[s].id \in Ids
      /\ made \in Nat
  BY ApprovalConstants DEF Shape, TaskType, SweepType, ReadsInv, ReadsCurrent
<1>1. /\ \A p \in Owners : pc[p] \in Unwritten => W(task[p].seen) = 0
      /\ \A t \in Sweepers : sweep[t].step = "won" => W(sweep[t].seen) = 0
      /\ \A i \in Ids : row[i].status = "pending" => W(row[i].hold) = 0
      /\ \A h \in Holds : W(h) <= 1 /\ (h > made => W(h) = 0)
  BY IndicesAreHolds DEF VerdictsCounted
<1> HIDE DEF V, W
<1>2. ASSUME \A h \in Holds : W(h) <= 1 /\ (h > made' => W(h) = 0),
             \A i \in Ids : row'[i].status = "pending" => W(row'[i].hold) = 0,
             \A p \in Owners : pc'[p] \in Unwritten => W(task'[p].seen) = 0,
             \A t \in Sweepers : sweep'[t].step = "won" => W(sweep'[t].seen) = 0
      PROVE  VerdictsCounted'
  BY <1>2, CountNext DEF W
<1>3. ASSUME UNCHANGED <<made, row, pc, task, sweep>> PROVE VerdictsCounted'
  BY <1>1, <1>2, <1>3
<1>4. ASSUME NEW i \in Ids, Puts(i) PROVE VerdictsCounted'
  <2>1. W(made + 1) = 0 /\ \A h \in Holds : h > made' => W(h) = 0
    BY <1>0, <1>1, <1>4 DEF Puts, Holds
  <2>2. \A j \in Ids : row'[j].status = "pending" => W(row'[j].hold) = 0
    BY <1>1, <1>4, <2>1 DEF Puts, OtherRows
  <2> QED
    BY <1>1, <1>2, <1>4, <2>1, <2>2 DEF Puts
<1>5. ASSUME NEW o \in Owners, Local(o) PROVE VerdictsCounted'
  <2>1. pc'[o] \in Unwritten => pc[o] \in Unwritten /\ task'[o].seen = task[o].seen
    BY <1>5 DEF Local, SameClaim, Winner, Unwritten, Rejecting, Releasing
  <2>2. \A p \in Owners : pc'[p] \in Unwritten => W(task'[p].seen) = 0
    BY <1>1, <1>5, <2>1 DEF Local, Others
  <2> QED
    BY <1>1, <1>2, <1>5, <2>2 DEF Local
<1>6. ASSUME NEW o \in Owners, Claims(o) PROVE VerdictsCounted'
  <2>1. W(task[o].seen) = 0
    BY <1>0, <1>1, <1>6 DEF Claims, ReadsOf
  <2>2. \A p \in Owners : pc'[p] \in Unwritten => W(task'[p].seen) = 0
    BY <1>1, <1>6, <2>1 DEF Claims, Others
  <2>3. \A j \in Ids : row'[j].status = "pending" => W(row'[j].hold) = 0
    BY <1>1, <1>6 DEF Claims, OtherRows
  <2> QED
    BY <1>1, <1>2, <1>6, <2>2, <2>3 DEF Claims
<1>7. ASSUME NEW o \in Owners, Settles(o) PROVE VerdictsCounted'
  <2>1. \A p \in Owners : pc'[p] \in Unwritten => W(task'[p].seen) = 0
    BY <1>1, <1>7 DEF Settles, Others, Unwritten, Rejecting
  <2>2. \A j \in Ids : row'[j].status = "pending" => W(row'[j].hold) = 0
    BY <1>1, <1>7 DEF Settles, OtherRows
  <2> QED
    BY <1>1, <1>2, <1>7, <2>1, <2>2 DEF Settles
<1>8. ASSUME NEW s \in Sweepers, PassLocal(s) PROVE VerdictsCounted'
  <2>1. \A t \in Sweepers : sweep'[t].step = "won" => W(sweep'[t].seen) = 0
    BY <1>1, <1>8 DEF PassLocal, OtherPasses
  <2> QED
    BY <1>1, <1>2, <1>8, <2>1 DEF PassLocal
<1>9. ASSUME NEW s \in Sweepers, PassClaims(s) PROVE VerdictsCounted'
  <2>1. W(sweep[s].seen) = 0
    BY <1>0, <1>1, <1>9 DEF PassClaims, PassOf
  <2>2. \A t \in Sweepers : sweep'[t].step = "won" => W(sweep'[t].seen) = 0
    BY <1>1, <1>9, <2>1 DEF PassClaims, OtherPasses
  <2>3. \A j \in Ids : row'[j].status = "pending" => W(row'[j].hold) = 0
    BY <1>1, <1>9 DEF PassClaims, OtherRows
  <2> QED
    BY <1>1, <1>2, <1>9, <2>2, <2>3 DEF PassClaims
<1> QED
  BY <1>3, <1>4, <1>5, <1>6, <1>7, <1>8, <1>9, StepKinds

(* Every step keeps the count of verdicts. *)
LEMMA VerdictsInductive ==
  ASSUME ~Dedup, TypeOK, Shape, ReadsInv, PensInv, VerdictsCounted, [Next]_vars
  PROVE  VerdictsCounted'
<1>1. CASE \E o \in Owners : Writes(o)
  BY <1>1, PenWrites
<1>2. CASE \E s \in Sweepers : SweepRecord(s)
  BY <1>2, SweepWrites
<1>3. CASE UNCHANGED tape
  <2>1. \A h \in Holds : VerdictsNext(h) = VerdictsOf(h)
    BY <1>3 DEF VerdictsNext, VerdictsOf
  <2> QED
    BY <2>1, CountKept
<1>4. ASSUME NEW o \in Owners, RecordFlag(o) PROVE VerdictsCounted'
  <2>1. \A h \in Holds : VerdictsNext(h) = VerdictsOf(h)
    <3> SUFFICES ASSUME NEW h \in Holds PROVE VerdictsNext(h) = VerdictsOf(h)
      OBVIOUS
    <3>1. VerdictsOf(h)' = VerdictsOf(h)
      BY <1>4, FlagNoVerdict DEF RecordFlag
    <3>2. VerdictsOf(h)' = VerdictsNext(h)
      BY DEF VerdictsOf, VerdictsNext
    <3> QED
      BY <3>1, <3>2
  <2> QED
    BY <2>1, CountKept
<1>5. ASSUME NEW o \in Owners, RunConnector(o) PROVE UNCHANGED tape
  BY <1>5 DEF RunConnector
<1> QED
  BY <1>1, <1>2, <1>3, <1>4, <1>5, StepEffects

(* The inductive invariant holds before the first hold. *)
LEMMA InitHolds == Init => HoldInv
<1> SUFFICES ASSUME Init PROVE HoldInv
  OBVIOUS
<1>1. /\ \A o \in Owners : pc[o] = "idle" /\ task[o] = NoTask
      /\ \A s \in Sweepers : sweep[s] = NoSweep
      /\ \A i \in Ids : row[i] = Absent
      /\ made = 0
  BY DEF Init
<1>2. ReadsInv
  <2>1. /\ \A i \in Ids : row[i].status = "absent" /\ row[i].hold = 0
        /\ \A o \in Owners : task[o].first = 0 /\ task[o].seen = 0
        /\ \A s \in Sweepers : sweep[s].step = "idle"
    <3>1. \A i \in Ids : row[i].status = "absent" /\ row[i].hold = 0
      BY <1>1 DEF Absent, NoHold
    <3>2. \A o \in Owners : task[o].first = 0 /\ task[o].seen = 0
      <4>1. NoTask.first = 0 /\ NoTask.seen = 0
        BY DEF NoTask, NoHold
      <4> QED
        BY <1>1, <4>1
    <3>3. \A s \in Sweepers : sweep[s].step = "idle"
      BY <1>1 DEF NoSweep
    <3> QED
      BY <3>1, <3>2, <3>3
  <2>2. OneHoldPerId
    BY <1>1, <2>1 DEF OneHoldPerId, NoHold
  <2>3. ReadsCurrent
    BY <1>1, <2>1 DEF ReadsCurrent, ReadsOf, PassOf, NoHold, Winner, Rejecting, Releasing
  <2> QED
    BY <2>2, <2>3 DEF ReadsInv
<1>3. PensInv
  BY <1>1 DEF PensInv, PenMatchesRow, OnePen, NoSweep, Winner, Rejecting,
     Releasing
<1>4. RunsCounted
  BY <1>1 DEF RunsCounted, Init, Absent
<1>5. \A h \in Holds : VerdictsOf(h) = 0
  BY DEF Init, VerdictsOf, Outcomes
<1>6. VerdictsCounted
  BY <1>1, <1>5 DEF VerdictsCounted, Absent, NoSweep, Unwritten, Rejecting
<1> QED
  BY <1>2, <1>3, <1>4, <1>6 DEF HoldInv

(* The inductive invariant is inductive. *)
LEMMA HoldsInductive ==
  ASSUME ~Dedup, TypeOK, HoldInv, [Next]_vars
  PROVE  HoldInv'
<1>1. Shape /\ ran \in [Holds -> Nat]
  BY TypesShape DEF TypeOK
<1>2. ReadsInv /\ PensInv /\ RunsCounted /\ VerdictsCounted
  BY DEF HoldInv
<1>3. ReadsInv' /\ PensInv'
  BY <1>1, <1>2, ReadsInductive, PensInductive
<1>4. RunsCounted' /\ VerdictsCounted'
  BY <1>1, <1>2, RunsInductive, VerdictsInductive
<1> QED
  BY <1>3, <1>4 DEF HoldInv

(* It holds in every behaviour without dedup. *)
LEMMA HoldInvAlways ==
  ASSUME ~Dedup
  PROVE  Spec => []HoldInv
<1>1. Init => HoldInv
  BY InitHolds
<1>2. TypeOK /\ HoldInv /\ [Next]_vars => HoldInv'
  BY HoldsInductive
<1> QED
  BY <1>1, <1>2, TypeCorrect, PTL DEF Spec

(* Where an intent id names one hold, the connector is called at most once *)
(* for a held request, for any number of concurrent owners and sweepers    *)
(* and any of them stopping anywhere: approve()'s compare-and-set claim.   *)
THEOREM OneRelease ==
  ASSUME ~Dedup
  PROVE  Spec => []OneReleasePerHold
<1>1. HoldInv => OneReleasePerHold
  BY DEF HoldInv, RunsCounted, OneReleasePerHold
<1> QED
  BY <1>1, HoldInvAlways, PTL

(* Under the same assumption the tape carries at most one decision per     *)
(* hold: executed, failed, denied at its release, rejected and expired     *)
(* exclude each other and none is written twice, whatever approvals of it  *)
(* are turned away, over a shown digest or a quarantined row, in between.  *)
THEOREM OneVerdict ==
  ASSUME ~Dedup
  PROVE  Spec => []OneVerdictPerHold
<1>1. HoldInv => OneVerdictPerHold
  BY DEF HoldInv, VerdictsCounted, OneVerdictPerHold
<1> QED
  BY <1>1, HoldInvAlways, PTL

=============================================================================
