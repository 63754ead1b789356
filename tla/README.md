# TLA+ models of the broker

This directory models the deterministic tool broker of this repository (`safe_agents/broker`) in TLA+: what stands
between an agent and the tools it may call, and the tapes, queues and ledgers that record what it let through. TLC
checks the models on small instances; TLAPS proves the central invariants for every value of the constants.

`PROJECT.json` lists every component, run, mutant, mapped definition, finding, hazard and theorem. This file explains
them.

## 1. The system

An agent's call reaches a `BrokerRuntime` (the policy enforcement point, PEP, `runtime/pep.py`), which

1. finds or mints the principal's broker-held turn and freezes the turn's taint on the call,
2. reads the facts about it (the PIP) and asks `decide()` (the policy decision point, PDP) for one of five verbs,
3. hands call and verb to `enforce()`, which claims the idempotency key, decides again on fresh facts, draws budgets,
   journals the intent, runs the connector, and settles the claim,
4. meters what ran, records it on a hash-chained audit tape, and answers; or freezes the call as an intent for a human.

A human's answer comes out of band: `approve_intent`, `reject_intent`, `flag_intent`; a sweeper expires what nobody
answers. Grants, delegations, tool-server admission and the channels through which messages arrive have stores and
ceremonies of their own beside this path.

### Inventory

| Part | State | Operations | What is hard about it |
|---|---|---|---|
| enforcement pipeline | idempotency rows, counters, tree pool, ledger | `enforce()` and its settlement | concurrent callers on one key, a fault or a crash at any store call, an operator's clear |
| approval lifecycle | intent rows, flag markers, evidence counters | materialize, approve, reject, flag, sweep | three parties racing for one row, clocks that differ, ids that are reused |
| approval queue alarm | raised periods per op | `raise_for`, `count_expiry`, `flush` | restarts, period boundaries |
| policy decision point | none | `decide()` | sixteen ordered rules, first match |
| request path | turn, counters | `handle_request`, executors | premises gone stale, order of taint, record and reply |
| harness decisions | held and permitted harness calls | `decide_harness_call`, reissue | a permit used twice or late |
| audit chain and tapes | tape file, bucket, cached counters | `emit()`, `resuming()` | several processes, torn lines, ambiguous puts |
| taint and inheritance | turns, inheritance records | mint, ingest, record | taint that must outlive rolls, crashes and holds |
| delegation | sub-grants, pools | issue, resolve a draw | one pool, many spenders |
| grant ceremony, demotion, lapse, withdrawal | grants, promotion ledger, proposals | propose, ratify, demote, lapse, withdraw | evaluators racing a ceremony for one grant |
| key and grant standing | standing statements | succeed, withdraw | monotone versions, freshness |
| grant audit | none (replays the ledger) | audit | agreement with every reachable history |
| MCP registry and host | rows, admission records, snapshots | propose, ratify, suspend, call | a tool that changed after it was admitted |
| channels: airlock and drain | dedupe keys, queue | screen, forward, drain | duplicate and lost deliveries |
| watcher, reliability, pipeline | windows, phases | report, deploy | partial failure |

Everything else (transport, provisioning, schemas, credentials, tests) keeps no state the promises above rest on; each
is in `PROJECT.json` with the reason it is left out.

## 2. Plan

Order of work, with what is done marked.

1. **done** `Enforcement`, its abstract specification `KeyedEffect`, `EnforcementProofs`.
2. **done** `Approval`, `ApprovalExpiry`, `ApprovalProofs`.
3. **done** `PDP`, `Premise`, `PremiseProofs`.
4. **done** `AuditTape` (file) and `S3Tape` (bucket).
5. **done** `Turn` (composes `PDP`) and `Meters`.
6. `HarnessDecision`: a harness's own call, its hold, the permit of a reissue. Run: a permit is spent at most once and
   never after its expiry.
7. `Delegation`: issuance and attenuation of sub-grants, the pool a draw resolves to; composed with the draws of
   `Enforcement`. Run: two issuances against one remainder.
8. `Grants`: ceremony, demotion runner, lapse and withdrawal over the hash-conditioned grant and the append-only
   ledger; `Standing`; `GrantAudit`, the audit's replay as an operator checked on every history `Grants` reaches.
   Abstract specification: a grant's level moves by one recorded, ordered decision at a time.
9. `Airlock` and `Drain`: at-least-once delivery into a dedupe claim, and the owner's forks into `Approval`.
10. `McpAdmission` and `McpHost`: the two-key admission and the snapshot a call is judged by.
11. `QueueAlarm`, `Campaign`, `Pipeline`.

Proofs to add: the chain invariant of `AuditTape`, `SeenIsTainted` and `EveryCauseRecorded` of `Turn`, the overrun
bound of `Meters`, the budget invariant of `Enforcement` and its refinement of `KeyedEffect`, and the ledger order of
`Grants`.

## 3. Modules

A step of a model is one store, connector, tape or lock call with the local code around it, since that is where other
processes get in. Payloads, reasons, wording and digests are left out; ids, verbs, statuses and instants are kept. Each
operator `X_something` next to an operator `X` is a variant of it with one plausible mistake; no specification uses it.
It is there to show that the properties notice.

### Enforcement

`enforce()` over an `EnforcementStore`. `pc` is where an invocation stands, `idem` the key's row (absent, in flight,
executed, failed, or a refusal an older broker stored), `counter` and `pool` the two budgets, `ledger` each invocation's
write-ahead entry, `ran` a history of executor calls. Actions follow the six numbered steps of the function:
`GetIdempotency`, `EvictLegacy`, `PutIfAbsent`, `RereadIdempotency` (1), `Revalidate` (2), `DrawOwn`, `DrawTree` (3),
`WriteLedger` (4), `Execute`, `Saga`, `FailClaim`, `CommitLedger` (5), `CompleteClaim`, `ReleaseClaim` (6), with
`FaultBeforeEffect`, `Unwind` and `FaultInClaim` for the faults the code handles, `Crash`, and `OperatorClear`.
`KeyedEffect` is what a key promises, with four actions: claimed, attempted once, settled or given back.
The caps are resolved at boot and stay (`caps`): `enforcement_races` runs the same calls under roomy ones, where only the
key stands between them, and under caps of one.

### Approval

`materialize()`, `approve()`, `reject()`, `expire_if_due()` under the four entries of the PEP. A hold is one
materialized call; `row` is the stored intent of an id. Without dedup an id names one hold; with dedup the next hold of
the same content overwrites a resolved row. An owner's action walks through `FirstRead`, `ReadClock`, `GetIntent`, a
claim by compare-and-set, and the effects in the code's order (connector, record, label, row). A sweeper's pass is
`SweepStart`, `SweepGet`, `SweepExpire`, `SweepRecord`. `Stop` and `SweepStop` end a process, or a handler whose store
or tape raised, between any two steps. Every owner and every sweeper has a clock of its own, within `Skew` of the one
that stamps holds; only a release makes an allowance for it.

A stored row may stop matching its HMAC (`Rewrite`, external). A read that meets it is `QuarantinedRead`, `Surface` or
`SweepQuarantined`, and an approval of something other than what the row holds is `RefuseShown`. Each puts a record of
outcome `denied` on the tape and leaves the row as it is, so the hold may still be executed, rejected or expired. The
model keeps these records apart, in `turnedAway`: `tape[h]["denied"]` counts the denials of a release, which decide the
hold, and the two are told apart on the real tape by their reason. What the properties say of verdicts they say of the
latter.

### PDP and Premise

`PDP!decide` is the rule table, one predicate per rule, in its order. `Premise` takes one call through its first
decision, a store that moves, and the revalidation that keeps the stricter verb. Every call and every combination of
the facts is an initial state, so its run is exhaustive over the table.

### AuditTape and S3Tape

`AuditTape`: processes with threads share a file. `emit()` takes the sink's thread lock (`Enter`), opens the lock
handle, which creates the file (`OpenHandle`), locks it (`Acquire`), re-derives its counters from disk (`Refresh`),
writes a line in two parts (`WriteHead`, `WriteRest`) and lets go (`Leave`). `resuming()` is `ResumeOpen`, `ResumeLock`,
`ResumeScan`, `ResumeTrim`. `Die` drops a process's locks, inside a line or not; `Raise` is an operating-system error (a
full disk) with the process alive, before, inside or at the end of the line. Hashes are distinct numbers, which takes
the hash to be injective. `torn` and `blind` are history: a line was begun and given up and is not yet trimmed, and a
`resuming()` that had found no tape, and so took no lock, has trimmed one.

`S3Tape`: one object per seq in a versioned bucket. A put is `Acknowledged`, or it `Raised` with or without having
landed, or it may `Land` after the sink gave it up; `late` is the history of the keys where one did. The docstring of
`S3ObjectLockSink` (`_s3_sink.py:53`) says that Object Lock keeps PutObject from overwriting a record. Object Lock
protects the versions of a key; it does not refuse a put on a key that is taken, and the sink's put has no condition. The
model takes the bucket to be versioned: such a put adds a version, and readers get the newest.

`MCSinks` puts the two on one root, each on its own instance, and restates `S3Tape`'s properties under their names.

### Turn

The broker-held turn, its taint, and the inheritance ledger. `Arrive` mints or finds the turn, ingests the caller's
sources, freezes taint and decides; `Enforce` claims the key, decides again and runs, refuses or holds;
`WriteInheritance` writes the record a cause op owes before `Execute`; `Finish` records and self-ingests; `Reply` hands
the result over; `Release` is a held call let go by a process of its own; `Replay` answers a settled key with what its
row stored. `seen`, `stored` and `caused` are history: whether untrusted content has reached the agent of a turn, which
rows hold a result of an earlier turn, and which contexts its ops started. `seen` leaves out what `Replay` hands over
from an earlier turn's row; section 5 says why. Calls of one principal are serial, as `_session_turn` requires of its
callers; principals, releases, rolls, crashes and grant changes interleave.

### Meters

The counters written around an execution (query bytes, error budget, observations) and the breach signal, against the
two readings that gate a call. Held calls take the release path, whose only meter is the observation label. `signals`
counts a breach signal under the period whose budget was crossed and the period it names. `Width` is the number of calls
in flight: one for a broker, whose server is single-threaded by requirement, and more for several broker processes on
one counter store. `raced` is the history of the periods in which a write drew while another stood between
its draw and its reading back.

## 4. Runs that pass

| Run | What it shows | Instance | Distinct states |
|---|---|---|---|
| `enforcement_races` | one executor call per claim, replays backed by the ledger, settled keys never reopened; executions within the own cap and the pool, and no pool spent by a refused call | 3 calls of a parent and a child, unkeyed or on 1 key, 1 clear, faults and crashes anywhere; under caps of 3 and under caps of 1 | 2,745,618 |
| `enforcement_keyed` | `enforce()` implements `KeyedEffect`; a live owner's claim settles | 2 callers, 2 keys (one legacy), all five verbs | 86,569 |
| `approval_lifecycle` | one release, one verdict, tape agrees with row, no approval that came late takes effect, nothing expires early by more than the clocks differ, labels never undercount errors | 2 owners (one clock behind), 1 sweeper (clock ahead), all mortal, a row that may stop verifying | 1,689,309 |
| `approval_live` | every hold resolves and every expiry is recorded, unless its row stopped verifying | 1 owner, 2 sweepers, none mortal | 58,899 |
| `premise_table` | the table's monotonicity, and that no stale premise runs | every call, every combination of facts | 694,112 |
| `audit_sinks` | file: the records are one chain, an unfinished line costs at most the one record joined to it, nothing is written behind a corrupt line, no lock is stranded; bucket: one chain with every emitted record under lost answers and restarts, and a late put hides but never cuts off or destroys | file: 2 processes, 3 threads, 3 records, tape present or missing, death or a raised write anywhere; bucket: 4 records | 67,987 |
| `turn_exposure` | an exposed agent's turn is tainted, its external writes do not run unattended, what a held call froze covers what its agent had seen, and every cause op that took effect left its record | parent (reads, writes, starts itself and the child; one key, one hold, a grant that moves and is withdrawn) and child (clock ahead), skew 1, rolls and crashes | 606,630 |
| `meters_racing` | the overrun is bounded by what is in flight; a crossing signals exactly once unless two draws overlap; every inline run is metered and nothing twice | 3 reads, 3 writes (one a release), 2 at a time, 2 periods, faults; the reads are symmetric | 660,461 |

### Bounds, and why they are enough

Two claimants are needed for a race on a key or a row, and a third to arrive after the first two have settled it; three
callers and, for approvals, two owners beside a sweeper give both. One key or id suffices where keys do not interact
(the refinement run has two). A cap of one, with three calls of two principals, puts each draw at its limit; the same
calls under caps of three leave no budget to hide a second execution. In `turn_exposure` a horizon, a skew and a clock
of one tick let a record be read while it lives, while only the skew keeps it alive, and when it has lapsed. `Window`,
`Skew`, `Period`, `Horizon` and `MaxClock` are a few ticks, so that an action falls before, on and after each boundary.
Three records on a tape allow a record before a crash, one torn by it and one after. `MaxRecords`, `MaxHeld`,
`MaxEmits`, `MaxPuts`, `MaxHolds`, `MaxClears` and `LastPeriod` bound what would grow for ever. A run with deadlock
checking off is one whose callers all finish.

### Fairness

`Enforcement!FairSpec` is weak fairness of each running caller's own steps: a function that has started and whose
process lives runs on; starting and crashing are not fair. `Approval!FairSpec` asks it of actions under way, of the
sweepers' passes, which the gateway schedules for as long as it is up, and of the clock. Nobody is obliged to answer a
hold. `AuditTape!FairSpec` is strong fairness of each live thread: `flock` and `threading.Lock` are released and taken
again all the time, and a waiter is granted one in the end. `MCSinks` asks the same of the tape's threads and nothing of
the bucket's broker.

## 5. What the code does not keep

Four runs state what a comment or a document says and find it violated; `PROJECT.json` quotes the lines.

| Run | What the code does |
|---|---|
| `approval_reheld_release` | With dedup, an approval that read an earlier hold wins the claim of the next one and runs the earlier request again. |
| `approval_past_expiry` | `approve()` reads the clock once, before it reads the row; claim, revalidation and connector follow, and an intent that was in time at the reading runs after its expiry. The docstring: "An intent past its expiry never executes." |
| `meters_period` | The breach signal derives its period afresh, so when a period turns between the draw and the signal it names the wrong one. EVIDENCE.md E14: "with the right action-class and period". |
| `meters_released` | A write a human released draws no error budget. EVIDENCE.md E13: a write draws "exactly once". The same path meters no query bytes of a released read. |

Elsewhere a property is stated with the exception the code needs, and the exception is part of the statement. Without
it TLC finds a counterexample in each case.

| Property | Exception | Why |
|---|---|---|
| `AtMostOncePerKey`, `SettledRowIsFinal` | keys in `LegacyKeys` | `enforce()` deletes an older broker's stored refusal without a condition (`enforcement/engine.py:184`); the delete can remove another caller's fresh claim, and both execute. |
| `LiveClaimSettles` | `Stranded` owners | A store fault after the executor ran propagates before the claim is marked, and nothing reads a crashed process's uncommitted entry on restart (`get_uncommitted_entries` has no caller), so the claim stays in flight until an operator clears it. |
| `ChainIntact`, `EmittedOnTape` | a corrupt line while `torn` | `_refresh_from_disk` ignores the torn flag of `_scan`; only `resuming()` trims, so the next record is joined to the bytes of a line its writer died in, or whose write raised, and is lost. |
| `ChainIntact`, `EmittedOnTape` | `blind` | `_flocked` takes no lock on a missing tape, and `resuming()` then trims what another process has begun, and perhaps completed, since. |
| `BucketChainIntact`, `EmittedVisible` | keys in `late` | A put that raised leaves its seq to the next record; landing late, it becomes the version readers get. |
| `CrossingSignalledOnce` | periods in `raced` | Both of two overlapping draws read a spend that includes the other's, so the crossing may be signalled by neither. The comment at `runtime/pep.py:2624` expects a double signal only. |
| `InlineRunsMetered` | calls in `Held` | It leaves open what a released call adds; `meters_released` shows that it adds nothing. |
| `SeenIsTainted`, `AutonomousWriteUnexposed` | a result an earlier turn stored under a key | A replay ingests nothing (`runtime/pep.py:2703`). In the turn that stored an untrusted read this is sound, the turn being tainted; after a roll or a restart the agent of a clean turn gets the content back by repeating the key. |
| `EveryHoldResolves`, `EveryExpiryRecorded` | rows that stopped verifying | A quarantined row is never moved; the sweep surfaces it and goes on. |
| `ExpiresOnlyWhenDue` | up to `Skew` early, `2 * Skew` for an approval | A sweep and a rejection judge expiry on their own clock (`runtime/pep.py:2129`); an approval brings it forward by the skew on top. |
| `OneVerdictPerHold`, `OneReleasePerHold` | `Dedup = FALSE` | With dedup a late action runs, or records the expiry of, the row it read first, which may be an earlier hold's. |

## 6. Proofs

All theorems hold for every value of the constants under the modules' named assumptions.

**Enforcement** (`EnforcementProofs`; assumption `EnforcementConstants`). `AtMostOncePerKey` is not inductive: it does
not say why the next caller will not execute. The strengthening is `ClaimAccounting`: count as accountable for a key
every invocation that has run, or stands between the claim and its settlement; a key whose row is absent has at most as
many of them as it had operator clears, and one whose row is taken at most one more. Taking the row adds one invocation
and is only possible when the row is absent; giving the row back removes the invocation that gives it back, before it
ran; a clear buys one. `Phases`, the points an invocation that ran or claims can be at, is inductive with the type
invariant (`PhasesInductive`). Theorems: `TypeCorrect`, `ClaimsAccounted`, `AtMostOnce`. Keys with a legacy row are
excluded, for the reason section 5 gives.

**Approval**. `ApprovalExpiry` has `TypeCorrect` and `ApprovalsInTime`, the latter with or without dedup. It relates the
instant an approval was asked for, not the one its handler read, to the expiry: `ClockedSince` says that a reading was
taken no earlier than the request, up to the drift of its process, and stays true while time passes; with `ReadsMade` (a
hold somebody has read has been made, with the instant it was stamped) and `DriftOf` within `Skew`, a request that came
after the expiry is judged expired on a clock that is up to `Skew` behind, since the check brings the expiry forward by
`Skew`. When the release takes effect is another matter (`approval_past_expiry`). `ApprovalProofs` has `OneRelease` and
`OneVerdict` for `Dedup = FALSE`, from the inductive `HoldInv`: an id keeps its hold and a reader's copy is current
(`ReadsInv`); at most one process holds the pen of a row, the right to write its verdict, and the row's status says
which verdict (`PensInv`); and the counts of releases and of verdicts are zero while the row is pending or the pen has
not been used (`RunsCounted`, `VerdictsCounted`). Every action is first shown to be of one of a few kinds (it changes
only its own locals, it makes a hold, it wins a claim, it settles a row), and each conjunct is then preserved by each
kind.

**The rule table** (`PremiseProofs`): `TaintMonotone`, `DemotionMonotone`, `HumanMonotone`, `BoundsBind`, `TaintCut`
follow from lemmas about `decide` alone (`HumanMonotone` states `AbsentHumanNeverLoosens`); `PremiseHolds` from the fact
that the stricter of two verbs runs only if both do.

**Only proved.** The type invariants of `Enforcement`, `Approval` and `Premise`, and `AbsentHumanNeverLoosens`, are
proved and in no run.

**Only model-checked.** Liveness (`LiveClaimSettles`, `EveryHoldResolves`, `EveryExpiryRecorded`, `LocksReleased`) and
the refinement of `KeyedEffect` under fairness are out of the prover's reach or not yet attempted; so are the budget
invariants, `TapeAgreesWithRow`, the labels, and all of `AuditTape`, `S3Tape`, `Turn` and `Meters`.

## 7. What is not modelled

- In the modelled parts: a foreign principal's intent and the flood guard (they answer the caller and change nothing of
  a hold), held harness calls and their reissue, time-to-live deletion, ages of decision inputs (their record fields), the
  Windows lock.
- Two first calls of one principal at once: `_session_turn` documents that its callers serialise them, and `Turn` takes
  them so.
- Trusted read sources are in `Turn` and in no op of its instance.
- `Turn` has no sub-grants, so a record's `notAfter` is the op's horizon alone.
- The parts the plan lists as still to do, and those `PROJECT.json` marks as pure I/O, data types or provisioning.
