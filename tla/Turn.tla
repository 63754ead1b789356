-------------------------------- MODULE Turn --------------------------------
(***************************************************************************)
(* The broker-held turn of each principal (runtime/pep.py), the taint it   *)
(* accumulates, and the taint-inheritance ledger (runtime/inheritance.py)  *)
(* that carries taint to the contexts an agent causes.                     *)
(*                                                                         *)
(* One BrokerRuntime serves one principal and its calls are serial; the    *)
(* runtimes of different principals, the approver, the loop driver that    *)
(* rolls turns and the process that crashes interleave between the steps   *)
(* of a call.  The decision itself is PDP!decide, taken twice.             *)
(*                                                                         *)
(* Budgets, composed destinations, harness classes and transforms are off  *)
(* (their envelope knobs are unset) and a human is reachable.  Untrusted   *)
(* is what the trust map says of a source, so a source is one bit.         *)
(***************************************************************************)
EXTENDS PDP, FiniteSets

CONSTANTS
    Principals, \* one runtime each
    Ops,        \* the declared ops
    Manifest,   \* the ToolOp of each op
    optable,    \* the ops each runtime's image-baked table declares
    Nobody,     \* the target of an op that declares no causes_context
    Keys,       \* idempotency keys
    supplied,   \* the keys each principal's agent supplies
    NoKey,      \* a call without one
    Grants,     \* the levels each grant moves between, "none" for no grant
    Offset,     \* how far each broker's clock is ahead
    Skew,       \* the declared bound on the difference of two clocks
    Rolls,      \* whether turns roll and processes crash
    MaxClock,   \* bound on time
    MaxHeld,    \* bound on pending intents
    MaxRecords  \* bound on inheritance records

ToolOp == [effect : {"read", "write"}, external : BOOLEAN,
           reversible : {"yes", "no", "unset"}, trusted : BOOLEAN,
           causes : Principals \cup {Nobody}, horizon : Nat]

ASSUME ManifestAssumption ==
    Manifest \in [Ops -> ToolOp] /\ optable \in [Principals -> SUBSET Ops]
ASSUME ClockAssumption ==
    /\ Skew \in Nat /\ MaxClock \in Nat /\ MaxHeld \in Nat /\ MaxRecords \in Nat
    /\ Offset \in [Principals -> Nat]
    /\ \A p, q \in Principals : Offset[p] - Offset[q] <= Skew
ASSUME GrantsAssumption == Grants \in [Principals -> SUBSET (AutonomyLevel \cup {"none"})]
ASSUME NobodyAssumption == Nobody \notin Principals /\ NoKey \notin Keys
ASSUME KeysAssumption == supplied \in [Principals -> SUBSET Keys]

VARIABLES
    clock,   \* real time
    level,   \* the level of each principal's grant
    turn,    \* the TurnContext of each runtime: absent, clean or tainted
    req,     \* the call each runtime is serving
    rows,    \* the idempotency row of each key: absent, taken, or its op
    held,    \* pending intents, each with the call it froze
    ledger,  \* the inheritance records
    seen,    \* history: untrusted content has reached this turn's agent
    stored,  \* history: the keys whose result is of an earlier turn
    caused   \* history: the contexts cause ops have started

vars == <<clock, level, turn, req, rows, held, ledger, seen, stored, caused>>

Idle == [pc |-> "idle"]
Now(p) == clock + Offset[p]

(* The source a read pulls in is untrusted. *)
Pulls(op) ==
    Manifest[op].effect = "read" /\ Manifest[op].external /\ ~Manifest[op].trusted
Causes(op) == Manifest[op].causes # Nobody

Init ==
    /\ clock = 0
    /\ level \in {l \in [Principals -> AutonomyLevel \cup {"none"}] :
                     \A p \in Principals : l[p] \in Grants[p]}
    /\ turn = [p \in Principals |-> "absent"]
    /\ req = [p \in Principals |-> Idle]
    /\ rows = [p \in Principals |-> [k \in Keys |-> "absent"]]
    /\ held = {}
    /\ ledger = {}
    /\ seen = [p \in Principals |-> FALSE]
    /\ stored = [p \in Principals |-> {}]
    /\ caused = {}

-----------------------------------------------------------------------------
(* live_records at now - skew: a record taints the bound longer. *)
live_records_early(p) == {r \in ledger : r.target = p /\ r.notAfter > Now(p) + Skew}
live_records(p) == {r \in ledger : r.target = p /\ r.notAfter > Now(p) - Skew}

(* What a mint reads: every live record owed, and taint when unreadable.   *)
ingest_inherited(p, readable) ==
    ~readable \/ \E r \in live_records(p) : r.tainted

(* The broker-held turn once _session_turn() has returned it. *)
session_turn_clean(p, readable) == IF turn[p] # "absent" THEN turn[p] ELSE "clean"
session_turn(p, readable) ==
    IF turn[p] # "absent" THEN turn[p]
    ELSE IF ingest_inherited(p, readable) THEN "tainted" ELSE "clean"

(* A caused context that is still inside its window when its turn is minted *)
StartsExposed(p) ==
    turn[p] = "absent"
    /\ \E c \in caused : c.target = p /\ c.tainted /\ clock < c.until

Ingest(t, untrusted) == IF untrusted THEN "tainted" ELSE t

(* The facts the PIP reads for the call: the grant and the trusted sources. *)
pip(p, op) ==
    [grant_present |-> level[p] # "none",
     grant_level |-> IF level[p] = "none" THEN "in-loop" ELSE level[p],
     error_budget_breached |-> FALSE, cap_budget_breached |-> FALSE,
     escalation_budget_available |-> TRUE, human_reachable |-> TRUE,
     transform_op |-> FALSE, read_source_trusted |-> Manifest[op].trusted,
     query_over |-> FALSE, confidence_below_bar |-> FALSE,
     destination_composed |-> FALSE, harness_class_held |-> FALSE]

Call(op, tainted) ==
    [effect |-> Manifest[op].effect, external |-> Manifest[op].external,
     reversible |-> Manifest[op].reversible, tainted |-> tainted]

(* A request arrives: the turn is minted or found, the sources the caller  *)
(* hands in are ingested, the call freezes the turn's taint, and the PDP   *)
(* decides a first time.                                                   *)
Arrive_freezes_first(p) ==
    /\ req[p] = Idle
    /\ \E op \in optable[p], k \in supplied[p] \cup {NoKey}, untrusted, readable \in BOOLEAN :
         LET t == session_turn(p, readable)
             c == Call(op, t = "tainted")
         IN  /\ turn' = [turn EXCEPT ![p] = Ingest(t, untrusted)]
             /\ seen' = [seen EXCEPT ![p] = @ \/ untrusted \/ StartsExposed(p)]
             /\ req' = [req EXCEPT ![p] =
                   [pc |-> "decided", op |-> op, key |-> k, tainted |-> c.tainted,
                    verb |-> decide(c, pip(p, op)), at |-> 0]]
    /\ UNCHANGED <<clock, level, rows, held, ledger, stored, caused>>
Arrive(p) ==
    /\ req[p] = Idle
    /\ \E op \in optable[p], k \in supplied[p] \cup {NoKey}, untrusted, readable \in BOOLEAN :
         LET t == Ingest(session_turn(p, readable), untrusted)
             c == Call(op, t = "tainted")
         IN  /\ turn' = [turn EXCEPT ![p] = t]
             /\ seen' = [seen EXCEPT ![p] = @ \/ untrusted \/ StartsExposed(p)]
             /\ req' = [req EXCEPT ![p] =
                   [pc |-> "decided", op |-> op, key |-> k, tainted |-> c.tainted,
                    verb |-> decide(c, pip(p, op)), at |-> 0]]
    /\ UNCHANGED <<clock, level, rows, held, ledger, stored, caused>>

(* An op absent from the manifest, the reserved harness coordinate and a   *)
(* malformed confidence artifact are refused, after the mint and ingest.   *)
ArriveUndeclared(p) ==
    /\ req[p] = Idle
    /\ \E untrusted, readable \in BOOLEAN :
         /\ turn' = [turn EXCEPT ![p] = Ingest(session_turn(p, readable), untrusted)]
         /\ seen' = [seen EXCEPT ![p] = @ \/ untrusted \/ StartsExposed(p)]
    /\ UNCHANGED <<clock, level, req, rows, held, ledger, stored, caused>>

(* A harness reports a call of a class that taints: the turn is tainted    *)
(* first and the record written second.  Other classes change nothing.     *)
record_observed_event(p) ==
    /\ req[p] = Idle
    /\ turn' = [turn EXCEPT ![p] = "tainted"]
    /\ seen' = [seen EXCEPT ![p] = TRUE]
    /\ UNCHANGED <<clock, level, req, rows, held, ledger, stored, caused>>

(* enforce(), the key: a settled row answers without the executor.  The    *)
(* stored result of an executed call is replayed to the caller, and the    *)
(* turn ingests nothing for it: seen counts the results of this turn only. *)
Replay(p) ==
    /\ req[p].pc = "decided" /\ req[p].key \in Keys
    /\ rows[p][req[p].key] # "absent"
    /\ LET op == rows[p][req[p].key]
       IN  seen' = [seen EXCEPT ![p] =
                      @ \/ (op \in Ops /\ Pulls(op) /\ req[p].key \notin stored[p])]
    /\ req' = [req EXCEPT ![p] = Idle]
    /\ UNCHANGED <<clock, level, turn, rows, held, ledger, stored, caused>>

(* enforce(), the premise: claim the key, decide again on fresh facts and  *)
(* keep the stricter verb.  A call that does not run gives its claim back; *)
(* one that needs a human is frozen as an intent.                          *)
Intent(p, r) == [who |-> p, op |-> r.op, tainted |-> r.tainted, exposed |-> seen[p]]
Enforce(p) ==
    /\ req[p].pc = "decided"
    /\ req[p].key \in Keys => rows[p][req[p].key] = "absent"
    /\ LET r == req[p]
           v == pick_stricter(r.verb, decide(Call(r.op, r.tainted), pip(p, r.op)))
       IN  \/ /\ Runs(v)
              /\ req' = [req EXCEPT ![p].pc = "cleared"]
              /\ rows' = IF r.key \in Keys
                         THEN [rows EXCEPT ![p][r.key] = "taken"] ELSE rows
              /\ UNCHANGED held
           \/ /\ v = "require_approval"
              /\ Cardinality(held \cup {Intent(p, r)}) <= MaxHeld
              /\ held' = held \cup {Intent(p, r)}
              /\ req' = [req EXCEPT ![p] = Idle]
              /\ UNCHANGED rows
           \/ /\ v \in {"deny", "abstain"}
              /\ req' = [req EXCEPT ![p] = Idle]
              /\ UNCHANGED <<rows, held>>
    /\ UNCHANGED <<clock, level, turn, ledger, seen, stored, caused>>

(* The record a cause op owes its target: the call's frozen taint, and the *)
(* op's own source when it is an untrusted external read.  The horizon     *)
(* alone bounds it: no sub-grant prolongs it here.                         *)
InheritanceRecord_call_taint(p, op, tainted) ==
    [target |-> Manifest[op].causes, tainted |-> tainted,
     notAfter |-> Now(p) + Manifest[op].horizon]
InheritanceRecord_backdated(p, op, tainted) ==
    [target |-> Manifest[op].causes, tainted |-> tainted \/ Pulls(op),
     notAfter |-> Now(p) - Manifest[op].horizon]
InheritanceRecord(p, op, tainted) ==
    [target |-> Manifest[op].causes, tainted |-> tainted \/ Pulls(op),
     notAfter |-> Now(p) + Manifest[op].horizon]

(* What such an op starts, whose window is counted from its record. *)
Context(op, exposed, at) ==
    [target |-> Manifest[op].causes, tainted |-> exposed \/ Pulls(op),
     until |-> at + Manifest[op].horizon]

(* _write_inheritance_if_declared: before the Doer, and a write that fails *)
(* stops the op and burns the key, as any executor failure does.           *)
WriteInheritance(p) ==
    /\ req[p].pc = "cleared" /\ Causes(req[p].op)
    /\ \/ /\ Cardinality(ledger) < MaxRecords
          /\ ledger' = ledger \cup {InheritanceRecord(p, req[p].op, req[p].tainted)}
          /\ req' = [req EXCEPT ![p].pc = "recorded", ![p].at = clock]
       \/ /\ req' = [req EXCEPT ![p] = Idle]
          /\ UNCHANGED ledger
    /\ UNCHANGED <<clock, level, turn, rows, held, seen, stored, caused>>

(* The Doer runs the connector, which may raise before or after its effect *)
Execute(p) ==
    /\ \/ req[p].pc = "recorded"
       \/ req[p].pc = "cleared" /\ ~Causes(req[p].op)
    /\ LET started == IF Causes(req[p].op)
                      THEN {Context(req[p].op, seen[p], req[p].at)} ELSE {}
       IN  \/ /\ req' = [req EXCEPT ![p].pc = "executed"]
              /\ caused' = caused \cup started
           \/ /\ req' = [req EXCEPT ![p] = Idle]
              /\ caused' \in {caused, caused \cup started}
    /\ UNCHANGED <<clock, level, turn, rows, held, ledger, seen, stored>>

(* After the connector: the executed record, and then the self-ingest of   *)
(* an external read.  A sink that raises ends the call with neither, and   *)
(* with the key burnt.                                                     *)
Finish(p) ==
    /\ req[p].pc = "executed"
    /\ \/ /\ turn' = [turn EXCEPT ![p] = Ingest(@, Pulls(req[p].op))]
          /\ rows' = IF req[p].key \in Keys
                     THEN [rows EXCEPT ![p][req[p].key] = req[p].op] ELSE rows
          /\ req' = [req EXCEPT ![p].pc = "answered"]
       \/ /\ req' = [req EXCEPT ![p] = Idle]
          /\ UNCHANGED <<turn, rows>>
    /\ UNCHANGED <<clock, level, held, ledger, seen, stored, caused>>

(* The reply carries the connector's result to the agent. *)
Reply(p) ==
    /\ req[p].pc = "answered"
    /\ seen' = [seen EXCEPT ![p] = @ \/ Pulls(req[p].op)]
    /\ req' = [req EXCEPT ![p] = Idle]
    /\ UNCHANGED <<clock, level, turn, rows, held, ledger, stored, caused>>

(* The approver releases an intent: the frozen call is decided afresh, a   *)
(* hold counts as satisfied, and a cause op writes its record before it    *)
(* runs.  The release tool is a process of its own and touches no turn.    *)
approved_decider(c, f) ==
    IF decide(c, f) \in {"allow", "require_approval"} THEN "allow"
    ELSE IF decide(c, f) = "transform" THEN "deny" ELSE decide(c, f)
Release(i) ==
    /\ held' = held \ {i}
    /\ \/ /\ approved_decider(Call(i.op, i.tainted), pip(i.who, i.op)) = "allow"
          /\ IF Causes(i.op)
             THEN \/ /\ Cardinality(ledger) < MaxRecords
                     /\ ledger' = ledger \cup {InheritanceRecord(i.who, i.op, i.tainted)}
                     /\ caused' \in {caused, caused \cup {Context(i.op, i.exposed, clock)}}
                  \/ UNCHANGED <<ledger, caused>>
             ELSE UNCHANGED <<ledger, caused>>
       \/ /\ approved_decider(Call(i.op, i.tainted), pip(i.who, i.op)) # "allow"
          /\ UNCHANGED <<ledger, caused>>
    /\ UNCHANGED <<clock, level, turn, req, rows, seen, stored>>

(* A turn ends, and the results on the rows are an earlier turn's. *)
TurnEnds(p) ==
    /\ turn' = [turn EXCEPT ![p] = "absent"]
    /\ seen' = [seen EXCEPT ![p] = FALSE]
    /\ stored' = [stored EXCEPT ![p] = {k \in Keys : rows[p][k] \in Ops}]

(* The loop driver rolls the turn between two calls. *)
new_turn(p) ==
    /\ Rolls /\ req[p] = Idle /\ turn[p] # "absent"
    /\ TurnEnds(p)
    /\ UNCHANGED <<clock, level, req, rows, held, ledger, caused>>

(* The process dies: its turn and its call go, the stores stay.  The agent *)
(* is taken to start over too, a restart being a documented turn boundary. *)
Crash(p) ==
    /\ Rolls /\ req[p] # Idle
    /\ TurnEnds(p)
    /\ req' = [req EXCEPT ![p] = Idle]
    /\ UNCHANGED <<clock, level, rows, held, ledger, caused>>

(* Another process writes or withdraws a grant. *)
GrantMoves(p) ==
    /\ \E l \in Grants[p] \ {level[p]} : level' = [level EXCEPT ![p] = l]
    /\ UNCHANGED <<clock, turn, req, rows, held, ledger, seen, stored, caused>>

Tick ==
    /\ clock < MaxClock
    /\ clock' = clock + 1
    /\ UNCHANGED <<level, turn, req, rows, held, ledger, seen, stored, caused>>

Next ==
    \/ \E p \in Principals :
         \/ Arrive(p) \/ ArriveUndeclared(p) \/ record_observed_event(p)
         \/ Replay(p) \/ Enforce(p) \/ WriteInheritance(p) \/ Execute(p)
         \/ Finish(p) \/ Reply(p) \/ new_turn(p) \/ Crash(p) \/ GrantMoves(p)
    \/ \E i \in held : Release(i)
    \/ Tick

Spec == Init /\ [][Next]_vars

-----------------------------------------------------------------------------
(* The state of the runtimes and of the stores has its shape. *)
TypeOK ==
    /\ clock \in 0..MaxClock
    /\ \A p \in Principals : level[p] \in Grants[p]
    /\ turn \in [Principals -> {"absent", "clean", "tainted"}]
    /\ req \in [Principals -> {Idle} \cup
          [pc : {"decided", "cleared", "recorded", "executed", "answered"},
           op : Ops, key : Keys \cup {NoKey}, tainted : BOOLEAN, verb : Verbs,
           at : 0..MaxClock]]
    /\ rows \in [Principals -> [Keys -> Ops \cup {"absent", "taken"}]]
    /\ held \subseteq [who : Principals, op : Ops, tainted : BOOLEAN, exposed : BOOLEAN]
    /\ ledger \subseteq [target : Principals, tainted : BOOLEAN, notAfter : Nat]
    /\ seen \in [Principals -> BOOLEAN]
    /\ stored \in [Principals -> SUBSET Keys]
    /\ caused \subseteq [target : Principals, tainted : BOOLEAN, until : Nat]

(* A turn whose agent has been given untrusted content, by a caller, a     *)
(* connector's reply or the context that caused it, is tainted: the        *)
(* self-ingest precedes the reply, and a mint reads the ledger late enough *)
(* to make up for two clocks that differ by the declared skew.  One way in *)
(* is excepted: a result an earlier turn stored under a key and a replay   *)
(* hands over again, which taints no turn (seen leaves it out).            *)
SeenIsTainted == \A p \in Principals : seen[p] => turn[p] = "tainted"

(* An external write that runs without a human runs for an agent that no   *)
(* untrusted content has reached in this turn, the replay of an earlier    *)
(* turn's result excepted: however its grant moves between the two         *)
(* decisions, turns before it rolled or died, and intents are released.    *)
AutonomousWriteUnexposed ==
    \A p \in Principals :
        /\ req[p].pc = "executed"
        /\ Manifest[req[p].op].effect = "write" /\ Manifest[req[p].op].external
        => ~seen[p]

(* No cause op takes effect unless its target is owed a record at least as *)
(* tainted that lasts as long: the record is written before the Doer runs, *)
(* inline and on release, and a failed write or a crash stops the op.      *)
EveryCauseRecorded ==
    \A c \in caused : \E r \in ledger :
        /\ r.target = c.target
        /\ c.tainted => r.tainted
        /\ r.notAfter >= c.until

(* What a call froze of its turn's taint covers what its agent has seen by *)
(* the time it runs or is held: nothing reaches the agent in between.      *)
FrozenTaintCovers ==
    /\ \A p \in Principals : req[p] # Idle /\ req[p].pc # "answered" /\ seen[p]
                               => req[p].tainted
    /\ \A i \in held : i.exposed => i.tainted
=============================================================================
