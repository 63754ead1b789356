------------------------------- MODULE S3Tape -------------------------------
(***************************************************************************)
(* The cloud sink of broker/audit/_s3_sink.py under emit(): one object per *)
(* record, its key the record's seq, written by one long-lived broker that *)
(* restarts with resuming().  The sink's lock makes an emit() one step at  *)
(* a time, so the broker's threads are not told apart.                     *)
(*                                                                         *)
(* The bucket is external: it is versioned, a PutObject on a key that is   *)
(* taken adds a version and readers get the newest.  A PutObject may land  *)
(* and be acknowledged, land with the answer lost, not land, or land later *)
(* than the sink waited for it.                                            *)
(***************************************************************************)
EXTENDS Integers, Sequences, SequencesExt, FiniteSets, FiniteSetsExt

CONSTANT MaxEmits    \* bound: emit() calls

VARIABLES
    versions,   \* the versions of each key's object, oldest first
    flying,     \* requests given up that may still land
    up,         \* the broker runs
    seq, last_hash,   \* the sink's counters
    record,     \* the record in PutObject
    emits,      \* emit() calls so far
    emitted,    \* the records emit() has returned
    late        \* history: the keys a request given up has landed under late

vars == <<versions, flying, up, seq, last_hash, record, emits, emitted, late>>

GENESIS == 0
NoRecord == [seq |-> -1, prevHash |-> -1, hash |-> 0]
Seqs == 0..MaxEmits
AuditRecord == [seq : Seqs, prevHash : Seqs, hash : 1..MaxEmits]

Keys == {k \in Seqs : versions[k] # <<>>}
Object(k) == Last(versions[k])

(* PutObject under the key of the record's seq, on a versioned bucket. *)
Put_one_key(r) == versions' = [versions EXCEPT ![0] = Append(@, r)]
Put(r) == versions' = [versions EXCEPT ![r.seq] = Append(@, r)]

Init ==
    /\ versions = [k \in Seqs |-> <<>>]
    /\ flying = {}
    /\ up = FALSE
    /\ seq = 0
    /\ last_hash = GENESIS
    /\ record = NoRecord
    /\ emits = 0
    /\ emitted = {}
    /\ late = {}

(* resuming(): the counters go on after the object with the highest seq,   *)
(* or start a fresh chain.                                                 *)
resuming_fresh ==
    /\ ~up
    /\ up' = TRUE
    /\ seq' = 0
    /\ last_hash' = GENESIS
    /\ UNCHANGED <<versions, flying, record, emits, emitted, late>>
resuming ==
    /\ ~up
    /\ up' = TRUE
    /\ seq' = IF Keys = {} THEN 0 ELSE Object(Max(Keys)).seq + 1
    /\ last_hash' = IF Keys = {} THEN GENESIS ELSE Object(Max(Keys)).hash
    /\ UNCHANGED <<versions, flying, record, emits, emitted, late>>

(* emit() builds the record from the counters and append() sends it. *)
Send ==
    /\ up /\ record = NoRecord
    /\ emits < MaxEmits
    /\ emits' = emits + 1
    /\ record' = [seq |-> seq, prevHash |-> last_hash, hash |-> emits + 1]
    /\ UNCHANGED <<versions, flying, up, seq, last_hash, emitted, late>>

(* The put is acknowledged: the counters advance, emit() returns. *)
Acknowledged_first ==
    /\ record # NoRecord
    /\ seq' = seq + 1
    /\ last_hash' = record.hash
    /\ emitted' = emitted \cup {record}
    /\ record' = NoRecord
    /\ UNCHANGED <<versions, flying, up, emits, late>>
Acknowledged ==
    /\ record # NoRecord
    /\ Put(record)
    /\ seq' = seq + 1
    /\ last_hash' = record.hash
    /\ emitted' = emitted \cup {record}
    /\ record' = NoRecord
    /\ UNCHANGED <<flying, up, emits, late>>

(* put_object raises: whether it landed is not known, the counters stay    *)
(* and the next record takes the same seq.                                 *)
Raised_advances ==
    /\ record # NoRecord
    /\ Put(record) \/ UNCHANGED versions
    /\ seq' = seq + 1
    /\ record' = NoRecord
    /\ UNCHANGED <<flying, up, last_hash, emits, emitted, late>>
Raised ==
    /\ record # NoRecord
    /\ \/ Put(record) /\ UNCHANGED flying
       \/ UNCHANGED <<versions, flying>>
       \/ flying' = flying \cup {record} /\ UNCHANGED versions
    /\ record' = NoRecord
    /\ UNCHANGED <<up, seq, last_hash, emits, emitted, late>>

(* External: a request the sink gave up lands after all. *)
Land ==
    /\ \E r \in flying :
          /\ Put(r)
          /\ flying' = flying \ {r}
          /\ late' = late \cup {r.seq}
    /\ UNCHANGED <<up, seq, last_hash, record, emits, emitted>>

(* The broker dies, its request landing, landing later, or not at all. *)
Die ==
    /\ up
    /\ up' = FALSE
    /\ record' = NoRecord
    /\ \/ record # NoRecord /\ Put(record) /\ UNCHANGED flying
       \/ UNCHANGED <<versions, flying>>
       \/ /\ record # NoRecord
          /\ flying' = flying \cup {record}
          /\ UNCHANGED versions
    /\ UNCHANGED <<seq, last_hash, emits, emitted, late>>

Next == resuming \/ Send \/ Acknowledged \/ Raised \/ Land \/ Die

Spec == Init /\ [][Next]_vars

-----------------------------------------------------------------------------
(* Every key holds records of its own seq and the counters stay in range.  *)
TypeOK ==
    /\ \A k \in Seqs : \A i \in DOMAIN versions[k] :
          versions[k][i] \in AuditRecord /\ versions[k][i].seq = k
    /\ flying \subseteq AuditRecord
    /\ up \in BOOLEAN
    /\ seq \in Nat /\ last_hash \in Seqs
    /\ record \in AuditRecord \cup {NoRecord}
    /\ emits \in Seqs
    /\ emitted \subseteq AuditRecord
    /\ late \subseteq Seqs

(* What a reader of the bucket sees is a chain verify_chain() accepts: no  *)
(* gap in the seqs and every parent the object before, whatever was lost,  *)
(* raised or restarted.  Only under a key a request landed late is the     *)
(* object not the parent the next record names.                            *)
BucketChainIntact ==
    \A k \in Keys :
        IF k = 0 THEN Object(k).prevHash = GENESIS
        ELSE /\ k - 1 \in Keys
             /\ k - 1 \notin late => Object(k).prevHash = Object(k - 1).hash

(* Late or not, no record is cut off: the parent every version names is a  *)
(* version of the key before, so the whole chain can be read back from the *)
(* versions the bucket keeps.                                              *)
VersionsChained ==
    \A k \in Keys \ {0} : \A r \in Range(versions[k]) :
        \E parent \in Range(versions[k - 1]) : parent.hash = r.prevHash

(* A record emit() has returned stays a version of its key, and the one a  *)
(* reader gets unless a request landed late on top of it: neither a retry  *)
(* nor a restart hides it.                                                 *)
EmittedVisible ==
    \A r \in emitted :
        /\ Contains(versions[r.seq], r)
        /\ r.seq \notin late => Object(r.seq) = r
=============================================================================
