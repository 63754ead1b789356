------------------------------ MODULE MCSinks -------------------------------
(* The two sinks under emit(), each on its own instance: a tape a gateway  *)
(* with two threads and a ceremony command share, and a broker's bucket.   *)
EXTENDS AuditTape, TLC

CONSTANTS
    gateway, ceremony, t1, t2, t3,
    MaxPuts    \* bound: emit() calls over the bucket

VARIABLES
    sink,      \* the sink in use; the other rests in its initial state
    versions, flying, up, seq, lastHash, sending, puts, acked, late

Bucket == INSTANCE S3Tape WITH
    MaxEmits <- MaxPuts, last_hash <- lastHash, record <- sending,
    emits <- puts, emitted <- acked
bucketVars == <<versions, flying, up, seq, lastHash, sending, puts, acked, late>>

Both == {gateway, ceremony}
ThreeThreads == {t1, t2, t3}
Home == [t \in Threads |-> IF t = t3 THEN ceremony ELSE gateway]

SinksInit ==
    /\ Init /\ Bucket!Init
    /\ sink \in IF exists THEN {"file"} ELSE {"file", "bucket"}

SinksNext ==
    \/ sink = "file" /\ Next /\ UNCHANGED <<sink, bucketVars>>
    \/ sink = "bucket" /\ Bucket!Next /\ UNCHANGED <<sink, vars>>

(* Over the bucket no tape action is enabled, and the fairness asks nothing. *)
SinksSpec == SinksInit /\ [][SinksNext]_<<sink, vars, bucketVars>> /\ Fairness

-----------------------------------------------------------------------------
(* S3Tape's properties, each as it is stated there. *)

(* Every key of the bucket holds records of its own seq. *)
BucketTypeOK == Bucket!TypeOK

(* A reader of the bucket sees a chain verify_chain() accepts, but for a   *)
(* key under which a request the sink gave up landed late.                 *)
BucketChainIntact == Bucket!BucketChainIntact

(* The parent every version names is a version of the key before it.       *)
VersionsChained == Bucket!VersionsChained

(* A record emit() has returned stays a version of its key, and the newest *)
(* unless a request landed late on top of it.                              *)
EmittedVisible == Bucket!EmittedVisible
=============================================================================
