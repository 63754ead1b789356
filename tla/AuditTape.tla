------------------------------ MODULE AuditTape ------------------------------
(***************************************************************************)
(* emit() of broker/audit/_chain.py over the FileAuditSink of              *)
(* broker/audit/_file_sink.py: a hash-chained JSON-lines tape several      *)
(* processes share, each with several threads.                             *)
(*                                                                         *)
(* A record is its seq, the hash it names as its parent and its own hash;  *)
(* hashes are numbered by the emit() call, so no two are alike.            *)
(* A line is written in two parts, its head and its rest with the newline, *)
(* since the writer may die, the write raise (a full disk), and a reader   *)
(* look, between the two.                                                  *)
(***************************************************************************)
EXTENDS Integers, Sequences, SequencesExt, FiniteSets

CONSTANTS
    Procs,       \* processes with a sink on the tape
    Threads,     \* threads that emit
    ProcOf,      \* the process of each thread
    NoOne,       \* nobody holds a lock
    MaxEmits     \* bound: emit() calls

ASSUME AuditConstants ==
    /\ ProcOf \in [Threads -> Procs]
    /\ Procs \cap Threads = {}
    /\ NoOne \notin Procs \cup Threads
    /\ MaxEmits \in Nat

VARIABLES
    exists,   \* the tape file exists
    lines,    \* its newline-terminated lines
    tail,     \* the heads written after the last newline
    flock,    \* holder of the exclusive lock on the tape
    mutex,    \* holder of each sink's _thread_lock
    boot,     \* where each process stands: down, in resuming(), or up
    kept,     \* the valid prefix a resuming process scanned
    next_seq, \* cached counters of each sink
    last_hash,
    pc,       \* where each thread stands in emit()
    record,   \* the record it is appending
    emits,    \* emit() calls so far
    emitted,  \* the records emit() has returned
    torn,     \* history: a line was begun, then given up by a death or a raise,
              \* and nobody has trimmed it
    blind     \* history: a resuming process has trimmed without the lock

fileVars == <<exists, lines, tail>>
lockVars == <<flock, mutex>>
sinkVars == <<next_seq, last_hash>>
bootVars == <<boot, kept>>
threadVars == <<pc, record, emits, emitted>>
historyVars == <<torn, blind>>
vars == <<exists, lines, tail, flock, mutex, boot, kept, next_seq, last_hash,
          pc, record, emits, emitted, torn, blind>>

GENESIS == 0
Corrupt == [seq |-> -1, prevHash |-> -1, hash |-> -1]
AuditRecord == [seq : 0..MaxEmits, prevHash : 0..MaxEmits, hash : 1..MaxEmits]
Unbuilt(hash) == [seq |-> -1, prevHash |-> -1, hash |-> hash]
NoRecord == Unbuilt(0)
Booting == {"lock", "scan", "trim"}
InLock == {"locked", "ready", "writing", "written"}

ThreadsOf(p) == {t \in Threads : ProcOf[t] = p}
Goto(t, point) == pc' = [pc EXCEPT ![t] = point]

(* _scan: a malformed line that ends in a newline raises, an unterminated  *)
(* last one is a torn write.                                               *)
scan_raises(tape) == \E i \in DOMAIN tape : tape[i] = Corrupt

(* Where the chain goes on after the tape's last record.                   *)
NextSeq(tape) == Last(tape).seq + 1
LastHash(tape) == Last(tape).hash

(* verify_chain: seqs without a gap and every parent the record before.    *)
verify_chain(tape) ==
    \A i \in DOMAIN tape :
        /\ tape[i].seq = i - 1
        /\ tape[i].prevHash = IF i = 1 THEN GENESIS ELSE tape[i - 1].hash

Init ==
    /\ exists \in BOOLEAN
    /\ lines = <<>>
    /\ tail = <<>>
    /\ flock = NoOne
    /\ mutex = [p \in Procs |-> NoOne]
    /\ boot = [p \in Procs |-> "down"]
    /\ kept = [p \in Procs |-> 0]
    /\ next_seq = [p \in Procs |-> 0]
    /\ last_hash = [p \in Procs |-> GENESIS]
    /\ pc = [t \in Threads |-> "idle"]
    /\ record = [t \in Threads |-> NoRecord]
    /\ emits = 0
    /\ emitted = {}
    /\ torn = FALSE
    /\ blind = FALSE

-----------------------------------------------------------------------------
(* resuming(): the process starts.  _flocked takes no lock on a tape that  *)
(* does not exist.                                                         *)
ResumeOpen(p) ==
    /\ boot[p] = "down"
    /\ boot' = [boot EXCEPT ![p] = IF exists THEN "lock" ELSE "scan"]
    /\ UNCHANGED <<fileVars, lockVars, kept, sinkVars, threadVars, historyVars>>

ResumeLock(p) ==
    /\ boot[p] = "lock"
    /\ flock = NoOne
    /\ flock' = p
    /\ boot' = [boot EXCEPT ![p] = "scan"]
    /\ UNCHANGED <<fileVars, mutex, kept, sinkVars, threadVars, historyVars>>

Unlock(p) == flock' = IF flock = p THEN NoOne ELSE flock

(* The sink starts after the tape's last record, or a fresh chain. *)
StartAfter(p, tape) ==
    /\ next_seq' = [next_seq EXCEPT ![p] = IF tape = <<>> THEN 0 ELSE NextSeq(tape)]
    /\ last_hash' = [last_hash EXCEPT ![p] = IF tape = <<>> THEN GENESIS ELSE LastHash(tape)]

(* The scan raises on a corrupt line (the process does not come up), finds *)
(* a torn tail to trim, or is done.                                        *)
ResumeScan(p) ==
    /\ boot[p] = "scan"
    /\ \/ /\ scan_raises(lines)
          /\ boot' = [boot EXCEPT ![p] = "down"]
          /\ Unlock(p)
          /\ UNCHANGED <<kept, sinkVars>>
       \/ /\ ~scan_raises(lines) /\ tail # <<>>
          /\ boot' = [boot EXCEPT ![p] = "trim"]
          /\ kept' = [kept EXCEPT ![p] = Len(lines)]
          /\ StartAfter(p, lines)
          /\ UNCHANGED flock
       \/ /\ ~scan_raises(lines) /\ tail = <<>>
          /\ boot' = [boot EXCEPT ![p] = "up"]
          /\ StartAfter(p, lines)
          /\ Unlock(p)
          /\ UNCHANGED kept
    /\ UNCHANGED <<fileVars, mutex, threadVars, historyVars>>

(* truncate(valid_bytes): whatever the file holds by now.  A file that has *)
(* become shorter is filled up with zeros, which are no line.              *)
truncate(n) ==
    /\ lines' = SubSeq(lines, 1, Min({n, Len(lines)}))
    /\ tail' = IF Len(lines) < n THEN <<Corrupt>> ELSE <<>>
Trimmed(p) == torn' = FALSE /\ blind' = (blind \/ flock # p)
ResumeTrim_whole_line(p) ==
    /\ boot[p] = "trim"
    /\ truncate(kept[p] - 1)
    /\ boot' = [boot EXCEPT ![p] = "up"]
    /\ Unlock(p)
    /\ Trimmed(p)
    /\ UNCHANGED <<exists, mutex, kept, sinkVars, threadVars>>
ResumeTrim(p) ==
    /\ boot[p] = "trim"
    /\ truncate(kept[p])
    /\ boot' = [boot EXCEPT ![p] = "up"]
    /\ Unlock(p)
    /\ Trimmed(p)
    /\ UNCHANGED <<exists, mutex, kept, sinkVars, threadVars>>

-----------------------------------------------------------------------------
(* emit(): the thread lock, then the lock handle, whose "a+" creates the   *)
(* tape, then the file lock.                                               *)
Enter(t) ==
    /\ pc[t] = "idle" /\ boot[ProcOf[t]] = "up"
    /\ emits < MaxEmits
    /\ mutex[ProcOf[t]] = NoOne
    /\ mutex' = [mutex EXCEPT ![ProcOf[t]] = t]
    /\ emits' = emits + 1
    /\ record' = [record EXCEPT ![t] = Unbuilt(emits + 1)]
    /\ Goto(t, "entered")
    /\ UNCHANGED <<fileVars, flock, bootVars, sinkVars, emitted, historyVars>>

OpenHandle(t) ==
    /\ pc[t] = "entered"
    /\ exists' = TRUE
    /\ Goto(t, "opened")
    /\ UNCHANGED <<lines, tail, lockVars, bootVars, sinkVars, record, emits, emitted, historyVars>>

Acquire(t) ==
    /\ pc[t] = "opened"
    /\ flock = NoOne
    /\ flock' = t
    /\ Goto(t, "locked")
    /\ UNCHANGED <<fileVars, mutex, bootVars, sinkVars, record, emits, emitted, historyVars>>

(* _release: the file lock, if it was taken, then the thread lock. *)
Release(t) ==
    /\ flock' = IF flock = t THEN NoOne ELSE flock
    /\ mutex' = [mutex EXCEPT ![ProcOf[t]] = NoOne]

(* _refresh_from_disk: the tape wins over the cached counters; a corrupt   *)
(* tape raises out of emit() with both locks released.                     *)
Refresh_cached(t) ==
    /\ pc[t] = "locked"
    /\ IF scan_raises(lines)
       THEN Goto(t, "idle") /\ Release(t)
       ELSE Goto(t, "ready") /\ UNCHANGED lockVars
    /\ UNCHANGED <<fileVars, bootVars, sinkVars, record, emits, emitted, historyVars>>
Refresh_off_by_one(t) ==
    /\ pc[t] = "locked"
    /\ ~scan_raises(lines)
    /\ next_seq' = [next_seq EXCEPT ![ProcOf[t]] = Len(lines) + 2]
    /\ Goto(t, "ready")
    /\ UNCHANGED <<fileVars, lockVars, bootVars, last_hash, record, emits, emitted, historyVars>>
Refresh_skips_corrupt(t) ==
    /\ pc[t] = "locked"
    /\ Goto(t, "ready")
    /\ UNCHANGED <<fileVars, lockVars, bootVars, sinkVars, record, emits, emitted, historyVars>>
Refresh_strands_lock(t) ==
    /\ pc[t] = "locked"
    /\ IF scan_raises(lines)
       THEN /\ Goto(t, "idle")
            /\ flock' = NoOne /\ UNCHANGED mutex
       ELSE Goto(t, "ready") /\ UNCHANGED lockVars
    /\ UNCHANGED <<fileVars, bootVars, sinkVars, record, emits, emitted, historyVars>>
Refresh(t) ==
    /\ pc[t] = "locked"
    /\ \/ /\ scan_raises(lines)
          /\ Goto(t, "idle") /\ Release(t)
          /\ record' = [record EXCEPT ![t] = NoRecord]
          /\ UNCHANGED sinkVars
       \/ /\ ~scan_raises(lines)
          /\ IF lines = <<>> THEN UNCHANGED sinkVars ELSE StartAfter(ProcOf[t], lines)
          /\ Goto(t, "ready")
          /\ UNCHANGED <<lockVars, record>>
    /\ UNCHANGED <<fileVars, bootVars, emits, emitted, historyVars>>

(* The record takes the sink's counters and the write begins. *)
WriteHead(t) ==
    /\ pc[t] = "ready"
    /\ LET new == [seq |-> next_seq[ProcOf[t]], prevHash |-> last_hash[ProcOf[t]],
                   hash |-> record[t].hash]
       IN /\ record' = [record EXCEPT ![t] = new]
          /\ tail' = Append(tail, new)
    /\ Goto(t, "writing")
    /\ UNCHANGED <<exists, lines, lockVars, bootVars, sinkVars, emits, emitted, historyVars>>

(* The rest of the line and its newline: a record if nothing but its own   *)
(* head stands before it, and a corrupt line if anything else does.        *)
EndLine(t) ==
    /\ lines' = Append(lines, IF tail = <<record[t]>> THEN record[t] ELSE Corrupt)
    /\ tail' = <<>>
WriteRest(t) ==
    /\ pc[t] = "writing"
    /\ EndLine(t)
    /\ next_seq' = [next_seq EXCEPT ![ProcOf[t]] = @ + 1]
    /\ last_hash' = [last_hash EXCEPT ![ProcOf[t]] = record[t].hash]
    /\ Goto(t, "written")
    /\ UNCHANGED <<exists, lockVars, bootVars, record, emits, emitted, historyVars>>

Leave(t) ==
    /\ pc[t] = "written"
    /\ emitted' = emitted \cup {record[t]}
    /\ record' = [record EXCEPT ![t] = NoRecord]
    /\ Release(t)
    /\ Goto(t, "idle")
    /\ UNCHANGED <<fileVars, bootVars, sinkVars, emits, historyVars>>

(* The operating system refuses (no space, an I/O error) and emit() raises *)
(* with the locks released and the counters as they were: before the write *)
(* has stored anything, after a part of the line, or, when closing the     *)
(* file is what fails, after all of it.                                    *)
Raise(t) ==
    /\ \/ /\ pc[t] \in {"entered", "opened", "locked", "ready"}
          /\ UNCHANGED <<lines, tail, torn>>
       \/ /\ pc[t] = "writing"
          /\ torn' = TRUE
          /\ UNCHANGED <<lines, tail>>
       \/ /\ pc[t] = "writing"
          /\ EndLine(t)
          /\ UNCHANGED torn
    /\ record' = [record EXCEPT ![t] = NoRecord]
    /\ Release(t)
    /\ Goto(t, "idle")
    /\ UNCHANGED <<exists, bootVars, sinkVars, emits, emitted, blind>>

(* A process dies, inside a line or not; the system drops its locks.       *)
Die(p) ==
    /\ boot[p] # "down"
    /\ boot' = [boot EXCEPT ![p] = "down"]
    /\ kept' = [kept EXCEPT ![p] = 0]
    /\ torn' = (torn \/ \E t \in ThreadsOf(p) : pc[t] = "writing")
    /\ pc' = [t \in Threads |-> IF ProcOf[t] = p THEN "idle" ELSE pc[t]]
    /\ record' = [t \in Threads |-> IF ProcOf[t] = p THEN NoRecord ELSE record[t]]
    /\ flock' = IF flock \in {p} \cup ThreadsOf(p) THEN NoOne ELSE flock
    /\ mutex' = [mutex EXCEPT ![p] = NoOne]
    /\ UNCHANGED <<fileVars, sinkVars, emits, emitted, blind>>

Emit(t) ==
    \/ OpenHandle(t) \/ Acquire(t) \/ Refresh(t)
    \/ WriteHead(t) \/ WriteRest(t) \/ Leave(t) \/ Raise(t)
Resume(p) == ResumeLock(p) \/ ResumeScan(p) \/ ResumeTrim(p)

Next ==
    \/ \E p \in Procs : ResumeOpen(p) \/ Resume(p) \/ Die(p)
    \/ \E t \in Threads : Enter(t) \/ Emit(t)

Spec == Init /\ [][Next]_vars

(* A process that is alive runs on, and a blocking lock that keeps coming  *)
(* free is granted.                                                        *)
Fairness ==
    /\ \A p \in Procs : SF_vars(Resume(p))
    /\ \A t \in Threads : SF_vars(Emit(t))

FairSpec == Spec /\ Fairness

-----------------------------------------------------------------------------
(* The tape holds records and corrupt lines, the counters stay in range,   *)
(* and only a process or a thread holds a lock.                            *)
TypeOK ==
    /\ exists \in BOOLEAN
    /\ lines \in Seq(AuditRecord \cup {Corrupt})
    /\ tail \in Seq(AuditRecord \cup {Corrupt})
    /\ flock \in Procs \cup Threads \cup {NoOne}
    /\ mutex \in [Procs -> Threads \cup {NoOne}]
    /\ boot \in [Procs -> {"down", "up"} \cup Booting]
    /\ kept \in [Procs -> 0..MaxEmits]
    /\ next_seq \in [Procs -> 0..MaxEmits]
    /\ last_hash \in [Procs -> 0..MaxEmits]
    /\ pc \in [Threads -> {"idle", "entered", "opened"} \cup InLock]
    /\ record \in [Threads -> AuditRecord \cup {Unbuilt(h) : h \in 0..MaxEmits}]
    /\ emits \in 0..MaxEmits
    /\ emitted \subseteq AuditRecord
    /\ torn \in BOOLEAN /\ blind \in BOOLEAN

Sound == SelectSeq(lines, LAMBDA line : line # Corrupt)

(* Whatever the processes, threads, deaths, restarts and refused writes,   *)
(* the records on the tape are a chain verify_chain() accepts, and a line  *)
(* is corrupt only where a process died, or an append raised, inside one   *)
(* and someone wrote on before any resuming() had trimmed it.  Not claimed *)
(* once a resuming() that found no tape, and so took no lock, has trimmed  *)
(* what another process wrote.                                             *)
ChainIntact == ~blind => verify_chain(Sound) /\ (scan_raises(lines) => torn)

(* A record emit() has returned is on the tape, but for the one that was   *)
(* joined to the bytes of an unfinished line: that record is the only loss. *)
EmittedOnTape ==
    ~blind => Cardinality(emitted \ Range(lines)) <= IF scan_raises(lines) THEN 1 ELSE 0

(* A corrupt line is never silently accepted: nothing is ever written      *)
(* behind one.                                                             *)
CorruptionStops == \A i \in DOMAIN lines : lines[i] = Corrupt => i = Len(lines)

(* Neither lock is stranded, even when the refresh raises on a corrupt     *)
(* tape or a write is refused: a thread that holds its sink's lock gives   *)
(* it back.                                                                *)
LocksReleased ==
    /\ \A t \in Threads : (mutex[ProcOf[t]] = t) ~> (mutex[ProcOf[t]] # t)
    /\ \A x \in Procs \cup Threads : (flock = x) ~> (flock # x)
==============================================================================
