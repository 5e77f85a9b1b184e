----------------------------- MODULE AuditSink -----------------------------
(***************************************************************************)
(* The audit-sink service: sinks of one Kafka consumer group copy the      *)
(* events of a topic partition into audit_log, each in a transaction that  *)
(* takes an advisory lock, reads the last row_hash and inserts a row       *)
(* (kafka/consumer.ts, store/pg.ts).                                       *)
(*                                                                         *)
(* Kafka gives the partition to one sink at a time, but a sink that lost   *)
(* it finishes the message it has begun.  A sink may crash at any moment;  *)
(* PostgreSQL then rolls its transaction back.                             *)
(***************************************************************************)
EXTENDS Naturals, Sequences, FiniteSets

CONSTANTS
  Sinks,
  Topic,       \* the messages of the partition, in order
  Empty,       \* a message without a value
  Payloads,    \* the other messages
  Unstorable,  \* those PostgreSQL refuses as jsonb
  Hash(_, _),
  Jsonb(_),    \* a payload as the JSONB column gives it back
  Genesis,
  MaxCrashes,  \* bound on crashes
  MaxRebalances, \* bound on assignments
  None         \* no sink, no offset, no value

ASSUME AuditAssumption ==
  /\ Topic \in Seq(Payloads \cup {Empty})
  /\ Empty \notin Payloads /\ Unstorable \subseteq Payloads
  /\ None \notin Sinks /\ None \notin Nat
  /\ MaxCrashes \in Nat /\ MaxRebalances \in Nat

VARIABLES
  produced,  \* messages in the partition so far
  offset,    \* the group's committed offset, or None before the first commit
  owner,     \* sink the partition is assigned to, or None
  pos,       \* sink -> offset of the message it is at
  pc,        \* sink -> where it is in appendAudit
  prev,      \* sink -> prevHash
  newId,     \* sink -> id of the row it has inserted
  lock,      \* holder of the advisory lock, or None
  rows,      \* committed rows of audit_log, in the order of the commits
  nextId,    \* audit_log_id_seq
  failed,    \* history: messages whose append threw
  skipped,   \* history: messages before the first offset of a new group
  crashes,   \* history: crashes so far
  rebalances \* history: assignments so far

kafka == <<produced, offset, owner, rebalances>>
vars == <<kafka, pos, pc, prev, newId, lock, rows, nextId, failed, skipped, crashes>>

Init ==
  /\ produced = 0 /\ offset = None /\ owner = None
  /\ pos = [s \in Sinks |-> 1]
  /\ pc = [s \in Sinks |-> "idle"]
  /\ prev = [s \in Sinks |-> Genesis]
  /\ newId = [s \in Sinks |-> 0]
  /\ lock = None /\ rows = <<>> /\ nextId = 1
  /\ failed = {} /\ skipped = {} /\ crashes = 0 /\ rebalances = 0

----------------------------------------------------------------------------
(* Kafka.                                                                  *)

Produce ==
  /\ produced < Len(Topic)
  /\ produced' = produced + 1
  /\ UNCHANGED <<offset, owner, rebalances, pos, pc, prev, newId, lock, rows, nextId,
                 failed, skipped, crashes>>

\* A sink starts at the committed offset, and without one at the end of the
\* partition: fromBeginning is false.
Assign(s) ==
  /\ owner # s /\ pc[s] = "idle"
  /\ rebalances < MaxRebalances \/ owner = None
  /\ owner' = s
  /\ rebalances' = IF owner = None THEN rebalances ELSE rebalances + 1
  /\ pos' = [pos EXCEPT ![s] = IF offset = None THEN produced + 1 ELSE offset]
  /\ skipped' = IF offset = None THEN 1..produced ELSE skipped
  /\ UNCHANGED <<produced, offset, pc, prev, newId, lock, rows, nextId, failed, crashes>>

\* autoCommit; Kafka refuses the offset of a sink that lost the partition.
CommitOffset(s) ==
  /\ owner = s /\ pc[s] = "idle" /\ offset # pos[s]
  /\ offset' = pos[s]
  /\ UNCHANGED <<produced, owner, rebalances, pos, pc, prev, newId, lock, rows, nextId,
                 failed, skipped, crashes>>

----------------------------------------------------------------------------
(* eachMessage and appendAudit.                                            *)

\* Mutant of Take: the offset is committed before the append.
Take_Early(s) ==
  /\ owner = s /\ pc[s] = "idle" /\ pos[s] <= produced
  /\ IF Topic[pos[s]] = Empty
     THEN /\ pos' = [pos EXCEPT ![s] = @ + 1]
          /\ UNCHANGED <<pc, offset>>
     ELSE /\ pc' = [pc EXCEPT ![s] = "begun"]
          /\ offset' = pos[s] + 1
          /\ UNCHANGED pos
  /\ UNCHANGED <<produced, owner, rebalances, prev, newId, lock, rows, nextId, failed,
                 skipped, crashes>>

\* eachMessage is called; a message without a value is passed over.
Take(s) ==
  /\ owner = s /\ pc[s] = "idle" /\ pos[s] <= produced
  /\ IF Topic[pos[s]] = Empty
     THEN pos' = [pos EXCEPT ![s] = @ + 1] /\ UNCHANGED pc
     ELSE pc' = [pc EXCEPT ![s] = "begun"] /\ UNCHANGED pos
  /\ UNCHANGED <<kafka, prev, newId, lock, rows, nextId, failed, skipped, crashes>>

\* Mutant of Lock: the lock does not exclude.
Lock_Shared(s) ==
  /\ pc[s] = "begun"
  /\ lock' = s
  /\ pc' = [pc EXCEPT ![s] = "locked"]
  /\ UNCHANGED <<kafka, pos, prev, newId, rows, nextId, failed, skipped, crashes>>

\* pg_advisory_xact_lock
Lock(s) ==
  /\ pc[s] = "begun" /\ lock = None
  /\ lock' = s
  /\ pc' = [pc EXCEPT ![s] = "locked"]
  /\ UNCHANGED <<kafka, pos, prev, newId, rows, nextId, failed, skipped, crashes>>

\* ORDER BY id DESC LIMIT 1
LastRow == CHOOSE i \in DOMAIN rows : \A j \in DOMAIN rows : rows[j].id <= rows[i].id

ReadLast(s) ==
  /\ pc[s] = "locked"
  /\ prev' = [prev EXCEPT ![s] = IF rows = <<>> THEN Genesis ELSE rows[LastRow].hash]
  /\ pc' = [pc EXCEPT ![s] = "read"]
  /\ UNCHANGED <<kafka, pos, newId, lock, rows, nextId, failed, skipped, crashes>>

\* The id is taken from the sequence before the row is checked, and stays
\* taken when the transaction is rolled back.
Insert(s) ==
  /\ pc[s] = "read"
  /\ newId' = [newId EXCEPT ![s] = nextId]
  /\ nextId' = nextId + 1
  /\ pc' = [pc EXCEPT ![s] = IF Topic[pos[s]] \in Unstorable THEN "refused" ELSE "inserted"]
  /\ UNCHANGED <<kafka, pos, prev, lock, rows, failed, skipped, crashes>>

\* Mutant of Leave: a session lock, released only after the commit.
Leave_Locked(s) ==
  /\ lock' = IF lock = s /\ pc[s] = "inserted" THEN None ELSE lock
  /\ pc' = [pc EXCEPT ![s] = "idle"]
  /\ prev' = [prev EXCEPT ![s] = Genesis]
  /\ newId' = [newId EXCEPT ![s] = 0]

\* The end of appendAudit: the lock goes with the transaction, the locals
\* with the call.
Leave(s) ==
  /\ lock' = IF lock = s THEN None ELSE lock
  /\ pc' = [pc EXCEPT ![s] = "idle"]
  /\ prev' = [prev EXCEPT ![s] = Genesis]
  /\ newId' = [newId EXCEPT ![s] = 0]

NewRow(s) ==
  LET p == Topic[pos[s]] IN
  [id |-> newId[s], payload |-> Jsonb(p), prev |-> prev[s], hash |-> Hash(prev[s], p)]

\* COMMIT; when the answer is lost (acked = FALSE) the append throws all the
\* same, and the error is logged.
Commit(s, acked) ==
  /\ pc[s] = "inserted"
  /\ rows' = Append(rows, NewRow(s))
  /\ Leave(s)
  /\ pos' = [pos EXCEPT ![s] = @ + 1]
  /\ failed' = IF acked THEN failed ELSE failed \cup {pos[s]}
  /\ UNCHANGED <<kafka, nextId, skipped, crashes>>

\* A statement fails: ROLLBACK, the error is logged, and the message counts
\* as processed.
Fail(s) ==
  /\ pc[s] # "idle"
  /\ Leave(s)
  /\ pos' = [pos EXCEPT ![s] = @ + 1]
  /\ failed' = failed \cup {pos[s]}
  /\ UNCHANGED <<kafka, rows, nextId, skipped, crashes>>

Crash(s) ==
  /\ crashes < MaxCrashes
  /\ crashes' = crashes + 1
  /\ Leave(s)
  /\ owner' = IF owner = s THEN None ELSE owner
  /\ UNCHANGED <<produced, offset, rebalances, pos, rows, nextId, failed, skipped>>

\* What a sink does by itself; only a refused row must fail.
Proceed(s) ==
  \/ Take(s) \/ Lock(s) \/ ReadLast(s) \/ Insert(s)
  \/ \E acked \in BOOLEAN : Commit(s, acked)
  \/ pc[s] = "refused" /\ Fail(s)

Next ==
  \/ Produce
  \/ \E s \in Sinks : Assign(s) \/ CommitOffset(s) \/ Proceed(s) \/ Fail(s) \/ Crash(s)

Spec == Init /\ [][Next]_vars

----------------------------------------------------------------------------
(* Properties.                                                             *)

\* audit_log without what only the table has.
Log == [i \in DOMAIN rows |->
          [payload |-> rows[i].payload, prev |-> rows[i].prev, hash |-> rows[i].hash]]

A == INSTANCE AuditLog WITH log <- Log

\* However the sinks of the group interleave, fail and crash, audit_log is
\* an audit log: each commit appends one row linked to the row before it
\* (appendAudit under the advisory lock).
AppendsOnly == A!Spec

\* A message the group has moved past is in the log, or its append failed,
\* or it was there before the group had an offset: a rebalance or a crash
\* alone loses nothing (eachMessage, which swallows the error).
LostOnlyByFailure ==
  offset # None =>
    \A m \in 1..(offset - 1) :
      \/ Topic[m] = Empty
      \/ m \in failed \cup skipped
      \/ \E i \in DOMAIN rows : rows[i].payload = Jsonb(Topic[m])

\* Rows are numbered in the order of their commits, though failures leave
\* gaps: the row that prev_hash names need not have the id before.
IdsIncrease ==
  /\ \A i, j \in DOMAIN rows : i < j => rows[i].id < rows[j].id
  /\ \A i \in DOMAIN rows : rows[i].id < nextId

\* hash of the last row committed
TipHash == IF rows = <<>> THEN Genesis ELSE rows[Len(rows)].hash

\* Between the lock and the commit a sink's prevHash is the hash of the last
\* row, and the row it has inserted comes after all others by id, which is
\* what ORDER BY id DESC relies on (appendAudit).
SinkInv ==
  /\ IdsIncrease
  /\ \A s \in Sinks :
       /\ pc[s] \in {"locked", "read", "inserted", "refused"} => lock = s
       /\ pc[s] \in {"read", "inserted", "refused"} => prev[s] = TipHash
       /\ pc[s] = "inserted" =>
            /\ newId[s] < nextId
            /\ \A i \in DOMAIN rows : rows[i].id < newId[s]

\* The service keeps running and Kafka assigns the partition again.
LiveSpec ==
  /\ Spec
  /\ WF_vars(Produce)
  /\ \A s \in Sinks : /\ WF_vars(Proceed(s))
                      /\ WF_vars(CommitOffset(s))
  /\ WF_vars(\E s \in Sinks : Assign(s) /\ owner = None)

\* In the end the group is past every message: neither a failing append nor
\* a crash, with the lock it leaves, holds the sinks up for good.
Drained == <>[](offset = Len(Topic) + 1)
=============================================================================
