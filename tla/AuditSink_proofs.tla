-------------------------- MODULE AuditSink_proofs --------------------------
(***************************************************************************)
(* audit_log never forks: for every number of sinks, every topic and every *)
(* pattern of failures and crashes, AuditSink implements AuditLog, and so  *)
(* every row carries the hash of the row before it.                        *)
(***************************************************************************)
EXTENDS AuditSink, SequenceTheorems, TLAPS

Busy == {"begun", "locked", "read", "inserted", "refused"}

\* What the argument needs to know of the types.
Types ==
  /\ produced \in 0..Len(Topic)
  /\ pos \in [Sinks -> Nat \ {0}]
  /\ pc \in [Sinks -> Busy \cup {"idle"}]
  /\ DOMAIN prev = Sinks
  /\ newId \in [Sinks -> Nat]
  /\ nextId \in Nat
  /\ offset = None \/ offset \in Nat \ {0}
  /\ \E S : rows \in Seq(S)
  /\ \A i \in DOMAIN rows : rows[i].id \in Nat

\* A sink in appendAudit is at an event that was produced.
AtEvent == \A s \in Sinks : pc[s] # "idle" => pos[s] <= produced /\ Topic[pos[s]] \in Payloads

IInv == Types /\ AtEvent /\ SinkInv

\* The initial state satisfies the inductive invariant.
LEMMA InitIInv == Init => IInv
<1> SUFFICES ASSUME Init PROVE IInv
  OBVIOUS
<1>1. Len(Topic) \in Nat
  BY AuditAssumption, LenProperties
<1>2. <<>> \in Seq({}) /\ DOMAIN <<>> = {}
  BY EmptySeq
<1>3. Types
  BY <1>1, <1>2 DEF Init, Types, Busy
<1>4. AtEvent
  BY DEF Init, AtEvent
<1>5. SinkInv
  BY <1>2 DEF Init, SinkInv, IdsIncrease
<1> QED BY <1>3, <1>4, <1>5 DEF IInv

\* Reading the last row under the lock gives the hash of the last commit.
LEMMA LastRowIsTip ==
  ASSUME IInv, rows # <<>>
  PROVE  LastRow = Len(rows) /\ Len(rows) \in DOMAIN rows
<1>1. PICK S : rows \in Seq(S)
  BY DEF IInv, Types
<1>2. Len(rows) \in Nat \ {0} /\ DOMAIN rows = 1..Len(rows)
  BY <1>1, EmptySeq, LenProperties
<1>3. \A j \in DOMAIN rows : rows[j].id <= rows[Len(rows)].id
  <2> SUFFICES ASSUME NEW j \in DOMAIN rows PROVE rows[j].id <= rows[Len(rows)].id
    OBVIOUS
  <2>1. rows[j].id \in Nat
    BY DEF IInv, Types
  <2>2. CASE j = Len(rows)
    BY <2>1, <2>2
  <2>3. CASE j # Len(rows)
    <3>1. j < Len(rows) /\ Len(rows) \in DOMAIN rows
      BY <1>2, <2>3
    <3>2. rows[j].id < rows[Len(rows)].id /\ rows[Len(rows)].id \in Nat
      BY <3>1 DEF IInv, Types, SinkInv, IdsIncrease
    <3> QED BY <2>1, <3>2
  <2> QED BY <2>2, <2>3
<1>4. \A i \in DOMAIN rows :
        (\A j \in DOMAIN rows : rows[j].id <= rows[i].id) => i = Len(rows)
  <2> SUFFICES ASSUME NEW i \in DOMAIN rows, i # Len(rows)
               PROVE  ~ (rows[Len(rows)].id <= rows[i].id)
    BY <1>2
  <2>1. i < Len(rows) /\ Len(rows) \in DOMAIN rows
    BY <1>2
  <2>2. rows[i].id < rows[Len(rows)].id
    BY <2>1 DEF IInv, SinkInv, IdsIncrease
  <2>3. rows[i].id \in Nat /\ rows[Len(rows)].id \in Nat
    BY <2>1 DEF IInv, Types
  <2> QED BY <2>2, <2>3
<1> QED BY <1>2, <1>3, <1>4 DEF LastRow

\* What a commit does to the table.
LEMMA CommitRows ==
  ASSUME IInv, NEW s \in Sinks, rows' = Append(rows, NewRow(s))
  PROVE  /\ Len(rows) \in Nat /\ DOMAIN rows = 1..Len(rows)
         /\ Len(rows') = Len(rows) + 1
         /\ DOMAIN rows' = 1..(Len(rows) + 1)
         /\ \A i \in 1..Len(rows) : rows'[i] = rows[i]
         /\ rows'[Len(rows) + 1] = NewRow(s)
         /\ \E S : rows' \in Seq(S)
         /\ rows' # <<>>
<1>1. PICK S : rows \in Seq(S)
  BY DEF IInv, Types
<1> DEFINE T == S \cup {NewRow(s)}
<1>2. rows \in Seq(T) /\ NewRow(s) \in T
  BY <1>1, SeqMonotonic
<1> HIDE DEF T
<1>3. /\ rows' \in Seq(T)
      /\ Len(rows') = Len(rows) + 1
      /\ \A i \in 1..Len(rows) : rows'[i] = rows[i]
      /\ rows'[Len(rows) + 1] = NewRow(s)
  BY <1>2, AppendProperties
<1>4. Len(rows) \in Nat /\ DOMAIN rows = 1..Len(rows)
  BY <1>2, LenProperties
<1>5. DOMAIN rows' = 1..(Len(rows) + 1)
  BY <1>3, LenProperties
<1>6. rows' # <<>>
  BY <1>2, AppendProperties
<1> QED BY <1>3, <1>4, <1>5, <1>6

\* Every step keeps the inductive invariant.
LEMMA NextIInv == IInv /\ [Next]_vars => IInv'
<1> SUFFICES ASSUME IInv, [Next]_vars PROVE IInv'
  OBVIOUS
<1>0. Len(Topic) \in Nat /\ Topic \in [1..Len(Topic) -> Payloads \cup {Empty}] /\ None \notin Sinks
  BY AuditAssumption, LenProperties
<1>1. CASE Produce
  BY <1>0, <1>1 DEF Produce, IInv, Types, AtEvent, SinkInv, IdsIncrease, TipHash
<1>2. ASSUME NEW s \in Sinks, Assign(s) PROVE IInv'
  <2>1. Types'
    BY <1>0, <1>2 DEF Assign, IInv, Types
  <2>2. AtEvent'
    BY <1>2 DEF Assign, IInv, Types, AtEvent
  <2>3. SinkInv'
    BY <1>2 DEF Assign, IInv, SinkInv, IdsIncrease, TipHash
  <2> QED BY <2>1, <2>2, <2>3 DEF IInv
<1>3. ASSUME NEW s \in Sinks, CommitOffset(s) PROVE IInv'
  <2>1. Types'
    BY <1>3 DEF CommitOffset, IInv, Types
  <2>2. AtEvent' /\ SinkInv'
    BY <1>3 DEF CommitOffset, IInv, AtEvent, SinkInv, IdsIncrease, TipHash
  <2> QED BY <2>1, <2>2 DEF IInv
<1>4. ASSUME NEW s \in Sinks, Take(s) PROVE IInv'
  <2>1. Types'
    <3>1. \/ pos' = [pos EXCEPT ![s] = @ + 1] /\ pc' = pc
          \/ pos' = pos /\ pc' = [pc EXCEPT ![s] = "begun"]
      BY <1>4 DEF Take
    <3>2. pos[s] + 1 \in Nat \ {0}
      BY DEF IInv, Types
    <3>3. pos' \in [Sinks -> Nat \ {0}] /\ pc' \in [Sinks -> Busy \cup {"idle"}]
      BY <3>1, <3>2 DEF IInv, Types, Busy
    <3> QED BY <1>4, <3>3 DEF Take, kafka, IInv, Types
  <2>2. AtEvent'
    BY <1>0, <1>4 DEF Take, kafka, IInv, Types, AtEvent
  <2>3. SinkInv'
    BY <1>4 DEF Take, kafka, IInv, Types, SinkInv, IdsIncrease, TipHash
  <2> QED BY <2>1, <2>2, <2>3 DEF IInv
<1>5. ASSUME NEW s \in Sinks, Lock(s) PROVE IInv'
  <2>1. Types'
    BY <1>5 DEF Lock, kafka, IInv, Types, Busy
  <2>2. AtEvent'
    BY <1>5 DEF Lock, kafka, IInv, Types, AtEvent
  <2>3. \A t \in Sinks : pc[t] \notin {"locked", "read", "inserted", "refused"}
    BY <1>0, <1>5 DEF Lock, IInv, SinkInv
  <2>4. SinkInv'
    BY <1>5, <2>3 DEF Lock, kafka, IInv, Types, SinkInv, IdsIncrease, TipHash
  <2> QED BY <2>1, <2>2, <2>4 DEF IInv
<1>6. ASSUME NEW s \in Sinks, ReadLast(s) PROVE IInv'
  <2>1. Types'
    BY <1>6 DEF ReadLast, kafka, IInv, Types, Busy
  <2>2. AtEvent'
    BY <1>6 DEF ReadLast, kafka, IInv, Types, AtEvent
  <2>3. prev'[s] = TipHash'
    BY <1>6, LastRowIsTip DEF ReadLast, TipHash, IInv, Types
  <2>4. SinkInv'
    BY <1>6, <2>3 DEF ReadLast, kafka, IInv, Types, SinkInv, IdsIncrease, TipHash
  <2> QED BY <2>1, <2>2, <2>4 DEF IInv
<1>7. ASSUME NEW s \in Sinks, Insert(s) PROVE IInv'
  <2>1. Types'
    BY <1>7 DEF Insert, kafka, IInv, Types, Busy
  <2>2. AtEvent'
    BY <1>7 DEF Insert, kafka, IInv, Types, AtEvent
  <2>3. IdsIncrease'
    BY <1>7 DEF Insert, IInv, Types, SinkInv, IdsIncrease
  <2>4. SinkInv'
    BY <1>7, <2>3 DEF Insert, kafka, IInv, Types, SinkInv, IdsIncrease, TipHash
  <2> QED BY <2>1, <2>2, <2>4 DEF IInv
<1>8. ASSUME NEW s \in Sinks, NEW acked \in BOOLEAN, Commit(s, acked) PROVE IInv'
  <2>1. /\ Len(rows) \in Nat /\ DOMAIN rows = 1..Len(rows)
        /\ Len(rows') = Len(rows) + 1
        /\ DOMAIN rows' = 1..(Len(rows) + 1)
        /\ \A i \in 1..Len(rows) : rows'[i] = rows[i]
        /\ rows'[Len(rows) + 1] = NewRow(s)
        /\ \E S : rows' \in Seq(S)
    BY <1>8, CommitRows DEF Commit
  <2>2. NewRow(s).id = newId[s]
    BY DEF NewRow
  <2>3. Types'
    BY <1>8, <2>1, <2>2 DEF Commit, Leave, kafka, IInv, Types
  <2>4. AtEvent'
    BY <1>8 DEF Commit, Leave, kafka, IInv, Types, AtEvent
  <2>5. newId[s] \in Nat /\ newId[s] < nextId /\ \A i \in DOMAIN rows : rows[i].id < newId[s]
    BY <1>8 DEF Commit, IInv, Types, SinkInv
  <2>6. IdsIncrease'
    <3>1. \A i, j \in 1..Len(rows) : i < j => rows[i].id < rows[j].id
      BY <2>1 DEF IInv, SinkInv, IdsIncrease
    <3>2. \A i, j \in 1..Len(rows) : i < j => rows'[i].id < rows'[j].id
      BY <2>1, <3>1
    <3>3. \A i \in 1..Len(rows) : rows'[i].id < rows'[Len(rows) + 1].id
      BY <2>1, <2>2, <2>5
    <3>4. ASSUME NEW i \in DOMAIN rows', NEW j \in DOMAIN rows', i < j
          PROVE  rows'[i].id < rows'[j].id
      <4>1. i \in 1..Len(rows) /\ (j \in 1..Len(rows) \/ j = Len(rows) + 1)
        BY <2>1, <3>4
      <4> QED BY <3>2, <3>3, <3>4, <4>1
    <3>5. \A i \in 1..Len(rows) : rows[i].id < nextId
      BY <2>1 DEF IInv, SinkInv, IdsIncrease
    <3>6. nextId' = nextId
      BY <1>8 DEF Commit
    <3>7. ASSUME NEW i \in DOMAIN rows' PROVE rows'[i].id < nextId'
      <4>1. i \in 1..Len(rows) \/ i = Len(rows) + 1
        BY <2>1
      <4> QED BY <2>1, <2>2, <2>5, <3>5, <3>6, <4>1
    <3> QED BY <3>4, <3>7 DEF IdsIncrease
  <2>7. \A t \in Sinks : pc'[t] \notin {"locked", "read", "inserted", "refused"}
    BY <1>8 DEF Commit, Leave, IInv, Types, SinkInv
  <2>8. SinkInv'
    BY <2>6, <2>7 DEF SinkInv
  <2> QED BY <2>3, <2>4, <2>8 DEF IInv
<1>9. ASSUME NEW s \in Sinks, Fail(s) PROVE IInv'
  <2>1. Types'
    BY <1>9 DEF Fail, Leave, kafka, IInv, Types
  <2>2. AtEvent'
    BY <1>9 DEF Fail, Leave, kafka, IInv, Types, AtEvent
  <2>3. SinkInv'
    BY <1>9 DEF Fail, Leave, kafka, IInv, Types, SinkInv, IdsIncrease, TipHash
  <2> QED BY <2>1, <2>2, <2>3 DEF IInv
<1>10. ASSUME NEW s \in Sinks, Crash(s) PROVE IInv'
  <2>1. Types'
    BY <1>10 DEF Crash, Leave, IInv, Types
  <2>2. AtEvent'
    BY <1>10 DEF Crash, Leave, IInv, Types, AtEvent
  <2>3. SinkInv'
    BY <1>10 DEF Crash, Leave, IInv, Types, SinkInv, IdsIncrease, TipHash
  <2> QED BY <2>1, <2>2, <2>3 DEF IInv
<1>11. CASE UNCHANGED vars
  BY <1>11 DEF vars, kafka, IInv, Types, AtEvent, SinkInv, IdsIncrease, TipHash
<1> QED
  BY <1>1, <1>2, <1>3, <1>4, <1>5, <1>6, <1>7, <1>8, <1>9, <1>10, <1>11 DEF Next, Proceed

\* Under the lock a sink always works with the last row of audit_log.
THEOREM SinkTheorem == Spec => []SinkInv
<1>1. IInv => SinkInv
  BY DEF IInv
<1> QED BY InitIInv, NextIInv, <1>1, PTL DEF Spec

----------------------------------------------------------------------------

\* A commit is the abstract Append.
LEMMA CommitRefines ==
  ASSUME IInv, NEW s \in Sinks, NEW acked \in BOOLEAN, Commit(s, acked)
  PROVE  A!Next
<1> DEFINE p == Topic[pos[s]]
           row == A!Row(A!LastHash, p)
<1>1. /\ Len(rows) \in Nat /\ DOMAIN rows = 1..Len(rows)
      /\ DOMAIN rows' = 1..(Len(rows) + 1)
      /\ \A i \in 1..Len(rows) : rows'[i] = rows[i]
      /\ rows'[Len(rows) + 1] = NewRow(s)
  BY CommitRows DEF Commit
<1>2. p \in Payloads
  BY DEF Commit, IInv, AtEvent
<1> DEFINE T == {Log[i] : i \in 1..Len(rows)} \cup {row}
<1>3. Log \in Seq(T) /\ Len(Log) = Len(rows)
  <2>1. Log \in [1..Len(rows) -> T]
    BY <1>1 DEF Log
  <2> HIDE DEF T
  <2> QED BY <1>1, <2>1, SeqDef
<1>4. A!LastHash = TipHash
  <2>1. CASE rows = <<>>
    <3>1. Log = <<>>
      BY <2>1, <1>1 DEF Log
    <3> QED BY <2>1, <3>1 DEF A!LastHash, TipHash
  <2>2. CASE rows # <<>>
    <3>1. Len(rows) # 0
      BY <2>2, EmptySeq DEF IInv, Types
    <3>2. Log # <<>>
      BY <1>3, <3>1
    <3>3. Log[Len(Log)].hash = rows[Len(rows)].hash
      BY <1>1, <1>3, <3>1 DEF Log
    <3> QED BY <2>2, <3>2, <3>3 DEF A!LastHash, TipHash
  <2> QED BY <2>1, <2>2
<1>5. prev[s] = TipHash
  BY DEF Commit, IInv, SinkInv
<1>6. row = [payload |-> NewRow(s).payload, prev |-> NewRow(s).prev, hash |-> NewRow(s).hash]
  BY <1>4, <1>5 DEF A!Row, NewRow
<1> HIDE DEF row
<1>7. Log' = [i \in 1..(Len(rows) + 1) |-> IF i <= Len(rows) THEN Log[i] ELSE row]
  BY <1>1, <1>6 DEF Log
<1>8. Append(Log, row) = [i \in 1..(Len(rows) + 1) |-> IF i <= Len(rows) THEN Log[i] ELSE row]
  <2>1. row \in T
    OBVIOUS
  <2> HIDE DEF T
  <2>2. /\ Append(Log, row) \in Seq(T)
        /\ Len(Append(Log, row)) = Len(rows) + 1
        /\ \A i \in 1..Len(rows) : Append(Log, row)[i] = Log[i]
        /\ Append(Log, row)[Len(rows) + 1] = row
    BY <1>3, <2>1, AppendProperties
  <2>3. Append(Log, row) \in [1..(Len(rows) + 1) -> T]
    BY <2>2, LenProperties
  <2>4. \A i \in 1..(Len(rows) + 1) :
          Append(Log, row)[i] = IF i <= Len(rows) THEN Log[i] ELSE row
    BY <1>1, <2>2
  <2> HIDE DEF row
  <2> QED BY <2>3, <2>4
<1>9. Log' = Append(Log, row)
  BY <1>7, <1>8
<1> QED BY <1>2, <1>9 DEF A!Next, row

\* No other step changes the table.
LEMMA StepRefines == IInv /\ [Next]_vars => [A!Next]_Log
<1> SUFFICES ASSUME IInv, [Next]_vars PROVE A!Next \/ UNCHANGED Log
  OBVIOUS
<1>1. CASE \E s \in Sinks, acked \in BOOLEAN : Commit(s, acked)
  BY <1>1, CommitRefines
<1>2. CASE UNCHANGED rows
  BY <1>2 DEF Log
<1>3. UNCHANGED rows \/ \E s \in Sinks, acked \in BOOLEAN : Commit(s, acked)
  BY DEF Next, vars, Proceed, Produce, Assign, CommitOffset, Take, Lock, ReadLast, Insert,
         Fail, Crash, Leave, kafka
<1> QED BY <1>1, <1>2, <1>3

\* The sinks together implement the audit log, for every number of sinks,
\* every topic and every pattern of failures and crashes.
THEOREM AuditRefinement == Spec => AppendsOnly
<1>1. Init => A!Init
  BY DEF Init, A!Init, Log
<1> QED BY <1>1, InitIInv, NextIInv, StepRefines, PTL DEF Spec, AppendsOnly, A!Spec

\* The table seen as a log is a sequence of the same length.
LogIsSeq == Len(Log) = Len(rows) /\ DOMAIN rows = 1..Len(rows) /\ Len(rows) \in Nat

\* The mapped log is as long as the table.
LEMMA LogLen == IInv => LogIsSeq
<1> SUFFICES ASSUME IInv PROVE LogIsSeq
  OBVIOUS
<1>1. PICK S : rows \in Seq(S)
  BY DEF IInv, Types
<1>2. Len(rows) \in Nat /\ DOMAIN rows = 1..Len(rows)
  BY <1>1, LenProperties
<1> DEFINE T == {Log[i] : i \in 1..Len(rows)}
<1>3. Log \in [1..Len(rows) -> T]
  BY <1>2 DEF Log
<1> HIDE DEF T
<1>4. Log \in Seq(T)
  BY <1>2, <1>3, SeqDef
<1> QED BY <1>2, <1>3, <1>4, LenProperties DEF LogIsSeq

\* A step keeps the rows linked.
LEMMA LinkedStep == IInv /\ A!Linked /\ [Next]_vars => A!Linked'
<1> SUFFICES ASSUME IInv, A!Linked, [Next]_vars PROVE A!Linked'
  OBVIOUS
<1>0. IInv'
  BY NextIInv
<1>1. /\ Len(Log) = Len(rows) /\ DOMAIN rows = 1..Len(rows) /\ Len(rows) \in Nat
      /\ Len(Log') = Len(rows') /\ DOMAIN rows' = 1..Len(rows')
  <2>1. LogIsSeq'
    BY <1>0, LogLen, PTL
  <2> QED BY <2>1, LogLen DEF LogIsSeq
<1>2. CASE UNCHANGED rows
  BY <1>2 DEF Log, A!Linked
<1>3. ASSUME NEW s \in Sinks, NEW acked \in BOOLEAN, Commit(s, acked) PROVE A!Linked'
  <2>1. /\ Len(rows') = Len(rows) + 1
        /\ \A i \in 1..Len(rows) : rows'[i] = rows[i]
        /\ rows'[Len(rows) + 1] = NewRow(s)
    BY <1>3, CommitRows DEF Commit
  <2>2. NewRow(s).prev = TipHash
    BY <1>3 DEF Commit, IInv, SinkInv, NewRow
  <2>3. \A i \in 1..Len(rows) : Log'[i] = Log[i]
    BY <1>1, <2>1 DEF Log
  <2>4. Log'[Len(rows) + 1].prev = TipHash
    BY <1>1, <2>1, <2>2 DEF Log
  <2>5. Len(rows) # 0 => TipHash = Log[Len(rows)].hash
    <3>1. Len(rows) # 0 => rows # <<>>
      BY EmptySeq
    <3> QED BY <1>1, <3>1 DEF TipHash, Log
  <2>6. Len(rows) = 0 => TipHash = Genesis
    BY EmptySeq DEF TipHash, IInv, Types
  <2>7. ASSUME NEW i \in 1..Len(rows)
        PROVE  Log'[i].prev = IF i = 1 THEN Genesis ELSE Log'[i - 1].hash
    <3>1. Log[i].prev = IF i = 1 THEN Genesis ELSE Log[i - 1].hash
      BY <1>1 DEF A!Linked
    <3>2. i # 1 => i - 1 \in 1..Len(rows)
      BY <1>1
    <3> QED BY <2>3, <3>1, <3>2
  <2>8. Log'[Len(rows) + 1].prev =
          IF Len(rows) + 1 = 1 THEN Genesis ELSE Log'[(Len(rows) + 1) - 1].hash
    BY <1>1, <2>3, <2>4, <2>5, <2>6
  <2>9. \A i \in 1..Len(Log') : i \in 1..Len(rows) \/ i = Len(rows) + 1
    BY <1>1, <2>1
  <2> QED BY <2>7, <2>8, <2>9 DEF A!Linked
<1>4. UNCHANGED rows \/ \E s \in Sinks, acked \in BOOLEAN : Commit(s, acked)
  BY DEF Next, vars, Proceed, Produce, Assign, CommitOffset, Take, Lock, ReadLast, Insert,
         Fail, Crash, Leave, kafka
<1> QED BY <1>2, <1>3, <1>4

\* audit_log is one chain: the prev_hash of every row is the row_hash of the
\* row before it.
THEOREM ChainLinked == Spec => []A!Linked
<1>1. Init => A!Linked
  <2> SUFFICES ASSUME Init PROVE Log = <<>>
    BY DEF A!Linked
  <2> QED BY DEF Init, Log
<1> QED BY <1>1, InitIInv, NextIInv, LinkedStep, PTL DEF Spec

----------------------------------------------------------------------------
(* Nothing is lost but by a failure.                                       *)

\* Message m needs no more work: it is empty, its append failed, it is older
\* than the group, or it is in audit_log.
Passed(m) ==
  \/ Topic[m] = Empty
  \/ m \in failed \cup skipped
  \/ \E i \in DOMAIN rows : rows[i].payload = Jsonb(Topic[m])

\* The owner of the partition, too, has passed every message before the one
\* it is at: its position is what CommitOffset writes.
Behind ==
  /\ skipped \subseteq 1..produced
  /\ offset # None => \A m \in 1..(offset - 1) : Passed(m)
  /\ \A s \in Sinks : owner = s => \A m \in 1..(pos[s] - 1) : Passed(m)

\* Rows, failures and skipped messages are never taken back.
LEMMA PassedStays ==
  ASSUME IInv, Behind, [Next]_vars, NEW m, Passed(m)
  PROVE  Passed(m)'
<1>1. CASE Topic[m] = Empty
  BY <1>1 DEF Passed
<1>2. CASE m \in failed
  <2>1. failed \subseteq failed'
    BY DEF Next, vars, Proceed, Produce, Assign, CommitOffset, Take, Lock, ReadLast, Insert,
           Commit, Fail, Crash
  <2> QED BY <1>2, <2>1 DEF Passed
<1>3. CASE m \in skipped
  <2>1. produced \in Nat
    BY AuditAssumption, LenProperties DEF IInv, Types
  <2>2. skipped' = skipped \/ skipped' = 1..produced
    BY DEF Next, vars, Proceed, Produce, Assign, CommitOffset, Take, Lock, ReadLast, Insert,
           Commit, Fail, Crash
  <2>3. m \in skipped'
    BY <1>3, <2>1, <2>2 DEF Behind
  <2> QED BY <2>3 DEF Passed
<1>4. CASE \E i \in DOMAIN rows : rows[i].payload = Jsonb(Topic[m])
  <2>1. CASE UNCHANGED rows
    BY <1>4, <2>1 DEF Passed
  <2>2. CASE \E s \in Sinks, acked \in BOOLEAN : Commit(s, acked)
    <3>1. PICK s \in Sinks, acked \in BOOLEAN : Commit(s, acked)
      BY <2>2
    <3>2. \A i \in DOMAIN rows : i \in DOMAIN rows' /\ rows'[i] = rows[i]
      BY <3>1, CommitRows DEF Commit
    <3> QED BY <1>4, <3>2 DEF Passed
  <2>3. UNCHANGED rows \/ \E s \in Sinks, acked \in BOOLEAN : Commit(s, acked)
    BY DEF Next, vars, Proceed, Produce, Assign, CommitOffset, Take, Lock, ReadLast, Insert,
           Fail, Crash, Leave, kafka
  <2> QED BY <2>1, <2>2, <2>3
<1> QED BY <1>1, <1>2, <1>3, <1>4 DEF Passed

\* Every step keeps Behind.
LEMMA BehindStep == IInv /\ Behind /\ [Next]_vars => Behind'
<1> SUFFICES ASSUME IInv, Behind, [Next]_vars PROVE Behind'
  OBVIOUS
<1>0. /\ Len(Topic) \in Nat /\ None \notin Sinks /\ None \notin Nat
      /\ produced \in Nat /\ pos \in [Sinks -> Nat \ {0}]
      /\ offset = None \/ offset \in Nat \ {0}
  BY AuditAssumption, LenProperties DEF IInv, Types
<1>a. \A m : Passed(m) => Passed(m)'
  BY PassedStays
<1>b. ASSUME UNCHANGED <<produced, offset, owner, pos, skipped>> PROVE Behind'
  BY <1>a, <1>b DEF Behind
<1>1. CASE Produce
  <2>1. skipped' \subseteq 1..produced'
    BY <1>0, <1>1 DEF Produce, Behind
  <2> QED BY <1>1, <1>a, <2>1 DEF Produce, Behind
<1>2. ASSUME NEW s \in Sinks, Assign(s) PROVE Behind'
  <2>1. skipped' \subseteq 1..produced'
    BY <1>2 DEF Assign, Behind
  <2>2. offset' # None => \A m \in 1..(offset' - 1) : Passed(m)'
    BY <1>2, <1>a DEF Assign, Behind
  <2>3. ASSUME NEW m \in 1..(pos'[s] - 1) PROVE Passed(m)'
    <3>1. CASE offset = None
      <4>1. m \in skipped'
        BY <1>0, <1>2, <2>3, <3>1 DEF Assign
      <4> QED BY <4>1 DEF Passed
    <3>2. CASE offset # None
      <4>1. m \in 1..(offset - 1)
        BY <1>0, <1>2, <2>3, <3>2 DEF Assign
      <4> QED BY <1>a, <3>2, <4>1 DEF Behind
    <3> QED BY <3>1, <3>2
  <2>4. owner' = s
    BY <1>2 DEF Assign
  <2> QED BY <2>1, <2>2, <2>3, <2>4 DEF Behind
<1>3. ASSUME NEW s \in Sinks, CommitOffset(s) PROVE Behind'
  BY <1>3, <1>a DEF CommitOffset, Behind
<1>4. ASSUME NEW s \in Sinks, UNCHANGED <<produced, offset, owner, skipped>>,
             pos' = [pos EXCEPT ![s] = @ + 1], \A m : m = pos[s] => Passed(m)'
      PROVE  Behind'
  <2>1. ASSUME NEW t \in Sinks, owner = t, NEW m \in 1..(pos'[t] - 1) PROVE Passed(m)'
    <3>1. m \in 1..(pos[t] - 1) \/ (t = s /\ m = pos[s])
      BY <1>0, <1>4, <2>1
    <3> QED BY <1>4, <1>a, <2>1, <3>1 DEF Behind
  <2> QED BY <1>4, <1>a, <2>1 DEF Behind
<1>5. ASSUME NEW s \in Sinks, Take(s) PROVE Behind'
  <2>1. CASE Topic[pos[s]] = Empty
    <3>1. \A m : m = pos[s] => Passed(m)'
      BY <2>1 DEF Passed
    <3>2. /\ UNCHANGED <<produced, offset, owner, skipped>>
          /\ pos' = [pos EXCEPT ![s] = @ + 1]
      BY <1>5, <2>1 DEF Take, kafka
    <3> QED BY <1>4, <3>1, <3>2
  <2>2. CASE Topic[pos[s]] # Empty
    BY <1>5, <1>b, <2>2 DEF Take, kafka
  <2> QED BY <2>1, <2>2
<1>6. ASSUME NEW s \in Sinks, Lock(s) \/ ReadLast(s) \/ Insert(s) PROVE Behind'
  BY <1>6, <1>b DEF Lock, ReadLast, Insert, kafka
<1>7. ASSUME NEW s \in Sinks, NEW acked \in BOOLEAN, Commit(s, acked) PROVE Behind'
  <2>1. /\ Len(rows) + 1 \in DOMAIN rows'
        /\ rows'[Len(rows) + 1] = NewRow(s)
    BY <1>7, CommitRows DEF Commit
  <2>2. rows'[Len(rows) + 1].payload = Jsonb(Topic[pos[s]])
    BY <2>1 DEF NewRow
  <2>3. \A m : m = pos[s] => Passed(m)'
    BY <2>1, <2>2 DEF Passed
  <2> QED BY <1>4, <1>7, <2>3 DEF Commit, kafka
<1>8. ASSUME NEW s \in Sinks, Fail(s) PROVE Behind'
  <2>1. pos[s] \in failed'
    BY <1>8 DEF Fail
  <2>2. \A m : m \in failed' => Passed(m)'
    BY DEF Passed
  <2> QED BY <1>4, <1>8, <2>1, <2>2 DEF Fail, kafka
<1>9. ASSUME NEW s \in Sinks, Crash(s) PROVE Behind'
  <2>1. UNCHANGED <<produced, offset, pos, skipped>> /\ owner' \in {owner, None}
    BY <1>9 DEF Crash
  <2> QED BY <1>0, <1>a, <2>1 DEF Behind
<1>10. CASE UNCHANGED vars
  BY <1>10, <1>b DEF vars, kafka
<1> QED
  BY <1>1, <1>2, <1>3, <1>5, <1>6, <1>7, <1>8, <1>9, <1>10 DEF Next, Proceed

\* No message the group has moved past is missing from audit_log unless its
\* append failed or it is older than the group.
THEOREM NothingLost == Spec => []LostOnlyByFailure
<1>1. Init => Behind
  BY AuditAssumption DEF Init, Behind
<1>2. Behind => LostOnlyByFailure
  BY DEF Behind, LostOnlyByFailure, Passed
<1> QED BY <1>1, <1>2, InitIInv, NextIInv, BehindStep, PTL DEF Spec
=============================================================================
