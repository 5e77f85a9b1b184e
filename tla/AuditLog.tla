------------------------------ MODULE AuditLog ------------------------------
(***************************************************************************)
(* What the audit log promises (migrations/V9__audit_log.sql and the audit *)
(* section of docs/DEPLOYMENT.md): one row is appended at a time, every    *)
(* row carries the hash of the row before it, and no row is ever changed.  *)
(***************************************************************************)
EXTENDS Sequences, Naturals

CONSTANTS
  Payloads,    \* topic and payload of an event
  Hash(_, _),  \* sha256 of a previous hash and a payload
  Jsonb(_),    \* a payload as a JSONB column gives it back
  Genesis      \* the prev_hash of the first row

VARIABLE log

LastHash == IF log = <<>> THEN Genesis ELSE log[Len(log)].hash

\* The hash is of the payload as it came, not as the column keeps it.
Row(prev, p) == [payload |-> Jsonb(p), prev |-> prev, hash |-> Hash(prev, p)]

Init == log = <<>>

Next == \E p \in Payloads : log' = Append(log, Row(LastHash, p))

Spec == Init /\ [][Next]_log

\* Every row names the hash of the row before it: the chain never forks.  It
\* says nothing of the payloads: that the hash of a row can be computed again
\* from its columns (V9__audit_log.sql:4) holds only where Jsonb(p) = p.
Linked ==
  \A i \in 1..Len(log) :
    log[i].prev = IF i = 1 THEN Genesis ELSE log[i - 1].hash
=============================================================================
