--------------------------- MODULE ApiKeys_proofs ---------------------------
(***************************************************************************)
(* Proofs about the subscription lifecycle, for any number of              *)
(* subscriptions, plans and concurrent management requests, and about API  *)
(* keys, for any number of keys, subscriptions, plans, requests and        *)
(* administrators, any TTL, with or without fail_open and with or without  *)
(* a torn HSET/EXPIRE pipeline.                                            *)
(***************************************************************************)
EXTENDS ApiKeys, FiniteSetTheorems, TLAPS

-----------------------------------------------------------------------------
(* Subscriptions.                                                          *)

\* The inductive invariant holds when the tables are empty.
LEMMA SubInvInit == SubInit => SubInv
  BY DEF SubInit, SubInv, SubTypeOK, InFlightRowExists, RowsHavePlans,
         OvertakenIsWitnessed

\* What the audit trigger does to the log when the row of s is updated: old
\* rows stay, and a changed status is in the log.
LEMMA TriggerLogs ==
  ASSUME NEW s \in Subs, LogSubscriptionChanges(s)
  PROVE  /\ audited \subseteq audited'
         /\ status'[s] # status[s] =>
              [sub |-> s, action |-> "status_changed",
               old |-> status[s], new |-> status'[s]] \in audited'
BY DEF LogSubscriptionChanges

\* A step that neither touches statuses nor histories, and loses no audit
\* row, keeps what is known of the requests that stay as they are.
LEMMA WitnessKept ==
  ASSUME OvertakenIsWitnessed, audited \subseteq audited',
         NEW p \in Admins, admin'[p] = admin[p], since'[p] = since[p],
         admin[p] # NoReq, status'[admin[p].sub] = status[admin[p].sub]
  PROVE  /\ status'[admin'[p].sub] # admin'[p].from => MovedOn(p)'
         /\ \A c \in since'[p] :
              [sub |-> admin'[p].sub, action |-> "status_changed",
               old |-> c.old, new |-> c.new] \in audited'
BY DEF OvertakenIsWitnessed, MovedOn

\* UpdateStatus(p) tells every other request on the same row of the change:
\* what that request had read may be out of date now, but not unnoticed.
LEMMA UpdateWitnessed ==
  ASSUME SubInv, NEW p \in Admins, UpdateStatus(p)
  PROVE  /\ since' \in [Admins -> SUBSET Change]
         /\ OvertakenIsWitnessed'
<1> USE DEF SubInv, SubTypeOK
<1> DEFINE r == admin[p]
           c == [old |-> status[r.sub], new |-> r.to]
<1>1. /\ r \in AdminReq /\ r.sub \in Subs /\ r.to \in Statuses
      /\ status[r.sub] \in Statuses /\ status'[r.sub] = r.to
      BY DEF UpdateStatus, InFlightRowExists, AdminReq, Targets, Statuses
<1>0. c.old = status[r.sub] /\ c.new = r.to
      OBVIOUS
<1>2. c \in Change
      BY <1>1 DEF Change
<1>3. \A q \in Admins :
        since'[q] = CASE q = p -> {}
                      [] q \in Overtaken(p) /\ c.old # c.new -> since[q] \cup {c}
                      [] OTHER -> since[q]
      BY DEF UpdateStatus, Witnessed
<1>4. since' \in [Admins -> SUBSET Change]
  <2>1. since' = [q \in Admins |-> since'[q]]
        BY DEF UpdateStatus, Witnessed
  <2>2. \A q \in Admins : since'[q] \in SUBSET Change
        BY <1>2, <1>3
  <2> QED BY <2>1, <2>2
<1>5. /\ audited \subseteq audited'
      /\ c.old # c.new => [sub |-> r.sub, action |-> "status_changed",
                           old |-> c.old, new |-> c.new] \in audited'
      BY <1>1, TriggerLogs DEF UpdateStatus
<1>6. OvertakenIsWitnessed'
  <2>1. SUFFICES ASSUME NEW q \in Admins, admin'[q] # NoReq
        PROVE /\ status'[admin'[q].sub] # admin'[q].from => MovedOn(q)'
              /\ \A d \in since'[q] :
                   [sub |-> admin'[q].sub, action |-> "status_changed",
                    old |-> d.old, new |-> d.new] \in audited'
        BY DEF OvertakenIsWitnessed
  <2>2. q # p /\ admin'[q] = admin[q] /\ admin[q] \in AdminReq
        BY <2>1 DEF UpdateStatus
  <2>3. CASE admin[q].sub = r.sub /\ c.old # c.new
    <3> HIDE DEF c
    <3>1. since'[q] = since[q] \cup {c}
          BY <1>3, <2>1, <2>2, <2>3 DEF Overtaken
    <3>2. \E d \in since'[q] : d.new = status'[admin'[q].sub]
          BY <1>0, <1>1, <2>2, <2>3, <3>1
    <3>3. \E d \in since'[q] : d.old = admin'[q].from
      <4>1. CASE status[r.sub] = admin[q].from
            BY <1>0, <2>2, <3>1, <4>1
      <4>2. CASE status[r.sub] # admin[q].from
            BY <2>1, <2>2, <2>3, <3>1, <4>2 DEF OvertakenIsWitnessed, MovedOn
      <4> QED BY <4>1, <4>2
    <3>4. \A d \in since'[q] :
            [sub |-> admin'[q].sub, action |-> "status_changed",
             old |-> d.old, new |-> d.new] \in audited'
          BY <1>5, <2>1, <2>2, <2>3, <3>1 DEF OvertakenIsWitnessed
    <3> QED BY <3>2, <3>3, <3>4 DEF MovedOn
  <2>4. CASE admin[q].sub # r.sub \/ c.old = c.new
    <3>1. since'[q] = since[q]
          BY <1>3, <2>2, <2>4 DEF Overtaken
    <3>2. status'[admin[q].sub] = status[admin[q].sub]
          BY <1>1, <2>2, <2>4 DEF UpdateStatus, AdminReq
    <3> QED BY <1>5, <2>1, <2>2, <3>1, <3>2, WitnessKept
  <2> QED BY <2>3, <2>4
<1> QED BY <1>4, <1>6

\* Every step of the service preserves the inductive invariant; the row of a
\* request in flight exists because no step deletes a row.
LEMMA SubInvStep == SubInv /\ [SubNext]_subVars => SubInv'
<1> SUFFICES ASSUME SubInv, [SubNext]_subVars PROVE SubInv'
    OBVIOUS
<1> USE DEF SubInv, SubTypeOK, RowsHavePlans
<1>1. CASE \E s \in Subs, pl \in Plans : CreateSubscription(s, pl)
  <2>1. PICK s \in Subs, pl \in Plans : CreateSubscription(s, pl)
        BY <1>1
  <2>2. SubTypeOK' /\ RowsHavePlans'
        BY <2>1 DEF CreateSubscription, Statuses
  <2>3. ASSUME NEW p \in Admins, admin'[p] # NoReq
        PROVE  /\ admin'[p] = admin[p] /\ admin[p] \in AdminReq
               /\ admin[p].sub \in Subs /\ admin[p].sub # s
               /\ status'[admin[p].sub] = status[admin[p].sub]
        BY <2>1, <2>3 DEF CreateSubscription, AdminReq, InFlightRowExists
  <2>4. InFlightRowExists'
        BY <2>1, <2>3 DEF CreateSubscription, InFlightRowExists
  <2>5. audited' = audited /\ since' = since
        BY <2>1 DEF CreateSubscription
  <2>6. OvertakenIsWitnessed'
        BY <2>3, <2>5, WitnessKept DEF OvertakenIsWitnessed
  <2> QED BY <2>2, <2>4, <2>6
<1>2. CASE \E p \in Admins, s \in Subs, to \in Targets :
              ReadForTransition(p, s, to)
  <2>1. PICK p \in Admins, s \in Subs, to \in Targets :
              ReadForTransition(p, s, to)
        BY <1>2
  <2>2. status[s] \in Statuses /\ CanTransition(status[s], to)
        BY <2>1 DEF ReadForTransition, CanTransition
  <2>3. [sub |-> s, from |-> status[s], to |-> to] \in AdminReq
        BY <2>2 DEF AdminReq
  <2>4. SubTypeOK'
        BY <2>1, <2>3 DEF ReadForTransition
  <2>5. InFlightRowExists'
    <3>1. status[s] # "absent"
          BY <2>2 DEF Statuses
    <3> QED BY <2>1, <2>2, <2>3, <3>1
            DEF ReadForTransition, InFlightRowExists
  <2>6. OvertakenIsWitnessed'
    <3>1. /\ admin'[p] = [sub |-> s, from |-> status[s], to |-> to]
          /\ since'[p] = {} /\ status' = status /\ audited' = audited
          BY <2>1 DEF ReadForTransition
    <3>2. ASSUME NEW q \in Admins, q # p, admin'[q] # NoReq
          PROVE  admin'[q] = admin[q] /\ since'[q] = since[q]
          BY <2>1, <3>2 DEF ReadForTransition
    <3> QED BY <3>1, <3>2, WitnessKept DEF OvertakenIsWitnessed
  <2> QED BY <2>1, <2>4, <2>5, <2>6 DEF ReadForTransition
<1>3. CASE \E p \in Admins : UpdateStatus(p)
  <2>1. PICK p \in Admins : UpdateStatus(p)
        BY <1>3
  <2> DEFINE r == admin[p]
  <2>2. r \in AdminReq /\ status[r.sub] # "absent"
        BY <2>1 DEF UpdateStatus, InFlightRowExists
  <2>3. r.sub \in Subs /\ r.to \in Statuses /\ r.to # "absent"
        BY <2>2 DEF AdminReq, Targets, Statuses
  <2>4. status' \in [Subs -> Statuses \cup {"absent"}]
        BY <2>1, <2>3 DEF UpdateStatus
  <2>5. admin' \in [Admins -> AdminReq \cup {NoReq}] /\ plan' = plan
        BY <2>1 DEF UpdateStatus
  <2>6. audited' \subseteq AuditRow
    <3>1. status[r.sub] \in Statuses /\ status'[r.sub] \in Statuses
          BY <2>1, <2>2, <2>3 DEF UpdateStatus
    <3> QED BY <2>1, <2>3, <3>1
            DEF UpdateStatus, LogSubscriptionChanges, AuditRow
  <2>7. InFlightRowExists'
        BY <2>1, <2>3 DEF UpdateStatus, InFlightRowExists, AdminReq
  <2>8. RowsHavePlans'
        BY <2>1, <2>2, <2>3, <2>5 DEF UpdateStatus
  <2>9. since' \in [Admins -> SUBSET Change] /\ OvertakenIsWitnessed'
        BY <2>1, UpdateWitnessed
  <2> QED BY <2>4, <2>5, <2>6, <2>7, <2>8, <2>9
<1>4. CASE \E p \in Admins : UpdateFails(p)
  <2>1. PICK p \in Admins : UpdateFails(p)
        BY <1>4
  <2>2. SubTypeOK' /\ InFlightRowExists' /\ RowsHavePlans'
        BY <2>1 DEF UpdateFails, InFlightRowExists
  <2>3. ASSUME NEW q \in Admins, admin'[q] # NoReq
        PROVE  admin'[q] = admin[q] /\ since'[q] = since[q]
        BY <2>1, <2>3 DEF UpdateFails
  <2>4. OvertakenIsWitnessed'
        BY <2>1, <2>3, WitnessKept DEF UpdateFails, OvertakenIsWitnessed
  <2> QED BY <2>2, <2>4
<1>5. CASE \E s \in Subs, pl \in Plans : ChangePlan(s, pl)
  <2>1. PICK s \in Subs, pl \in Plans : ChangePlan(s, pl)
        BY <1>5
  <2>2. SubTypeOK' /\ RowsHavePlans' /\ InFlightRowExists'
        BY <2>1 DEF ChangePlan, LogSubscriptionChanges, AuditRow,
                    InFlightRowExists
  <2>3. audited \subseteq audited'
        BY <2>1, TriggerLogs DEF ChangePlan
  <2>4. UNCHANGED <<status, admin, since>>
        BY <2>1 DEF ChangePlan
  <2>5. OvertakenIsWitnessed'
        BY <2>3, <2>4, WitnessKept DEF OvertakenIsWitnessed
  <2> QED BY <2>2, <2>5
<1>6. CASE UNCHANGED subVars
  <2>1. SubTypeOK' /\ InFlightRowExists' /\ RowsHavePlans'
        BY <1>6 DEF subVars, InFlightRowExists
  <2>2. OvertakenIsWitnessed'
        BY <1>6, WitnessKept DEF subVars, OvertakenIsWitnessed
  <2> QED BY <2>1, <2>2
<1> QED BY <1>1, <1>2, <1>3, <1>4, <1>5, <1>6 DEF SubNext

\* A status change that the table does not allow is written by a request
\* whose row was moved on: only UpdateStatus changes the status of a row that
\* exists, and what it had read led legally to what it writes.
LEMMA OvertakenStep ==
  ASSUME SubInv, SubNext, NEW s \in Subs, status[s] \in Statuses,
         status'[s] # status[s], ~ CanTransition(status[s], status'[s])
  PROVE  \E p \in Admins : WritesChecked(p, s) /\ MovedOn(p)
<1> USE DEF SubInv, SubTypeOK
<1>1. CASE \E p \in Admins : UpdateStatus(p)
  <2>1. PICK p \in Admins : UpdateStatus(p)
        BY <1>1
  <2>2. /\ admin[p] \in AdminReq /\ admin[p] # NoReq /\ admin'[p] = NoReq
        /\ CanTransition(admin[p].from, admin[p].to)
        BY <2>1 DEF UpdateStatus, InFlightRowExists
  <2>3. admin[p].sub = s /\ admin[p].to = status'[s]
        BY <2>1, <2>2 DEF UpdateStatus, AdminReq
  <2>4. status[s] # admin[p].from
        BY <2>2, <2>3
  <2>5. MovedOn(p)
        BY <2>2, <2>3, <2>4 DEF OvertakenIsWitnessed
  <2> QED BY <2>2, <2>3, <2>5 DEF WritesChecked
<1>2. CASE \E t \in Subs, pl \in Plans : CreateSubscription(t, pl)
  <2>1. PICK t \in Subs, pl \in Plans : CreateSubscription(t, pl)
        BY <1>2
  <2>2. t # s
        BY <2>1 DEF CreateSubscription, Statuses
  <2> QED BY <2>1, <2>2 DEF CreateSubscription
<1>3. CASE \/ \E p \in Admins, t \in Subs, to \in Targets :
                ReadForTransition(p, t, to)
           \/ \E p \in Admins : UpdateFails(p)
           \/ \E t \in Subs, pl \in Plans : ChangePlan(t, pl)
      BY <1>3 DEF ReadForTransition, UpdateFails, ChangePlan
<1> QED BY <1>1, <1>2, <1>3 DEF SubNext

\* A settled cancellation survives every step: no request in flight can write
\* the row, and CanTransition("cancelled", to) refuses every new request.
LEMMA SettledStep ==
  ASSUME SubInv, [SubNext]_subVars, NEW s \in Subs, Settled(s)
  PROVE  Settled(s)'
<1> USE DEF SubInv, SubTypeOK, Settled, InFlight
<1>1. CASE \E t \in Subs, pl \in Plans : CreateSubscription(t, pl)
      BY <1>1 DEF CreateSubscription
<1>2. CASE \E p \in Admins, t \in Subs, to \in Targets :
              ReadForTransition(p, t, to)
  <2>1. PICK p \in Admins, t \in Subs, to \in Targets :
              ReadForTransition(p, t, to)
        BY <1>2
  <2>2. ~ CanTransition("cancelled", to)
        BY DEF CanTransition, StatusTransitions
  <2>3. t # s
        BY <2>1, <2>2 DEF ReadForTransition
  <2> QED BY <2>1, <2>3 DEF ReadForTransition
<1>3. CASE \E p \in Admins : UpdateStatus(p)
      BY <1>3 DEF UpdateStatus, AdminReq
<1>4. CASE \E p \in Admins : UpdateFails(p)
      BY <1>4 DEF UpdateFails
<1>5. CASE \E t \in Subs, pl \in Plans : ChangePlan(t, pl)
      BY <1>5 DEF ChangePlan
<1>6. CASE UNCHANGED subVars
      BY <1>6 DEF subVars
<1> QED BY <1>1, <1>2, <1>3, <1>4, <1>5, <1>6 DEF SubNext

-----------------------------------------------------------------------------
\* The subscription service keeps its types and the rows its requests read
\* (UpdateStatus, ReadForTransition: nothing deletes a row).
THEOREM SubInvariant == SubSpec => []SubInv
<1>1. SubInit => SubInv
      BY SubInvInit
<1>2. SubInv /\ [SubNext]_subVars => SubInv'
      BY SubInvStep
<1> QED BY <1>1, <1>2, PTL DEF SubSpec

\* A status is moved against the table StatusTransitions only by a request
\* that other requests have overtaken between its check and its unconditional
\* UPDATE (UpdateStatus); what they wrote in between is in the audit log.
THEOREM OvertakenOnly == SubSpec => IllegalMeansOvertaken
<1> DEFINE Act ==
      \A s \in Subs :
        /\ status[s] \in Statuses
        /\ status'[s] # status[s]
        /\ ~ CanTransition(status[s], status'[s])
        => \E p \in Admins : WritesChecked(p, s) /\ MovedOn(p)
<1>1. SubInv /\ [SubNext]_subVars => [Act]_subVars
      BY OvertakenStep
<1>2. SubSpec => [][Act]_subVars
      BY <1>1, SubInvariant, PTL DEF SubSpec
<1> QED BY <1>2 DEF IllegalMeansOvertaken

\* Once the requests in flight are gone, a cancellation is final: the
\* unconditional UPDATE of UpdateStatus can undo it only from before.
THEOREM CancelIsFinal == SubSpec => CancelSettles
<1>1. SubInv /\ [SubNext]_subVars =>
        [\A s \in Subs : Settled(s) => Settled(s)']_subVars
      BY SettledStep
<1> QED BY <1>1, SubInvariant, PTL DEF SubSpec, CancelSettles

-----------------------------------------------------------------------------
(* API keys.                                                               *)

\* No step of the subscription service removes a row.
LEMMA RowsStay ==
  ASSUME SubInv, SubNext, NEW s \in Subs, status[s] # "absent"
  PROVE  status'[s] # "absent"
BY DEF SubInv, SubTypeOK, SubNext, CreateSubscription, ReadForTransition,
       UpdateStatus, UpdateFails, ChangePlan, AdminReq, Targets

\* The empty tables satisfy the inductive invariant.
LEMMA KeyInvInit == Init => KeyInv
<1> SUFFICES ASSUME Init PROVE KeyInv
    OBVIOUS
<1>1. SubInv
      BY SubInvInit DEF Init
<1> QED BY <1>1, NonesAssumption
    DEF Init, KeyInv, TypeOK, SubInv, KeyStatuses, Expiry, KeyRowsConsistent,
        VerifyConsistent, CacheHasProvenance

\* The steps of subscription administrators: keys and requests are untouched.
LEMMA SubStepInv == KeyInv /\ SubStep => KeyInv'
<1> SUFFICES ASSUME KeyInv, SubStep PROVE KeyInv'
    OBVIOUS
<1> USE DEF SubStep, KeyInv, keyVars, reqVars
<1>1. SubInv'
      BY SubInvStep
<1>2. TypeOK'
      BY <1>1 DEF TypeOK, SubInv
<1>3. KeyRowsConsistent'
      BY RowsStay DEF KeyRowsConsistent, TypeOK, CreateReq
<1>4. VerifyConsistent'
      BY DEF VerifyConsistent
<1>5. CacheHasProvenance'
      BY RowsStay, NonesAssumption
      DEF CacheHasProvenance, KeyRowsConsistent, TypeOK
<1> QED BY <1>1, <1>2, <1>3, <1>4, <1>5

\* The three statements of APIKeyService.Create, RevokeByID and expiry.
LEMMA KeyRowStepInv ==
  ASSUME KeyInv,
         \/ \E c \in Creators : CreateStep(c)
         \/ \E k \in Keys : RevokeByID(k) \/ PassExpiry(k)
  PROVE  KeyInv'
<1> USE DEF KeyInv
<1>1. SubInv' /\ UNCHANGED <<subVars, reqVars, cache>>
  <2>1. UNCHANGED <<subVars, reqVars, cache>>
        BY DEF CreateStep, CreateReadSub, CreateCount, CreateInsert,
               CreateFails, RevokeByID, PassExpiry
  <2> QED BY <2>1, SubInvStep DEF subVars
<1> USE DEF subVars, reqVars
<1>2. ASSUME NEW c \in Creators, CreateStep(c) PROVE KeyInv'
  <2>1. CASE \E s \in Subs : CreateReadSub(c, s)
    <3>1. PICK s \in Subs : CreateReadSub(c, s)
          BY <2>1
    <3>2. [pc |-> "count", sub |-> s, plan |-> plan[s]] \in CreateReq
          /\ plan[s] \in Plans
          BY <3>1 DEF CreateReadSub, SubUsable, CreateReq, SubInv, RowsHavePlans
    <3> QED BY <1>1, <3>1, <3>2
        DEF CreateReadSub, SubUsable, TypeOK, SubInv, KeyRowsConsistent,
            VerifyConsistent, CacheHasProvenance
  <2>2. CASE CreateCount(c)
    <3>1. creator[c] \in CreateReq
          BY <2>2 DEF CreateCount, TypeOK
    <3>2. [creator[c] EXCEPT !.pc = "insert"] \in CreateReq
          /\ [creator[c] EXCEPT !.pc = "insert"].sub = creator[c].sub
          /\ [creator[c] EXCEPT !.pc = "insert"].plan = creator[c].plan
          BY <3>1 DEF CreateReq
    <3> QED BY <1>1, <2>2, <3>2
        DEF CreateCount, TypeOK, SubInv, KeyRowsConsistent,
            VerifyConsistent, CacheHasProvenance
  <2>3. CASE \E k \in Keys, e \in Expiry : CreateInsert(c, k, e)
    <3>1. PICK k \in Keys, e \in Expiry : CreateInsert(c, k, e)
          BY <2>3
    <3>2. creator[c].sub \in Subs /\ status[creator[c].sub] # "absent"
          BY <3>1 DEF CreateInsert, KeyRowsConsistent, TypeOK, CreateReq
    <3>3. TypeOK'
          BY <1>1, <3>1, <3>2 DEF CreateInsert, TypeOK, SubInv, KeyStatuses
    <3>4. KeyRowsConsistent'
          BY <1>1, <3>1, <3>2 DEF CreateInsert, KeyRowsConsistent, TypeOK
    <3>5. VerifyConsistent'
          BY <1>1, <3>1 DEF CreateInsert, VerifyConsistent, TypeOK
    <3>6. CacheHasProvenance'
          BY <1>1, <3>1, NonesAssumption
          DEF CreateInsert, CacheHasProvenance, TypeOK, FillJob
    <3> QED BY <1>1, <3>3, <3>4, <3>5, <3>6
  <2>4. CASE CreateFails(c)
        BY <1>1, <2>4
        DEF CreateFails, TypeOK, SubInv, KeyRowsConsistent,
            VerifyConsistent, CacheHasProvenance
  <2> QED BY <1>2, <2>1, <2>2, <2>3, <2>4 DEF CreateStep
<1>3. ASSUME NEW k \in Keys, RevokeByID(k) PROVE KeyInv'
      BY <1>1, <1>3
      DEF RevokeByID, TypeOK, SubInv, KeyStatuses, KeyRowsConsistent,
          VerifyConsistent, CacheHasProvenance, FillJob
<1>4. ASSUME NEW k \in Keys, PassExpiry(k) PROVE KeyInv'
      BY <1>1, <1>4
      DEF PassExpiry, TypeOK, SubInv, Expiry, KeyRowsConsistent,
          VerifyConsistent, CacheHasProvenance
<1> QED BY <1>2, <1>3, <1>4

\* The statements of a request: the gateway's and the service's.  Only the
\* last one, VerifySub, creates a goroutine, for a key it has read as active.
LEMMA RequestStepInv ==
  ASSUME KeyInv, NEW r \in Requests, GatewayStep(r) \/ VerifyStep(r)
  PROVE  KeyInv'
<1> USE DEF KeyInv
<1>1. UNCHANGED <<subVars, keyVars>>
      BY DEF GatewayStep, VerifyStep, GatewayHit, GatewayMiss, GatewayTimeout,
             GatewayDone, VerifyHit, VerifyMiss, VerifyKey, VerifySub,
             VerifyError
<1>2. SubInv' /\ KeyRowsConsistent'
      BY <1>1, SubInvStep DEF subVars, keyVars, KeyRowsConsistent
<1>3. CacheVerdict(cache[rkey[r]]) \in {"accept", "deny"}
      /\ OnFailure \in {"accept", "deny"}
      BY DEF CacheVerdict, OnFailure
<1> USE DEF subVars, keyVars, Answer
<1>4. CASE GatewayStep(r)
  <2>1. ASSUME NEW k \in Keys, GatewayHit(r, k) \/ GatewayMiss(r, k)
        PROVE  KeyInv'
    <3>1. CacheVerdict(cache[k]) \in {"accept", "deny"}
          BY DEF CacheVerdict
    <3>2. TypeOK'
          BY <1>1, <1>2, <2>1, <3>1
          DEF TypeOK, SubInv, GatewayHit, GatewayMiss
    <3>3. VerifyConsistent' /\ CacheHasProvenance'
          BY <1>1, <2>1 DEF GatewayHit, GatewayMiss, TypeOK,
                            VerifyConsistent, CacheHasProvenance
    <3> QED BY <1>2, <3>2, <3>3
  <2>2. CASE GatewayTimeout(r) \/ GatewayDone(r)
        BY <1>1, <1>2, <1>3, <2>2
        DEF GatewayTimeout, GatewayDone, TypeOK, SubInv, VerifyConsistent,
            CacheHasProvenance
  <2> QED BY <1>4, <2>1, <2>2 DEF GatewayStep
<1>5. CASE VerifyHit(r) \/ VerifyMiss(r) \/ VerifyError(r)
  <2>1. TypeOK'
        BY <1>1, <1>2, <1>3, <1>5
        DEF VerifyHit, VerifyMiss, VerifyError, TypeOK, SubInv
  <2>2. VerifyConsistent' /\ CacheHasProvenance'
        BY <1>1, <1>5 DEF VerifyHit, VerifyMiss, VerifyError, TypeOK,
                          VerifyConsistent, CacheHasProvenance
  <2> QED BY <1>2, <2>1, <2>2
<1>6. CASE VerifyKey(r)
  <2>1. rkey[r] \in Keys
        BY <1>6 DEF VerifyKey, VerifyConsistent
  <2>2. TypeOK'
        BY <1>1, <1>2, <1>6, <2>1
        DEF VerifyKey, KeyUsable, KeyStatuses, TypeOK, SubInv
  <2>3. VerifyConsistent' /\ CacheHasProvenance'
        BY <1>1, <1>6, <2>1 DEF VerifyKey, KeyUsable, TypeOK,
                                VerifyConsistent, CacheHasProvenance
  <2> QED BY <1>2, <2>2, <2>3
<1>7. CASE VerifySub(r)
  <2> DEFINE s == keySub[rkey[r]]
             job == [key |-> rkey[r], status |-> rstatus[r], plan |-> plan[s]]
  <2>1. /\ rkey[r] \in Keys /\ keyStatus[rkey[r]] # "absent"
        /\ rstatus[r] = "active"
        /\ s \in Subs /\ plan[s] \in Plans
        BY <1>7 DEF VerifySub, VerifyConsistent, KeyRowsConsistent, SubInv,
                    RowsHavePlans
  <2>2. job \in FillJob /\ job.key = rkey[r] /\ job.status = "active"
        /\ job.plan \in Plans
        BY <2>1 DEF FillJob, KeyStatuses
  <2>3. fill' = fill \/ fill' = [fill EXCEPT ![r] = job]
        BY <1>7 DEF VerifySub
  <2> HIDE DEF job
  <2>4. TypeOK'
        BY <1>1, <1>2, <1>7, <2>2, <2>3 DEF VerifySub, TypeOK, SubInv
  <2>5. VerifyConsistent'
        BY <1>1, <1>7 DEF VerifySub, TypeOK, VerifyConsistent
  <2>6. CacheHasProvenance'
        BY <1>1, <2>1, <2>2, <2>3 DEF TypeOK, CacheHasProvenance
  <2> QED BY <1>2, <2>4, <2>5, <2>6
<1> QED BY <1>4, <1>5, <1>6, <1>7 DEF VerifyStep

\* The goroutine that writes Redis (whole, torn or failing) and the clock.
LEMMA CacheStepInv ==
  ASSUME KeyInv, (\E r \in Requests : FillStep(r)) \/ Tick
  PROVE  KeyInv'
<1> USE DEF KeyInv
<1>1. UNCHANGED <<subVars, keyStatus, keySub, expiry, creator,
                  gw, svc, rkey, rstatus>>
      BY DEF FillStep, FillCache, FillTorn, FillFails, Tick, keyVars, reqVars
<1>2. SubInv' /\ KeyRowsConsistent' /\ VerifyConsistent'
      BY <1>1, SubInvStep DEF subVars, KeyRowsConsistent, VerifyConsistent
<1> USE DEF subVars
<1>3. ASSUME NEW r \in Requests, FillCache(r) \/ FillTorn(r)
      PROVE  KeyInv'
  <2> DEFINE f == fill[r]
  <2>1. /\ f # NoFill /\ f \in FillJob /\ f.key \in Keys
        /\ f.status = "active" /\ f.plan \in Plans
        /\ keyStatus[f.key] # "absent"
        BY <1>3 DEF FillCache, FillTorn, TypeOK, FillJob, CacheHasProvenance
  <2>2. status[keySub[f.key]] # "absent"
        BY <2>1 DEF KeyRowsConsistent
  <2>3. PICK t \in 0..TTL :
           cache' = [cache EXCEPT ![f.key] =
                       [status |-> f.status, plan |-> f.plan, ttl |-> t]]
    <3>1. TTL \in 0..TTL /\ 0 \in 0..TTL
          BY TTLAssumption
    <3>2. cache[f.key] # NoEntry => cache[f.key].ttl \in 0..TTL
          BY <2>1 DEF TypeOK, CacheEntry
    <3>3. CASE FillCache(r)
          BY <3>1, <3>3 DEF FillCache
    <3>4. CASE FillTorn(r) /\ cache[f.key] = NoEntry
          BY <3>1, <3>4 DEF FillTorn
    <3>5. CASE FillTorn(r) /\ cache[f.key] # NoEntry
          BY <3>2, <3>5 DEF FillTorn
    <3> QED BY <1>3, <3>3, <3>4, <3>5
  <2> DEFINE e == [status |-> f.status, plan |-> f.plan, ttl |-> t]
  <2>4. e \in CacheEntry /\ e.status = "active" /\ e.plan \in Plans
        BY <2>1 DEF CacheEntry, KeyStatuses
  <2>5. fill' = [fill EXCEPT ![r] = NoFill]
        BY <1>3 DEF FillCache, FillTorn
  <2>6. cache' = [cache EXCEPT ![f.key] = e]
        BY <2>3
  <2> HIDE DEF e
  <2>7. TypeOK'
        BY <1>1, <1>2, <2>1, <2>4, <2>5, <2>6 DEF TypeOK, SubInv
  <2>8. CacheHasProvenance'
        BY <1>1, <2>1, <2>2, <2>4, <2>5, <2>6 DEF TypeOK, CacheHasProvenance
  <2> QED BY <1>2, <2>7, <2>8
<1>4. ASSUME NEW r \in Requests, FillFails(r) PROVE KeyInv'
      BY <1>1, <1>2, <1>4
      DEF FillFails, keyVars, TypeOK, SubInv, CacheHasProvenance
<1>5. CASE Tick
  <2>1. ASSUME NEW k \in Keys
        PROVE  /\ Aged(cache[k]) \in CacheEntry \cup {NoEntry}
               /\ Aged(cache[k]) # NoEntry =>
                    /\ cache[k] # NoEntry
                    /\ Aged(cache[k]).status = cache[k].status
                    /\ Aged(cache[k]).plan = cache[k].plan
    <3>1. CASE cache[k] = NoEntry
          BY <3>1 DEF Aged
    <3>2. CASE cache[k] # NoEntry
      <4>1. cache[k] \in CacheEntry /\ cache[k].ttl \in 0..TTL
            BY <3>2 DEF TypeOK, CacheEntry
      <4>2. CASE cache[k].ttl = 0
            BY <3>2, <4>1, <4>2 DEF Aged
      <4>3. CASE cache[k].ttl = 1
            BY <3>2, <4>1, <4>3 DEF Aged
      <4>4. CASE cache[k].ttl > 1
        <5>1. cache[k].ttl - 1 \in 0..TTL
              BY <4>1, <4>4, TTLAssumption
        <5>2. Aged(cache[k]) = [cache[k] EXCEPT !.ttl = cache[k].ttl - 1]
              BY <3>2, <4>1, <4>4 DEF Aged
        <5> QED BY <3>2, <4>1, <5>1, <5>2 DEF CacheEntry
      <4> QED BY <4>1, <4>2, <4>3, <4>4, TTLAssumption
    <3> QED BY <3>1, <3>2
  <2>2. cache' = [k \in Keys |-> Aged(cache[k])] /\ fill' = fill
        BY <1>5 DEF Tick, reqVars
  <2>3. TypeOK'
        BY <1>1, <1>2, <2>1, <2>2 DEF TypeOK, SubInv
  <2>4. CacheHasProvenance'
        BY <1>1, <2>1, <2>2 DEF CacheHasProvenance
  <2> QED BY <1>2, <2>3, <2>4
<1> QED BY <1>3, <1>4, <1>5 DEF FillStep

\* One step of any actor preserves the inductive invariant.
LEMMA KeyInvStep == KeyInv /\ [Next]_vars => KeyInv'
<1> SUFFICES ASSUME KeyInv, [Next]_vars PROVE KeyInv'
    OBVIOUS
<1>1. CASE UNCHANGED vars
  <2>1. SubInv'
        BY <1>1, SubInvStep DEF vars, subVars, KeyInv
  <2> QED BY <1>1, <2>1
      DEF KeyInv, vars, subVars, keyVars, reqVars, TypeOK, SubInv,
          KeyRowsConsistent, VerifyConsistent, CacheHasProvenance
<1> QED BY <1>1, SubStepInv, KeyRowStepInv, RequestStepInv, CacheStepInv
    DEF Next

\* Whatever interleaves, a Redis entry or a goroutine about to write one
\* vouches for a key row that exists, read as active, with a real plan.
THEOREM KeyInvariant == Spec => []KeyInv
<1> QED BY KeyInvInit, KeyInvStep, PTL DEF Spec

-----------------------------------------------------------------------------
\* Subscription administrators cannot revive a key: a settled cancellation is
\* final (SettledStep), and they touch neither keys, Redis nor requests.
LEMMA DeadSubStep ==
  ASSUME KeyInv, NEW k \in Keys, Dead(k), SubStep
  PROVE  Dead(k)' /\ \A r \in Requests : ~ Accepts(r, k)
<1>1. \A s \in Subs : Settled(s) => Settled(s)'
      BY SettledStep DEF KeyInv, SubStep
<1>2. keySub[k] # NoSub => keySub[k] \in Subs
      BY DEF KeyInv, TypeOK
<1>3. UNCHANGED <<keyVars, reqVars>>
      BY DEF SubStep
<1> QED BY <1>1, <1>2, <1>3 DEF Dead, Accepts, keyVars, reqVars

\* Creating, revoking and expiring keys: a dead key has a row, so no INSERT
\* reuses it, and neither revocation nor expiry is ever undone.
LEMMA DeadRowStep ==
  ASSUME KeyInv, NEW k \in Keys, Dead(k),
         \/ \E c \in Creators : CreateStep(c)
         \/ \E j \in Keys : RevokeByID(j) \/ PassExpiry(j)
  PROVE  Dead(k)' /\ \A r \in Requests : ~ Accepts(r, k)
<1>1. UNCHANGED <<subVars, reqVars, cache>>
      BY DEF CreateStep, CreateReadSub, CreateCount, CreateInsert,
             CreateFails, RevokeByID, PassExpiry
<1>2. keyStatus[k] # "absent"
      BY DEF Dead, KeyInv, KeyRowsConsistent
<1>3. /\ keySub'[k] = keySub[k] /\ keyStatus'[k] # "absent"
      /\ keyStatus[k] = "revoked" => keyStatus'[k] = "revoked"
      /\ expiry[k] = "past" => expiry'[k] = "past"
      BY <1>2 DEF CreateStep, CreateReadSub, CreateCount, CreateInsert,
             CreateFails, RevokeByID, PassExpiry, KeyInv, TypeOK
<1>4. \A s \in Subs : Settled(s)' <=> Settled(s)
      BY <1>1 DEF Settled, InFlight, subVars
<1>5. keySub[k] \in Subs
      BY <1>2 DEF KeyInv, KeyRowsConsistent
<1> QED BY <1>1, <1>2, <1>3, <1>4, <1>5 DEF Dead, Accepts, reqVars

\* Requests: Redis has no entry to hit, KeyUsable refuses a revoked or expired
\* row, GetActiveByID a cancelled subscription; only fail_open lets one pass.
LEMMA DeadRequestStep ==
  ASSUME KeyInv, NEW k \in Keys, Dead(k),
         NEW r \in Requests, GatewayStep(r) \/ VerifyStep(r)
  PROVE  Dead(k)' /\ \A q \in Requests : Accepts(q, k) => FailOpen
<1> USE DEF KeyInv, TypeOK
<1>1. UNCHANGED <<subVars, keyVars>>
      BY DEF GatewayStep, VerifyStep, GatewayHit, GatewayMiss, GatewayTimeout,
             GatewayDone, VerifyHit, VerifyMiss, VerifyKey, VerifySub,
             VerifyError
<1>2. keyStatus[k] # "absent" /\ keySub[k] \in Subs /\ cache[k] = NoEntry
      BY DEF Dead, KeyRowsConsistent
<1>3. \A s \in Subs : Settled(s)' <=> Settled(s)
      BY <1>1 DEF Settled, InFlight, subVars
<1> DEFINE Gone == keyStatus[k] = "revoked" \/ expiry[k] = "past"
           NoneReading == \A q \in Requests : svc[q] = "sub" => rkey[q] # k
           NoFillOf == \A q \in Requests : fill[q] # NoFill => fill[q].key # k
<1>4. NoFillOf /\ (Settled(keySub[k]) \/ (Gone /\ NoneReading))
      BY DEF Dead
<1>5. SUFFICES /\ NoFillOf'
               /\ (Gone /\ NoneReading) => NoneReading'
               /\ \A q \in Requests : Accepts(q, k) => FailOpen
      BY <1>1, <1>2, <1>3, <1>4 DEF Dead, keyVars
<1>6. CASE \E j \in Keys : GatewayHit(r, j) \/ GatewayMiss(r, j)
      BY <1>2, <1>4, <1>6 DEF GatewayHit, GatewayMiss, Accepts
<1>7. CASE GatewayTimeout(r) \/ GatewayDone(r)
      BY <1>4, <1>7 DEF GatewayTimeout, GatewayDone, OnFailure, Accepts
<1>8. CASE VerifyHit(r) \/ VerifyMiss(r) \/ VerifyError(r)
      BY <1>2, <1>4, <1>8
      DEF VerifyHit, VerifyMiss, VerifyError, Answer, OnFailure, Accepts
<1>9. CASE VerifyKey(r)
      BY <1>4, <1>9 DEF VerifyKey, KeyUsable, Answer, Accepts
<1>10. CASE VerifySub(r)
  <2>1. rkey[r] = k => status[keySub[k]] # "active"
        BY <1>4, <1>10 DEF VerifySub, SubUsable, Settled
  <2> QED BY <1>4, <1>10, <2>1 DEF VerifySub, SubUsable, Answer, Accepts, FillJob
<1> QED BY <1>6, <1>7, <1>8, <1>9, <1>10 DEF GatewayStep, VerifyStep

\* The goroutines still running are not for a dead key, and time only removes
\* entries.
LEMMA DeadCacheStep ==
  ASSUME KeyInv, NEW k \in Keys, Dead(k),
         (\E r \in Requests : FillStep(r)) \/ Tick
  PROVE  Dead(k)' /\ \A r \in Requests : ~ Accepts(r, k)
<1> USE DEF KeyInv, TypeOK
<1>1. UNCHANGED <<subVars, keyStatus, keySub, expiry, gw, svc, rkey>>
      BY DEF FillStep, FillCache, FillTorn, FillFails, Tick, keyVars, reqVars
<1>2. \A s \in Subs : Settled(s)' <=> Settled(s)
      BY <1>1 DEF Settled, InFlight, subVars
<1>3. cache'[k] = NoEntry
      BY DEF FillStep, FillCache, FillTorn, FillFails, Tick, Aged, Dead,
             keyVars, FillJob
<1>4. \A r \in Requests : fill'[r] # NoFill => fill'[r].key # k
      BY DEF FillStep, FillCache, FillTorn, FillFails, Tick, reqVars, Dead
<1>5. keySub[k] \in Subs \cup {NoSub}
      OBVIOUS
<1> QED BY <1>1, <1>2, <1>3, <1>4, <1>5 DEF Dead, Accepts

\* A revoked or expired key, or one whose subscription is cancelled for good,
\* that has left Redis and the verifications in flight (Verify, SetKeyInfo)
\* never comes back, and no request is accepted on it unless fail_open is set.
THEOREM DeadForever == Spec => DeadKeysStayDead
<1>1. KeyInv /\ [Next]_vars =>
        [\A k \in Keys : Dead(k) =>
           /\ Dead(k)'
           /\ \A r \in Requests : Accepts(r, k) => FailOpen]_vars
  <2> SUFFICES ASSUME KeyInv, Next, NEW k \in Keys, Dead(k)
               PROVE  Dead(k)' /\ \A r \in Requests :
                                     Accepts(r, k) => FailOpen
      OBVIOUS
  <2> QED BY DeadSubStep, DeadRowStep, DeadRequestStep, DeadCacheStep
      DEF Next
<1> QED BY <1>1, KeyInvariant, PTL DEF Spec, DeadKeysStayDead
-----------------------------------------------------------------------------
\* The largest limit is a number no limit exceeds.
LEMMA LargestLimitBounds ==
  LargestLimit \in Int /\ \A pl \in Plans : MaxKeys[pl] <= LargestLimit
<1> DEFINE Largest(m) == \A pl \in Plans : MaxKeys[pl] <= m
<1>1. \E m \in {MaxKeys[pl] : pl \in Plans} : Largest(m)
      BY MaxKeysAssumption
<1>2. LargestLimit \in {MaxKeys[pl] : pl \in Plans} /\ Largest(LargestLimit)
      BY <1>1 DEF LargestLimit
<1> QED BY <1>2, MaxKeysAssumption

\* Creations between count and insert are some of the creations in flight.
LEMMA InsertingFinite ==
  ASSUME NEW s \in Subs
  PROVE  /\ IsFiniteSet(Inserting(s)) /\ Cardinality(Inserting(s)) \in Nat
         /\ Cardinality(Creators) \in Nat
         /\ Cardinality(Inserting(s)) <= Cardinality(Creators)
<1>1. Inserting(s) \in SUBSET Creators
      BY DEF Inserting
<1> QED BY <1>1, CreatorsAssumption, FS_Subset, FS_CardinalityType

\* Active keys are finitely many, and with the creations that have counted
\* they keep within the bound.
Counted(s) ==
  /\ IsFiniteSet(ActiveKeys(s))
  /\ Cardinality(ActiveKeys(s)) + Cardinality(Inserting(s))
       <= LargestLimit + Cardinality(Creators) - 1

\* A step that adds no active key and lets no creation past its count.
LEMMA CountedFewer ==
  ASSUME NEW s \in Subs, Counted(s),
         ActiveKeys(s)' \subseteq ActiveKeys(s),
         Inserting(s)' \subseteq Inserting(s)
  PROVE  Counted(s)'
<1>1. /\ IsFiniteSet(ActiveKeys(s)') /\ Cardinality(ActiveKeys(s)') \in Nat
      /\ Cardinality(ActiveKeys(s)) \in Nat
      /\ Cardinality(ActiveKeys(s)') <= Cardinality(ActiveKeys(s))
      BY FS_Subset, FS_CardinalityType DEF Counted
<1>2. /\ Cardinality(Inserting(s)') \in Nat /\ Cardinality(Inserting(s)) \in Nat
      /\ Cardinality(Inserting(s)') <= Cardinality(Inserting(s))
      BY InsertingFinite, FS_Subset, FS_CardinalityType
<1>3. LargestLimit \in Int /\ Cardinality(Creators) \in Nat
      BY LargestLimitBounds, InsertingFinite
<1> QED BY <1>1, <1>2, <1>3 DEF Counted

\* CreateCount passes only below a limit, and at most every creation passes.
LEMMA CountedCount ==
  ASSUME TypeOK, NEW c \in Creators, CreateCount(c), NEW s \in Subs, Counted(s),
         \A k \in Creators : creator[k] # NoReq => creator[k].plan \in Plans,
         \A pl \in Plans : MaxKeys[pl] > 0
  PROVE  Counted(s)'
<1>1. ActiveKeys(s)' = ActiveKeys(s)
      BY DEF CreateCount, ActiveKeys
<1>2. CASE Inserting(s)' \subseteq Inserting(s)
      BY <1>1, <1>2, CountedFewer
<1>3. CASE ~ (Inserting(s)' \subseteq Inserting(s))
  <2>1. creator[c].sub = s /\ BelowKeyLimit(s, creator[c].plan)
    <3>1. PICK d \in Creators : d \in Inserting(s)' /\ d \notin Inserting(s)
          BY <1>3 DEF Inserting
    <3>2. d = c
          BY <3>1 DEF Inserting, CreateCount, TypeOK
    <3>3. creator'[c] # NoReq /\ creator'[c].sub = s
          BY <3>1, <3>2 DEF Inserting
    <3>4. /\ BelowKeyLimit(creator[c].sub, creator[c].plan)
          /\ creator'[c] = [creator[c] EXCEPT !.pc = "insert"]
          BY <3>3 DEF CreateCount, TypeOK
    <3>5. creator[c] \in CreateReq
          BY DEF CreateCount, TypeOK
    <3>6. creator[c].sub = s
          BY <3>3, <3>4, <3>5 DEF CreateReq
    <3> QED BY <3>4, <3>6
  <2>2. creator[c].plan \in Plans
        BY DEF CreateCount
  <2>3. Cardinality(ActiveKeys(s)) < MaxKeys[creator[c].plan]
    <3>1. MaxKeys[creator[c].plan] \in Int /\ MaxKeys[creator[c].plan] > 0
          BY <2>2, MaxKeysAssumption
    <3> QED BY <2>1, <3>1 DEF BelowKeyLimit
  <2>4. /\ MaxKeys[creator[c].plan] \in Int /\ LargestLimit \in Int
        /\ MaxKeys[creator[c].plan] <= LargestLimit
        BY <2>2, LargestLimitBounds, MaxKeysAssumption
  <2>5. IsFiniteSet(ActiveKeys(s)) /\ Cardinality(ActiveKeys(s)) \in Nat
        BY FS_CardinalityType DEF Counted
  <2>6. /\ Cardinality(Inserting(s)') \in Nat /\ Cardinality(Creators) \in Nat
        /\ Cardinality(Inserting(s)') <= Cardinality(Creators)
    <3>1. Inserting(s)' \in SUBSET Creators
          BY DEF Inserting
    <3> QED BY <3>1, CreatorsAssumption, FS_Subset, FS_CardinalityType
  <2> QED BY <1>1, <2>3, <2>4, <2>5, <2>6 DEF Counted
<1> QED BY <1>2, <1>3

\* CreateInsert turns a creation that has counted into one more key.
LEMMA CountedInsert ==
  ASSUME TypeOK, NEW c \in Creators, NEW k \in Keys, NEW e \in Expiry,
         CreateInsert(c, k, e), NEW s \in Subs, Counted(s)
  PROVE  Counted(s)'
<1> USE DEF TypeOK
<1>1. CASE creator[c].sub # s
  <2>1. ActiveKeys(s)' \subseteq ActiveKeys(s) /\ Inserting(s)' \subseteq Inserting(s)
        BY <1>1 DEF CreateInsert, ActiveKeys, Inserting
  <2> QED BY <2>1, CountedFewer
<1>2. CASE creator[c].sub = s
  <2>1. k \notin ActiveKeys(s) /\ ActiveKeys(s)' = ActiveKeys(s) \cup {k}
        BY <1>2 DEF CreateInsert, ActiveKeys
  <2>2. c \in Inserting(s) /\ Inserting(s)' = Inserting(s) \ {c}
        BY <1>2 DEF CreateInsert, Inserting
  <2>3. /\ IsFiniteSet(ActiveKeys(s)')
        /\ Cardinality(ActiveKeys(s)') = Cardinality(ActiveKeys(s)) + 1
        BY <2>1, FS_AddElement DEF Counted
  <2>4. Cardinality(Inserting(s)') = Cardinality(Inserting(s)) - 1
        BY <2>2, InsertingFinite, FS_RemoveElement
  <2>5. Cardinality(ActiveKeys(s)) \in Nat /\ Cardinality(Inserting(s)) \in Nat
        BY InsertingFinite, FS_CardinalityType DEF Counted
  <2> QED BY <2>3, <2>4, <2>5 DEF Counted
<1> QED BY <1>1, <1>2

\* Every step of every actor keeps each subscription within the bound.
LEMMA CountedStep ==
  ASSUME KeyInv, [Next]_vars, \A pl \in Plans : MaxKeys[pl] > 0,
         NEW s \in Subs, Counted(s)
  PROVE  Counted(s)'
<1> USE DEF KeyInv
<1>1. CASE UNCHANGED <<keyStatus, keySub, creator>>
  <2>1. ActiveKeys(s)' = ActiveKeys(s) /\ Inserting(s)' = Inserting(s)
        BY <1>1 DEF ActiveKeys, Inserting
  <2> QED BY <2>1, CountedFewer
<1>2. ASSUME NEW c \in Creators, CreateStep(c) PROVE Counted(s)'
  <2>1. CASE (\E t \in Subs : CreateReadSub(c, t)) \/ CreateFails(c)
    <3>1. ActiveKeys(s)' = ActiveKeys(s) /\ Inserting(s)' \subseteq Inserting(s)
          BY <2>1 DEF CreateReadSub, CreateFails, ActiveKeys, Inserting, TypeOK
    <3> QED BY <3>1, CountedFewer
  <2>2. CASE CreateCount(c)
        BY <2>2, CountedCount DEF KeyRowsConsistent
  <2>3. CASE \E k \in Keys, e \in Expiry : CreateInsert(c, k, e)
        BY <2>3, CountedInsert
  <2> QED BY <1>2, <2>1, <2>2, <2>3 DEF CreateStep
<1>3. ASSUME NEW k \in Keys, RevokeByID(k) PROVE Counted(s)'
  <2>1. ActiveKeys(s)' \subseteq ActiveKeys(s) /\ Inserting(s)' = Inserting(s)
        BY <1>3 DEF RevokeByID, ActiveKeys, Inserting, TypeOK
  <2> QED BY <2>1, CountedFewer
<1>4. CASE \/ UNCHANGED vars \/ SubStep \/ Tick
           \/ \E k \in Keys : PassExpiry(k)
           \/ \E r \in Requests : FillStep(r)
      BY <1>1, <1>4 DEF vars, keyVars, SubStep, Tick, PassExpiry, FillStep,
                        FillCache, FillTorn, FillFails
<1>5. CASE \E r \in Requests : GatewayStep(r) \/ VerifyStep(r)
      BY <1>1, <1>5 DEF GatewayStep, VerifyStep, GatewayHit, GatewayMiss,
             GatewayTimeout, GatewayDone, VerifyHit, VerifyMiss, VerifyKey,
             VerifySub, VerifyError, keyVars
<1> QED BY <1>2, <1>3, <1>4, <1>5 DEF Next

\* However many creations race between CountActiveBySubscription and the
\* INSERT of APIKeyService.Create, the keys of a subscription exceed the
\* largest limit by fewer than the creations in flight.
THEOREM OvershootTheorem == Spec => []OvershootBounded
<1> DEFINE Within == (\A pl \in Plans : MaxKeys[pl] > 0) =>
                       \A s \in Subs : Counted(s)
<1>1. Init => Within
  <2> SUFFICES ASSUME Init, \A pl \in Plans : MaxKeys[pl] > 0, NEW s \in Subs
               PROVE  Counted(s)
      OBVIOUS
  <2>1. ActiveKeys(s) = {} /\ Inserting(s) = {}
        BY DEF Init, ActiveKeys, Inserting
  <2>2. LargestLimit \in Int /\ LargestLimit > 0
    <3>1. PICK top \in Plans : TRUE
          BY MaxKeysAssumption
    <3>2. MaxKeys[top] \in Int /\ MaxKeys[top] > 0 /\ MaxKeys[top] <= LargestLimit
          BY LargestLimitBounds, MaxKeysAssumption
    <3> QED BY <3>2, LargestLimitBounds
  <2>3. Cardinality(Creators) \in Nat
        BY InsertingFinite
  <2> QED BY <2>1, <2>2, <2>3, FS_EmptySet DEF Counted
<1>2. KeyInv /\ [Next]_vars /\ Within => Within'
      BY CountedStep
<1>3. Within => OvershootBounded
      BY DEF OvershootBounded, Counted
<1> QED BY <1>1, <1>2, <1>3, KeyInvariant, PTL DEF Spec

=============================================================================
