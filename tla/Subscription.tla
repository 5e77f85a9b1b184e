---------------------------- MODULE Subscription ----------------------------
(***************************************************************************)
(* The subscription lifecycle of the subscription service                  *)
(* (manager/services/subscription).  A subscription row is created         *)
(* "pending" and moved by the Approve, Suspend and Cancel requests.  Each  *)
(* of those requests first SELECTs the row and compares its status with    *)
(* the table StatusTransitions, and only then UPDATEs it with              *)
(* "WHERE id = $n": the UPDATE does not repeat the comparison, so the row  *)
(* may have changed in between.  A database trigger records every change.  *)
(***************************************************************************)
EXTENDS Naturals, FiniteSets

CONSTANTS
  Subs,      \* the (organization, API) pairs; UNIQUE makes each one row
  Plans,     \* rows of the plans table
  Admins,    \* management requests that may be in flight at the same time
  NoPlan,    \* plan_id of a row that does not exist yet
  NoReq      \* an idle member of Admins

Statuses == {"pending", "active", "suspended", "expired", "cancelled"}

\* The statuses Approve, Suspend and Cancel write.
Targets == {"active", "suspended", "cancelled"}

AdminReq == [sub : Subs, from : Statuses, to : Targets]

\* An audit row: which subscription, which action, the status before and after.
AuditRow == [sub : Subs, action : {"status_changed", "plan_changed"},
             old : Statuses, new : Statuses]

\* A status change of a row.
Change == [old : Statuses, new : Statuses]

ASSUME NoPlanIsNone == NoPlan \notin Plans
ASSUME NoReqIsNone == NoReq \notin AdminReq

VARIABLES
  status,    \* subscriptions.status, "absent" when there is no row
  plan,      \* subscriptions.plan_id
  admin,     \* between its SELECT and its UPDATE: what a request has read
  audited,   \* the rows of subscription_audit_log
  since      \* history: of a request between its SELECT and its UPDATE, the
             \* status changes that others have written to its row meanwhile

subVars == <<status, plan, admin, audited, since>>

SubTypeOK ==
  /\ status \in [Subs -> Statuses \cup {"absent"}]
  /\ plan \in [Subs -> Plans \cup {NoPlan}]
  /\ admin \in [Admins -> AdminReq \cup {NoReq}]
  /\ audited \subseteq AuditRow
  /\ since \in [Admins -> SUBSET Change]

SubInit ==
  /\ status = [s \in Subs |-> "absent"]
  /\ plan = [s \in Subs |-> NoPlan]
  /\ admin = [p \in Admins |-> NoReq]
  /\ audited = {}
  /\ since = [p \in Admins |-> {}]

-----------------------------------------------------------------------------
\* Mutant of StatusTransitions: a cancelled subscription can be approved again.
StatusTransitions_Reopen ==
  [pending   |-> {"active", "cancelled"},
   active    |-> {"suspended", "cancelled", "expired"},
   suspended |-> {"active", "cancelled"},
   expired   |-> {"cancelled"},
   cancelled |-> {"active"}]

StatusTransitions ==
  [pending   |-> {"active", "cancelled"},
   active    |-> {"suspended", "cancelled", "expired"},
   suspended |-> {"active", "cancelled"},
   expired   |-> {"cancelled"},
   cancelled |-> {}]

CanTransition(from, to) ==
  from \in Statuses /\ to \in StatusTransitions[from]

\* SubscriptionService.Create: the plan exists, UNIQUE(organization_id, api_id).
CreateSubscription(s, pl) ==
  /\ status[s] = "absent"
  /\ status' = [status EXCEPT ![s] = "pending"]
  /\ plan' = [plan EXCEPT ![s] = pl]
  /\ UNCHANGED <<admin, audited, since>>

\* Mutant of ReadForTransition: only the existence of the row is checked.
ReadForTransition_Unchecked(p, s, to) ==
  /\ admin[p] = NoReq
  /\ status[s] # "absent"
  /\ admin' = [admin EXCEPT ![p] = [sub |-> s, from |-> status[s], to |-> to]]
  /\ since' = [since EXCEPT ![p] = {}]
  /\ UNCHANGED <<status, plan, audited>>

\* The first half of Approve, Suspend and Cancel: GetByID and CanTransition.
\* A missing row or a refused transition ends the request without effect.
ReadForTransition(p, s, to) ==
  /\ admin[p] = NoReq
  /\ CanTransition(status[s], to)
  /\ admin' = [admin EXCEPT ![p] = [sub |-> s, from |-> status[s], to |-> to]]
  /\ since' = [since EXCEPT ![p] = {}]
  /\ UNCHANGED <<status, plan, audited>>

\* Mutant of LogSubscriptionChanges: NEW.status in the place of OLD.status.
LogSubscriptionChanges_New(s) ==
  audited' =
    IF status'[s] # status[s] \/ plan'[s] # plan[s]
      THEN audited \cup
             {[sub |-> s,
               action |-> IF status'[s] # status[s] THEN "status_changed"
                                                    ELSE "plan_changed",
               old |-> status'[s], new |-> status'[s]]}
      ELSE audited

\* The trigger log_subscription_changes, run by every UPDATE of a row.
LogSubscriptionChanges(s) ==
  audited' =
    IF status'[s] # status[s] \/ plan'[s] # plan[s]
      THEN audited \cup
             {[sub |-> s,
               action |-> IF status'[s] # status[s] THEN "status_changed"
                                                    ELSE "plan_changed",
               old |-> status[s], new |-> status'[s]]}
      ELSE audited

\* History: who else is between SELECT and UPDATE of the row p now writes.
Overtaken(p) ==
  {q \in Admins \ {p} : admin[q] # NoReq /\ admin[q].sub = admin[p].sub}

Witnessed(p) ==
  LET r == admin[p]
      c == [old |-> status[r.sub], new |-> r.to]
  IN since' = [q \in Admins |->
                 CASE q = p -> {}
                   [] q \in Overtaken(p) /\ c.old # c.new -> since[q] \cup {c}
                   [] OTHER -> since[q]]

\* The second half: UpdateStatus, unconditional on the status read before.
UpdateStatus(p) ==
  LET r == admin[p] IN
  /\ r # NoReq
  /\ status' = [status EXCEPT ![r.sub] = r.to]
  /\ UNCHANGED plan
  /\ LogSubscriptionChanges(r.sub)
  /\ Witnessed(p)
  /\ admin' = [admin EXCEPT ![p] = NoReq]

\* The UPDATE fails (connection lost, statement error): nothing is written.
UpdateFails(p) ==
  /\ admin[p] # NoReq
  /\ admin' = [admin EXCEPT ![p] = NoReq]
  /\ since' = [since EXCEPT ![p] = {}]
  /\ UNCHANGED <<status, plan, audited>>

\* SubscriptionService.ChangePlan: any existing row, whatever its status.
ChangePlan(s, pl) ==
  /\ status[s] # "absent"
  /\ plan' = [plan EXCEPT ![s] = pl]
  /\ UNCHANGED <<status, admin, since>>
  /\ LogSubscriptionChanges(s)

SubNext ==
  \/ \E s \in Subs, pl \in Plans : CreateSubscription(s, pl)
  \/ \E p \in Admins, s \in Subs, to \in Targets : ReadForTransition(p, s, to)
  \/ \E p \in Admins : UpdateStatus(p)
  \/ \E p \in Admins : UpdateFails(p)
  \/ \E s \in Subs, pl \in Plans : ChangePlan(s, pl)

SubSpec == SubInit /\ [][SubNext]_subVars

-----------------------------------------------------------------------------
InFlight(s) == \E p \in Admins : admin[p] # NoReq /\ admin[p].sub = s

\* The subscription is cancelled and no request that read it earlier is left.
Settled(s) == status[s] = "cancelled" /\ ~InFlight(s)

\* A request in flight has read an existing row, and rows are never deleted.
InFlightRowExists ==
  \A p \in Admins : admin[p] # NoReq =>
     /\ status[admin[p].sub] # "absent"
     /\ CanTransition(admin[p].from, admin[p].to)

\* Create and ChangePlan look the plan up before they write its id.
RowsHavePlans == \A s \in Subs : status[s] # "absent" => plan[s] \in Plans

\* What p knows of its row is out of date: after its SELECT, others have
\* moved the row away from the status p has read and to the one it has now.
MovedOn(p) ==
  /\ \E c \in since[p] : c.old = admin[p].from
  /\ \E d \in since[p] : d.new = status[admin[p].sub]

\* The row of a request in flight has the status the request has read, or
\* the request was overtaken; every change it missed is in the audit log.
OvertakenIsWitnessed ==
  \A p \in Admins : admin[p] # NoReq =>
     /\ status[admin[p].sub] # admin[p].from => MovedOn(p)
     /\ \A c \in since[p] : [sub |-> admin[p].sub, action |-> "status_changed",
                             old |-> c.old, new |-> c.new] \in audited

(***************************************************************************)
(* The inductive invariant of the lifecycle: a row that Approve, Suspend   *)
(* or Cancel has read is still there when it is updated, the transition    *)
(* was legal when it was read, every row has a plan, and a row whose       *)
(* status is no longer the one a request has read was moved on by others,  *)
(* after that read, with an audit row for each change.                     *)
(***************************************************************************)
SubInv ==
  SubTypeOK /\ InFlightRowExists /\ RowsHavePlans /\ OvertakenIsWitnessed

(***************************************************************************)
(* A cancelled subscription can come back, but only through a request that *)
(* had read the row before the cancellation was written: once the requests *)
(* in flight are gone, CanTransition refuses every new one and the         *)
(* cancellation is final.                                                  *)
(***************************************************************************)
CancelSettles == [][\A s \in Subs : Settled(s) => Settled(s)']_subVars

\* The request p ends in this step by writing to the row of s a status that
\* was legal after the one p had read.
WritesChecked(p, s) ==
  /\ admin[p] # NoReq /\ admin'[p] = NoReq
  /\ admin[p].sub = s /\ admin[p].to = status'[s]
  /\ CanTransition(admin[p].from, status'[s])

(***************************************************************************)
(* A status change that the table StatusTransitions forbids, such as       *)
(* cancelled -> active, has one cause only: the request that writes it     *)
(* checked a legal transition, and between its SELECT and its UPDATE other *)
(* requests moved the row away from the status it had read and to the one  *)
(* it now overwrites.                                                      *)
(***************************************************************************)
IllegalMeansOvertaken ==
  [][\A s \in Subs :
       /\ status[s] \in Statuses
       /\ status'[s] # status[s]
       /\ ~ CanTransition(status[s], status'[s])
       => \E p \in Admins : WritesChecked(p, s) /\ MovedOn(p)]_subVars
=============================================================================
