----------------------------- MODULE MCApiKeys -----------------------------
(* Subscriptions and API keys: limits of the plans and scope for TLC.      *)
EXTENDS ApiKeys, TLC

CONSTANTS free, basic, a1, c1, k1, k2, k3, k4

\* The free plan has one key; basic stands for the other limited plans.
PlanLimits == free :> 1 @@ basic :> 2

\* Keys are alike, so they are created in this order.
KeyOrder == <<k1, k2, k3, k4>>

NoKeys == \A k \in Keys : keyStatus[k] = "absent"
NoVerification == \A r \in Requests : rkey[r] = NoKey

\* Requests race on the row of a subscription that has no keys.
Lifecycle == NoKeys /\ NoVerification /\ \A c \in Creators : creator[c] = NoReq

\* One key is created and verified, while one management request at a time
\* moves its row, which is not reactivated once suspended.
Verification ==
  /\ \A p \in Admins \ {a1} : admin[p] = NoReq
  /\ \A c \in audited : c.action = "status_changed" /\ CanTransition(c.old, c.new)
                                                   /\ c.old # "suspended"
  /\ \A s \in Subs : plan[s] \in {free, NoPlan}
  /\ \A c \in Creators \ {c1} : creator[c] = NoReq
  /\ \A k \in Keys \ {k1} : keyStatus[k] = "absent"
  /\ \A r \in Requests : rkey[r] \in {k1, NoKey}

\* Keys that do not expire are created and revoked, while the plan changes.
Creation ==
  /\ NoVerification
  /\ \A p \in Admins : admin[p] = NoReq
  /\ \A c \in audited : c.new = "active"
  /\ \A k \in Keys : expiry[k] = "never"
  /\ \A i \in 2..4 : keyStatus[KeyOrder[i]] # "absent" => keyStatus[KeyOrder[i - 1]] # "absent"

Scope == Lifecycle \/ Verification \/ Creation
=============================================================================
