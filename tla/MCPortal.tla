----------------------------- MODULE MCPortal -----------------------------
EXTENDS Portal
CONSTANTS t1, t2
MCCallers == Tabs \cup {Client}
Pages(ps) == {At(p, "none") : p \in ps}
\* Two tabs that sign in and out; one tab that manages subscriptions and keys,
\* or looks at APIs, beside a client.  One operation of each kind the BFF
\* treats alike.
MCWorlds ==
  {[tabs |-> {t1, t2}, places |-> Pages({"login", "dashboard"}) \cup {PlainLogin},
    subscribed |-> FALSE, docs |-> {}, sends |-> 0],
   [tabs |-> {t1}, places |-> Pages({"login", "dashboard"}) \cup {At("keys", a) : a \in Apis},
    subscribed |-> TRUE, docs |-> {"createSubscription", "approve", "suspend", "deleteAPI"},
    sends |-> 1],
   [tabs |-> {t1}, places |-> Pages({"login", "catalogue"}) \cup {At("detail", a) : a \in Apis},
    subscribed |-> FALSE, docs |-> {"createAPI", "updateAPI", "deleteAPI", "me", "plans", "createPlan"},
    sends |-> 1]}
=============================================================================
