----------------------------- MODULE RouteTable -----------------------------
(***************************************************************************)
(* The gateways' in-memory route tables (gateway/src/proxy/route-table.ts) *)
(* and how they follow the registry.                                       *)
(*                                                                         *)
(* A gateway starts by loading the table another start or sync has left in *)
(* Redis, then asks the registry for every route, then every few seconds   *)
(* for the routes updated since lastSyncAt.  lastSyncAt is the gateway's   *)
(* clock when it has processed an answer, not when the registry made it,   *)
(* and it moves only when the answer has routes: an empty list reaches the *)
(* gateway as null and is dropped.  Registry and gateway clocks agree      *)
(* here, and a gateway has one sync in flight at a time.                   *)
(***************************************************************************)
EXTENDS Registry

CONSTANTS
  Gateways,
  MaxRestarts,  \* bound on the restarts of each gateway
  NoTable       \* no gateway:routes key in Redis

\* A table: the routes it holds, by version.  Identity keys are one to one
\* with versions, since a version is published once.
Table == [Versions -> Row \cup {NoRow}]
EmptyTable == [v \in Versions |-> NoRow]

ASSUME GatewayAssumption == MaxRestarts \in Nat /\ NoTable \notin Table

VARIABLES
  table,     \* routes
  lastSync,  \* lastSyncAt
  phase,     \* starting up (boot, full) or running
  delta,     \* the registry's answer on its way, or NoTable
  cache,     \* Redis: gateway:routes
  restarts,  \* restarts so far
  overlooked \* history: routes written between an answer and its processing

gwVars == <<table, lastSync, phase, delta, cache, restarts, overlooked>>
vars == <<regVars, gwVars>>

GwTypeOK ==
  /\ table \in [Gateways -> Table]
  /\ lastSync \in [Gateways -> Times]
  /\ phase \in [Gateways -> {"boot", "full", "run"}]
  /\ delta \in [Gateways -> Table \cup {NoTable}]
  /\ cache \in Table \cup {NoTable}
  /\ restarts \in [Gateways -> 0..MaxRestarts]
  /\ overlooked \in [Gateways -> SUBSET Versions]

Init ==
  /\ RegInit
  /\ table = [g \in Gateways |-> EmptyTable]
  /\ lastSync = [g \in Gateways |-> 0]
  /\ phase = [g \in Gateways |-> "boot"]
  /\ delta = [g \in Gateways |-> NoTable]
  /\ cache = NoTable
  /\ restarts = [g \in Gateways |-> 0]
  /\ overlooked = [g \in Gateways |-> {}]

-----------------------------------------------------------------------------
\* loadFromCache.
LoadFromCache(g) ==
  /\ phase[g] = "boot"
  /\ table' = [table EXCEPT ![g] = IF cache = NoTable THEN table[g] ELSE cache]
  /\ phase' = [phase EXCEPT ![g] = "full"]
  /\ UNCHANGED <<regVars, lastSync, delta, cache, restarts, overlooked>>

\* Redis does not answer: loadFromCache logs and goes on.
LoadFails(g) ==
  /\ phase[g] = "boot"
  /\ phase' = [phase EXCEPT ![g] = "full"]
  /\ UNCHANGED <<regVars, table, lastSync, delta, cache, restarts, overlooked>>

\* Mutant of UpdatedAfter: whole seconds compared strictly.
UpdatedAfter_Strict(since) ==
  [v \in Versions |-> IF row[v] # NoRow /\ row[v].at > since
                        THEN row[v] ELSE NoRow]

\* GetRoutesUpdatedAfter: updated_at > since.  A row written in second t is
\* later than the start of that second, so t >= since.
UpdatedAfter(since) ==
  [v \in Versions |-> IF row[v] # NoRow /\ row[v].at >= since
                        THEN row[v] ELSE NoRow]

\* Mutant of Fetch: fullSync alone, without the timer for syncRoutes.
Fetch_StartOnly(g) ==
  LET answer == UpdatedAfter(0) IN
  /\ phase[g] = "full" /\ delta[g] = NoTable
  /\ IF answer = EmptyTable
       THEN /\ phase' = [phase EXCEPT ![g] = "run"]
            /\ UNCHANGED delta
       ELSE /\ delta' = [delta EXCEPT ![g] = answer]
            /\ UNCHANGED phase
  /\ UNCHANGED <<regVars, table, lastSync, cache, restarts, overlooked>>

\* The registry answers fullSync (since = 0) or syncRoutes; null is dropped.
Fetch(g) ==
  LET answer == UpdatedAfter(IF phase[g] = "full" THEN 0 ELSE lastSync[g]) IN
  /\ phase[g] # "boot" /\ delta[g] = NoTable
  /\ IF answer = EmptyTable
       THEN /\ phase' = [phase EXCEPT ![g] = "run"]
            /\ UNCHANGED delta
       ELSE /\ delta' = [delta EXCEPT ![g] = answer]
            /\ UNCHANGED phase
  /\ UNCHANGED <<regVars, table, lastSync, cache, restarts, overlooked>>

\* The request fails or times out; after fullSync the gateway runs anyway.
FetchFails(g) ==
  /\ phase[g] # "boot"
  /\ phase' = [phase EXCEPT ![g] = "run"]
  /\ delta' = [delta EXCEPT ![g] = NoTable]
  /\ UNCHANGED <<regVars, table, lastSync, cache, restarts, overlooked>>

\* Mutant of Merged: the delta replaces the table.
Merged_Replaces(t, d) == d

\* applyDelta: routes of the delta replace or extend the table.
Merged(t, d) == [v \in Versions |-> IF d[v] # NoRow THEN d[v] ELSE t[v]]

\* fullSync replaces the table, syncRoutes merges; lastSyncAt is the clock now,
\* and the table is written to Redis, at once or not at all (errors are logged).
Process(g) ==
  LET next == IF phase[g] = "full" THEN delta[g]
                                   ELSE Merged(table[g], delta[g]) IN
  /\ delta[g] # NoTable
  /\ table' = [table EXCEPT ![g] = next]
  /\ lastSync' = [lastSync EXCEPT ![g] = now]
  /\ phase' = [phase EXCEPT ![g] = "run"]
  /\ delta' = [delta EXCEPT ![g] = NoTable]
  /\ cache' = next \/ UNCHANGED cache
  /\ UNCHANGED <<regVars, restarts, overlooked>>

\* ROUTE_CACHE_TTL_S passes.
CacheExpires ==
  /\ cache # NoTable
  /\ cache' = NoTable
  /\ UNCHANGED <<regVars, table, lastSync, phase, delta, restarts, overlooked>>

\* The process is stopped and started again.
Restart(g) ==
  /\ restarts[g] < MaxRestarts
  /\ restarts' = [restarts EXCEPT ![g] = restarts[g] + 1]
  /\ table' = [table EXCEPT ![g] = EmptyTable]
  /\ lastSync' = [lastSync EXCEPT ![g] = 0]
  /\ phase' = [phase EXCEPT ![g] = "boot"]
  /\ delta' = [delta EXCEPT ![g] = NoTable]
  /\ overlooked' = [overlooked EXCEPT ![g] = {}]
  /\ UNCHANGED <<regVars, cache>>

\* A step of the registry; the history variable notes the routes it writes
\* while an answer made earlier is on its way.
RegistryStep ==
  /\ RegNext
  /\ overlooked' =
       [g \in Gateways |->
          IF delta[g] # NoTable
            THEN overlooked[g] \cup {v \in Versions : row'[v] # row[v]}
            ELSE overlooked[g]]
  /\ UNCHANGED <<table, lastSync, phase, delta, cache, restarts>>

GatewayStep(g) ==
  \/ LoadFromCache(g) \/ LoadFails(g)
  \/ Fetch(g) \/ FetchFails(g) \/ Process(g)
  \/ Restart(g)

Next ==
  \/ RegistryStep
  \/ \E g \in Gateways : GatewayStep(g)
  \/ CacheExpires

Spec == Init /\ [][Next]_vars

\* The timer keeps firing, and the registry does not fail for ever.
Fairness ==
  \A g \in Gateways : /\ WF_vars(LoadFromCache(g))
                      /\ WF_vars(Fetch(g) /\ delta'[g] # NoTable)
                      /\ SF_vars(Process(g))

LiveSpec == Spec /\ Fairness

-----------------------------------------------------------------------------
\* The routes of t are routes of the registry.
FromRegistry(t) == \A v \in Versions : t[v] # NoRow => t[v] = row[v]

\* v's route is known to g, or will be in its next answer, or was overlooked.
Accounted(g, v) ==
  \/ table[g][v] # NoRow
  \/ row[v].at >= lastSync[g]
  \/ v \in overlooked[g]

\* The same once the answer on its way is processed.
AnswerAccounts(g, v) ==
  \/ delta[g][v] # NoRow
  \/ phase[g] # "full" /\ table[g][v] # NoRow
  \/ v \in overlooked[g]

\* What is true of one gateway.
GatewayOK(g) ==
  /\ lastSync[g] <= now
  /\ phase[g] # "run" => lastSync[g] = 0
  /\ phase[g] = "boot" => delta[g] = NoTable
  /\ FromRegistry(table[g])
  /\ delta[g] # NoTable => FromRegistry(delta[g])
  /\ \A v \in Versions : row[v] # NoRow =>
       /\ Accounted(g, v)
       /\ delta[g] # NoTable => AnswerAccounts(g, v)

(***************************************************************************)
(* The inductive invariant of the tables.  Every table, answer and cache   *)
(* holds routes of the registry only, and a route that a gateway does not  *)
(* have will be in its next answer, unless it was written while an earlier *)
(* answer was on its way: that is the only way to lose one.                *)
(***************************************************************************)
SyncInv ==
  /\ RegInv /\ GwTypeOK
  /\ cache # NoTable => FromRegistry(cache)
  /\ \A g \in Gateways : GatewayOK(g)

(***************************************************************************)
(* A running gateway never forgets a route or changes it, but by a restart *)
(* or by the first full answer after one.                                  *)
(***************************************************************************)
RoutesKept ==
  [][\A g \in Gateways, v \in Versions :
       (phase[g] = "run" /\ table[g][v] # NoRow /\ phase'[g] # "boot")
          => table'[g][v] = table[g][v]]_vars

(***************************************************************************)
(* Every route of the registry reaches every gateway, or was overlooked.   *)
(***************************************************************************)
RoutesArrive ==
  \A g \in Gateways, v \in Versions :
     row[v] # NoRow ~> (table[g][v] # NoRow \/ v \in overlooked[g])
=============================================================================
