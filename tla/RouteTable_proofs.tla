------------------------- MODULE RouteTable_proofs -------------------------
(***************************************************************************)
(* Proofs about the registry and the gateways' route tables, for any       *)
(* number of APIs, versions, upstreams, gateways and concurrent requests.  *)
(***************************************************************************)
EXTENDS RouteTable, TLAPS

-----------------------------------------------------------------------------
(* The registry.                                                           *)

\* The empty tables satisfy the inductive invariant.
LEMMA RegInvInit == RegInit => RegInv
  BY RegistryAssumption
  DEF RegInit, RegInv, RegTypeOK, OnePublisher, JobsHaveVersions, Activating,
      Times

\* A request at a statement of PublishVersion is a publication.
LEMMA PublishJobs ==
  ASSUME RegTypeOK, NEW j \in Jobs, job[j] # NoJob, job[j].pc # "delete"
  PROVE  job[j] \in PublishJob /\ job[j].ver \in Versions
                               /\ job[j].up \in Upstreams
  BY DEF RegTypeOK, PublishJob, DeleteJob

\* A request at the UPDATE of Delete is a deletion.
LEMMA DeleteJobs ==
  ASSUME RegTypeOK, NEW j \in Jobs, job[j] # NoJob, job[j].pc = "delete"
  PROVE  job[j] \in DeleteJob /\ job[j].api \in APIs
  BY DEF RegTypeOK, PublishJob, DeleteJob

\* The next statement of a publication is again one.
LEMMA NextStatement ==
  ASSUME NEW r \in PublishJob, NEW pc \in {"version", "api", "route"}
  PROVE  [r EXCEPT !.pc = pc] \in PublishJob
         /\ [r EXCEPT !.pc = pc].pc = pc /\ [r EXCEPT !.pc = pc].ver = r.ver
  BY DEF PublishJob

\* A request that leaves takes nothing with it but itself.
LEMMA JobEnds ==
  ASSUME RegInv, NEW j \in Jobs, job' = [job EXCEPT ![j] = NoJob],
         UNCHANGED <<now, apiStatus, verStatus, upstream, row>>,
         deleted' \in [APIs -> BOOLEAN]
  PROVE  RegInv'
<1>1. RegTypeOK'
      BY DEF RegInv, RegTypeOK
<1>2. \A i \in Jobs, v \in Versions : Activating(i, v)' => Activating(i, v)
      BY DEF RegInv, RegTypeOK, Activating
<1>3. OnePublisher'
      BY <1>2 DEF RegInv, OnePublisher
<1>4. JobsHaveVersions'
      BY DEF RegInv, RegTypeOK, JobsHaveVersions
<1> QED BY <1>1, <1>3, <1>4 DEF RegInv

\* Requests without a second statement do not touch publications.
LEMMA SimpleStep ==
  ASSUME RegInv,
         \/ \E a \in APIs : CreateAPI(a)
         \/ \E a \in APIs, st \in APIStatuses : UpdateAPI(a, st)
         \/ \E v \in Versions, u \in Upstreams : CreateVersion(v, u)
         \/ \E v \in Versions, u \in Upstreams : UpdateVersion(v, u)
         \/ \E v \in Versions : DeprecateVersion(v)
         \/ Tick
  PROVE  RegInv' /\ row' = row
<1>1. job' = job /\ row' = row
      BY DEF CreateAPI, UpdateAPI, CreateVersion, UpdateVersion,
             DeprecateVersion, Tick
<1>2. \A i \in Jobs, v \in Versions : Activating(i, v)' <=> Activating(i, v)
      BY <1>1 DEF Activating
<1>3. now \in Nat /\ now' \in Times /\ now <= now'
      BY RegistryAssumption
      DEF RegInv, RegTypeOK, Times, CreateAPI, UpdateAPI, CreateVersion,
          UpdateVersion, DeprecateVersion, Tick
<1>4. RegTypeOK'
      BY <1>1, <1>3
      DEF RegInv, RegTypeOK, CreateAPI, UpdateAPI, CreateVersion,
          UpdateVersion, DeprecateVersion, Tick, APIStatuses, VersionStatuses
<1>5. \A v \in Versions :
         verStatus[v] \in {"active", "deprecated"}
            => verStatus'[v] \in {"active", "deprecated"}
      BY DEF RegInv, RegTypeOK, CreateAPI, UpdateAPI, CreateVersion,
             UpdateVersion, DeprecateVersion, Tick
<1>6. OnePublisher'
      BY <1>1, <1>2, <1>5 DEF RegInv, OnePublisher
<1>7. JobsHaveVersions'
  <2>1. \A v \in Versions : verStatus'[v] # "absent" => upstream'[v] \in Upstreams
        BY DEF RegInv, RegTypeOK, JobsHaveVersions, CreateAPI, UpdateAPI,
               CreateVersion, UpdateVersion, DeprecateVersion, Tick
  <2>2. \A v \in Versions : verStatus[v] # "absent" => verStatus'[v] # "absent"
        BY DEF RegInv, RegTypeOK, CreateAPI, UpdateAPI, CreateVersion,
               UpdateVersion, DeprecateVersion, Tick
  <2>3. \A j \in Jobs : (job[j] # NoJob /\ job[j].pc = "version")
                           => job[j].ver \in Versions
        BY PublishJobs DEF RegInv
  <2>4. \A v \in Versions : row[v] # NoRow => row[v].at \in Nat
        BY RegistryAssumption DEF RegInv, RegTypeOK, Row, Times
  <2>5. \A v \in Versions : row'[v] # NoRow => row'[v].at <= now'
        BY <1>1, <1>3, <2>4, RegistryAssumption
        DEF RegInv, JobsHaveVersions, Times
  <2>6. \A j \in Jobs : (job'[j] # NoJob /\ job'[j].pc = "version")
                           => verStatus'[job'[j].ver] # "absent"
        BY <1>1, <2>2, <2>3 DEF RegInv, JobsHaveVersions
  <2> QED BY <2>1, <2>5, <2>6 DEF JobsHaveVersions
<1> QED BY <1>1, <1>4, <1>6, <1>7 DEF RegInv

\* The two reads that start a request.
LEMMA ReadStep ==
  ASSUME RegInv,
         \/ \E j \in Jobs, v \in Versions : PublishRead(j, v)
         \/ \E j \in Jobs, a \in APIs : DeleteRead(j, a)
  PROVE  RegInv' /\ row' = row
<1>1. PICK j \in Jobs, r \in PublishJob \cup DeleteJob :
         /\ job' = [job EXCEPT ![j] = r]
         /\ r.pc \in {"version", "delete"}
         /\ r.pc = "version" => verStatus[r.ver] # "absent"
         /\ UNCHANGED <<now, apiStatus, deleted, verStatus, upstream, row>>
  <2>1. ASSUME NEW j \in Jobs, NEW v \in Versions, PublishRead(j, v)
        PROVE  [pc |-> "version", ver |-> v, up |-> upstream[v]] \in PublishJob
        BY <2>1 DEF PublishRead, PublishJob, RegInv, RegTypeOK, JobsHaveVersions
  <2>2. ASSUME NEW a \in APIs
        PROVE  [pc |-> "delete", api |-> a] \in DeleteJob
        BY DEF DeleteJob
  <2> QED BY <2>1, <2>2 DEF PublishRead, DeleteRead
<1>2. RegTypeOK'
      BY <1>1 DEF RegInv, RegTypeOK
<1>3. \A i \in Jobs, v \in Versions : Activating(i, v)' => Activating(i, v)
      BY <1>1 DEF RegInv, RegTypeOK, Activating
<1>4. OnePublisher'
      BY <1>1, <1>3 DEF RegInv, OnePublisher
<1>5. JobsHaveVersions'
      BY <1>1 DEF RegInv, RegTypeOK, JobsHaveVersions
<1> QED BY <1>1, <1>2, <1>4, <1>5 DEF RegInv

\* The UPDATE of the version: a draft has no route and no other publisher.
LEMMA PublishVersionStep ==
  ASSUME RegInv, NEW j \in Jobs, PublishVersion(j)
  PROVE  RegInv' /\ row' = row
<1> DEFINE v == job[j].ver
<1>1. job[j] \in PublishJob /\ v \in Versions
      BY PublishJobs DEF RegInv, PublishVersion
<1>2. CASE ~ Publishable(v)
      BY <1>2, JobEnds DEF PublishVersion, RegInv, RegTypeOK
<1>3. CASE Publishable(v)
  <2> DEFINE r == [job[j] EXCEPT !.pc = "api"]
  <2>1. r \in PublishJob /\ r.pc = "api" /\ r.ver = v
        BY <1>1, NextStatement
  <2> HIDE DEF r
  <2>2. /\ job' = [job EXCEPT ![j] = r]
        /\ verStatus[v] = "draft"
        /\ verStatus' = [verStatus EXCEPT ![v] = "active"]
        /\ UNCHANGED <<now, apiStatus, deleted, upstream, row>>
        BY <1>3 DEF PublishVersion, Publishable, r
  <2>3. RegTypeOK'
        BY <1>1, <2>1, <2>2 DEF RegInv, RegTypeOK, VersionStatuses
  <2>4. \A i \in Jobs, w \in Versions :
           Activating(i, w)' => Activating(i, w) \/ (i = j /\ w = v)
        BY <2>1, <2>2 DEF RegInv, RegTypeOK, Activating
  <2>5. row[v] = NoRow /\ \A i \in Jobs : ~ Activating(i, v)
        BY <1>1, <2>2 DEF RegInv, OnePublisher
  <2>6. \A i \in Jobs, w \in Versions : Activating(i, w)' =>
           (IF w = v THEN i = j ELSE Activating(i, w))
        BY <2>4, <2>5
  <2>7. \A w \in Versions : w # v => verStatus'[w] = verStatus[w]
        BY <2>2 DEF RegInv, RegTypeOK
  <2>8. verStatus'[v] = "active" /\ row' = row
        BY <1>1, <2>2 DEF RegInv, RegTypeOK
  <2>9. OnePublisher'
        BY <1>1, <2>5, <2>6, <2>7, <2>8 DEF RegInv, OnePublisher
  <2>10. JobsHaveVersions'
         BY <1>1, <2>1, <2>2, <2>7, <2>8 DEF RegInv, RegTypeOK, JobsHaveVersions
  <2> QED BY <2>2, <2>3, <2>9, <2>10 DEF RegInv
<1> QED BY <1>2, <1>3

\* The UPDATE of the API leaves versions and routes alone.
LEMMA PublishAPIStep ==
  ASSUME RegInv, NEW j \in Jobs, PublishAPI(j)
  PROVE  RegInv' /\ row' = row
<1> DEFINE r == [job[j] EXCEPT !.pc = "route"]
<1>1. job[j] \in PublishJob /\ job[j].ver \in Versions /\ job[j].pc = "api"
      BY PublishJobs DEF RegInv, PublishAPI
<1>2. r \in PublishJob /\ r.pc = "route" /\ r.ver = job[j].ver
      BY <1>1, NextStatement
<1> HIDE DEF r
<1>3. /\ job' = [job EXCEPT ![j] = r]
      /\ UNCHANGED <<now, deleted, verStatus, upstream, row>>
      BY DEF PublishAPI, r
<1>4. apiStatus' \in [APIs -> APIStatuses \cup {"absent"}]
      BY DEF PublishAPI, RegInv, RegTypeOK, APIStatuses
<1>5. RegTypeOK'
      BY <1>2, <1>3, <1>4 DEF RegInv, RegTypeOK
<1>6. \A i \in Jobs, w \in Versions : Activating(i, w)' <=> Activating(i, w)
      BY <1>1, <1>2, <1>3, RegistryAssumption DEF RegInv, RegTypeOK, Activating
<1>7. OnePublisher'
      BY <1>3, <1>6 DEF RegInv, OnePublisher
<1>8. JobsHaveVersions'
      BY <1>2, <1>3 DEF RegInv, RegTypeOK, JobsHaveVersions
<1> QED BY <1>3, <1>5, <1>7, <1>8 DEF RegInv

\* The upsert inserts: the publisher is the only one and there is no row yet.
LEMMA PublishRouteStep ==
  ASSUME RegInv, NEW j \in Jobs, PublishRoute(j)
  PROVE  RegInv' /\ \A v \in Versions : row[v] # NoRow => row'[v] = row[v]
<1> DEFINE v == job[j].ver
           new == [up |-> job[j].up, at |-> now]
<1>1. v \in Versions /\ job[j].up \in Upstreams /\ Activating(j, v)
      BY PublishJobs DEF RegInv, PublishRoute, Activating
<1>2. new \in Row /\ new # NoRow /\ new.at = now
      BY <1>1, RegistryAssumption DEF RegInv, RegTypeOK, Row
<1> HIDE DEF new
<1>3. /\ row' = [row EXCEPT ![v] = new]
      /\ job' = [job EXCEPT ![j] = NoJob]
      /\ UNCHANGED <<now, apiStatus, deleted, verStatus, upstream>>
      BY DEF PublishRoute, new
<1>4. row[v] = NoRow /\ verStatus[v] \in {"active", "deprecated"}
      BY <1>1 DEF RegInv, OnePublisher
<1>5. \A w \in Versions : row'[w] = IF w = v THEN new ELSE row[w]
      BY <1>3 DEF RegInv, RegTypeOK
<1>6. RegTypeOK'
      BY <1>1, <1>2, <1>3 DEF RegInv, RegTypeOK
<1>7. \A i \in Jobs, w \in Versions :
         Activating(i, w)' => Activating(i, w) /\ i # j
      BY <1>3 DEF RegInv, RegTypeOK, Activating
<1>8. \A i \in Jobs, w \in Versions : w = v => ~ Activating(i, w)'
      BY <1>1, <1>7 DEF RegInv, OnePublisher
<1>9. OnePublisher'
      BY <1>3, <1>4, <1>5, <1>7, <1>8 DEF RegInv, OnePublisher
<1>10. JobsHaveVersions'
  <2>1. now \in Nat
        BY RegistryAssumption DEF RegInv, RegTypeOK, Times
  <2>2. \A w \in Versions : row'[w] # NoRow => row'[w].at <= now'
        BY <1>2, <1>3, <1>5, <2>1 DEF RegInv, JobsHaveVersions
  <2> QED BY <1>3, <2>2 DEF RegInv, RegTypeOK, JobsHaveVersions
<1> QED BY <1>4, <1>5, <1>6, <1>9, <1>10 DEF RegInv

\* Every step of the registry preserves the inductive invariant and the rows
\* that are there.
LEMMA RegStep ==
  ASSUME RegInv, [RegNext]_regVars
  PROVE  RegInv' /\ \A v \in Versions : row[v] # NoRow => row'[v] = row[v]
<1>1. CASE \E j \in Jobs : PublishVersion(j)
      BY <1>1, PublishVersionStep
<1>2. CASE \E j \in Jobs : PublishAPI(j)
      BY <1>2, PublishAPIStep
<1>3. CASE \E j \in Jobs : PublishRoute(j)
      BY <1>3, PublishRouteStep
<1>4. CASE \E j \in Jobs : JobFails(j)
      BY <1>4, JobEnds DEF JobFails, RegInv, RegTypeOK
<1>5. CASE \E j \in Jobs : DeleteWrite(j)
  <2>1. PICK j \in Jobs : DeleteWrite(j)
        BY <1>5
  <2>2. deleted' \in [APIs -> BOOLEAN]
        BY <2>1 DEF DeleteWrite, RegInv, RegTypeOK
  <2> QED BY <2>1, <2>2, JobEnds DEF DeleteWrite
<1>6. CASE \/ \E j \in Jobs, v \in Versions : PublishRead(j, v)
           \/ \E j \in Jobs, a \in APIs : DeleteRead(j, a)
      BY <1>6, ReadStep
<1>7. CASE \/ \E a \in APIs : CreateAPI(a)
           \/ \E a \in APIs, st \in APIStatuses : UpdateAPI(a, st)
           \/ \E v \in Versions, u \in Upstreams : CreateVersion(v, u)
           \/ \E v \in Versions, u \in Upstreams : UpdateVersion(v, u)
           \/ \E v \in Versions : DeprecateVersion(v)
           \/ Tick
      BY <1>7, SimpleStep
<1>8. CASE UNCHANGED regVars
      BY <1>8 DEF regVars, RegInv, RegTypeOK, OnePublisher, JobsHaveVersions,
                  Activating
<1> QED BY <1>1, <1>2, <1>3, <1>4, <1>5, <1>6, <1>7, <1>8 DEF RegNext

(***************************************************************************)
(* However publications, deletions and failures interleave, a version is   *)
(* published by one request and only that request writes its route.        *)
(***************************************************************************)
THEOREM RegInvariant == RegSpec => []RegInv
<1>1. RegInv /\ [RegNext]_regVars => RegInv'
      BY RegStep
<1> QED BY <1>1, RegInvInit, PTL DEF RegSpec

(***************************************************************************)
(* A route row, once written, is never changed: PublishVersion's upsert    *)
(* only ever inserts, and UpdateVersion does not reach the gateways.       *)
(***************************************************************************)
THEOREM RoutesAreWrittenOnce == RegSpec => RoutesWrittenOnce
<1>1. RegInv /\ [RegNext]_regVars =>
        [\A v \in Versions : row[v] # NoRow => row'[v] = row[v]]_regVars
      BY RegStep
<1> QED BY <1>1, RegInvariant, PTL DEF RegSpec, RoutesWrittenOnce

\* Without the draft status no publication can take a version up again.
LEMMA LostStep ==
  ASSUME RegInv, [RegNext]_regVars, NEW v \in Versions, RouteLost(v)
  PROVE  RouteLost(v)'
<1>1. ASSUME NEW j \in Jobs, PublishVersion(j) PROVE RouteLost(v)'
  <2>1. job[j] \in PublishJob /\ job[j].ver \in Versions
        BY <1>1, PublishJobs DEF RegInv, PublishVersion
  <2>2. CASE ~ Publishable(job[j].ver)
        BY <1>1, <2>2 DEF PublishVersion, RouteLost, Activating, RegInv,
                          RegTypeOK
  <2>3. CASE Publishable(job[j].ver)
    <3> DEFINE r == [job[j] EXCEPT !.pc = "api"]
    <3>1. r.ver = job[j].ver /\ job[j].ver # v
          BY <2>1, <2>3, NextStatement DEF Publishable, RouteLost
    <3> HIDE DEF r
    <3>2. /\ job' = [job EXCEPT ![j] = r]
          /\ verStatus'[v] = verStatus[v] /\ row' = row
          BY <1>1, <2>3, <3>1 DEF PublishVersion, RegInv, RegTypeOK, r
    <3> QED BY <3>1, <3>2 DEF RouteLost, Activating, RegInv, RegTypeOK
  <2> QED BY <2>2, <2>3
<1>2. ASSUME NEW j \in Jobs, PublishAPI(j) PROVE RouteLost(v)'
  <2> DEFINE r == [job[j] EXCEPT !.pc = "route"]
  <2>1. job[j] \in PublishJob /\ r.ver = job[j].ver
        BY <1>2, PublishJobs, NextStatement DEF RegInv, PublishAPI
  <2>2. job[j].ver # v
        BY <1>2 DEF PublishAPI, RouteLost, Activating
  <2> HIDE DEF r
  <2>3. job' = [job EXCEPT ![j] = r] /\ verStatus' = verStatus /\ row' = row
        BY <1>2 DEF PublishAPI, r
  <2> QED BY <2>1, <2>2, <2>3 DEF RouteLost, Activating, RegInv, RegTypeOK
<1>3. ASSUME NEW j \in Jobs, PublishRoute(j) PROVE RouteLost(v)'
  <2>1. job[j].ver # v
        BY <1>3 DEF PublishRoute, RouteLost, Activating
  <2> QED BY <1>3, <2>1
          DEF PublishRoute, RouteLost, Activating, RegInv, RegTypeOK
<1>4. CASE \E j \in Jobs : JobFails(j) \/ DeleteWrite(j)
      BY <1>4 DEF JobFails, DeleteWrite, RouteLost, Activating, RegInv,
                  RegTypeOK
<1>5. CASE \/ \E j \in Jobs, w \in Versions : PublishRead(j, w)
           \/ \E j \in Jobs, a \in APIs : DeleteRead(j, a)
      BY <1>5 DEF PublishRead, DeleteRead, RouteLost, Activating, RegInv,
                  RegTypeOK
<1>6. CASE \/ \E w \in Versions, u \in Upstreams : CreateVersion(w, u)
           \/ \E w \in Versions : DeprecateVersion(w)
      BY <1>6 DEF CreateVersion, DeprecateVersion, RouteLost, Activating,
                  RegInv, RegTypeOK
<1>7. CASE \/ \E a \in APIs : CreateAPI(a)
           \/ \E a \in APIs, st \in APIStatuses : UpdateAPI(a, st)
           \/ \E w \in Versions, u \in Upstreams : UpdateVersion(w, u)
           \/ Tick \/ UNCHANGED regVars
      BY <1>7 DEF CreateAPI, UpdateAPI, UpdateVersion, Tick, regVars,
                  RouteLost, Activating
<1> QED BY <1>1, <1>2, <1>3, <1>4, <1>5, <1>6, <1>7 DEF RegNext

(***************************************************************************)
(* A version whose route PublishVersion failed to write never gets one.    *)
(***************************************************************************)
THEOREM LostForever == RegSpec => LostRoutesStayLost
<1>1. RegInv /\ [RegNext]_regVars =>
        [\A v \in Versions : RouteLost(v) => RouteLost(v)']_regVars
      BY LostStep
<1> QED BY <1>1, RegInvariant, PTL DEF RegSpec, LostRoutesStayLost

-----------------------------------------------------------------------------
(* The route tables.                                                       *)

\* Rows have times, and times are natural numbers.
LEMMA RowTimes ==
  ASSUME RegTypeOK
  PROVE  now \in Nat /\ \A v \in Versions : row[v] # NoRow => row[v].at \in Nat
  BY RegistryAssumption DEF RegTypeOK, Row, Times

\* The empty tables satisfy the inductive invariant.
LEMMA SyncInit == Init => SyncInv
<1> SUFFICES ASSUME Init PROVE SyncInv
    OBVIOUS
<1>1. RegInv
      BY RegInvInit DEF Init
<1>2. EmptyTable \in Table /\ \A v \in Versions : EmptyTable[v] = NoRow
      BY DEF EmptyTable, Table
<1>3. GwTypeOK
      BY <1>2, RegistryAssumption, GatewayAssumption DEF Init, GwTypeOK, Times
<1>4. \A g \in Gateways : GatewayOK(g)
      BY <1>2 DEF Init, RegInit, GatewayOK, FromRegistry, Accounted
<1> QED BY <1>1, <1>3, <1>4 DEF SyncInv, Init

\* A step of the registry keeps its invariant and its rows, and a new row is
\* stamped with the current time.
LEMMA RegistryRows ==
  ASSUME RegInv, RegNext
  PROVE  /\ RegInv'
         /\ now' \in Nat /\ now <= now'
         /\ \A v \in Versions : row[v] # NoRow => row'[v] = row[v]
         /\ \A v \in Versions :
              (row[v] = NoRow /\ row'[v] # NoRow) => row'[v].at = now
<1>1. RegInv' /\ \A v \in Versions : row[v] # NoRow => row'[v] = row[v]
      BY RegStep
<1>2. now' \in Nat /\ now <= now'
  <2>1. now' \in Nat /\ now \in Nat
        BY <1>1, RegistryAssumption DEF RegInv, RegTypeOK, Times
  <2>2. now' = now \/ now' = now + 1
        BY DEF RegNext, CreateAPI, UpdateAPI, CreateVersion, UpdateVersion,
               PublishRead, PublishVersion, PublishAPI, PublishRoute, JobFails,
               DeprecateVersion, DeleteRead, DeleteWrite, Tick
  <2> QED BY <2>1, <2>2
<1>3. ASSUME NEW v \in Versions, row[v] = NoRow, row'[v] # NoRow
      PROVE  row'[v].at = now
  <2>1. row' # row
        BY <1>3
  <2>2. PICK j \in Jobs : PublishRoute(j)
        BY <2>1
        DEF RegNext, CreateAPI, UpdateAPI, CreateVersion, UpdateVersion,
            PublishRead, PublishVersion, PublishAPI, JobFails,
            DeprecateVersion, DeleteRead, DeleteWrite, Tick
  <2> QED BY <1>3, <2>2 DEF PublishRoute, RegInv, RegTypeOK
<1> QED BY <1>1, <1>2, <1>3

\* Routes of the registry stay routes of the registry.
LEMMA FromRegistryStable ==
  ASSUME NEW t, FromRegistry(t),
         \A v \in Versions : row[v] # NoRow => row'[v] = row[v]
  PROVE  \A v \in Versions : t[v] # NoRow => t[v] = row'[v]
  BY DEF FromRegistry

\* While the registry works, a route written during a fetch is noted, and any
\* other will be in the next answer.
LEMMA RegistrySync ==
  ASSUME SyncInv, RegistryStep PROVE SyncInv'
<1>1. /\ RegInv'
      /\ now \in Nat /\ now' \in Nat /\ now <= now'
      /\ \A v \in Versions : row[v] # NoRow => row'[v] = row[v]
      /\ \A v \in Versions :
           (row[v] = NoRow /\ row'[v] # NoRow) => row'[v].at = now
      BY RegistryRows, RowTimes DEF SyncInv, RegistryStep, RegInv
<1>2. UNCHANGED <<table, lastSync, phase, delta, cache, restarts>>
      BY DEF RegistryStep
<1>3. /\ overlooked' \in [Gateways -> SUBSET Versions]
      /\ \A g \in Gateways : overlooked[g] \subseteq overlooked'[g]
      /\ \A g \in Gateways, v \in Versions :
           delta[g] # NoTable /\ row'[v] # row[v] => v \in overlooked'[g]
      BY DEF RegistryStep, SyncInv, GwTypeOK
<1>4. GwTypeOK'
      BY <1>2, <1>3 DEF SyncInv, GwTypeOK
<1>5. (cache # NoTable => FromRegistry(cache))'
      BY <1>1, <1>2, FromRegistryStable DEF SyncInv, FromRegistry
<1>6. ASSUME NEW g \in Gateways PROVE GatewayOK(g)'
  <2>1. GatewayOK(g) /\ lastSync[g] \in Nat
        BY RegistryAssumption DEF SyncInv, GwTypeOK, Times
  <2>2. /\ FromRegistry(table[g])'
        /\ delta[g] # NoTable => FromRegistry(delta[g])'
        BY <1>1, <1>2, <2>1 DEF GatewayOK, FromRegistry
  <2>3. ASSUME NEW v \in Versions, row'[v] # NoRow
        PROVE  Accounted(g, v)' /\ (delta[g] # NoTable => AnswerAccounts(g, v)')
    <3>1. CASE row[v] # NoRow
          BY <1>1, <1>2, <1>3, <2>1, <3>1
          DEF GatewayOK, Accounted, AnswerAccounts
    <3>2. CASE row[v] = NoRow
      <4>1. row'[v].at >= lastSync'[g]
            BY <1>1, <1>2, <2>1, <2>3, <3>2 DEF GatewayOK
      <4>2. delta[g] # NoTable => v \in overlooked'[g]
            BY <1>3, <2>3, <3>2
      <4> QED BY <4>1, <4>2 DEF Accounted, AnswerAccounts
    <3> QED BY <3>1, <3>2
  <2> QED BY <1>1, <1>2, <2>1, <2>2, <2>3 DEF GatewayOK
<1> QED BY <1>1, <1>4, <1>5, <1>6 DEF SyncInv

\* A step of one gateway: its own part, the types and the cache are what is
\* left to show.
LEMMA OneGateway ==
  ASSUME SyncInv, NEW g \in Gateways, UNCHANGED regVars, GwTypeOK',
         (cache # NoTable => FromRegistry(cache))', GatewayOK(g)',
         \A h \in Gateways : h # g =>
            /\ table'[h] = table[h] /\ lastSync'[h] = lastSync[h]
            /\ phase'[h] = phase[h] /\ delta'[h] = delta[h]
            /\ overlooked'[h] = overlooked[h]
  PROVE  SyncInv'
<1>1. RegInv'
      BY DEF SyncInv, regVars, RegInv, RegTypeOK, OnePublisher,
             JobsHaveVersions, Activating
<1>2. ASSUME NEW h \in Gateways, h # g PROVE GatewayOK(h)'
  <2>1. GatewayOK(h)
        BY DEF SyncInv
  <2> QED BY <1>2, <2>1
          DEF GatewayOK, FromRegistry, Accounted, AnswerAccounts, regVars
<1> QED BY <1>1, <1>2 DEF SyncInv

\* The cached table is one of routes of the registry, and lastSyncAt is 0: the
\* next answer holds every route.
LEMMA LoadSync ==
  ASSUME SyncInv, NEW g \in Gateways, LoadFromCache(g) \/ LoadFails(g)
  PROVE  SyncInv'
<1>1. GatewayOK(g) /\ phase[g] = "boot"
      BY DEF SyncInv, LoadFromCache, LoadFails
<1>2. lastSync[g] = 0 /\ delta[g] = NoTable
      BY <1>1 DEF GatewayOK
<1>3. UNCHANGED <<regVars, lastSync, delta, cache, restarts, overlooked>>
      BY DEF LoadFromCache, LoadFails
<1>4. /\ phase' = [phase EXCEPT ![g] = "full"]
      /\ table' = table
           \/ (cache # NoTable /\ table' = [table EXCEPT ![g] = cache])
      BY DEF LoadFromCache, LoadFails, SyncInv, GwTypeOK
<1>5. GwTypeOK'
      BY <1>3, <1>4 DEF SyncInv, GwTypeOK, regVars
<1>6. FromRegistry(table[g])'
      BY <1>1, <1>3, <1>4
      DEF SyncInv, GwTypeOK, GatewayOK, FromRegistry, regVars
<1>7. \A v \in Versions : row'[v] # NoRow => Accounted(g, v)'
      BY <1>2, <1>3, RowTimes DEF SyncInv, RegInv, Accounted, regVars
<1>8. GatewayOK(g)'
  <2>1. phase'[g] = "full" /\ delta'[g] = NoTable
        BY <1>2, <1>3, <1>4 DEF SyncInv, GwTypeOK
  <2> QED BY <1>1, <1>2, <1>3, <1>6, <1>7, <2>1 DEF GatewayOK, regVars
<1>9. (cache # NoTable => FromRegistry(cache))'
      BY <1>3 DEF SyncInv, FromRegistry, regVars
<1> QED BY <1>3, <1>4, <1>5, <1>8, <1>9, OneGateway
        DEF SyncInv, GwTypeOK

\* What the registry answers: rows, all of them that are not older than since.
LEMMA AnswerRows ==
  ASSUME RegTypeOK, NEW since
  PROVE  /\ UpdatedAfter(since) \in Table
         /\ FromRegistry(UpdatedAfter(since))
         /\ \A v \in Versions : (row[v] # NoRow /\ row[v].at >= since)
                                  => UpdatedAfter(since)[v] # NoRow
  BY DEF RegTypeOK, UpdatedAfter, Table, FromRegistry

\* The answer holds every route the gateway may still miss.
LEMMA FetchSync ==
  ASSUME SyncInv, NEW g \in Gateways, Fetch(g) PROVE SyncInv'
<1> DEFINE since == IF phase[g] = "full" THEN 0 ELSE lastSync[g]
           answer == UpdatedAfter(since)
<1>1. /\ answer \in Table /\ FromRegistry(answer)
      /\ \A v \in Versions : (row[v] # NoRow /\ row[v].at >= since)
                               => answer[v] # NoRow
      BY AnswerRows DEF SyncInv, RegInv
<1>2. GatewayOK(g) /\ phase[g] # "boot" /\ delta[g] = NoTable
      BY DEF SyncInv, Fetch
<1>3. UNCHANGED <<regVars, table, lastSync, cache, restarts, overlooked>>
      BY DEF Fetch
<1>4. \/ /\ phase' = [phase EXCEPT ![g] = "run"]
         /\ delta' = delta
      \/ /\ phase' = phase
         /\ delta' = [delta EXCEPT ![g] = answer]
      BY DEF Fetch
<1>5. ASSUME NEW v \in Versions, row[v] # NoRow, phase'[g] = phase[g]
      PROVE  \/ answer[v] # NoRow
             \/ phase[g] # "full" /\ table[g][v] # NoRow
             \/ v \in overlooked[g]
  <2>1. CASE phase[g] = "full"
        BY <1>1, <1>5, <2>1, RowTimes DEF SyncInv, RegInv
  <2>2. CASE phase[g] # "full"
        BY <1>1, <1>2, <1>5, <2>2 DEF GatewayOK, Accounted
  <2> QED BY <2>1, <2>2
<1> HIDE DEF answer
<1>6. GwTypeOK'
      BY <1>1, <1>3, <1>4 DEF SyncInv, GwTypeOK, regVars
<1>7. /\ phase'[g] # "boot"
      /\ \/ delta'[g] = NoTable /\ phase'[g] = "run"
         \/ delta'[g] = answer /\ phase'[g] = phase[g]
      BY <1>2, <1>4 DEF SyncInv, GwTypeOK
<1>8. ASSUME NEW v \in Versions, row'[v] # NoRow
      PROVE  /\ Accounted(g, v)'
             /\ delta'[g] # NoTable => AnswerAccounts(g, v)'
  <2>1. Accounted(g, v)'
        BY <1>2, <1>3, <1>8 DEF GatewayOK, Accounted, regVars
  <2>2. delta'[g] # NoTable => AnswerAccounts(g, v)'
        BY <1>3, <1>5, <1>7, <1>8 DEF AnswerAccounts, regVars
  <2> QED BY <2>1, <2>2
<1>9. GatewayOK(g)'
  <2>1. (delta[g] # NoTable => FromRegistry(delta[g]))'
        BY <1>1, <1>3, <1>7 DEF FromRegistry, regVars
  <2>2. FromRegistry(table[g])'
        BY <1>2, <1>3 DEF GatewayOK, FromRegistry, regVars
  <2>3. (phase[g] # "run" => lastSync[g] = 0)' /\ lastSync'[g] <= now'
        BY <1>2, <1>3, <1>7 DEF GatewayOK, regVars
  <2> QED BY <1>7, <1>8, <2>1, <2>2, <2>3 DEF GatewayOK
<1>10. (cache # NoTable => FromRegistry(cache))'
       BY <1>3 DEF SyncInv, FromRegistry, regVars
<1> QED BY <1>3, <1>4, <1>6, <1>9, <1>10, OneGateway
        DEF SyncInv, GwTypeOK

\* A failed request leaves the table and lastSyncAt as they were.
LEMMA FetchFailsSync ==
  ASSUME SyncInv, NEW g \in Gateways, FetchFails(g) PROVE SyncInv'
<1>1. GatewayOK(g)
      BY DEF SyncInv
<1>2. /\ phase' = [phase EXCEPT ![g] = "run"]
      /\ delta' = [delta EXCEPT ![g] = NoTable]
      /\ UNCHANGED <<regVars, table, lastSync, cache, restarts, overlooked>>
      BY DEF FetchFails
<1>3. GwTypeOK'
      BY <1>2 DEF SyncInv, GwTypeOK, regVars
<1>4. phase'[g] = "run" /\ delta'[g] = NoTable
      BY <1>2 DEF SyncInv, GwTypeOK
<1>5. GatewayOK(g)'
      BY <1>1, <1>2, <1>4 DEF GatewayOK, FromRegistry, Accounted, regVars
<1>6. (cache # NoTable => FromRegistry(cache))'
      BY <1>2 DEF SyncInv, FromRegistry, regVars
<1> QED BY <1>2, <1>3, <1>5, <1>6, OneGateway DEF SyncInv, GwTypeOK

\* applyDelta gives a table again, with the routes of both.
LEMMA MergedRows ==
  ASSUME NEW t \in Table, NEW d \in Table, FromRegistry(t), FromRegistry(d)
  PROVE  /\ Merged(t, d) \in Table /\ FromRegistry(Merged(t, d))
         /\ \A v \in Versions : (t[v] # NoRow \/ d[v] # NoRow)
                                  => Merged(t, d)[v] # NoRow
  BY DEF Merged, Table, FromRegistry

\* Processing an answer moves lastSyncAt to the present: what the answer does
\* not account for was noted as overlooked.
LEMMA ProcessSync ==
  ASSUME SyncInv, NEW g \in Gateways, Process(g) PROVE SyncInv'
<1> DEFINE next == IF phase[g] = "full" THEN delta[g]
                                        ELSE Merged(table[g], delta[g])
<1>1. GatewayOK(g) /\ delta[g] \in Table /\ table[g] \in Table
                   /\ delta[g] # NoTable
      BY DEF SyncInv, GwTypeOK, Process
<1>2. /\ next \in Table /\ FromRegistry(next)
      /\ \A v \in Versions : row[v] # NoRow
            => next[v] # NoRow \/ v \in overlooked[g]
      BY <1>1, MergedRows DEF GatewayOK, AnswerAccounts
<1>3. /\ table' = [table EXCEPT ![g] = next]
      /\ lastSync' = [lastSync EXCEPT ![g] = now]
      /\ phase' = [phase EXCEPT ![g] = "run"]
      /\ delta' = [delta EXCEPT ![g] = NoTable]
      /\ cache' = next \/ cache' = cache
      /\ UNCHANGED <<regVars, restarts, overlooked>>
      BY DEF Process
<1> HIDE DEF next
<1>4. GwTypeOK'
      BY <1>2, <1>3 DEF SyncInv, RegInv, RegTypeOK, GwTypeOK, regVars
<1>5. /\ table'[g] = next /\ lastSync'[g] = now /\ phase'[g] = "run"
      /\ delta'[g] = NoTable
      BY <1>3 DEF SyncInv, GwTypeOK
<1>6. GatewayOK(g)'
  <2>1. lastSync'[g] <= now'
        BY <1>3, <1>5, RowTimes DEF SyncInv, RegInv, regVars
  <2>2. FromRegistry(table[g])'
        BY <1>2, <1>3, <1>5 DEF FromRegistry, regVars
  <2>3. \A v \in Versions : row'[v] # NoRow => Accounted(g, v)'
        BY <1>2, <1>3, <1>5 DEF Accounted, regVars
  <2> QED BY <1>5, <2>1, <2>2, <2>3 DEF GatewayOK
<1>7. (cache # NoTable => FromRegistry(cache))'
      BY <1>2, <1>3 DEF SyncInv, FromRegistry, regVars
<1> QED BY <1>3, <1>4, <1>6, <1>7, OneGateway DEF SyncInv, GwTypeOK

\* A restarted gateway has no table and asks for every route.
LEMMA RestartSync ==
  ASSUME SyncInv, NEW g \in Gateways, Restart(g) PROVE SyncInv'
<1>1. EmptyTable \in Table /\ \A v \in Versions : EmptyTable[v] = NoRow
      BY DEF EmptyTable, Table
<1>2. 0 \in Times
      BY RegistryAssumption DEF Times
<1>3. GwTypeOK'
      BY <1>1, <1>2, GatewayAssumption DEF SyncInv, GwTypeOK, Restart, regVars
<1>4. /\ table'[g] = EmptyTable /\ lastSync'[g] = 0 /\ phase'[g] = "boot"
      /\ delta'[g] = NoTable /\ UNCHANGED <<regVars, cache>>
      BY DEF Restart, SyncInv, GwTypeOK
<1>5. GatewayOK(g)'
  <2>1. lastSync'[g] <= now' /\ \A v \in Versions :
           row'[v] # NoRow => row'[v].at >= lastSync'[g]
        BY <1>4, RowTimes DEF SyncInv, RegInv, regVars
  <2> QED BY <1>1, <1>4, <2>1 DEF GatewayOK, FromRegistry, Accounted
<1>6. (cache # NoTable => FromRegistry(cache))'
      BY <1>4 DEF SyncInv, FromRegistry, regVars
<1>7. \A h \in Gateways : h # g =>
         /\ table'[h] = table[h] /\ lastSync'[h] = lastSync[h]
         /\ phase'[h] = phase[h] /\ delta'[h] = delta[h]
         /\ overlooked'[h] = overlooked[h]
      BY DEF Restart, SyncInv, GwTypeOK
<1> QED BY <1>3, <1>4, <1>5, <1>6, <1>7, OneGateway

\* Every step of the registry and of the gateways preserves the invariant.
LEMMA SyncStep == SyncInv /\ [Next]_vars => SyncInv'
<1> SUFFICES ASSUME SyncInv, [Next]_vars PROVE SyncInv'
    OBVIOUS
<1>1. CASE RegistryStep
      BY <1>1, RegistrySync
<1>2. ASSUME NEW g \in Gateways, GatewayStep(g) PROVE SyncInv'
      BY <1>2, LoadSync, FetchSync, FetchFailsSync, ProcessSync, RestartSync
      DEF GatewayStep
<1>3. CASE CacheExpires \/ UNCHANGED vars
  <2>1. /\ UNCHANGED <<regVars, table, lastSync, phase, delta, restarts,
                       overlooked>>
        /\ cache' = NoTable \/ cache' = cache
        BY <1>3 DEF CacheExpires, vars, gwVars
  <2>2. RegInv'
        BY <2>1 DEF SyncInv, regVars, RegInv, RegTypeOK, OnePublisher,
                    JobsHaveVersions, Activating
  <2>3. GwTypeOK'
        BY <2>1 DEF SyncInv, GwTypeOK, regVars
  <2>4. (cache # NoTable => FromRegistry(cache))'
        BY <2>1 DEF SyncInv, FromRegistry, regVars
  <2>5. \A g \in Gateways : GatewayOK(g)'
        BY <2>1 DEF SyncInv, GatewayOK, FromRegistry, Accounted,
                    AnswerAccounts, regVars
  <2> QED BY <2>2, <2>3, <2>4, <2>5 DEF SyncInv
<1> QED BY <1>1, <1>2, <1>3 DEF Next

(***************************************************************************)
(* Tables, answers and the cache hold routes of the registry only, and the *)
(* only way for a gateway to lose a route is a row written between the     *)
(* registry's answer and its processing.                                   *)
(***************************************************************************)
THEOREM SyncInvariant == Spec => []SyncInv
  BY SyncInit, SyncStep, PTL DEF Spec

\* A running gateway's routes survive every step but a restart.
LEMMA KeptStep ==
  ASSUME SyncInv, [Next]_vars, NEW g \in Gateways, NEW v \in Versions,
         phase[g] = "run", table[g][v] # NoRow, phase'[g] # "boot"
  PROVE  table'[g][v] = table[g][v]
<1>1. CASE \E h \in Gateways : Process(h)
  <2>1. PICK h \in Gateways : Process(h)
        BY <1>1
  <2>2. CASE h # g
        BY <2>1, <2>2 DEF Process, SyncInv, GwTypeOK
  <2>3. CASE h = g
    <3>1. /\ table'[g] = Merged(table[g], delta[g])
          /\ FromRegistry(table[g]) /\ FromRegistry(delta[g])
          BY <2>1, <2>3 DEF Process, SyncInv, GwTypeOK, GatewayOK
    <3> QED BY <3>1 DEF Merged, FromRegistry
  <2> QED BY <2>2, <2>3
<1>2. CASE \E h \in Gateways : Restart(h)
  <2>1. PICK h \in Gateways : Restart(h)
        BY <1>2
  <2>2. h # g
        BY <2>1 DEF Restart, SyncInv, GwTypeOK
  <2> QED BY <2>1, <2>2 DEF Restart, SyncInv, GwTypeOK
<1>3. CASE \E h \in Gateways : LoadFromCache(h)
      BY <1>3 DEF LoadFromCache, SyncInv, GwTypeOK
<1>4. CASE \/ RegistryStep \/ CacheExpires \/ UNCHANGED vars
           \/ \E h \in Gateways : LoadFails(h) \/ Fetch(h) \/ FetchFails(h)
      BY <1>4 DEF RegistryStep, CacheExpires, vars, gwVars, LoadFails, Fetch,
                  FetchFails
<1> QED BY <1>1, <1>2, <1>3, <1>4 DEF Next, GatewayStep

(***************************************************************************)
(* A running gateway never drops or changes a route it serves, whatever    *)
(* happens to the version or its API in the registry.                      *)
(***************************************************************************)
THEOREM RoutesAreKept == Spec => RoutesKept
<1>1. SyncInv /\ [Next]_vars =>
        [\A g \in Gateways, v \in Versions :
           (phase[g] = "run" /\ table[g][v] # NoRow /\ phase'[g] # "boot")
              => table'[g][v] = table[g][v]]_vars
      BY KeptStep
<1> QED BY <1>1, SyncInvariant, PTL DEF Spec, RoutesKept

=============================================================================
