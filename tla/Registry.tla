------------------------------ MODULE Registry ------------------------------
(***************************************************************************)
(* The API registry (manager/services/registry): APIs, their versions and  *)
(* the gateway_routes rows that publishing a version creates.              *)
(*                                                                         *)
(* PublishVersion is four statements without a transaction: it reads the   *)
(* API and the version, activates the version if it is a draft, marks the  *)
(* API published (errors ignored) and upserts the route (errors logged).   *)
(* Delete checks the status of the API in one statement and deletes in     *)
(* another.  Spec texts and descriptive fields are left out.               *)
(***************************************************************************)
EXTENDS Naturals

CONSTANTS
  APIs, Versions,
  ApiOf,       \* the API a version belongs to
  Upstreams,   \* values of upstream_url
  Jobs,        \* publish and delete requests in flight at the same time
  MaxTime,     \* bound on the clock, in seconds
  NoRow, NoJob, NoUpstream

APIStatuses == {"draft", "published", "deprecated", "archived"}
\* "retired" too, but nothing calls the repository's Retire.
VersionStatuses == {"draft", "active", "deprecated"}

Times == 0..MaxTime
Row == [up : Upstreams, at : Times]
PublishJob == [pc : {"version", "api", "route"}, ver : Versions, up : Upstreams]
DeleteJob == [pc : {"delete"}, api : APIs]

ASSUME RegistryAssumption ==
  /\ MaxTime \in Nat
  /\ ApiOf \in [Versions -> APIs]
  /\ NoRow \notin Row /\ NoJob \notin PublishJob \cup DeleteJob
  /\ NoUpstream \notin Upstreams

VARIABLES
  now,        \* the clock, in whole seconds
  apiStatus,  \* apis.status, "absent" when there is no row
  deleted,    \* apis.deleted_at IS NOT NULL
  verStatus,  \* api_versions.status, "absent" when there is no row
  upstream,   \* api_versions.upstream_url
  row,        \* gateway_routes: a version has at most one row
  job         \* requests between their statements

regVars == <<now, apiStatus, deleted, verStatus, upstream, row, job>>

RegTypeOK ==
  /\ now \in Times
  /\ apiStatus \in [APIs -> APIStatuses \cup {"absent"}]
  /\ deleted \in [APIs -> BOOLEAN]
  /\ verStatus \in [Versions -> VersionStatuses \cup {"absent"}]
  /\ upstream \in [Versions -> Upstreams \cup {NoUpstream}]
  /\ row \in [Versions -> Row \cup {NoRow}]
  /\ job \in [Jobs -> PublishJob \cup DeleteJob \cup {NoJob}]

RegInit ==
  /\ now = 0
  /\ apiStatus = [a \in APIs |-> "absent"]
  /\ deleted = [a \in APIs |-> FALSE]
  /\ verStatus = [v \in Versions |-> "absent"]
  /\ upstream = [v \in Versions |-> NoUpstream]
  /\ row = [v \in Versions |-> NoRow]
  /\ job = [j \in Jobs |-> NoJob]

-----------------------------------------------------------------------------
\* What GetByID finds: a row with deleted_at IS NULL.
Live(a) == apiStatus[a] # "absent" /\ ~ deleted[a]

CreateAPI(a) ==
  /\ apiStatus[a] = "absent"
  /\ apiStatus' = [apiStatus EXCEPT ![a] = "draft"]
  /\ UNCHANGED <<now, deleted, verStatus, upstream, row, job>>

\* UpdateAPI: any status, as the request has it.
UpdateAPI(a, st) ==
  /\ Live(a)
  /\ apiStatus' = [apiStatus EXCEPT ![a] = st]
  /\ UNCHANGED <<now, deleted, verStatus, upstream, row, job>>

CreateVersion(v, u) ==
  /\ Live(ApiOf[v])
  /\ verStatus[v] = "absent"
  /\ verStatus' = [verStatus EXCEPT ![v] = "draft"]
  /\ upstream' = [upstream EXCEPT ![v] = u]
  /\ UNCHANGED <<now, apiStatus, deleted, row, job>>

\* UpdateVersion: whatever the status; the route is not touched.
UpdateVersion(v, u) ==
  /\ verStatus[v] # "absent"
  /\ upstream' = [upstream EXCEPT ![v] = u]
  /\ UNCHANGED <<now, apiStatus, deleted, verStatus, row, job>>

\* PublishVersion: GetByID and GetByAPIAndVersion ...
PublishRead(j, v) ==
  /\ job[j] = NoJob
  /\ Live(ApiOf[v]) /\ verStatus[v] # "absent"
  /\ job' = [job EXCEPT ![j] =
               [pc |-> "version", ver |-> v, up |-> upstream[v]]]
  /\ UNCHANGED <<now, apiStatus, deleted, verStatus, upstream, row>>

\* Mutant of Publishable: the WHERE status = 'draft' is missing.
Publishable_Any(v) == TRUE

Publishable(v) == verStatus[v] = "draft"

\* Mutant of PublishVersion: the error of a version that is no draft is ignored.
PublishVersion_Ignored(j) ==
  /\ job[j] # NoJob /\ job[j].pc = "version"
  /\ verStatus' = [verStatus EXCEPT ![job[j].ver] = "active"]
  /\ job' = [job EXCEPT ![j] = [job[j] EXCEPT !.pc = "api"]]
  /\ UNCHANGED <<now, apiStatus, deleted, upstream, row>>

\* ... UPDATE ... WHERE status = 'draft'; ErrVersionNotDraft ends the request ...
PublishVersion(j) ==
  /\ job[j] # NoJob /\ job[j].pc = "version"
  /\ LET v == job[j].ver IN
     IF Publishable(v)
       THEN /\ verStatus' = [verStatus EXCEPT ![v] = "active"]
            /\ job' = [job EXCEPT ![j] = [job[j] EXCEPT !.pc = "api"]]
       ELSE /\ job' = [job EXCEPT ![j] = NoJob]
            /\ UNCHANGED verStatus
  /\ UNCHANGED <<now, apiStatus, deleted, upstream, row>>

\* ... the API becomes published, unless it is deleted or the UPDATE fails ...
PublishAPI(j) ==
  /\ job[j] # NoJob /\ job[j].pc = "api"
  /\ LET a == ApiOf[job[j].ver] IN
     \/ Live(a) /\ apiStatus' = [apiStatus EXCEPT ![a] = "published"]
     \/ UNCHANGED apiStatus
  /\ job' = [job EXCEPT ![j] = [job[j] EXCEPT !.pc = "route"]]
  /\ UNCHANGED <<now, deleted, verStatus, upstream, row>>

\* ... and the route is upserted, with the upstream read at the start.
PublishRoute(j) ==
  /\ job[j] # NoJob /\ job[j].pc = "route"
  /\ row' = [row EXCEPT ![job[j].ver] = [up |-> job[j].up, at |-> now]]
  /\ job' = [job EXCEPT ![j] = NoJob]
  /\ UNCHANGED <<now, apiStatus, deleted, verStatus, upstream>>

\* A statement fails (the one for the route only logs), or the process stops.
JobFails(j) ==
  /\ job[j] # NoJob
  /\ job' = [job EXCEPT ![j] = NoJob]
  /\ UNCHANGED <<now, apiStatus, deleted, verStatus, upstream, row>>

DeprecateVersion(v) ==
  /\ verStatus[v] = "active"
  /\ verStatus' = [verStatus EXCEPT ![v] = "deprecated"]
  /\ UNCHANGED <<now, apiStatus, deleted, upstream, row, job>>

\* Delete: SELECT status; ErrCannotDeletePublished ends the request ...
DeleteRead(j, a) ==
  /\ job[j] = NoJob
  /\ Live(a) /\ apiStatus[a] # "published"
  /\ job' = [job EXCEPT ![j] = [pc |-> "delete", api |-> a]]
  /\ UNCHANGED <<now, apiStatus, deleted, verStatus, upstream, row>>

\* ... UPDATE apis SET deleted_at WHERE id.
DeleteWrite(j) ==
  /\ job[j] # NoJob /\ job[j].pc = "delete"
  /\ deleted' = [deleted EXCEPT ![job[j].api] = TRUE]
  /\ job' = [job EXCEPT ![j] = NoJob]
  /\ UNCHANGED <<now, apiStatus, verStatus, upstream, row>>

Tick ==
  /\ now < MaxTime
  /\ now' = now + 1
  /\ UNCHANGED <<apiStatus, deleted, verStatus, upstream, row, job>>

RegNext ==
  \/ \E a \in APIs : CreateAPI(a)
  \/ \E a \in APIs, st \in APIStatuses : UpdateAPI(a, st)
  \/ \E v \in Versions, u \in Upstreams : CreateVersion(v, u)
  \/ \E v \in Versions, u \in Upstreams : UpdateVersion(v, u)
  \/ \E j \in Jobs, v \in Versions : PublishRead(j, v)
  \/ \E j \in Jobs : PublishVersion(j) \/ PublishAPI(j) \/ PublishRoute(j)
  \/ \E j \in Jobs : JobFails(j)
  \/ \E v \in Versions : DeprecateVersion(v)
  \/ \E j \in Jobs, a \in APIs : DeleteRead(j, a)
  \/ \E j \in Jobs : DeleteWrite(j)
  \/ Tick

RegSpec == RegInit /\ [][RegNext]_regVars

-----------------------------------------------------------------------------
\* A publication that has activated its version and not yet written its route.
Activating(j, v) ==
  job[j] # NoJob /\ job[j].pc \in {"api", "route"} /\ job[j].ver = v

\* Versions with a route or about to get one were published, by one job only.
OnePublisher ==
  \A v \in Versions :
     /\ row[v] # NoRow \/ (\E j \in Jobs : Activating(j, v))
          => verStatus[v] \in {"active", "deprecated"}
     /\ \A i, j \in Jobs : Activating(i, v) /\ Activating(j, v) => i = j
     /\ \A j \in Jobs : Activating(j, v) => row[v] = NoRow

\* A job has read an existing version, and versions have upstreams.
JobsHaveVersions ==
  /\ \A v \in Versions : verStatus[v] # "absent" => upstream[v] \in Upstreams
  /\ \A j \in Jobs : (job[j] # NoJob /\ job[j].pc = "version")
                        => verStatus[job[j].ver] # "absent"
  /\ \A v \in Versions : row[v] # NoRow => row[v].at <= now

(***************************************************************************)
(* The inductive invariant of the registry: however publications race, a   *)
(* version is published by one of them, and only that one writes a route.  *)
(***************************************************************************)
RegInv == RegTypeOK /\ OnePublisher /\ JobsHaveVersions

(***************************************************************************)
(* A route row is written once: no later publication, deprecation, change  *)
(* of the version's upstream_url or deletion of the API reaches it.        *)
(***************************************************************************)
RoutesWrittenOnce ==
  [][\A v \in Versions : row[v] # NoRow => row'[v] = row[v]]_regVars

\* A published version whose route was not written: the upsert failed, or the
\* process stopped before it.
RouteLost(v) ==
  /\ verStatus[v] \in {"active", "deprecated"}
  /\ row[v] = NoRow
  /\ ~ \E j \in Jobs : Activating(j, v)

(***************************************************************************)
(* PublishVersion only logs an upsert that fails, and a published version  *)
(* is no draft: no request can write the route later, so the version stays *)
(* without one for ever.                                                   *)
(***************************************************************************)
LostRoutesStayLost == [][\A v \in Versions : RouteLost(v) => RouteLost(v)']_regVars
=============================================================================
