-------------------------------- MODULE Bff --------------------------------
(***************************************************************************)
(* The BFF: GraphQL operations in front of the registry, subscription,     *)
(* auth and policy services.  One operation makes several HTTP calls, one  *)
(* after another (a mutation that reads back what it wrote) or in parallel *)
(* (the field resolvers of the nodes a query found); every call may fail,  *)
(* and a call whose answer is lost may have had its effect.                *)
(*                                                                         *)
(* The services are reduced to what the operations read and write; the     *)
(* steps inside a service are in Subscription, ApiKeys and Registry.  An   *)
(* organisation has at most one subscription per API, so subscriptions are *)
(* named by their API.                                                     *)
(***************************************************************************)
EXTENDS Naturals, FiniteSets

CONSTANTS
  Callers,      \* who sends operations, one at a time
  Apis,
  Keys,
  Tokens,       \* session tokens of the auth service, one per login
  MaxKeys,      \* max_api_keys of the plan
  MaxFailures   \* bound on calls of services that fail

VARIABLES
  apis,      \* registry: API -> its status
  subs,      \* subscription service: API -> status of the subscription
  keys,      \* subscription service: key -> [sub, status]
  token,     \* session token -> "unused", "live" (for an hour) or "expired"
  op,        \* caller -> the operation it waits for
  failures   \* history: calls that failed so far

services == <<apis, subs, keys>>
bffVars == <<services, token, op, failures>>

NoSubs == [a \in Apis |-> "none"]

\* err: the response has errors; seen, found and listed are the subscriptions,
\* the APIs and the keys with their status that it carries.  sick and done are
\* history: a call failed, the change was committed.
Idle ==
  [doc |-> "none", arg |-> "none", token |-> "none", stage |-> "idle",
   todo |-> {}, err |-> FALSE, sick |-> FALSE, done |-> FALSE,
   seen |-> NoSubs, found |-> {}, listed |-> {}]

BffInit ==
  /\ apis \in [Apis -> {"none", "published", "deleted"}]
  /\ subs \in [Apis -> {"none", "active"}]
  /\ \A a \in Apis : subs[a] # "none" => apis[a] # "none"
  /\ keys = [k \in Keys |-> [sub |-> "none", status |-> "none"]]
  /\ op = [c \in Callers |-> Idle]
  /\ failures = 0

-----------------------------------------------------------------------------
(* The schema against what the registry sends.                             *)

\* The fields of the registry's JSON that mapAPI finds: a version's path,
\* upstream and number are not among them, nor are org_id and retries.
RegistryFields == {"id", "name", "description", "status", "tags", "createdAt", "updatedAt"}

NullableFields == {"description", "org", "policyChain"}

\* enum APIStatus
APIStatus == {"draft", "active", "deprecated", "archived"}

\* The fields of API that a document asks for.
Selection(doc) ==
  CASE doc \in {"subscriptions", "subscription"} -> {"id", "name", "basePath", "version"}
    [] doc = "apis" ->
         {"id", "name", "version", "basePath", "description", "status", "tags"}
    [] doc \in {"api", "createAPI"} ->
         {"id", "name", "version", "basePath", "upstreamUrl", "description", "status", "tags"}
    [] doc = "updateAPI" -> {"id", "status"}
    [] OTHER -> {"id", "name"}

\* graphql-js completes an API: every non-null field has a value, the status is
\* one of the enum's.  Otherwise the response has an error and no API.
Complete(doc, status) ==
  /\ Selection(doc) \subseteq RegistryFields \cup NullableFields
  /\ "status" \in Selection(doc) => status \in APIStatus

Exists(a) == apis[a] \notin {"none", "deleted"}

-----------------------------------------------------------------------------
(* What the services do with a mutation.                                   *)

StatusOf == [approve |-> "active", suspend |-> "suspended", cancelSubscription |-> "cancelled"]
StatusDocs == DOMAIN StatusOf

Transitions ==
  {<<"pending", "active">>, <<"pending", "cancelled">>, <<"active", "suspended">>,
   <<"active", "cancelled">>, <<"suspended", "active">>, <<"suspended", "cancelled">>}

ActiveKeys(a) == {k \in Keys : keys[k] = [sub |-> a, status |-> "active"]}
FreeKeys == {k \in Keys : keys[k].status = "none"}

\* The service takes the mutation; otherwise it answers 4xx.
Accepts(doc, arg) ==
  CASE doc = "createSubscription" -> subs[arg] = "none" /\ apis[arg] # "none"
    [] doc \in StatusDocs -> <<subs[arg], StatusOf[doc]>> \in Transitions
    [] doc = "createAPIKey" ->
         /\ subs[arg] = "active" /\ Cardinality(ActiveKeys(arg)) < MaxKeys
         /\ FreeKeys # {}
    [] doc = "revokeAPIKey" -> keys[arg].status = "active"
    [] doc = "createAPI" -> apis[arg] = "none"
    [] doc = "updateAPI" -> Exists(arg)
    [] doc = "deleteAPI" -> Exists(arg) /\ apis[arg] # "published"

Mutations == StatusDocs \cup
  {"createSubscription", "createAPIKey", "revokeAPIKey", "createAPI", "updateAPI", "deleteAPI"}

\* updateAPI sets the status, here to deprecated.
Apply(doc, arg) ==
  /\ subs' = CASE doc = "createSubscription" -> [subs EXCEPT ![arg] = "pending"]
               [] doc \in StatusDocs -> [subs EXCEPT ![arg] = StatusOf[doc]]
               [] OTHER -> subs
  /\ keys' = CASE doc = "createAPIKey" ->
                    [keys EXCEPT ![CHOOSE k \in FreeKeys : TRUE] =
                                   [sub |-> arg, status |-> "active"]]
               [] doc = "revokeAPIKey" -> [keys EXCEPT ![arg].status = "revoked"]
               [] OTHER -> keys
  /\ apis' = CASE doc = "createAPI" -> [apis EXCEPT ![arg] = "draft"]
               [] doc = "updateAPI" -> [apis EXCEPT ![arg] = "deprecated"]
               [] doc = "deleteAPI" -> [apis EXCEPT ![arg] = "deleted"]
               [] OTHER -> apis

-----------------------------------------------------------------------------
(* One operation.                                                          *)

Sends(c, doc, arg, x) ==
  op' = [op EXCEPT ![c] =
           [Idle EXCEPT !.doc = doc, !.arg = arg, !.token = x, !.stage = "root"]]

Answer(c, o) == op' = [op EXCEPT ![c] = [o EXCEPT !.stage = "answered", !.todo = {}]]

\* A response with an error: the client's errorPolicy drops the data.
Fails(c, o) == Answer(c, [o EXCEPT !.err = TRUE])

AtRoot(c) == op[c].stage = "root"
\* buildContext verifies the token itself; user is null when it does not hold.
User(c) == op[c].token # "none" /\ token[op[c].token] = "live"

requireAuth(c) ==
  /\ AtRoot(c) /\ ~User(c)
  /\ Fails(c, op[c])
  /\ UNCHANGED <<services, token, failures>>

\* Operations no service answers: the data source throws, or the path has no
\* handler (plans and chains cannot be written through these paths).
DeadEnds ==
  {"createOrganization", "updateOrganization", "deleteOrganization", "apiKey",
   "createPlan", "updatePlan", "deletePlan", "publishPolicyChain",
   "invalidatePolicyCache", "otherStatus"}

DeadEnd(c) ==
  /\ AtRoot(c) /\ User(c) /\ op[c].doc \in DeadEnds
  /\ Fails(c, op[c])
  /\ UNCHANGED <<services, token, failures>>

Failing == failures < MaxFailures /\ failures' = failures + 1

\* ServiceClient.request: no connection, the timeout, or a status of 500.
CallFails(c) ==
  /\ AtRoot(c) /\ User(c) /\ op[c].doc \notin DeadEnds /\ Failing
  /\ Fails(c, [op[c] EXCEPT !.sick = TRUE])
  /\ UNCHANGED <<services, token>>

\* The service commits and the BFF's timeout fires before the answer.
AnswerLost(c) ==
  /\ AtRoot(c) /\ User(c) /\ op[c].doc \in Mutations
  /\ Accepts(op[c].doc, op[c].arg) /\ Failing
  /\ Apply(op[c].doc, op[c].arg)
  /\ Fails(c, [op[c] EXCEPT !.sick = TRUE, !.done = TRUE])
  /\ UNCHANGED token

Refused(c) ==
  /\ AtRoot(c) /\ User(c) /\ op[c].doc \in Mutations
  /\ ~Accepts(op[c].doc, op[c].arg)
  /\ Fails(c, op[c])
  /\ UNCHANGED <<services, token, failures>>

\* createAPI, updateAPI and deleteAPI answer with what the registry sent.
AnswerWithApi(c, o) ==
  IF o.doc = "deleteAPI" \/ Complete(o.doc, apis'[o.arg]) THEN Answer(c, o) ELSE Fails(c, o)

\* What follows a mutation: the read back, the api field of the new
\* subscription, or the completion of the API that came back.
Mutate(c) ==
  LET o == [op[c] EXCEPT !.done = TRUE] IN
  /\ AtRoot(c) /\ User(c) /\ o.doc \in Mutations /\ Accepts(o.doc, o.arg)
  /\ Apply(o.doc, o.arg)
  /\ CASE o.doc \in StatusDocs -> op' = [op EXCEPT ![c] = [o EXCEPT !.stage = "readBack"]]
       [] o.doc = "createSubscription" ->
            op' = [op EXCEPT ![c] = [o EXCEPT !.stage = "fields", !.todo = {<<"api", o.arg>>}]]
       [] o.doc \in {"createAPI", "updateAPI", "deleteAPI"} -> AnswerWithApi(c, o)
       [] OTHER -> Answer(c, o)
  /\ UNCHANGED <<token, failures>>

\* Mutant of ReadBack: only an active subscription counts as found.
ReadBack_ActiveOnly(c) ==
  LET o == op[c] IN
  /\ o.stage = "readBack"
  /\ IF subs[o.arg] = "active" THEN Answer(c, [o EXCEPT !.seen[o.arg] = subs[o.arg]])
                               ELSE Fails(c, o)
  /\ UNCHANGED <<services, token, failures>>

\* updateSubscriptionStatus: getSubscription after the PUT.
ReadBack(c) ==
  /\ op[c].stage = "readBack"
  /\ Answer(c, [op[c] EXCEPT !.seen[op[c].arg] = subs[op[c].arg]])
  /\ UNCHANGED <<services, token, failures>>

\* "subscription not found after cancel": any failure of the read back.
ReadBackFails(c) ==
  /\ op[c].stage = "readBack" /\ Failing
  /\ Fails(c, [op[c] EXCEPT !.sick = TRUE])
  /\ UNCHANGED <<services, token>>

Listed(o) ==
  IF o.doc = "subscriptions" THEN subs
  ELSE [a \in Apis |-> IF a = o.arg THEN subs[a] ELSE "none"]

\* The roots that find subscriptions; their nodes' api and apiKeys come next.
ReadSubscriptions(c) ==
  LET o == op[c]
      seen == Listed(o)
      nodes == {a \in Apis : seen[a] # "none"} IN
  /\ AtRoot(c) /\ User(c) /\ o.doc \in {"subscriptions", "subscription"}
  /\ CASE nodes # {} ->
            op' = [op EXCEPT ![c] = [o EXCEPT !.stage = "fields", !.seen = seen,
                                              !.todo = {"api", "apiKeys"} \X nodes]]
       [] nodes = {} /\ o.doc = "subscriptions" -> Answer(c, o)
       [] nodes = {} /\ o.doc = "subscription" -> Fails(c, o)    \* notFound
  /\ UNCHANGED <<services, token, failures>>

\* apis and api: a node that cannot be completed takes the response with it.
\* The registry sends null for an empty list, which resp.data.map does not take.
ReadApis(c) ==
  LET o == op[c]
      nodes == {a \in Apis : Exists(a) /\ (o.doc = "api" => a = o.arg)} IN
  /\ AtRoot(c) /\ User(c) /\ o.doc \in {"apis", "api"}
  /\ IF nodes # {} /\ \A a \in nodes : Complete(o.doc, apis[a])
       THEN Answer(c, [o EXCEPT !.found = nodes]) ELSE Fails(c, o)
  /\ UNCHANGED <<services, token, failures>>

\* me, organizations, plans, policyChain and their like.
OtherQueries == {"me", "organizations", "organization", "plans", "plan", "apiKeys", "policyChain"}

ReadOther(c) ==
  /\ AtRoot(c) /\ User(c) /\ op[c].doc \in OtherQueries
  /\ IF op[c].doc = "me"
       THEN op' = [op EXCEPT ![c] = [op[c] EXCEPT !.stage = "fields", !.todo = {<<"org", "none">>}]]
       ELSE Answer(c, op[c])
  /\ UNCHANGED <<services, token, failures>>

-----------------------------------------------------------------------------
(* The field resolvers, in any order.                                      *)

\* The keys of a subscription, whatever their status.
KeysOf(a) == {<<k, keys[k].status>> : k \in {j \in Keys : keys[j].sub = a}}

\* What resolving field f adds to the response.  An API the registry does not
\* have is null, without an error; so is a plan.
Resolved(o, f) ==
  CASE f[1] = "api" /\ ~Exists(f[2]) -> o
    [] f[1] = "api" /\ Exists(f[2]) ->
         IF Complete(o.doc, apis[f[2]]) THEN [o EXCEPT !.found = @ \cup {f[2]}]
                                        ELSE [o EXCEPT !.err = TRUE]
    [] f[1] = "apiKeys" -> [o EXCEPT !.listed = @ \cup KeysOf(f[2])]
    [] f[1] = "org" -> o

\* A field that fails: getAPI answers null, listAPIKeys and the organisation
\* loader throw.
Unresolved(o, f) == [o EXCEPT !.sick = TRUE, !.err = @ \/ f[1] # "api"]

Field(c, f) ==
  /\ op[c].stage = "fields" /\ f \in op[c].todo
  /\ \/ /\ LET o == Resolved(op[c], f) IN
           IF op[c].todo = {f} THEN Answer(c, o)
                               ELSE op' = [op EXCEPT ![c] = [o EXCEPT !.todo = @ \ {f}]]
        /\ UNCHANGED failures
     \/ /\ Failing
        /\ LET o == Unresolved(op[c], f) IN
           IF op[c].todo = {f} THEN Answer(c, o)
                               ELSE op' = [op EXCEPT ![c] = [o EXCEPT !.todo = @ \ {f}]]
  /\ UNCHANGED <<services, token>>

BffStep(c) ==
  \/ requireAuth(c) \/ DeadEnd(c) \/ CallFails(c) \/ AnswerLost(c) \/ Refused(c)
  \/ Mutate(c) \/ ReadBack(c) \/ ReadBackFails(c)
  \/ ReadSubscriptions(c) \/ ReadApis(c) \/ ReadOther(c)
  \/ \E f \in op[c].todo : Field(c, f)
=============================================================================
