--------------------------- MODULE Portal_proofs ---------------------------
(***************************************************************************)
(* The portal's answers, pages and sessions, for every number of tabs,     *)
(* APIs, keys and tokens, and every pattern of failing calls.              *)
(***************************************************************************)
EXTENDS Portal, TLAPS

OpFields ==
  {"doc", "arg", "token", "stage", "todo", "err", "sick", "done", "seen", "found", "listed"}

SubscriptionDocs == {"subscriptions", "subscription"}
ApiDocs == {"apis", "api"}

\* What an operation has done, has heard and still has to resolve, by stage.
Good(o) ==
  /\ DOMAIN o = OpFields
  /\ o.err \in BOOLEAN /\ o.sick \in BOOLEAN /\ o.done \in BOOLEAN
  /\ o.doc = "updateAPI" => o.arg \in Apis
  /\ o.found # {} => o.doc \in Mutations
  /\ o.stage = "root" => ~o.err /\ ~o.done
  /\ o.stage = "readBack" => ~o.err /\ o.done /\ o.doc \in Mutations
  /\ o.stage = "fields" =>
       \/ o.doc \in SubscriptionDocs /\ ~o.done /\ \A f \in o.todo : f[1] \in {"api", "apiKeys"}
       \/ o.doc = "me" /\ ~o.done /\ \A f \in o.todo : f[1] = "org"
       \/ o.doc = "createSubscription" /\ o.done /\ ~o.err /\ \A f \in o.todo : f[1] = "api"
  /\ o.stage = "answered" =>
       /\ o.err /\ o.done => o.sick \/ o.doc = "createAPI"
       /\ ~o.err /\ o.doc \in Mutations => o.done

\* The subscriptions and APIs that queries ask for can never be completed,
\* what the mutations ask for can.
LEMMA Completion ==
  /\ \A d \in SubscriptionDocs \cup ApiDocs : \A st : ~Complete(d, st)
  /\ \A st : Complete("createSubscription", st)
  /\ Complete("updateAPI", "deprecated")
<1>1. \A d \in SubscriptionDocs \cup ApiDocs :
        "basePath" \in Selection(d) /\ "basePath" \notin RegistryFields \cup NullableFields
  BY DEF SubscriptionDocs, ApiDocs, Selection, RegistryFields, NullableFields
<1>2. Selection("createSubscription") = {"id", "name"}
  BY DEF Selection
<1>3. Selection("updateAPI") = {"id", "status"}
  BY DEF Selection
<1> QED BY <1>1, <1>2, <1>3 DEF Complete, RegistryFields, NullableFields, APIStatus

\* Who is a mutation.
LEMMA MutationDocs ==
  /\ StatusDocs = {"approve", "suspend", "cancelSubscription"}
  /\ \A d \in SubscriptionDocs \cup ApiDocs \cup OtherQueries \cup DeadEnds : d \notin Mutations
  /\ StatusDocs \subseteq Mutations /\ "createSubscription" \in Mutations
  /\ "me" \in OtherQueries
<1>1. StatusDocs = {"approve", "suspend", "cancelSubscription"}
  BY DEF StatusDocs, StatusOf
<1> QED BY <1>1 DEF Mutations, SubscriptionDocs, ApiDocs, OtherQueries, DeadEnds

\* The idle operation and one that was just sent are good.
LEMMA SentGood ==
  /\ Good(Idle)
  /\ \A d, a, x : (d = "updateAPI" => a \in Apis) =>
       Good([Idle EXCEPT !.doc = d, !.arg = a, !.token = x, !.stage = "root"])
  BY DEF Good, Idle, OpFields

\* The states of operations and services the argument needs.
OpInv ==
  /\ DOMAIN op = Callers /\ \A c \in Callers : Good(op[c])
  /\ DOMAIN apis = Apis

\* Caller c's operation is answered from o, with or without errors.
Becomes(c, o, e) ==
  /\ DOMAIN op' = Callers
  /\ \A d \in Callers \ {c} : op'[d] = op[d]
  /\ DOMAIN op'[c] = OpFields /\ op'[c].stage = "answered"
  /\ op'[c].err = e /\ op'[c].sick = o.sick /\ op'[c].done = o.done
  /\ op'[c].doc = o.doc /\ op'[c].arg = o.arg /\ op'[c].found = o.found

\* An answer keeps everything but the stage and what is left to do.
LEMMA Answered ==
  ASSUME NEW c \in Callers, NEW o, DOMAIN op = Callers, DOMAIN o = OpFields,
         Answer(c, o)
  PROVE  Becomes(c, o, o.err)
  BY DEF Answer, Becomes, OpFields

\* A response with an error, likewise.
LEMMA Failed ==
  ASSUME NEW c \in Callers, NEW o, DOMAIN op = Callers, DOMAIN o = OpFields,
         Fails(c, o)
  PROVE  Becomes(c, o, TRUE)
<1> DEFINE e == [o EXCEPT !.err = TRUE]
<1>1. /\ DOMAIN e = OpFields /\ e.err = TRUE /\ e.sick = o.sick /\ e.done = o.done
      /\ e.doc = o.doc /\ e.arg = o.arg /\ e.found = o.found
  BY DEF OpFields
<1>2. Answer(c, e)
  BY DEF Fails
<1> HIDE DEF e
<1> QED BY <1>1, <1>2, Answered DEF Becomes

\* A mutation changes the registry's APIs only at its argument.
LEMMA ApplyApis ==
  ASSUME NEW d, NEW a, DOMAIN apis = Apis, Apply(d, a)
  PROVE  /\ DOMAIN apis' = Apis
         /\ d = "updateAPI" /\ a \in Apis => apis'[a] = "deprecated"
  BY DEF Apply

\* A step of the BFF for caller c: the operation stays good, and it was not
\* idle before.
StepsWell(c) ==
  /\ DOMAIN op' = Callers
  /\ \A d \in Callers \ {c} : op'[d] = op[d]
  /\ Good(op'[c])
  /\ DOMAIN apis' = Apis
  /\ op[c].stage # "idle"

\* Operations that end at their root resolver, by an error or an answer.
LEMMA RootStep ==
  ASSUME OpInv, NEW c \in Callers,
         \/ requireAuth(c) \/ DeadEnd(c) \/ CallFails(c) \/ AnswerLost(c) \/ Refused(c)
         \/ ReadBack(c) \/ ReadBackFails(c)
  PROVE  StepsWell(c)
<1>0. Good(op[c]) /\ DOMAIN op = Callers /\ DOMAIN apis = Apis /\ DOMAIN op[c] = OpFields
  BY DEF OpInv, Good
<1>1. CASE requireAuth(c) \/ DeadEnd(c) \/ Refused(c)
  <2>1. op[c].stage = "root" /\ Fails(c, op[c]) /\ apis' = apis
    BY <1>1 DEF requireAuth, DeadEnd, Refused, AtRoot, services
  <2>2. Becomes(c, op[c], TRUE)
    BY <1>0, <2>1, Failed
  <2> QED BY <1>0, <2>1, <2>2 DEF Becomes, StepsWell, Good
<1>2. CASE CallFails(c) \/ ReadBackFails(c)
  <2> DEFINE o == [op[c] EXCEPT !.sick = TRUE]
  <2>1. op[c].stage \in {"root", "readBack"} /\ Fails(c, o) /\ apis' = apis
    BY <1>2 DEF CallFails, ReadBackFails, AtRoot, services
  <2>2. /\ DOMAIN o = OpFields /\ o.sick = TRUE /\ o.done = op[c].done
        /\ o.doc = op[c].doc /\ o.arg = op[c].arg /\ o.found = op[c].found
    BY <1>0 DEF OpFields
  <2> HIDE DEF o
  <2>3. Becomes(c, o, TRUE)
    BY <1>0, <2>1, <2>2, Failed
  <2> QED BY <1>0, <2>1, <2>2, <2>3 DEF Becomes, StepsWell, Good
<1>3. CASE AnswerLost(c)
  <2> DEFINE o == [op[c] EXCEPT !.sick = TRUE, !.done = TRUE]
  <2>1. op[c].stage = "root" /\ Fails(c, o) /\ DOMAIN apis' = Apis
    BY <1>0, <1>3, ApplyApis DEF AnswerLost, AtRoot
  <2>2. /\ DOMAIN o = OpFields /\ o.sick = TRUE /\ o.done = TRUE
        /\ o.doc = op[c].doc /\ o.arg = op[c].arg /\ o.found = op[c].found
    BY <1>0 DEF OpFields
  <2> HIDE DEF o
  <2>3. Becomes(c, o, TRUE)
    BY <1>0, <2>1, <2>2, Failed
  <2> QED BY <1>0, <2>1, <2>2, <2>3 DEF Becomes, StepsWell, Good
<1>4. CASE ReadBack(c)
  <2> DEFINE o == [op[c] EXCEPT !.seen[op[c].arg] = subs[op[c].arg]]
  <2>1. op[c].stage = "readBack" /\ Answer(c, o) /\ apis' = apis
    BY <1>4 DEF ReadBack, services
  <2>2. /\ DOMAIN o = OpFields /\ o.sick = op[c].sick /\ o.done = op[c].done /\ o.err = op[c].err
        /\ o.doc = op[c].doc /\ o.arg = op[c].arg /\ o.found = op[c].found
    BY <1>0 DEF OpFields
  <2> HIDE DEF o
  <2>3. Becomes(c, o, o.err)
    BY <1>0, <2>1, <2>2, Answered
  <2> QED BY <1>0, <2>1, <2>2, <2>3 DEF Becomes, StepsWell, Good
<1> QED BY <1>1, <1>2, <1>3, <1>4

\* A mutation that the service took.
LEMMA MutateStep ==
  ASSUME OpInv, NEW c \in Callers, Mutate(c)
  PROVE  StepsWell(c)
<1> DEFINE o == [op[c] EXCEPT !.done = TRUE]
<1>0. Good(op[c]) /\ DOMAIN op = Callers /\ DOMAIN apis = Apis /\ DOMAIN op[c] = OpFields
  BY DEF OpInv, Good
<1>1. /\ DOMAIN o = OpFields /\ o.done = TRUE /\ o.sick = op[c].sick /\ o.err = op[c].err
      /\ o.doc = op[c].doc /\ o.arg = op[c].arg /\ o.found = op[c].found
  BY <1>0 DEF OpFields
<1>2. /\ op[c].stage = "root" /\ o.doc \in Mutations /\ Apply(o.doc, o.arg)
      /\ CASE o.doc \in StatusDocs -> op' = [op EXCEPT ![c] = [o EXCEPT !.stage = "readBack"]]
           [] o.doc = "createSubscription" ->
                op' = [op EXCEPT ![c] = [o EXCEPT !.stage = "fields", !.todo = {<<"api", o.arg>>}]]
           [] o.doc \in {"createAPI", "updateAPI", "deleteAPI"} -> AnswerWithApi(c, o)
           [] OTHER -> Answer(c, o)
  BY DEF Mutate, AtRoot
<1> HIDE DEF o
<1>3. /\ DOMAIN apis' = Apis
      /\ o.doc = "updateAPI" => apis'[o.arg] = "deprecated"
  BY <1>0, <1>1, <1>2, ApplyApis DEF Good
<1>4. ~o.err
  BY <1>0, <1>1, <1>2 DEF Good
<1>5. CASE o.doc \in StatusDocs
  <2> DEFINE r == [o EXCEPT !.stage = "readBack"]
  <2>1. op' = [op EXCEPT ![c] = r]
    BY <1>2, <1>5, MutationDocs
  <2>2. /\ DOMAIN r = OpFields /\ r.done = TRUE /\ r.sick = o.sick /\ r.err = o.err
        /\ r.doc = o.doc /\ r.arg = o.arg /\ r.found = o.found /\ r.stage = "readBack"
    BY <1>1 DEF OpFields
  <2> HIDE DEF r
  <2> QED BY <1>0, <1>1, <1>2, <1>3, <1>4, <2>1, <2>2 DEF StepsWell, Good
<1>6. CASE o.doc = "createSubscription"
  <2> DEFINE r == [o EXCEPT !.stage = "fields", !.todo = {<<"api", o.arg>>}]
  <2>1. op' = [op EXCEPT ![c] = r]
    BY <1>2, <1>6, MutationDocs
  <2>2. /\ DOMAIN r = OpFields /\ r.done = TRUE /\ r.sick = o.sick /\ r.err = o.err
        /\ r.doc = o.doc /\ r.arg = o.arg /\ r.found = o.found /\ r.stage = "fields"
        /\ \A f \in r.todo : f[1] = "api"
    BY <1>1 DEF OpFields
  <2> HIDE DEF r
  <2> QED BY <1>0, <1>1, <1>2, <1>3, <1>4, <1>6, <2>1, <2>2 DEF StepsWell, Good
<1>7. CASE Answer(c, o)
  <2>1. Becomes(c, o, o.err)
    BY <1>0, <1>1, <1>7, Answered
  <2> QED BY <1>0, <1>1, <1>2, <1>3, <1>4, <2>1 DEF Becomes, StepsWell, Good
<1>8. CASE o.doc = "createAPI" /\ Fails(c, o)
  <2>1. Becomes(c, o, TRUE)
    BY <1>0, <1>1, <1>8, Failed
  <2> QED BY <1>0, <1>1, <1>2, <1>3, <1>8, <2>1 DEF Becomes, StepsWell, Good
<1>9. o.doc \in {"createAPI", "updateAPI", "deleteAPI"} =>
        Answer(c, o) \/ (o.doc = "createAPI" /\ Fails(c, o))
  <2>1. ASSUME o.doc \in {"createAPI", "updateAPI", "deleteAPI"} PROVE AnswerWithApi(c, o)
    BY <1>2, <2>1, MutationDocs
  <2> QED BY <1>3, <2>1, Completion DEF AnswerWithApi
<1>10. \/ o.doc \in StatusDocs \/ o.doc = "createSubscription"
       \/ o.doc \in {"createAPI", "updateAPI", "deleteAPI"} \/ Answer(c, o)
  BY <1>2
<1> QED BY <1>5, <1>6, <1>7, <1>8, <1>9, <1>10

\* A query finds its nodes, or answers at once.
LEMMA ReadStep ==
  ASSUME OpInv, NEW c \in Callers, ReadSubscriptions(c) \/ ReadApis(c) \/ ReadOther(c)
  PROVE  StepsWell(c)
<1>0. Good(op[c]) /\ DOMAIN op = Callers /\ DOMAIN apis = Apis /\ DOMAIN op[c] = OpFields
  BY DEF OpInv, Good
<1>1. op[c].stage = "root" /\ apis' = apis
  BY DEF ReadSubscriptions, ReadApis, ReadOther, AtRoot, services
<1>2. ~op[c].err /\ ~op[c].done
  BY <1>0, <1>1 DEF Good
<1>3. op[c].doc \notin Mutations
  BY MutationDocs DEF ReadSubscriptions, ReadApis, ReadOther, SubscriptionDocs, ApiDocs
<1>4. op[c].found = {}
  BY <1>0, <1>3 DEF Good
<1>5. CASE Fails(c, op[c])
  <2>1. Becomes(c, op[c], TRUE)
    BY <1>0, <1>5, Failed
  <2> QED BY <1>0, <1>1, <1>2, <2>1 DEF Becomes, StepsWell, Good
<1>6. CASE Answer(c, op[c])
  <2>1. Becomes(c, op[c], op[c].err)
    BY <1>0, <1>6, Answered
  <2> QED BY <1>0, <1>1, <1>2, <1>3, <2>1 DEF Becomes, StepsWell, Good
<1>7. CASE ReadSubscriptions(c)
  <2> DEFINE seen == Listed(op[c])
             nodes == {a \in Apis : seen[a] # "none"}
             o == [op[c] EXCEPT !.stage = "fields", !.seen = seen,
                                !.todo = {"api", "apiKeys"} \X nodes]
  <2>1. op[c].doc \in SubscriptionDocs
    BY <1>7 DEF ReadSubscriptions, SubscriptionDocs
  <2>2. Answer(c, op[c]) \/ Fails(c, op[c]) \/ op' = [op EXCEPT ![c] = o]
    <3>1. CASE nodes # {}
      BY <1>7, <3>1 DEF ReadSubscriptions
    <3>2. CASE nodes = {}
      BY <1>7, <2>1, <3>2 DEF ReadSubscriptions, SubscriptionDocs
    <3> QED BY <3>1, <3>2
  <2>3. ASSUME op' = [op EXCEPT ![c] = o] PROVE StepsWell(c)
    <3>1. /\ DOMAIN o = OpFields /\ o.stage = "fields" /\ o.done = op[c].done
          /\ o.sick = op[c].sick /\ o.err = op[c].err
          /\ o.doc = op[c].doc /\ o.arg = op[c].arg /\ o.found = op[c].found
          /\ \A f \in o.todo : f[1] \in {"api", "apiKeys"}
      <4> HIDE DEF nodes, seen
      <4> QED BY <1>0 DEF OpFields
    <3> HIDE DEF o
    <3> QED BY <1>0, <1>1, <1>2, <1>4, <2>1, <2>3, <3>1 DEF StepsWell, Good
  <2> QED BY <1>5, <1>6, <2>2, <2>3
<1>8. CASE ReadApis(c)
  <2> DEFINE nodes == {a \in Apis : Exists(a) /\ (op[c].doc = "api" => a = op[c].arg)}
  <2>1. op[c].doc \in ApiDocs
    BY <1>8 DEF ReadApis, ApiDocs
  <2>2. ~(nodes # {} /\ \A a \in nodes : Complete(op[c].doc, apis[a]))
    BY <2>1, Completion
  <2>3. Fails(c, op[c])
    BY <1>8, <2>2 DEF ReadApis
  <2> QED BY <1>5, <2>3
<1>9. CASE ReadOther(c)
  <2> DEFINE o == [op[c] EXCEPT !.stage = "fields", !.todo = {<<"org", "none">>}]
  <2>1. Answer(c, op[c]) \/ (op[c].doc = "me" /\ op' = [op EXCEPT ![c] = o])
    BY <1>9 DEF ReadOther
  <2>2. ASSUME op[c].doc = "me", op' = [op EXCEPT ![c] = o] PROVE StepsWell(c)
    <3>1. /\ DOMAIN o = OpFields /\ o.stage = "fields" /\ o.done = op[c].done
          /\ o.sick = op[c].sick /\ o.err = op[c].err
          /\ o.doc = op[c].doc /\ o.arg = op[c].arg /\ o.found = op[c].found
          /\ \A f \in o.todo : f[1] = "org"
      BY <1>0 DEF OpFields
    <3> HIDE DEF o
    <3> QED BY <1>0, <1>1, <1>2, <1>4, <2>2, <3>1 DEF StepsWell, Good
  <2> QED BY <1>6, <2>1, <2>2
<1> QED BY <1>7, <1>8, <1>9

\* What resolving a field, or failing to, does to an operation.
LEMMA FieldResult ==
  ASSUME NEW o, Good(o), o.stage = "fields", NEW f \in o.todo,
         NEW r \in {Resolved(o, f), Unresolved(o, f)}
  PROVE  /\ DOMAIN r = OpFields /\ r.stage = "fields" /\ r.todo = o.todo
         /\ r.doc = o.doc /\ r.arg = o.arg /\ r.done = o.done
         /\ r.sick \in BOOLEAN /\ r.err \in BOOLEAN
         /\ r.doc = "createSubscription" => ~r.err
         /\ r.found # {} => r.doc \in Mutations
<1>0. DOMAIN o = OpFields /\ o.err \in BOOLEAN /\ o.sick \in BOOLEAN
  BY DEF Good
<1>1. \/ o.doc \in SubscriptionDocs /\ f[1] \in {"api", "apiKeys"}
      \/ o.doc = "me" /\ f[1] = "org"
      \/ o.doc = "createSubscription" /\ f[1] = "api" /\ ~o.err
  BY DEF Good
<1>2. o.found # {} => o.doc \in Mutations
  BY DEF Good
<1>3. CASE r = o
  BY <1>0, <1>1, <1>2, <1>3 DEF SubscriptionDocs
<1>4. CASE r = Unresolved(o, f)
  BY <1>0, <1>1, <1>2, <1>4 DEF Unresolved, OpFields, SubscriptionDocs
<1>5. CASE r = Resolved(o, f)
  <2>1. CASE f[1] = "api" /\ Exists(f[2])
    <3>1. CASE Complete(o.doc, apis[f[2]])
      <4>1. r = [o EXCEPT !.found = @ \cup {f[2]}]
        BY <1>5, <2>1, <3>1 DEF Resolved
      <4>2. o.doc = "createSubscription" /\ ~o.err
        BY <1>1, <2>1, <3>1, Completion
      <4> QED BY <1>0, <4>1, <4>2, MutationDocs DEF OpFields
    <3>2. CASE ~Complete(o.doc, apis[f[2]])
      <4>1. r = [o EXCEPT !.err = TRUE]
        BY <1>5, <2>1, <3>2 DEF Resolved
      <4>2. o.doc # "createSubscription"
        BY <3>2, Completion
      <4> QED BY <1>0, <1>2, <4>1, <4>2 DEF OpFields
    <3> QED BY <3>1, <3>2
  <2>2. CASE f[1] = "apiKeys"
    <3>1. r = [o EXCEPT !.listed = @ \cup KeysOf(f[2])]
      BY <1>5, <2>2 DEF Resolved
    <3>2. o.doc # "createSubscription"
      BY <1>1, <2>2 DEF SubscriptionDocs
    <3> QED BY <1>0, <1>2, <3>1, <3>2 DEF OpFields
  <2>3. CASE (f[1] = "api" /\ ~Exists(f[2])) \/ f[1] = "org"
    <3>1. r = o
      BY <1>5, <2>3 DEF Resolved
    <3> QED BY <1>3, <3>1
  <2> QED BY <1>1, <2>1, <2>2, <2>3
<1> QED BY <1>4, <1>5

\* A field resolver ends.
LEMMA FieldStep ==
  ASSUME OpInv, NEW c \in Callers, NEW f \in op[c].todo, Field(c, f)
  PROVE  StepsWell(c)
<1>0. Good(op[c]) /\ DOMAIN op = Callers /\ DOMAIN apis = Apis /\ DOMAIN op[c] = OpFields
  BY DEF OpInv, Good
<1>1. /\ op[c].stage = "fields" /\ apis' = apis
      /\ \E r \in {Resolved(op[c], f), Unresolved(op[c], f)} :
           \/ Answer(c, r)
           \/ op' = [op EXCEPT ![c] = [r EXCEPT !.todo = @ \ {f}]]
  BY DEF Field, services
<1>2. PICK r \in {Resolved(op[c], f), Unresolved(op[c], f)} :
        Answer(c, r) \/ op' = [op EXCEPT ![c] = [r EXCEPT !.todo = @ \ {f}]]
  BY <1>1
<1>3. /\ DOMAIN r = OpFields /\ r.stage = "fields" /\ r.todo = op[c].todo
      /\ r.doc = op[c].doc /\ r.arg = op[c].arg /\ r.done = op[c].done
      /\ r.sick \in BOOLEAN /\ r.err \in BOOLEAN
      /\ r.doc = "createSubscription" => ~r.err
      /\ r.found # {} => r.doc \in Mutations
  BY <1>0, <1>1, FieldResult
<1>4. CASE Answer(c, r)
  <2>1. Becomes(c, r, r.err)
    BY <1>0, <1>3, <1>4, Answered
  <2>2. \/ r.doc \notin Mutations /\ ~r.done
        \/ r.doc = "createSubscription" /\ r.done /\ ~r.err
    BY <1>0, <1>1, <1>3, MutationDocs DEF Good, SubscriptionDocs
  <2> QED BY <1>0, <1>1, <1>3, <2>1, <2>2 DEF Becomes, StepsWell, Good
<1>5. CASE op' = [op EXCEPT ![c] = [r EXCEPT !.todo = @ \ {f}]]
  <2> DEFINE q == [r EXCEPT !.todo = @ \ {f}]
  <2>1. /\ DOMAIN q = OpFields /\ q.stage = "fields" /\ q.todo \subseteq op[c].todo
        /\ q.doc = op[c].doc /\ q.arg = op[c].arg /\ q.done = op[c].done
        /\ q.sick = r.sick /\ q.err = r.err /\ q.found = r.found
    BY <1>3 DEF OpFields
  <2>2. op' = [op EXCEPT ![c] = q]
    BY <1>5
  <2> HIDE DEF q
  <2>3. Good(q)
    BY <1>0, <1>1, <1>3, <2>1 DEF Good, SubscriptionDocs
  <2> QED BY <1>0, <1>1, <2>2, <2>3 DEF StepsWell
<1> QED BY <1>2, <1>4, <1>5

\* Every step of the BFF keeps the operations good.
LEMMA BffStepsWell ==
  ASSUME OpInv, NEW c \in Callers, BffStep(c)
  PROVE  StepsWell(c) /\ OpInv'
<1>1. StepsWell(c)
  BY RootStep, MutateStep, ReadStep, FieldStep DEF BffStep
<1>2. \A d \in Callers : Good(op'[d])
  BY <1>1 DEF StepsWell, OpInv
<1> QED BY <1>1, <1>2 DEF StepsWell, OpInv

-----------------------------------------------------------------------------
(* The browser.                                                            *)

LoginPages == {Login, PlainLogin}
QueryPages == {"dashboard", "keys", "catalogue", "detail"}
IsPage(p) == p \in LoginPages \/ p.page \in QueryPages

\* The domains of what tabs keep.
TabTypes ==
  /\ world \in Worlds
  /\ DOMAIN place = Tabs /\ DOMAIN shown = Tabs /\ DOMAIN form = Tabs
  /\ DOMAIN dialog = Tabs /\ DOMAIN nav = Tabs /\ DOMAIN outs = Tabs

\* No page shows an API, and no dialog is about updating one.
Screens ==
  \A t \in Tabs : /\ IsPage(place[t])
                  /\ shown[t].apis = {}
                  /\ dialog[t].doc # "updateAPI"

\* A logout needs a NavActions that has not logged out before.
Logouts == \A t \in Tabs : outs[t] \in {0, 1} /\ (nav[t] = "idle" => outs[t] = 0)

\* While a form is sending, its tab does nothing else.
Forms ==
  \A t \in Tabs :
    /\ form[t] \in {"idle", "sending"}
    /\ form[t] = "sending" => place[t].page = "login" /\ op[t] = Idle /\ nav[t] # "sending"

\* A login page beside a session, shown or cached, is older than it, or not the
\* middleware's.
OldForms ==
  cookie # "none" =>
    \A t \in Tabs : /\ t \in cache => t \in early
                    /\ place[t].page = "login" => t \in early \/ place[t] = PlainLogin

Browser == TabTypes /\ Screens /\ Logouts /\ Forms /\ OldForms
IInv == OpInv /\ Browser

\* The first page is a login page and nothing is under way.
LEMMA InitIInv == Init => IInv
<1> SUFFICES ASSUME Init PROVE IInv
  OBVIOUS
<1>1. OpInv
  BY SentGood DEF Init, BffInit, OpInv
<1>2. TabTypes /\ Logouts /\ Forms /\ OldForms
  BY DEF Init, BffInit, TabTypes, Logouts, Forms, OldForms
<1>3. Screens
  BY DEF Init, Screens, Blank, NoDialog, IsPage, LoginPages, Login
<1> QED BY <1>1, <1>2, <1>3 DEF IInv, Browser

\* Where the middleware sends a request.
LEMMA MiddlewarePages ==
  ASSUME NEW p, NEW s, IsPage(p)
  PROVE  /\ IsPage(middleware(p, s))
         /\ s # "none" /\ middleware(p, s).page = "login" =>
              middleware(p, s) = PlainLogin /\ p = PlainLogin
<1>1. /\ Login.page = "login" /\ PlainLogin.page = "login"
      /\ At("dashboard", "none").page = "dashboard" /\ PlainLogin # Login
  BY DEF At, Login, PlainLogin
<1>2. p.page \in QueryPages => p.page # "login"
  BY DEF QueryPages
<1>3. CASE p.page \in Protected /\ s = "none"
  BY <1>3 DEF middleware, IsPage, LoginPages
<1>4. CASE ~(p.page \in Protected /\ s = "none") /\ p = Login /\ s # "none"
  BY <1>1, <1>4 DEF middleware, IsPage, QueryPages, Protected
<1>5. CASE ~(p.page \in Protected /\ s = "none") /\ ~(p = Login /\ s # "none")
  <2>1. middleware(p, s) = p
    BY <1>5 DEF middleware
  <2> QED BY <1>1, <1>2, <1>5, <2>1 DEF IsPage, LoginPages
<1> QED BY <1>3, <1>4, <1>5

\* Requesting a page leaves a good operation, and a screen without APIs.
LEMMA Opened ==
  ASSUME OpInv, TabTypes, NEW t \in Tabs, NEW p, NEW s, IsPage(p), Open(t, p, s), apis' = apis
  PROVE  /\ OpInv'
         /\ DOMAIN place' = Tabs /\ DOMAIN shown' = Tabs /\ DOMAIN dialog' = Tabs
         /\ place'[t] = middleware(p, s) /\ shown'[t].apis = {} /\ dialog'[t].doc # "updateAPI"
         /\ \A u \in Tabs \ {t} : /\ place'[u] = place[u] /\ shown'[u] = shown[u]
                                  /\ dialog'[u] = dialog[u] /\ op'[u] = op[u]
<1> DEFINE q == middleware(p, s)
<1>1. t \in Callers /\ Tabs \subseteq Callers
  BY CallersAssumption
<1>2. IsPage(q)
  BY MiddlewarePages
<1>3. /\ place' = [place EXCEPT ![t] = q]
      /\ shown' = [shown EXCEPT ![t] = Blank]
      /\ dialog' = [dialog EXCEPT ![t] = NoDialog]
      /\ IF q.page = "login" THEN op' = [op EXCEPT ![t] = Idle]
                             ELSE Sends(t, Query(q.page), q.arg, s)
  BY DEF Open
<1> HIDE DEF q
<1>4. q.page # "login" => Query(q.page) # "updateAPI"
  BY <1>2 DEF IsPage, LoginPages, Login, PlainLogin, At, QueryPages, Query
<1>5. PICK o : Good(o) /\ op' = [op EXCEPT ![t] = o]
  BY <1>3, <1>4, SentGood DEF Sends
<1>6. OpInv'
  BY <1>1, <1>5 DEF OpInv
<1>7. Blank.apis = {} /\ NoDialog.doc # "updateAPI"
  BY DEF Blank, NoDialog
<1> QED BY <1>1, <1>3, <1>5, <1>6, <1>7 DEF OpInv, TabTypes, q

\* A step that requests a page in tab t: what is left is what t's form, its
\* NavActions and the cookie become.
LEMMA OpenIInv ==
  ASSUME IInv, NEW t \in Tabs, NEW p, NEW s, IsPage(p), Open(t, p, s), apis' = apis,
         world' = world, DOMAIN form' = Tabs, DOMAIN nav' = Tabs, DOMAIN outs' = Tabs,
         form'[t] = "idle", Logouts',
         \A u \in Tabs \ {t} : form'[u] = form[u] /\ nav'[u] = nav[u],
         cookie' \in {s, "none"},
         cookie' # "none" /\ t \in cache' => t \in early',
         \A u \in Tabs \ {t} : u \in cache' => u \in cache,
         \A u \in Tabs \ {t} : \/ cookie' = cookie /\ (u \in early => u \in early')
                               \/ cookie' = "none"
                               \/ place[u].page = "login" \/ u \in cache => u \in early'
  PROVE  IInv'
<1>1. /\ OpInv'
      /\ DOMAIN place' = Tabs /\ DOMAIN shown' = Tabs /\ DOMAIN dialog' = Tabs
      /\ place'[t] = middleware(p, s) /\ shown'[t].apis = {} /\ dialog'[t].doc # "updateAPI"
      /\ \A u \in Tabs \ {t} : /\ place'[u] = place[u] /\ shown'[u] = shown[u]
                               /\ dialog'[u] = dialog[u] /\ op'[u] = op[u]
  BY Opened DEF IInv, Browser
<1>2. TabTypes'
  BY <1>1 DEF TabTypes, IInv, Browser
<1>3. Screens'
  BY <1>1, MiddlewarePages DEF Screens, IInv, Browser, IsPage
<1>4. Forms'
  BY <1>1 DEF Forms, IInv, Browser
<1>5. OldForms'
  <2>1. ASSUME NEW u \in Tabs, cookie' # "none"
        PROVE  /\ u \in cache' => u \in early'
               /\ place'[u].page = "login" => u \in early' \/ place'[u] = PlainLogin
    <3>1. CASE u = t
      BY <1>1, <2>1, <3>1, MiddlewarePages
    <3>2. CASE u # t
      <4>1. place'[u] = place[u] /\ (u \in cache' => u \in cache)
        BY <1>1, <3>2
      <4>2. cookie # "none" => /\ u \in cache => u \in early
                               /\ place[u].page = "login" => u \in early \/ place[u] = PlainLogin
        BY DEF OldForms, IInv, Browser
      <4> QED BY <2>1, <3>2, <4>1, <4>2
    <3> QED BY <3>1, <3>2
  <2> QED BY <2>1 DEF OldForms
<1> QED BY <1>1, <1>2, <1>3, <1>4, <1>5 DEF IInv, Browser

\* With a session, no request leads to the login form that the middleware
\* guards, so none enters the router's cache.
LEMMA KeptLogin ==
  ASSUME TabTypes, NEW t \in Tabs, NEW p, NEW s, IsPage(p), Open(t, p, s)
  PROVE  Kept(t) \subseteq {t} /\ (s # "none" => Kept(t) = {})
<1>1. place'[t] = middleware(p, s)
  BY DEF Open, TabTypes
<1>2. Login.page = "login" /\ Login # PlainLogin
  BY DEF Login, PlainLogin, At
<1>3. s # "none" => place'[t] # Login
  BY <1>1, <1>2, MiddlewarePages
<1> QED BY <1>3 DEF Kept

\* A page rendered anew leaves the caches of other tabs alone.
LEMMA RenderedCache ==
  ASSUME TabTypes, NEW t \in Tabs, NEW p, NEW s, IsPage(p), Open(t, p, s), Rendered(t, s)
  PROVE  /\ s # "none" => t \notin cache'
         /\ \A u \in Tabs \ {t} : u \in cache' => u \in cache
<1>1. cache' = (cache \ {t}) \cup Kept(t)
  BY DEF Rendered
<1> QED BY <1>1, KeptLogin

\* The steps of a tab.
LEMMA TabIInv ==
  ASSUME IInv, NEW t \in Tabs, TabStep(t)
  PROVE  IInv'
<1>0. /\ OpInv /\ TabTypes /\ Screens /\ Logouts /\ Forms /\ OldForms
      /\ t \in Callers /\ Tabs \subseteq Callers
  BY CallersAssumption DEF IInv, Browser
<1>1. ASSUME NEW p \in world.places PROVE IsPage(p)
  BY <1>0, <1>1, WorldsAssumption DEF TabTypes, IsPage, LoginPages, QueryPages
<1>2. ASSUME NEW p \in world.places, Visit(t, p) PROVE IInv'
  <2>1. /\ Open(t, p, cookie) /\ apis' = apis /\ world' = world /\ cookie' = cookie
        /\ form' = form /\ nav' = nav /\ outs' = outs /\ form[t] = "idle"
        /\ cache' = cache \cup Kept(t) /\ early' = IF t \in cache THEN early ELSE early \ {t}
    BY <1>2 DEF Visit, Free, services, navVars
  <2>2. Logouts'
    BY <1>0, <2>1 DEF Logouts
  <2>3. Kept(t) \subseteq {t} /\ (cookie # "none" => Kept(t) = {})
    BY <1>0, <1>1, <2>1, KeptLogin
  <2>4. /\ cookie' # "none" /\ t \in cache' => t \in early'
        /\ \A u \in Tabs \ {t} : /\ u \in cache' => u \in cache
                                 /\ u \in early => u \in early'
    <3>1. cookie # "none" /\ t \in cache => t \in early
      BY <1>0 DEF OldForms
    <3> QED BY <2>1, <2>3, <3>1
  <2> QED BY <1>0, <1>1, <2>1, <2>2, <2>4, OpenIInv DEF TabTypes
<1>3. ASSUME NEW p \in world.places, Load(t, p) PROVE IInv'
  <2>1. /\ Open(t, p, cookie) /\ apis' = apis /\ world' = world /\ cookie' = cookie
        /\ form' = form /\ form[t] = "idle"
        /\ nav' = [nav EXCEPT ![t] = "idle"] /\ outs' = [outs EXCEPT ![t] = 0]
        /\ Rendered(t, cookie)
        /\ \A u \in Tabs \ {t} : u \in early => u \in early'
    BY <1>3 DEF Load, Free, services
  <2>2. Logouts'
    BY <1>0, <2>1 DEF Logouts, TabTypes
  <2>3. /\ cookie # "none" => t \notin cache'
        /\ \A u \in Tabs \ {t} : u \in cache' => u \in cache
    BY <1>0, <1>1, <2>1, RenderedCache
  <2> QED BY <1>0, <1>1, <2>1, <2>2, <2>3, OpenIInv DEF TabTypes
<1>4. CASE Submit(t)
  <2>1. /\ op' = op /\ apis' = apis /\ world' = world /\ cookie' = cookie /\ place' = place
        /\ shown' = shown /\ dialog' = dialog /\ nav' = nav /\ outs' = outs
        /\ early' = early /\ cache' = cache
        /\ form' = [form EXCEPT ![t] = "sending"]
        /\ op[t] = Idle /\ nav[t] # "sending" /\ place[t].page = "login"
    BY <1>4 DEF Submit, Free, bffVars, services, navVars
  <2>2. Forms'
    BY <1>0, <2>1 DEF Forms, TabTypes
  <2> QED BY <1>0, <2>1, <2>2 DEF IInv, Browser, OpInv, TabTypes, Screens, Logouts, OldForms
<1>5. CASE SignIn(t)
  <2>0. PICK x : cookie' = x /\ Rendered(t, x) /\ \E p \in Nexts : Open(t, p, x)
    BY <1>5 DEF SignIn
  <2>1. PICK p \in Nexts : Open(t, p, x)
    BY <2>0
  <2>2. /\ apis' = apis /\ world' = world /\ nav' = nav /\ outs' = outs
        /\ form' = [form EXCEPT ![t] = "idle"]
        /\ \A u \in Tabs \ {t} : place[u].page = "login" \/ u \in cache => u \in early'
    BY <1>5 DEF SignIn, services
  <2>3. IsPage(p)
    BY DEF Nexts, IsPage, At, QueryPages
  <2>4. Logouts'
    BY <1>0, <2>2 DEF Logouts
  <2>5. /\ x # "none" => t \notin cache'
        /\ \A u \in Tabs \ {t} : u \in cache' => u \in cache
    BY <1>0, <2>0, <2>1, <2>3, RenderedCache
  <2> QED BY <1>0, <2>0, <2>1, <2>2, <2>3, <2>4, <2>5, OpenIInv DEF TabTypes
<1>6. CASE SignInFails(t)
  <2>1. /\ op' = op /\ apis' = apis /\ world' = world /\ cookie' = cookie /\ place' = place
        /\ shown' = shown /\ dialog' = dialog /\ nav' = nav /\ outs' = outs
        /\ early' = early /\ cache' = cache
        /\ form' = [form EXCEPT ![t] = "idle"]
    BY <1>6 DEF SignInFails, bffVars, services, navVars
  <2>2. Forms'
    BY <1>0, <2>1 DEF Forms, TabTypes
  <2> QED BY <1>0, <2>1, <2>2 DEF IInv, Browser, OpInv, TabTypes, Screens, Logouts, OldForms
<1>7. CASE Logout(t)
  <2>1. /\ op' = op /\ apis' = apis /\ world' = world /\ cookie' = cookie /\ place' = place
        /\ shown' = shown /\ dialog' = dialog /\ form' = form /\ early' = early /\ cache' = cache
        /\ nav' = [nav EXCEPT ![t] = "sending"] /\ outs' = [outs EXCEPT ![t] = @ + 1]
        /\ form[t] = "idle" /\ nav[t] = "idle"
    BY <1>7 DEF Logout, Free, bffVars, services, browser
  <2>2. Logouts'
    BY <1>0, <2>1 DEF Logouts, TabTypes
  <2>3. Forms'
    BY <1>0, <2>1 DEF Forms, TabTypes
  <2> QED BY <1>0, <2>1, <2>2, <2>3 DEF IInv, Browser, OpInv, TabTypes, Screens, OldForms
<1>8. CASE LogoutDone(t)
  <2>1. /\ Open(t, At("catalogue", "none"), "none") /\ Rendered(t, "none") /\ cookie' = "none"
        /\ apis' = apis /\ world' = world /\ form' = form /\ outs' = outs
        /\ nav[t] = "sending" /\ nav' = [nav EXCEPT ![t] = "stuck"]
    BY <1>8 DEF LogoutDone, services
  <2>2. IsPage(At("catalogue", "none"))
    BY DEF IsPage, At, QueryPages
  <2>3. form'[t] = "idle"
    BY <1>0, <2>1 DEF Forms
  <2>4. Logouts'
    BY <1>0, <2>1 DEF Logouts, TabTypes
  <2>5. \A u \in Tabs \ {t} : u \in cache' => u \in cache
    BY <1>0, <2>1, <2>2, RenderedCache
  <2> QED BY <1>0, <2>1, <2>2, <2>3, <2>4, <2>5, OpenIInv DEF TabTypes
<1>9. CASE LogoutFails(t)
  <2>1. /\ op' = op /\ apis' = apis /\ world' = world /\ cookie' = cookie /\ place' = place
        /\ shown' = shown /\ dialog' = dialog /\ form' = form /\ early' = early /\ cache' = cache
        /\ nav' = [nav EXCEPT ![t] = "stuck"] /\ outs' = outs
    BY <1>9 DEF LogoutFails, services, browser
  <2>2. Logouts' /\ Forms'
    BY <1>0, <2>1 DEF Logouts, Forms, TabTypes
  <2> QED BY <1>0, <2>1, <2>2 DEF IInv, Browser, OpInv, TabTypes, Screens, OldForms
<1>10. ASSUME NEW d \in Controls(t) \cup {NoDialog}, dialog' = [dialog EXCEPT ![t] = d],
              UNCHANGED <<bffVars, world, cookie, place, shown, form, navVars, cache, early, sends>>
       PROVE  IInv'
  <2>1. d.doc # "updateAPI"
    BY DEF Controls, CancelControls, KeyControls, NoDialog
  <2>2. /\ op' = op /\ apis' = apis /\ world' = world /\ cookie' = cookie /\ place' = place
        /\ shown' = shown /\ form' = form /\ early' = early /\ cache' = cache
        /\ nav' = nav /\ outs' = outs
    BY <1>10 DEF bffVars, services, navVars
  <2>3. Screens'
    BY <1>0, <1>10, <2>1, <2>2 DEF Screens, TabTypes, IsPage
  <2> QED BY <1>0, <1>10, <2>2, <2>3 DEF IInv, Browser, OpInv, TabTypes, Logouts, Forms, OldForms
<1>11. CASE Confirm(t)
  <2> DEFINE o == [Idle EXCEPT !.doc = dialog[t].doc, !.arg = dialog[t].arg,
                               !.token = cookie, !.stage = "root"]
  <2>1. /\ op' = [op EXCEPT ![t] = o]
        /\ apis' = apis /\ world' = world /\ cookie' = cookie /\ place' = place
        /\ shown' = shown /\ dialog' = dialog /\ form' = form /\ early' = early /\ cache' = cache
        /\ nav' = nav /\ outs' = outs /\ form[t] = "idle"
    BY <1>11 DEF Confirm, Sends, Free, services, browser, navVars
  <2>2. Good(o)
    BY <1>0, SentGood DEF Screens
  <2> HIDE DEF o
  <2>3. OpInv'
    BY <1>0, <2>1, <2>2 DEF OpInv
  <2>4. Forms'
    BY <1>0, <2>1 DEF Forms, OpInv
  <2> QED BY <1>0, <2>1, <2>3, <2>4 DEF IInv, Browser, TabTypes, Screens, Logouts, OldForms
<1>12. CASE ShowPage(t) \/ MutationFails(t)
  <2>1. /\ op[t].stage = "answered"
        /\ op' = [op EXCEPT ![t] = Idle]
        /\ apis' = apis /\ world' = world /\ cookie' = cookie /\ place' = place
        /\ dialog' = dialog /\ form' = form /\ early' = early /\ cache' = cache
        /\ nav' = nav /\ outs' = outs
    BY <1>12 DEF ShowPage, MutationFails, Asked, services, browser, navVars
  <2>2. OpInv'
    BY <1>0, <2>1, SentGood DEF OpInv
  <2>3. Forms'
    BY <1>0, <2>1 DEF Forms, OpInv
  <2>4. \/ shown' = shown
        \/ op[t].doc \notin Mutations /\ shown' = [shown EXCEPT ![t] = Displayed(op[t])]
    BY <1>12 DEF ShowPage, MutationFails, browser
  <2>5. op[t].doc \notin Mutations => Displayed(op[t]).apis = {}
    BY <1>0 DEF OpInv, Good, Displayed, Blank
  <2>6. Screens' /\ DOMAIN shown' = Tabs
    BY <1>0, <2>1, <2>4, <2>5 DEF Screens, TabTypes, IsPage
  <2> QED BY <1>0, <2>1, <2>2, <2>3, <2>6 DEF IInv, Browser, TabTypes, Logouts, OldForms
<1>13. CASE MutationDone(t)
  <2>1. /\ op[t].stage = "answered" /\ Rendered(t, cookie)
        /\ Open(t, place[t], cookie) /\ apis' = apis /\ world' = world /\ cookie' = cookie
        /\ form' = form /\ nav' = nav /\ outs' = outs /\ early' = early \ {t}
    BY <1>13 DEF MutationDone, Asked, services
  <2>2. form'[t] = "idle"
    BY <1>0, <2>1 DEF Forms, Idle
  <2>3. Logouts' /\ IsPage(place[t])
    BY <1>0, <2>1 DEF Logouts, Screens
  <2>4. /\ cookie # "none" => t \notin cache'
        /\ \A u \in Tabs \ {t} : u \in cache' => u \in cache
    BY <1>0, <2>1, <2>3, RenderedCache
  <2> QED BY <1>0, <2>1, <2>2, <2>3, <2>4, OpenIInv DEF TabTypes
<1>14. CASE Restore(t)
  <2>1. /\ op' = op /\ apis' = apis /\ world' = world /\ cookie' = cookie /\ form' = form
        /\ nav' = nav /\ outs' = outs
        /\ early' = early /\ cache' = cache
        /\ op[t] = Idle /\ form[t] = "idle" /\ t \in cache
        /\ place' = [place EXCEPT ![t] = Login] /\ shown' = [shown EXCEPT ![t] = Blank]
        /\ dialog' = [dialog EXCEPT ![t] = NoDialog]
    BY <1>14 DEF Restore, Free, bffVars, services, navVars
  <2>2. IsPage(Login) /\ Blank.apis = {} /\ NoDialog.doc # "updateAPI"
    BY DEF IsPage, LoginPages, Blank, NoDialog
  <2>3. Screens' /\ OldForms' /\ Forms'
    <3>1. Screens'
      BY <1>0, <2>1, <2>2 DEF Screens, TabTypes, IsPage
    <3>2. OldForms'
      BY <1>0, <2>1 DEF OldForms, TabTypes
    <3>3. Forms'
      BY <1>0, <2>1 DEF Forms, TabTypes
    <3> QED BY <3>1, <3>2, <3>3
  <2> QED BY <1>0, <2>1, <2>3 DEF IInv, Browser, OpInv, TabTypes, Logouts
<1> QED
  BY <1>2, <1>3, <1>4, <1>5, <1>6, <1>7, <1>8, <1>9, <1>10, <1>11, <1>12, <1>13,
     <1>14
     DEF TabStep, TabSettles, OpenDialog, CloseDialog

\* Every step keeps the invariant.
LEMMA NextIInv == IInv /\ [Next]_vars => IInv'
<1> SUFFICES ASSUME IInv, [Next]_vars PROVE IInv'
  OBVIOUS
<1>0. /\ OpInv /\ TabTypes /\ Screens /\ Logouts /\ Forms /\ OldForms
      /\ Callers = Tabs \cup {Client} /\ Client \notin Tabs
  BY CallersAssumption DEF IInv, Browser
<1>1. ASSUME NEW t \in world.tabs, TabStep(t) PROVE IInv'
  <2>1. t \in Tabs
    BY <1>0, <1>1, WorldsAssumption DEF TabTypes
  <2> QED BY <1>1, <2>1, TabIInv
<1>2. ASSUME NEW c \in Callers, Serve(c) PROVE IInv'
  <2>1. StepsWell(c) /\ OpInv'
    BY <1>0, <1>2, BffStepsWell DEF Serve
  <2>2. /\ world' = world /\ cookie' = cookie /\ place' = place /\ shown' = shown
        /\ form' = form /\ dialog' = dialog /\ nav' = nav /\ outs' = outs
        /\ early' = early /\ cache' = cache
    BY <1>2 DEF Serve, browser, navVars
  <2>3. Forms'
    BY <1>0, <2>1, <2>2 DEF Forms, StepsWell, Idle
  <2> QED BY <1>0, <2>1, <2>2, <2>3 DEF IInv, Browser, TabTypes, Screens, Logouts, OldForms
<1>3. ASSUME NEW o, Good(o), op' = [op EXCEPT ![Client] = o],
             UNCHANGED <<services, token, failures, browser, navVars, cache, early>>
      PROVE  IInv'
  <2>1. /\ apis' = apis /\ world' = world /\ cookie' = cookie /\ place' = place
        /\ shown' = shown /\ form' = form /\ dialog' = dialog /\ nav' = nav /\ outs' = outs
        /\ early' = early /\ cache' = cache
    BY <1>3 DEF services, browser, navVars
  <2>2. OpInv' /\ Forms'
    BY <1>0, <1>3, <2>1 DEF OpInv, Forms
  <2> QED BY <1>0, <2>1, <2>2 DEF IInv, Browser, TabTypes, Screens, Logouts, OldForms
<1>4. ASSUME NEW doc, NEW a \in Apis, ClientSends(doc, a) PROVE IInv'
  <2> DEFINE o == [Idle EXCEPT !.doc = doc, !.arg = a, !.token = ClientToken, !.stage = "root"]
  <2>1. Good(o)
    BY SentGood
  <2>2. op' = [op EXCEPT ![Client] = o]
    BY <1>4 DEF ClientSends, Sends
  <2> HIDE DEF o
  <2> QED BY <1>3, <1>4, <2>1, <2>2 DEF ClientSends
<1>5. CASE ClientDone
  BY <1>3, <1>5, SentGood DEF ClientDone
<1>6. ASSUME \/ \E x \in Tokens : ExpireToken(x)
             \/ ExpireCookie
             \/ UNCHANGED vars
      PROVE  IInv'
  <2>1. /\ op' = op /\ apis' = apis /\ world' = world /\ place' = place /\ shown' = shown
        /\ form' = form /\ dialog' = dialog /\ nav' = nav /\ outs' = outs
        /\ early' = early /\ cache' = cache
        /\ cookie' \in {cookie, "none"}
    BY <1>6 DEF ExpireToken, ExpireCookie, vars, bffVars, services, browser, navVars
  <2> QED BY <1>0, <2>1 DEF IInv, Browser, OpInv, TabTypes, Screens, Logouts, Forms, OldForms
<1> QED BY <1>1, <1>2, <1>4, <1>5, <1>6 DEF Next

\* An operation reports its change truly unless one of its calls failed, for
\* every number of callers and every interleaving of their operations.
THEOREM HonestTheorem == Spec => []AnswersHonest
<1>1. IInv => AnswersHonest
  BY DEF IInv, OpInv, Good, AnswersHonest
<1> QED BY <1>1, InitIInv, NextIInv, PTL DEF Spec

\* No page of the portal ever shows an API.
NoApiOnScreen == \A t \in Tabs : shown[t].apis = {}

\* What CatalogueShown's run finds once holds always: no page ever shows an API,
\* whatever the registry holds and whoever asks.
THEOREM ScreenTheorem == Spec => []NoApiOnScreen
<1>1. IInv => NoApiOnScreen
  BY DEF IInv, Browser, Screens, NoApiOnScreen
<1> QED BY <1>1, InitIInv, NextIInv, PTL DEF Spec

\* A tab logs out once per load.
THEOREM LogoutTheorem == Spec => []OneLogoutPerLoad
<1>1. IInv => OneLogoutPerLoad
  BY DEF IInv, Browser, Logouts, OneLogoutPerLoad
<1> QED BY <1>1, InitIInv, NextIInv, PTL DEF Spec

\* A session replaces another only through an old form, or one that the
\* middleware does not guard.
THEOREM RenewalTheorem == Spec => RenewalOnlyFromOldForm
<1> DEFINE Renewal ==
      cookie # "none" /\ cookie' \notin {cookie, "none"} =>
        \E t \in Tabs : /\ form[t] # "idle" /\ form'[t] = "idle"
                        /\ (t \in early \/ place[t] = PlainLogin)
<1>1. IInv /\ [Next]_vars => [Renewal]_vars
  <2> SUFFICES ASSUME IInv, Next, cookie # "none", cookie' \notin {cookie, "none"}
               PROVE  \E t \in Tabs : /\ form[t] # "idle" /\ form'[t] = "idle"
                                      /\ (t \in early \/ place[t] = PlainLogin)
    OBVIOUS
  <2>1. PICK t \in world.tabs : SignIn(t)
    BY DEF Next, TabStep, TabSettles, Visit, Load, Restore, Submit, SignInFails, Logout, LogoutDone,
           LogoutFails, OpenDialog, CloseDialog, Confirm, ShowPage, MutationFails, MutationDone,
           Serve, ClientSends, ClientDone, ExpireToken, ExpireCookie, browser
  <2>2. t \in Tabs
    BY <2>1, WorldsAssumption DEF IInv, Browser, TabTypes
  <2>3. form[t] = "sending" /\ form'[t] = "idle"
    BY <2>1, <2>2 DEF SignIn, IInv, Browser, TabTypes
  <2>4. t \in early \/ place[t] = PlainLogin
    <3>1. place[t].page = "login"
      BY <2>2, <2>3 DEF IInv, Browser, Forms
    <3>2. cookie # "none" => \A u \in Tabs : place[u].page = "login" =>
                               u \in early \/ place[u] = PlainLogin
      BY DEF IInv, Browser, OldForms
    <3> QED BY <2>2, <3>1, <3>2
  <2> QED BY <2>2, <2>3, <2>4
<1> QED BY <1>1, InitIInv, NextIInv, PTL DEF Spec, RenewalOnlyFromOldForm

=============================================================================
