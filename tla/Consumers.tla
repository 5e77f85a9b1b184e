----------------------------- MODULE Consumers -----------------------------
(***************************************************************************)
(* The Kafka consumers of the analytics and the notification service.      *)
(* Both are consumer groups whose eachMessage swallows every error, so     *)
(* that the group moves on: what a message leaves behind is whatever the   *)
(* handler did before the error.  service says which of the two runs.      *)
(*                                                                         *)
(* A topic has one partition per consumer here; consumer c reads the       *)
(* messages Topic[service][c] in order.  A crashed consumer starts again   *)
(* from its committed offset.                                              *)
(***************************************************************************)
EXTENDS Naturals, Sequences, FiniteSets

CONSTANTS
  Consumers,
  Topic,       \* service -> consumer -> its messages
  MaxRetries,  \* WEBHOOK_MAX_RETRIES
  MaxCrashes,  \* bound on crashes, per service
  MaxFailures  \* bound on updates that fail, are sent twice or lose their answer

Services == {"analytics", "notification"}

\* What the handlers look at, and what they ignore.
Handled == [analytics |-> {"api", "quota"}, notification |-> {"send", "quota", "revoked"}]
Ignored == {"empty", "garbage", "noApi", "otherAuthEvent"}

ASSUME TopicAssumption ==
  \A s \in Services, c \in Consumers :
    /\ Topic[s][c] \in Seq({Topic[s][c][i] : i \in DOMAIN Topic[s][c]})
    /\ \A i \in DOMAIN Topic[s][c] : Topic[s][c][i].kind \in Handled[s] \cup Ignored

ASSUME RetriesAssumption == MaxRetries \in Nat

ASSUME ConsumersAssumption == IsFiniteSet(Consumers) /\ Consumers # {}

VARIABLES
  service,   \* "analytics" or "notification"
  offset,    \* consumer -> committed offset of its partition
  pos,       \* consumer -> message it is at
  pc,        \* consumer -> where it is in the handler
  ops,       \* database operations of handleApiEvent that are under way
  store,     \* api_events, quota_events, metrics buckets, realtime counter
  chan,      \* consumer -> index of the channel in dispatch
  tries,     \* consumer -> attempts of sendWebhook
  ok,        \* consumer -> result of the channel
  docs,      \* notification_logs, in the order of insertion
  cur,       \* consumer -> the log entry of the channel
  refused,   \* history: updates a unique index refused, per bucket
  lost,      \* history: counts that a failed call or a crash cost, per bucket
  twice,     \* history: counts made a second time, per bucket
  failures,  \* history: updates that failed, were sent twice or lost their answer
  stuck,     \* history: log entries a call to MongoDB left pending
  crashes    \* history: crashes so far

kafka == <<service, offset, crashes>>
notif == <<chan, tries, ok, docs, cur>>
hist == <<refused, lost, twice, failures, stuck>>
vars == <<kafka, pos, pc, ops, store, notif, hist>>

Kinds == {"hour", "day", "realtime"}

Init ==
  /\ service \in Services
  /\ offset = [c \in Consumers |-> 1] /\ pos = [c \in Consumers |-> 1]
  /\ pc = [c \in Consumers |-> "idle"]
  /\ ops = {}
  /\ store = [k \in Kinds \cup {"events", "quota"} |-> 0]
  /\ chan = [c \in Consumers |-> 0] /\ tries = [c \in Consumers |-> 0]
  /\ ok = [c \in Consumers |-> "none"]
  /\ docs = <<>> /\ cur = [c \in Consumers |-> 0]
  /\ refused = [k \in Kinds |-> 0] /\ lost = [k \in Kinds |-> 0]
  /\ twice = [k \in Kinds |-> 0] /\ failures = 0
  /\ stuck = {} /\ crashes = 0

Messages(c) == Topic[service][c]
Msg(c) == Messages(c)[pos[c]]

\* eachMessage returns: the next message, and the locals are gone.
Return(c) ==
  /\ pos' = [pos EXCEPT ![c] = @ + 1]
  /\ pc' = [pc EXCEPT ![c] = "idle"]
  /\ chan' = [chan EXCEPT ![c] = 0] /\ tries' = [tries EXCEPT ![c] = 0]
  /\ ok' = [ok EXCEPT ![c] = "none"] /\ cur' = [cur EXCEPT ![c] = 0]

CommitOffset(c) ==
  /\ pc[c] = "idle" /\ offset[c] < pos[c]
  /\ offset' = [offset EXCEPT ![c] = pos[c]]
  /\ UNCHANGED <<service, crashes, pos, pc, ops, store, notif, hist>>

Crash(c) ==
  /\ crashes < MaxCrashes[service]
  /\ pos[c] # offset[c] \/ pc[c] # "idle"
  /\ crashes' = crashes + 1
  /\ pos' = [pos EXCEPT ![c] = offset[c]]
  /\ pc' = [pc EXCEPT ![c] = "idle"]
  /\ ops' = {o \in ops : o.c # c}
  /\ lost' = [k \in Kinds |-> lost[k] + Cardinality({o \in ops : o.c = c /\ o.k = k})]
  /\ chan' = [chan EXCEPT ![c] = 0] /\ tries' = [tries EXCEPT ![c] = 0]
  /\ ok' = [ok EXCEPT ![c] = "none"] /\ cur' = [cur EXCEPT ![c] = 0]
  /\ UNCHANGED <<service, offset, store, docs, refused, twice, failures, stuck>>

\* Mutant of Take: an error is thrown on, and Kafka delivers the message again.
Take_Rethrows(c) ==
  /\ pc[c] = "idle" /\ pos[c] <= Len(Messages(c))
  /\ Msg(c).kind \notin Ignored
  /\ pc' = [pc EXCEPT ![c] = Msg(c).kind]
  /\ chan' = [chan EXCEPT ![c] = 1]
  /\ UNCHANGED <<pos, tries, ok, cur, kafka, ops, store, docs, hist>>

\* JSON.parse, the choice of the handler, and what it ignores.
Take(c) ==
  /\ pc[c] = "idle" /\ pos[c] <= Len(Messages(c))
  /\ IF Msg(c).kind \in Ignored
     THEN Return(c)
     ELSE /\ pc' = [pc EXCEPT ![c] = Msg(c).kind]
          /\ chan' = [chan EXCEPT ![c] = 1]
          /\ UNCHANGED <<pos, tries, ok, cur>>
  /\ UNCHANGED <<kafka, ops, store, docs, hist>>

----------------------------------------------------------------------------
(* analytics: handleApiEvent and handleQuotaEvent.                         *)

StartOps(c) ==
  ops' = ops \cup {[c |-> c, at |-> pos[c], k |-> k, seen |-> "not yet"] : k \in Kinds}

\* The raw event first, then the three updates at the same time.
InsertApiEvent(c) ==
  /\ pc[c] = "api"
  /\ store' = [store EXCEPT !["events"] = @ + 1]
  /\ StartOps(c)
  /\ pc' = [pc EXCEPT ![c] = "settling"]
  /\ UNCHANGED <<kafka, pos, notif, hist>>

HandleQuotaEvent(c) ==
  /\ pc[c] = "quota"
  /\ store' = [store EXCEPT !["quota"] = @ + 1]
  /\ Return(c)
  /\ UNCHANGED <<kafka, ops, docs, hist>>

\* insertOne throws, and nothing is stored.
InsertFails(c) ==
  /\ pc[c] \in {"api", "quota"}
  /\ Return(c)
  /\ UNCHANGED <<kafka, ops, store, docs, hist>>

\* insertOne throws, but the event is stored: it stays without its counts.
InsertUnanswered(c) ==
  /\ \/ /\ pc[c] = "api"
        /\ store' = [store EXCEPT !["events"] = @ + 1]
        /\ lost' = [k \in Kinds |-> lost[k] + 1]
     \/ /\ pc[c] = "quota"
        /\ store' = [store EXCEPT !["quota"] = @ + 1]
        /\ UNCHANGED lost
  /\ Return(c)
  /\ UNCHANGED <<kafka, ops, docs, refused, twice, failures, stuck>>

\* The most updates one new hour and day can refuse.
Races == 3 * (Cardinality(Consumers) - 1)

\* Mutant of FindBucket: an insert does not look.
FindBucket_Insert(o) ==
  /\ o.k # "realtime" /\ o.seen = "not yet"
  /\ ops' = (ops \ {o}) \cup {[o EXCEPT !.seen = "absent"]}
  /\ UNCHANGED <<kafka, pos, pc, store, notif, hist>>

\* An upsert looks for the bucket.
FindBucket(o) ==
  /\ o.k # "realtime" /\ o.seen = "not yet"
  /\ ops' = (ops \ {o}) \cup {[o EXCEPT !.seen = IF store[o.k] = 0 THEN "absent" ELSE "there"]}
  /\ UNCHANGED <<kafka, pos, pc, store, notif, hist>>

\* The realtime pipeline has nothing to look for.
Ready(o) == o.k = "realtime" \/ o.seen # "not yet"

\* An upsert that found no bucket inserts one; when another has done so in
\* between, the unique index refuses it, and MongoDB does not try again
\* because the filter names bucketType, which the index does not have.
Refused(o) == o.k # "realtime" /\ o.seen = "absent" /\ store[o.k] > 0

\* upsertHourlyBucket, upsertDailyBucket, incrRealtimeCounters
Update(o) ==
  /\ Ready(o) /\ ~Refused(o)
  /\ store' = [store EXCEPT ![o.k] = @ + 1]
  /\ ops' = ops \ {o}
  /\ UNCHANGED <<kafka, pos, pc, notif, hist>>

\* Promise.all rejects with the first error, and eachMessage returns.
GivenUp(o) ==
  IF pc[o.c] = "settling" /\ pos[o.c] = o.at
  THEN Return(o.c) ELSE UNCHANGED <<pos, pc, chan, tries, ok, cur>>

\* Mutant of Reject: the other updates of the message are cancelled.
Reject_Cancels(o) ==
  /\ ops' = {p \in ops : p.c # o.c \/ p.at # o.at}
  /\ GivenUp(o)
  /\ UNCHANGED <<kafka, store, docs, stuck>>

\* The other updates of the message go on by themselves.
Reject(o) ==
  /\ ops' = ops \ {o}
  /\ GivenUp(o)
  /\ UNCHANGED <<kafka, store, docs, stuck>>

UpdateRefused(o) ==
  /\ Ready(o) /\ Refused(o)
  /\ refused' = [refused EXCEPT ![o.k] = @ + 1]
  /\ Reject(o)
  /\ UNCHANGED <<lost, twice, failures>>

Failing == failures < MaxFailures /\ failures' = failures + 1

\* The update is not made.  An upsert rejects; ioredis resolves exec() with the
\* errors of the commands, which nobody reads, so the count is lost in silence.
UpdateFails(o) ==
  /\ Failing
  /\ lost' = [lost EXCEPT ![o.k] = @ + 1]
  /\ IF o.k = "realtime"
     THEN ops' = ops \ {o} /\ UNCHANGED <<kafka, pos, pc, store, notif, stuck>>
     ELSE Reject(o)
  /\ UNCHANGED <<refused, twice>>

\* An upsert is made and rejects: its answer is lost.
UpdateUnanswered(o) ==
  /\ o.k # "realtime" /\ Ready(o) /\ ~Refused(o) /\ Failing
  /\ ops' = ops \ {o} /\ store' = [store EXCEPT ![o.k] = @ + 1]
  /\ GivenUp(o)
  /\ UNCHANGED <<kafka, docs, refused, lost, twice, stuck>>

\* The connection is lost after INCR and before its answer: ioredis sends the
\* commands that were not answered again (autoResendUnfulfilledCommands).
CountTwice(o) ==
  /\ o.k = "realtime" /\ Failing
  /\ store' = [store EXCEPT ![o.k] = @ + 1]
  /\ twice' = [twice EXCEPT ![o.k] = @ + 1]
  /\ UNCHANGED <<kafka, pos, pc, ops, notif, refused, lost, stuck>>

\* All three have resolved.
Settled(c) ==
  /\ pc[c] = "settling"
  /\ \A o \in ops : o.c # c \/ o.at # pos[c]
  /\ Return(c)
  /\ UNCHANGED <<kafka, ops, store, docs, hist>>

----------------------------------------------------------------------------
(* notification: dispatch and the channels.                                *)

Channels(c) ==
  IF Msg(c).kind = "send" THEN Msg(c).channels ELSE <<"email", "in_app">>
Channel(c) == Channels(c)[chan[c]]
Dispatching(c) == service = "notification" /\ pc[c] \in {"send", "quota", "revoked"}

Entry(c, st) == [msg |-> <<c, pos[c]>>, channel |-> Channel(c), status |-> st, hits |-> 0]

\* The log entry is written before anything is sent.
LogPending(c) ==
  /\ Dispatching(c) /\ chan[c] <= Len(Channels(c))
  /\ docs' = Append(docs, Entry(c, "pending"))
  /\ cur' = [cur EXCEPT ![c] = Len(docs) + 1]
  /\ pc' = [pc EXCEPT ![c] = "logged"]
  /\ UNCHANGED <<kafka, pos, ops, store, chan, tries, ok, hist>>

Dispatched(c) ==
  /\ Dispatching(c) /\ chan[c] > Len(Channels(c))
  /\ Return(c)
  /\ UNCHANGED <<kafka, ops, store, docs, hist>>

\* A channel whose address the message lacks is recorded as skipped, and a
\* channel that is neither email nor webhook is stored.
NothingToSend(c) == Channel(c) \in {"email", "webhook"} \ Msg(c).targets
Stored(c) == Channel(c) \notin {"email", "webhook"}

Hit(c, n) == docs' = [docs EXCEPT ![cur[c]].hits = @ + n]
Conclude(c, res) == ok' = [ok EXCEPT ![c] = res] /\ pc' = [pc EXCEPT ![c] = "sent"]

\* The events renderEmail has a template for.
EmailTemplates == {"quota_exceeded", "subscription_expiry", "api_key_revoked",
                   "subscription_activated", "subscription_cancelled"}
EventType(c) ==
  CASE Msg(c).kind = "quota" -> "quota_exceeded" [] Msg(c).kind = "revoked" -> "api_key_revoked"
    [] Msg(c).kind = "send" -> Msg(c).event

\* sendEmail; without a template it fails before the mail server is asked,
\* and a mail server may take the mail and its answer be lost.
SendEmail(c) ==
  /\ pc[c] = "logged" /\ Channel(c) = "email" /\ ~NothingToSend(c)
  /\ \/ EventType(c) \in EmailTemplates /\ Hit(c, 1) /\ Conclude(c, "sent")
     \/ EventType(c) \in EmailTemplates /\ Hit(c, 1) /\ Conclude(c, "failed")
     \/ Hit(c, 0) /\ Conclude(c, "failed")
  /\ UNCHANGED <<kafka, pos, ops, store, chan, tries, cur, hist>>

\* How one POST of sendWebhook can end, and how often it was taken: a 5xx or
\* a timeout says nothing about it.
Attempts == {<<"2xx", 1>>, <<"4xx", 0>>, <<"else", 0>>, <<"else", 1>>}

\* 2xx is success, 4xx final, anything else is tried again.
WebhookResult(res) ==
  CASE res = "2xx" -> "sent" [] res = "4xx" -> "failed" [] OTHER -> "again"

AtWebhook(c) == pc[c] = "logged" /\ Channel(c) = "webhook" /\ ~NothingToSend(c)

SendWebhook(c) ==
  /\ AtWebhook(c) /\ tries[c] < MaxRetries
  /\ \E a \in Attempts :
       LET res == WebhookResult(a[1]) IN
       /\ Hit(c, a[2])
       /\ IF res = "again"
          THEN tries' = [tries EXCEPT ![c] = @ + 1] /\ UNCHANGED <<ok, pc>>
          ELSE tries' = [tries EXCEPT ![c] = 0] /\ Conclude(c, res)
  /\ UNCHANGED <<kafka, pos, ops, store, chan, cur, hist>>

\* Mutant of WebhookGivesUp: after the last attempt it counts as sent.
WebhookGivesUp_Optimistic(c) ==
  /\ AtWebhook(c) /\ tries[c] >= MaxRetries
  /\ tries' = [tries EXCEPT ![c] = 0] /\ Conclude(c, "sent")
  /\ UNCHANGED <<kafka, pos, ops, store, docs, chan, cur, hist>>

\* The loop of sendWebhook is over.
WebhookGivesUp(c) ==
  /\ AtWebhook(c) /\ tries[c] >= MaxRetries
  /\ tries' = [tries EXCEPT ![c] = 0] /\ Conclude(c, "failed")
  /\ UNCHANGED <<kafka, pos, ops, store, docs, chan, cur, hist>>

\* saveInApp writes an entry of its own next to the pending one.
SaveInApp(c) ==
  /\ pc[c] = "logged" /\ Stored(c)
  /\ docs' = Append([docs EXCEPT ![cur[c]].hits = 1],
                    [Entry(c, "sent") EXCEPT !.hits = 1, !.channel = "in_app"])
  /\ Conclude(c, "sent")
  /\ UNCHANGED <<kafka, pos, ops, store, chan, tries, cur, hist>>

\* The entry gets its final status, and the next channel its turn.
LogResult(c) ==
  /\ pc[c] = "sent" \/ (pc[c] = "logged" /\ NothingToSend(c))
  /\ docs' = [docs EXCEPT ![cur[c]].status = IF pc[c] = "sent" THEN ok[c] ELSE "skipped"]
  /\ pc' = [pc EXCEPT ![c] = Msg(c).kind]
  /\ chan' = [chan EXCEPT ![c] = @ + 1]
  /\ ok' = [ok EXCEPT ![c] = "none"] /\ cur' = [cur EXCEPT ![c] = 0]
  /\ UNCHANGED <<kafka, pos, ops, store, tries, hist>>

\* MongoDB does not answer: the message is given up, the channels it still
\* had included.  A write that is made and whose answer is lost leaves what the
\* write and then this step, or Dispatched, leave.
LogFails(c) ==
  /\ \/ Dispatching(c) /\ chan[c] <= Len(Channels(c))
     \/ pc[c] = "sent"
     \/ pc[c] = "logged" /\ (Stored(c) \/ NothingToSend(c))
  /\ stuck' = IF cur[c] = 0 THEN stuck ELSE stuck \cup {cur[c]}
  /\ Return(c)
  /\ UNCHANGED <<kafka, ops, store, docs, refused, lost, twice, failures>>

----------------------------------------------------------------------------

Analytics(c) ==
  /\ service = "analytics"
  /\ \/ InsertApiEvent(c) \/ HandleQuotaEvent(c)
     \/ InsertFails(c) \/ InsertUnanswered(c) \/ Settled(c)

Notification(c) ==
  /\ service = "notification"
  /\ \/ LogPending(c) \/ Dispatched(c) \/ LogResult(c) \/ LogFails(c)
     \/ SendEmail(c) \/ SendWebhook(c) \/ WebhookGivesUp(c) \/ SaveInApp(c)

Operation ==
  \E o \in ops : \/ FindBucket(o) \/ Update(o) \/ UpdateRefused(o)
                 \/ UpdateFails(o) \/ UpdateUnanswered(o) \/ CountTwice(o)

Next ==
  \/ \E c \in Consumers : \/ Take(c) \/ CommitOffset(c) \/ Crash(c)
                          \/ Analytics(c) \/ Notification(c)
  \/ Operation

Spec == Init /\ [][Next]_vars

\* The consumers keep running, and every call to a store or a receiver ends:
\* each has a timeout.
LiveSpec ==
  /\ Spec
  /\ \A c \in Consumers : /\ WF_vars(Take(c)) /\ WF_vars(CommitOffset(c))
                          /\ WF_vars(Analytics(c)) /\ WF_vars(Notification(c))
  /\ WF_vars(Operation)

----------------------------------------------------------------------------
(* Properties.                                                             *)

UnderWay(k) == Cardinality({o \in ops : o.k = k})

\* Every raw event is, in each of its three counts, counted, under way,
\* refused by a unique index, or the victim of a failed call or a crash: no
\* count is lost otherwise, and none is made twice but by a realtime pipeline
\* that was sent again, however the updates of messages that were given up go
\* on; the realtime counter refuses none (handleApiEvent).
CountsAccounted ==
  /\ \A k \in Kinds :
       store[k] + UnderWay(k) + refused[k] + lost[k] = store["events"] + twice[k]
  /\ refused["realtime"] = 0 /\ twice["hour"] = 0 /\ twice["day"] = 0

\* Without failures and crashes, counts are lost only to updates that race
\* with the creation of a bucket, however many messages follow (the unique
\* indexes of ensureIndexes, upsertHourlyBucket, upsertDailyBucket).
LossAtBirthOnly ==
  failures = 0 /\ (\A k \in Kinds : lost[k] = 0) =>
    refused["hour"] + refused["day"] <= Races

\* A log entry marked sent was delivered, a skipped one was not, a channel is
\* not used more often than its retries allow, and an entry stays pending
\* only while it is worked on, or after a crash or a failed update
\* (dispatch, sendWebhook).
LogHonest ==
  \A i \in DOMAIN docs :
    LET d == docs[i] IN
    /\ d.status = "sent" => d.hits > 0
    /\ d.status = "skipped" => d.hits = 0
    /\ d.hits <= IF d.channel = "webhook" THEN MaxRetries ELSE 1
    /\ d.status = "pending" => \/ crashes > 0 \/ i \in stuck
                               \/ \E c \in Consumers : cur[c] = i

\* In the end the group is past every message, whatever failed on the way:
\* retries are bounded and no operation waits for another.
AllConsumed == <>[](\A c \in Consumers : offset[c] = Len(Messages(c)) + 1)
=============================================================================
