-------------------------- MODULE Consumers_proofs --------------------------
(***************************************************************************)
(* The Kafka consumers for any number of them, any topic, any number of    *)
(* retries, crashes and failures: the notification log tells the truth,    *)
(* every count of an event is accounted for, and without failures counts   *)
(* are lost only where a bucket is created.                                *)
(***************************************************************************)
EXTENDS Consumers, FiniteSetTheorems, SequenceTheorems, TLAPS

-----------------------------------------------------------------------------
(* Sequences of entries, whatever the entries are.                         *)

IsList(s) == \E S : s \in Seq(S)

\* An entry is added.
LEMMA ListAppend ==
  ASSUME NEW s, IsList(s), NEW e
  PROVE  /\ Len(s) \in Nat /\ DOMAIN s = 1..Len(s)
         /\ IsList(Append(s, e)) /\ Len(Append(s, e)) = Len(s) + 1
         /\ DOMAIN Append(s, e) = 1..(Len(s) + 1)
         /\ \A i \in 1..Len(s) : Append(s, e)[i] = s[i]
         /\ Append(s, e)[Len(s) + 1] = e
<1>1. PICK S : s \in Seq(S)
  BY DEF IsList
<1> DEFINE T == S \cup {e}
<1>2. s \in Seq(T) /\ e \in T
  <2>1. s \in [1..Len(s) -> S] /\ Len(s) \in Nat
    BY <1>1, LenProperties
  <2>2. s \in [1..Len(s) -> T]
    BY <2>1
  <2> HIDE DEF T
  <2>3. s \in Seq(T)
    BY <2>1, <2>2, SeqDef
  <2> QED BY <2>3 DEF T
<1> HIDE DEF T
<1>3. /\ Append(s, e) \in Seq(T) /\ Len(Append(s, e)) = Len(s) + 1
      /\ \A i \in 1..Len(s) : Append(s, e)[i] = s[i]
      /\ Append(s, e)[Len(s) + 1] = e
  BY <1>2, AppendProperties
<1>4. /\ Len(s) \in Nat /\ DOMAIN s = 1..Len(s)
      /\ DOMAIN Append(s, e) = 1..Len(Append(s, e))
  BY <1>2, <1>3, LenProperties
<1> QED BY <1>3, <1>4 DEF IsList

\* An entry is changed.
LEMMA ListExcept ==
  ASSUME NEW s, IsList(s), NEW i, NEW x
  PROVE  /\ Len(s) \in Nat /\ DOMAIN s = 1..Len(s)
         /\ IsList([s EXCEPT ![i] = x]) /\ Len([s EXCEPT ![i] = x]) = Len(s)
         /\ DOMAIN [s EXCEPT ![i] = x] = 1..Len(s)
         /\ \A j \in 1..Len(s) : [s EXCEPT ![i] = x][j] = IF j = i THEN x ELSE s[j]
<1>1. PICK S : s \in Seq(S)
  BY DEF IsList
<1>2. Len(s) \in Nat /\ DOMAIN s = 1..Len(s) /\ s \in [1..Len(s) -> S]
  BY <1>1, LenProperties
<1> DEFINE T == S \cup {x}
           t == [s EXCEPT ![i] = x]
<1>3. /\ t \in [1..Len(s) -> T] /\ DOMAIN t = 1..Len(s)
      /\ \A j \in 1..Len(s) : t[j] = IF j = i THEN x ELSE s[j]
  BY <1>2
<1> HIDE DEF T, t
<1>4. t \in Seq(T)
  BY <1>2, <1>3, SeqDef
<1>5. Len(t) = Len(s)
  BY <1>2, <1>3, <1>4, LenProperties
<1> QED BY <1>2, <1>3, <1>4, <1>5 DEF IsList, t

-----------------------------------------------------------------------------
(* The notification log.                                                   *)

PCs == {"idle", "api", "quota", "send", "revoked", "settling", "logged", "sent"}
Entered == {"msg", "channel", "status", "hits"}

\* How often a channel may be used.
Limit(channel) == IF channel = "webhook" THEN MaxRetries ELSE 1

Op == [c : Consumers, at : Nat, k : Kinds, seen : {"not yet", "absent", "there"}]

Types ==
  /\ service \in Services
  /\ offset \in [Consumers -> Nat \ {0}] /\ pos \in [Consumers -> Nat \ {0}]
  /\ pc \in [Consumers -> PCs]
  /\ chan \in [Consumers -> Nat] /\ tries \in [Consumers -> Nat]
  /\ ok \in [Consumers -> {"none", "sent", "failed"}] /\ cur \in [Consumers -> Nat]
  /\ crashes \in Nat
  /\ ops \subseteq Op

\* A consumer in a handler: its message is one that has this handler, and
\* the entry it works on is pending and says how often its channel was used.
Worker(c) ==
  /\ pc[c] # "idle" => Msg(c).kind \in Handled[service]
  /\ pc[c] \notin {"logged", "sent"} => cur[c] = 0 /\ tries[c] = 0
  /\ pc[c] \in {"logged", "sent"} =>
       LET d == docs[cur[c]] IN
       /\ cur[c] \in 1..Len(docs)
       /\ d.status = "pending" /\ d.channel = Channel(c)
       /\ pc[c] = "logged" =>
            /\ tries[c] <= MaxRetries
            /\ IF Channel(c) = "webhook" /\ ~NothingToSend(c)
               THEN d.hits <= tries[c] ELSE d.hits = 0 /\ tries[c] = 0
       /\ pc[c] = "sent" =>
            /\ tries[c] = 0 /\ d.hits <= Limit(d.channel)
            /\ ok[c] \in {"sent", "failed"} /\ (ok[c] = "sent" => d.hits > 0)

\* No two consumers work on the same entry.
Apart == \A c, d \in Consumers : cur[c] = cur[d] /\ cur[c] # 0 => c = d

Entries ==
  /\ IsList(docs)
  /\ \A i \in DOMAIN docs : DOMAIN docs[i] = Entered /\ docs[i].hits \in Nat
  /\ LogHonest

LogInv == Types /\ (\A c \in Consumers : Worker(c)) /\ Apart /\ Entries

\* The entries of a list, one of which a consumer works on.
LEMMA DocsDomain ==
  ASSUME Entries
  PROVE  Len(docs) \in Nat /\ DOMAIN docs = 1..Len(docs)
  BY ListAppend DEF Entries

\* A consumer that has no part in a step.
LEMMA Frame ==
  ASSUME NEW c \in Consumers, Worker(c), Len(docs) \in Nat, Len(docs') \in Nat,
         service' = service, pos'[c] = pos[c], pc'[c] = pc[c], chan'[c] = chan[c],
         tries'[c] = tries[c], ok'[c] = ok[c], cur'[c] = cur[c],
         Len(docs) <= Len(docs'),
         cur[c] \in 1..Len(docs) => docs'[cur[c]] = docs[cur[c]]
  PROVE  Worker(c)'
<1>1. Msg(c)' = Msg(c)
  BY DEF Msg, Messages
<1>2. Channel(c)' = Channel(c)
  BY <1>1 DEF Channel, Channels
<1>3. NothingToSend(c)' = NothingToSend(c)
  BY <1>1, <1>2 DEF NothingToSend
<1>4. pc[c] \in {"logged", "sent"} => cur[c] \in 1..Len(docs')
  BY DEF Worker
<1> QED BY <1>1, <1>2, <1>3, <1>4 DEF Worker

\* A step of one consumer that leaves the entries alone and gives up the one
\* it works on, if any: eachMessage returns, or the consumer crashes.
LEMMA GiveUp ==
  ASSUME LogInv, NEW c \in Consumers, Types',
         service' = service, docs' = docs, stuck \subseteq stuck', crashes <= crashes',
         \A d \in Consumers \ {c} :
           /\ pos'[d] = pos[d] /\ pc'[d] = pc[d] /\ chan'[d] = chan[d]
           /\ tries'[d] = tries[d] /\ ok'[d] = ok[d] /\ cur'[d] = cur[d],
         pc'[c] = "idle", tries'[c] = 0, cur'[c] = 0,
         cur[c] = 0 \/ cur[c] \in stuck' \/ crashes' > 0
  PROVE  LogInv'
<1>1. Len(docs) \in Nat /\ Len(docs') \in Nat /\ Len(docs) <= Len(docs')
  BY DocsDomain DEF LogInv
<1>2. ASSUME NEW d \in Consumers PROVE Worker(d)'
  <2>1. CASE d = c
    BY <2>1 DEF Worker
  <2>2. CASE d # c
    BY <1>1, <2>2, Frame DEF LogInv
  <2> QED BY <2>1, <2>2
<1>3. Apart'
  BY DEF LogInv, Apart
<1>4. Entries'
  <2>1. Entries /\ crashes \in Nat /\ crashes' \in Nat
    BY DEF LogInv, Types
  <2>2. ASSUME NEW i \in DOMAIN docs, docs[i].status = "pending"
        PROVE  crashes' > 0 \/ i \in stuck' \/ \E d \in Consumers : cur'[d] = i
    <3>1. crashes > 0 \/ i \in stuck \/ \E d \in Consumers : cur[d] = i
      BY <2>1, <2>2 DEF Entries, LogHonest
    <3>2. CASE \E d \in Consumers : cur[d] = i
      <4>1. PICK d \in Consumers : cur[d] = i
        BY <3>2
      <4>2. i # 0
        BY <1>1, <2>1, DocsDomain
      <4> QED BY <4>1, <4>2
    <3> QED BY <2>1, <3>1, <3>2
  <2> QED BY <2>1, <2>2 DEF Entries, LogHonest
<1> QED BY <1>2, <1>3, <1>4 DEF LogInv

\* eachMessage returns with the log as it is.
LEMMA ReturnGivesUp ==
  ASSUME LogInv, NEW c \in Consumers, Return(c), ops' \subseteq ops,
         service' = service, offset' = offset, crashes' = crashes, docs' = docs,
         stuck \subseteq stuck', cur[c] = 0 \/ cur[c] \in stuck'
  PROVE  LogInv'
<1>1. Types
  BY DEF LogInv
<1>2. Types'
  BY <1>1 DEF Types, Return, PCs
<1>3. crashes <= crashes'
  BY <1>1 DEF Types
<1>4. /\ pc'[c] = "idle" /\ tries'[c] = 0 /\ cur'[c] = 0
      /\ \A d \in Consumers \ {c} :
           /\ pos'[d] = pos[d] /\ pc'[d] = pc[d] /\ chan'[d] = chan[d]
           /\ tries'[d] = tries[d] /\ ok'[d] = ok[d] /\ cur'[d] = cur[d]
  BY <1>1 DEF Types, Return
<1> QED BY <1>2, <1>3, <1>4, GiveUp

\* A crash.
LEMMA CrashLog ==
  ASSUME LogInv, NEW c \in Consumers, Crash(c)
  PROVE  LogInv'
<1>1. Types
  BY DEF LogInv
<1>2. Types'
  BY <1>1 DEF Types, Crash, PCs
<1>3. crashes <= crashes' /\ crashes' > 0
  BY <1>1 DEF Types, Crash
<1>4. /\ pc'[c] = "idle" /\ tries'[c] = 0 /\ cur'[c] = 0
      /\ \A d \in Consumers \ {c} :
           /\ pos'[d] = pos[d] /\ pc'[d] = pc[d] /\ chan'[d] = chan[d]
           /\ tries'[d] = tries[d] /\ ok'[d] = ok[d] /\ cur'[d] = cur[d]
  BY <1>1 DEF Types, Crash
<1>5. service' = service /\ docs' = docs /\ stuck \subseteq stuck'
  BY DEF Crash
<1> QED BY <1>2, <1>3, <1>4, <1>5, GiveUp

\* Steps that change neither the log nor the work on it.
LEMMA NoLogStep ==
  ASSUME LogInv, Types', service' = service, UNCHANGED <<docs, cur, stuck, crashes, ok, tries>>,
         NEW c \in Consumers,
         \A d \in Consumers \ {c} : pos'[d] = pos[d] /\ pc'[d] = pc[d] /\ chan'[d] = chan[d],
         Worker(c)'
  PROVE  LogInv'
<1>1. Len(docs) \in Nat /\ Len(docs') \in Nat /\ Len(docs) <= Len(docs')
  BY DocsDomain DEF LogInv
<1>2. ASSUME NEW d \in Consumers, d # c PROVE Worker(d)'
  BY <1>1, <1>2, Frame DEF LogInv
<1>3. Apart' /\ Entries'
  BY DEF LogInv, Apart, Entries, LogHonest
<1> QED BY <1>2, <1>3 DEF LogInv

\* A message is taken.
LEMMA TakeLog ==
  ASSUME LogInv, NEW c \in Consumers, Take(c)
  PROVE  LogInv'
<1>1. Types /\ Worker(c) /\ pc[c] = "idle" /\ cur[c] = 0 /\ tries[c] = 0
  BY DEF LogInv, Take, Worker
<1>2. CASE Msg(c).kind \in Ignored
  BY <1>1, <1>2, ReturnGivesUp DEF Take, kafka, hist
<1>3. CASE Msg(c).kind \notin Ignored
  <2>1. /\ pc' = [pc EXCEPT ![c] = Msg(c).kind] /\ chan' = [chan EXCEPT ![c] = 1]
        /\ UNCHANGED <<pos, tries, ok, cur, service, offset, crashes, docs, stuck, ops>>
    BY <1>3 DEF Take, kafka, hist
  <2>2. Msg(c).kind \in Handled[service]
    <3>1. service \in Services /\ pos[c] \in Nat \ {0} /\ pos[c] <= Len(Topic[service][c])
      BY <1>1 DEF Types, Take, Messages
    <3>2. pos[c] \in DOMAIN Topic[service][c]
      BY <3>1, TopicAssumption, LenProperties
    <3>3. Topic[service][c][pos[c]].kind \in Handled[service] \cup Ignored
      BY <3>1, <3>2, TopicAssumption
    <3> QED BY <1>3, <3>3 DEF Msg, Messages
  <2>3. Msg(c).kind \in {"api", "quota", "send", "revoked"}
    BY <1>1, <2>2 DEF Types, Handled, Services
  <2>4. Types'
    BY <1>1, <2>1, <2>3 DEF Types, PCs
  <2>5. Msg(c)' = Msg(c)
    BY <2>1 DEF Msg, Messages
  <2>6. Worker(c)'
    BY <1>1, <2>1, <2>2, <2>3, <2>5 DEF Worker, Types
  <2>7. \A d \in Consumers \ {c} : pos'[d] = pos[d] /\ pc'[d] = pc[d] /\ chan'[d] = chan[d]
    BY <1>1, <2>1 DEF Types
  <2> QED BY <2>1, <2>4, <2>6, <2>7, NoLogStep
<1> QED BY <1>2, <1>3

\* Offsets are committed, updates of counts look and end well.
LEMMA QuietLog ==
  ASSUME LogInv, UNCHANGED <<service, pos, pc, chan, tries, ok, docs, cur, stuck, crashes>>,
         offset' \in [Consumers -> Nat \ {0}], ops' \subseteq Op
  PROVE  LogInv'
<1>1. Types'
  BY DEF LogInv, Types
<1>2. Len(docs) \in Nat /\ Len(docs') \in Nat /\ Len(docs) <= Len(docs')
  BY DocsDomain DEF LogInv
<1>3. ASSUME NEW c \in Consumers PROVE Worker(c)'
  BY <1>2, Frame DEF LogInv
<1>4. Apart' /\ Entries'
  BY DEF LogInv, Apart, Entries, LogHonest
<1> QED BY <1>1, <1>3, <1>4 DEF LogInv

\* The analytics service has no notification log.
LEMMA AnalyticsLog ==
  ASSUME LogInv, NEW c \in Consumers, Analytics(c)
  PROVE  LogInv'
<1>1. Types /\ Worker(c)
  BY DEF LogInv
<1>2. CASE InsertApiEvent(c)
  <2>1. /\ pc[c] = "api" /\ pc' = [pc EXCEPT ![c] = "settling"]
        /\ UNCHANGED <<service, offset, crashes, pos, chan, tries, ok, docs, cur, stuck>>
        /\ ops' = ops \cup {[c |-> c, at |-> pos[c], k |-> k, seen |-> "not yet"] : k \in Kinds}
    BY <1>2 DEF InsertApiEvent, kafka, notif, hist, StartOps
  <2>2. Types'
    <3>1. pos[c] \in Nat
      BY <1>1 DEF Types
    <3>2. \A k \in Kinds : [c |-> c, at |-> pos[c], k |-> k, seen |-> "not yet"] \in Op
      BY <3>1 DEF Op
    <3> QED BY <1>1, <2>1, <3>2 DEF Types, PCs
  <2>3. Msg(c)' = Msg(c)
    BY <2>1 DEF Msg, Messages
  <2>4. Worker(c)'
    BY <1>1, <2>1, <2>3 DEF Worker, Types
  <2>5. \A d \in Consumers \ {c} : pos'[d] = pos[d] /\ pc'[d] = pc[d] /\ chan'[d] = chan[d]
    BY <1>1, <2>1 DEF Types
  <2> QED BY <2>1, <2>2, <2>4, <2>5, NoLogStep
<1>3. CASE HandleQuotaEvent(c) \/ InsertFails(c) \/ InsertUnanswered(c) \/ Settled(c)
  <2>1. pc[c] \in {"api", "quota", "settling"} /\ Return(c)
    BY <1>3 DEF HandleQuotaEvent, InsertFails, InsertUnanswered, Settled
  <2>2. cur[c] = 0
    BY <1>1, <2>1 DEF Worker
  <2>3. UNCHANGED <<service, offset, crashes, ops, docs, stuck>>
    BY <1>3 DEF HandleQuotaEvent, InsertFails, InsertUnanswered, Settled, kafka, hist
  <2> QED BY <2>1, <2>2, <2>3, ReturnGivesUp
<1> QED BY <1>2, <1>3 DEF Analytics

\* Nor do its updates touch it.
LEMMA OperationLog ==
  ASSUME LogInv, Operation
  PROVE  LogInv'
<1>1. PICK o \in ops : \/ FindBucket(o) \/ Update(o) \/ UpdateRefused(o)
                       \/ UpdateFails(o) \/ UpdateUnanswered(o) \/ CountTwice(o)
  BY DEF Operation
<1>2. Types /\ o \in Op /\ o.c \in Consumers
  BY <1>1 DEF LogInv, Types, Op
<1>3. CASE FindBucket(o)
  <2>1. /\ ops' = (ops \ {o}) \cup
                    {[o EXCEPT !.seen = IF store[o.k] = 0 THEN "absent" ELSE "there"]}
        /\ UNCHANGED <<service, offset, pos, pc, chan, tries, ok, docs, cur, stuck, crashes>>
    BY <1>3 DEF FindBucket, kafka, notif, hist
  <2>2. \A x \in {"absent", "there"} : [o EXCEPT !.seen = x] \in Op
    BY <1>2 DEF Op
  <2>3. ops' \subseteq Op
    BY <1>2, <2>1, <2>2 DEF Types
  <2> QED BY <1>2, <2>1, <2>3, QuietLog DEF Types
<1>4. CASE Update(o) \/ CountTwice(o) \/ (UpdateFails(o) /\ ~Reject(o))
  <2>1. /\ ops' \subseteq ops
        /\ UNCHANGED <<service, offset, pos, pc, chan, tries, ok, docs, cur, stuck, crashes>>
    BY <1>4 DEF Update, CountTwice, UpdateFails, kafka, notif, hist
  <2> QED BY <1>2, <2>1, QuietLog DEF Types
<1>5. CASE UpdateRefused(o) \/ UpdateUnanswered(o) \/ (UpdateFails(o) /\ Reject(o))
  <2>1. GivenUp(o) /\ ops' \subseteq ops
    BY <1>5 DEF UpdateRefused, UpdateUnanswered, Reject
  <2>2. UNCHANGED <<service, offset, docs, stuck, crashes>>
    BY <1>5 DEF UpdateRefused, UpdateUnanswered, Reject, kafka
  <2>3. CASE pc[o.c] = "settling" /\ pos[o.c] = o.at
    <3>1. Return(o.c)
      BY <2>1, <2>3 DEF GivenUp
    <3>2. cur[o.c] = 0
      BY <1>2, <2>3 DEF LogInv, Worker
    <3> QED BY <1>2, <2>1, <2>2, <3>1, <3>2, ReturnGivesUp
  <2>4. CASE ~(pc[o.c] = "settling" /\ pos[o.c] = o.at)
    <3>1. UNCHANGED <<pos, pc, chan, tries, ok, cur>>
      BY <2>1, <2>4 DEF GivenUp
    <3>2. ops' \subseteq Op
      BY <1>2, <2>1 DEF Types
    <3> QED BY <1>2, <2>2, <3>1, <3>2, QuietLog DEF Types
  <2> QED BY <2>3, <2>4
<1> QED BY <1>1, <1>3, <1>4, <1>5

-----------------------------------------------------------------------------
(* dispatch.                                                               *)

\* A step of dispatch: the entry of c is the only one that changes, entries
\* may follow, and the new ones are honest.
LEMMA DispatchLog ==
  ASSUME LogInv, NEW c \in Consumers, Types',
         UNCHANGED <<service, crashes, stuck>>,
         \A d \in Consumers \ {c} :
           /\ pos'[d] = pos[d] /\ pc'[d] = pc[d] /\ chan'[d] = chan[d]
           /\ tries'[d] = tries[d] /\ ok'[d] = ok[d] /\ cur'[d] = cur[d],
         cur'[c] = 0 \/ cur'[c] = cur[c] \/ cur'[c] \in Nat \ (0..Len(docs)),
         IsList(docs'), Len(docs') \in Nat, Len(docs) <= Len(docs'),
         DOMAIN docs' = 1..Len(docs'),
         \A i \in 1..Len(docs) : i # cur[c] => docs'[i] = docs[i],
         \A i \in 1..Len(docs') : i \notin 1..Len(docs) \/ i = cur[c] =>
           /\ DOMAIN docs'[i] = Entered /\ docs'[i].hits \in Nat
           /\ docs'[i].status = "sent" => docs'[i].hits > 0
           /\ docs'[i].status = "skipped" => docs'[i].hits = 0
           /\ docs'[i].hits <= Limit(docs'[i].channel)
           /\ docs'[i].status = "pending" => cur'[c] = i,
         Worker(c)'
  PROVE  LogInv'
<1>1. Len(docs) \in Nat /\ DOMAIN docs = 1..Len(docs)
  BY DocsDomain DEF LogInv
<1>2. Apart /\ Entries /\ \A d \in Consumers : Worker(d)
  BY DEF LogInv
<1>3. ASSUME NEW d \in Consumers, d # c, cur[d] \in 1..Len(docs)
      PROVE  docs'[cur[d]] = docs[cur[d]]
  BY <1>2, <1>3 DEF Apart
<1>4. ASSUME NEW d \in Consumers, d # c PROVE Worker(d)'
  BY <1>1, <1>2, <1>3, <1>4, Frame
<1>5. ASSUME NEW d \in Consumers PROVE cur[d] \in 0..Len(docs)
  <2>1. pc[d] \notin {"logged", "sent"} => cur[d] = 0
    BY <1>2 DEF Worker
  <2>2. pc[d] \in {"logged", "sent"} => cur[d] \in 1..Len(docs)
    BY <1>2 DEF Worker
  <2> QED BY <1>1, <2>1, <2>2
<1>6. Apart'
  <2>1. \A d \in Consumers \ {c} : cur'[d] = cur'[c] /\ cur'[c] # 0 => FALSE
    BY <1>2, <1>5 DEF Apart
  <2>2. \A d, e \in Consumers \ {c} : cur'[d] = cur'[e] /\ cur'[d] # 0 => d = e
    BY <1>2 DEF Apart
  <2> QED BY <2>1, <2>2 DEF Apart
<1>7. ASSUME NEW i \in 1..Len(docs'), i \in 1..Len(docs), i # cur[c]
      PROVE  /\ DOMAIN docs'[i] = Entered /\ docs'[i].hits \in Nat
             /\ docs'[i].status = "sent" => docs'[i].hits > 0
             /\ docs'[i].status = "skipped" => docs'[i].hits = 0
             /\ docs'[i].hits <= Limit(docs'[i].channel)
             /\ docs'[i].status = "pending" =>
                  crashes' > 0 \/ i \in stuck' \/ \E d \in Consumers : cur'[d] = i
  <2>1. docs'[i] = docs[i] /\ i \in DOMAIN docs
    BY <1>1, <1>7
  <2>2. docs[i].status = "pending" =>
          crashes > 0 \/ i \in stuck \/ \E d \in Consumers : cur[d] = i
    BY <1>2, <2>1 DEF Entries, LogHonest
  <2>3. (\E d \in Consumers : cur[d] = i) => \E d \in Consumers : cur'[d] = i
    BY <1>7
  <2> QED BY <1>2, <2>1, <2>2, <2>3 DEF Entries, LogHonest, Limit
<1>8. Entries'
  BY <1>7 DEF Entries, LogHonest, Limit
<1> QED BY <1>4, <1>6, <1>8 DEF LogInv

\* The message and the channel of c stay the same as long as it does.
LEMMA SameMessage ==
  ASSUME NEW c, service' = service, pos'[c] = pos[c]
  PROVE  /\ Msg(c)' = Msg(c) /\ Channels(c)' = Channels(c)
         /\ chan'[c] = chan[c] => Channel(c)' = Channel(c) /\ NothingToSend(c)' = NothingToSend(c)
<1>1. Msg(c)' = Msg(c)
  BY DEF Msg, Messages
<1>2. Channels(c)' = Channels(c)
  BY <1>1 DEF Channels
<1>3. chan'[c] = chan[c] => Channel(c)' = Channel(c)
  BY <1>2 DEF Channel
<1> QED BY <1>1, <1>2, <1>3 DEF NothingToSend

\* The fields of an entry.
LEMMA EntryFields ==
  ASSUME NEW c, NEW st
  PROVE  /\ DOMAIN Entry(c, st) = Entered /\ Entry(c, st).status = st
         /\ Entry(c, st).hits = 0 /\ Entry(c, st).channel = Channel(c)
  BY DEF Entry, Entered

\* The entry is written before anything is sent.
LEMMA PendingLog ==
  ASSUME LogInv, NEW c \in Consumers, service = "notification", LogPending(c)
  PROVE  LogInv'
<1> DEFINE e == Entry(c, "pending")
<1>1. Types /\ Worker(c) /\ Entries
  BY DEF LogInv
<1>2. /\ pc[c] \in {"send", "quota", "revoked"}
      /\ docs' = Append(docs, e) /\ cur' = [cur EXCEPT ![c] = Len(docs) + 1]
      /\ pc' = [pc EXCEPT ![c] = "logged"]
      /\ UNCHANGED <<service, offset, crashes, pos, ops, chan, tries, ok, stuck>>
  BY DEF LogPending, Dispatching, kafka, hist
<1>3. /\ DOMAIN e = Entered /\ e.status = "pending" /\ e.hits = 0 /\ e.channel = Channel(c)
  BY EntryFields
<1> HIDE DEF e
<1>4. /\ Len(docs) \in Nat /\ DOMAIN docs = 1..Len(docs)
      /\ IsList(docs') /\ Len(docs') = Len(docs) + 1 /\ DOMAIN docs' = 1..(Len(docs) + 1)
      /\ \A i \in 1..Len(docs) : docs'[i] = docs[i]
      /\ docs'[Len(docs) + 1] = e
  BY <1>1, <1>2, ListAppend DEF Entries
<1>5. Types'
  BY <1>1, <1>2, <1>4 DEF Types, PCs
<1>6. cur[c] = 0 /\ tries[c] = 0 /\ Msg(c).kind \in Handled[service]
  BY <1>1, <1>2 DEF Worker
<1>7. /\ cur'[c] = Len(docs) + 1 /\ pc'[c] = "logged" /\ tries'[c] = 0
      /\ pos'[c] = pos[c] /\ chan'[c] = chan[c]
  BY <1>1, <1>2, <1>6 DEF Types
<1>8. /\ Msg(c)' = Msg(c) /\ Channel(c)' = Channel(c)
      /\ NothingToSend(c)' = NothingToSend(c)
  BY <1>2, SameMessage
<1>9. Worker(c)'
  BY <1>2, <1>3, <1>4, <1>6, <1>7, <1>8, RetriesAssumption DEF Worker
<1>10. \A d \in Consumers \ {c} :
         /\ pos'[d] = pos[d] /\ pc'[d] = pc[d] /\ chan'[d] = chan[d]
         /\ tries'[d] = tries[d] /\ ok'[d] = ok[d] /\ cur'[d] = cur[d]
  BY <1>1, <1>2 DEF Types
<1>11. \A i \in 1..Len(docs') : i \notin 1..Len(docs) \/ i = cur[c] => i = Len(docs) + 1
  BY <1>4, <1>6
<1>12. e.hits <= Limit(e.channel) /\ e.hits \in Nat
  BY <1>3, RetriesAssumption DEF Limit
<1>13. \A i \in 1..Len(docs') : i \notin 1..Len(docs) \/ i = cur[c] =>
           /\ DOMAIN docs'[i] = Entered /\ docs'[i].hits \in Nat
           /\ docs'[i].status = "sent" => docs'[i].hits > 0
           /\ docs'[i].status = "skipped" => docs'[i].hits = 0
           /\ docs'[i].hits <= Limit(docs'[i].channel)
           /\ docs'[i].status = "pending" => cur'[c] = i
  BY <1>3, <1>4, <1>7, <1>11, <1>12
<1> QED BY <1>2, <1>4, <1>5, <1>7, <1>9, <1>10, <1>13, DispatchLog

\* The channel is used n times, or the loop of retries ends, and the entry
\* stays pending.
LEMMA HitLog ==
  ASSUME LogInv, NEW c \in Consumers, pc[c] = "logged", NEW n \in 0..1,
         Hit(c, n) \/ (n = 0 /\ docs' = docs),
         UNCHANGED <<service, offset, crashes, pos, ops, chan, cur, stuck>>,
         NEW t \in Nat, tries' = [tries EXCEPT ![c] = t],
         \/ /\ UNCHANGED <<ok, pc>> /\ t = tries[c] + 1 /\ t <= MaxRetries
            /\ Channel(c) = "webhook" /\ ~NothingToSend(c)
         \/ /\ t = 0
            /\ \E res \in {"sent", "failed"} : Conclude(c, res) /\ (res = "sent" => n = 1)
            /\ docs[cur[c]].hits + n <= Limit(Channel(c))
  PROVE  LogInv'
<1> DEFINE k == cur[c]
           e == docs'[k]
<1>1. Types /\ Worker(c) /\ Entries
  BY DEF LogInv
<1>2. /\ k \in 1..Len(docs) /\ docs[k].status = "pending" /\ docs[k].channel = Channel(c)
      /\ Msg(c).kind \in Handled[service]
  BY <1>1 DEF Worker
<1>3. Len(docs) \in Nat /\ DOMAIN docs = 1..Len(docs) /\ IsList(docs)
  BY <1>1, DocsDomain DEF Entries
<1>4. DOMAIN docs[k] = Entered /\ docs[k].hits \in Nat
  BY <1>1, <1>2, <1>3 DEF Entries
<1>5. /\ IsList(docs') /\ Len(docs') = Len(docs) /\ DOMAIN docs' = 1..Len(docs)
      /\ \A i \in 1..Len(docs) : i # k => docs'[i] = docs[i]
      /\ (e = docs[k] /\ n = 0) \/ e = [docs[k] EXCEPT !.hits = @ + n]
  <2>1. CASE n = 0 /\ docs' = docs
    BY <1>3, <2>1
  <2>2. CASE Hit(c, n)
    <3> DEFINE x == [docs[k] EXCEPT !.hits = @ + n]
    <3>1. docs' = [docs EXCEPT ![k] = x]
      BY <2>2 DEF Hit
    <3> HIDE DEF x, k
    <3>2. /\ IsList(docs') /\ Len(docs') = Len(docs) /\ DOMAIN docs' = 1..Len(docs)
          /\ \A i \in 1..Len(docs) : docs'[i] = IF i = k THEN x ELSE docs[i]
      BY <1>3, <3>1, ListExcept
    <3> QED BY <1>2, <3>2 DEF x
  <2> QED BY <2>1, <2>2
<1>6. /\ DOMAIN e = Entered /\ e.status = "pending" /\ e.channel = Channel(c)
      /\ e.hits = docs[k].hits + n /\ e.hits \in Nat
  <2>1. CASE e = docs[k] /\ n = 0
    BY <1>2, <1>4, <2>1
  <2>2. CASE e = [docs[k] EXCEPT !.hits = @ + n]
    <3> HIDE DEF e
    <3> QED BY <1>2, <1>4, <2>2 DEF Entered
  <2> QED BY <1>5, <2>1, <2>2
<1>7. docs'[k] = e
  OBVIOUS
<1> HIDE DEF e, k
<1>8. /\ cur'[c] = k /\ tries'[c] = t /\ pos'[c] = pos[c] /\ chan'[c] = chan[c]
      /\ cur[c] = k
  BY <1>1 DEF Types, k
<1>9. /\ Msg(c)' = Msg(c) /\ Channel(c)' = Channel(c)
      /\ NothingToSend(c)' = NothingToSend(c)
  BY SameMessage
<1>10. CASE UNCHANGED <<ok, pc>> /\ t = tries[c] + 1 /\ t <= MaxRetries
            /\ Channel(c) = "webhook" /\ ~NothingToSend(c)
  <2>1. docs[k].hits <= tries[c] /\ tries[c] \in Nat
    BY <1>1, <1>10 DEF Worker, Types, k
  <2>2. e.hits <= t /\ e.hits <= Limit(e.channel)
    BY <1>6, <1>10, <2>1, RetriesAssumption, <1>4 DEF Limit
  <2>3. Types'
    BY <1>1, <1>10 DEF Types
  <2>4. pc'[c] = "logged" /\ ok'[c] = ok[c]
    BY <1>10
  <2>5. Worker(c)'
    BY <1>2, <1>6, <1>5, <1>7, <1>8, <1>9, <1>10, <2>2, <2>4 DEF Worker
  <2>6. \A d \in Consumers \ {c} :
         /\ pos'[d] = pos[d] /\ pc'[d] = pc[d] /\ chan'[d] = chan[d]
         /\ tries'[d] = tries[d] /\ ok'[d] = ok[d] /\ cur'[d] = cur[d]
    BY <1>1, <1>10 DEF Types
  <2>7. \A i \in 1..Len(docs') : i \notin 1..Len(docs) \/ i = cur[c] =>
           /\ DOMAIN docs'[i] = Entered /\ docs'[i].hits \in Nat
           /\ docs'[i].status = "sent" => docs'[i].hits > 0
           /\ docs'[i].status = "skipped" => docs'[i].hits = 0
           /\ docs'[i].hits <= Limit(docs'[i].channel)
           /\ docs'[i].status = "pending" => cur'[c] = i
    BY <1>6, <1>5, <1>7, <1>8, <2>2
  <2> QED BY <1>3, <1>5, <1>7, <1>8, <2>3, <2>5, <2>6, <2>7, DispatchLog
<1>11. CASE /\ t = 0
            /\ \E res \in {"sent", "failed"} : Conclude(c, res) /\ (res = "sent" => n = 1)
            /\ docs[cur[c]].hits + n <= Limit(Channel(c))
  <2>1. PICK res \in {"sent", "failed"} : Conclude(c, res) /\ (res = "sent" => n = 1)
    BY <1>11
  <2>2. /\ ok' = [ok EXCEPT ![c] = res] /\ pc' = [pc EXCEPT ![c] = "sent"]
    BY <2>1 DEF Conclude
  <2>3. Types'
    BY <1>1, <2>2 DEF Types, PCs
  <2>4. pc'[c] = "sent" /\ ok'[c] = res
    BY <1>1, <2>2 DEF Types
  <2>5. e.hits <= Limit(e.channel) /\ (res = "sent" => e.hits > 0)
    BY <1>4, <1>6, <1>8, <1>11, <2>1
  <2>6. Worker(c)'
    BY <1>2, <1>6, <1>5, <1>7, <1>8, <1>9, <1>11, <2>4, <2>5 DEF Worker
  <2>7. \A d \in Consumers \ {c} :
         /\ pos'[d] = pos[d] /\ pc'[d] = pc[d] /\ chan'[d] = chan[d]
         /\ tries'[d] = tries[d] /\ ok'[d] = ok[d] /\ cur'[d] = cur[d]
    BY <1>1, <2>2 DEF Types
  <2>8. \A i \in 1..Len(docs') : i \notin 1..Len(docs) \/ i = cur[c] =>
           /\ DOMAIN docs'[i] = Entered /\ docs'[i].hits \in Nat
           /\ docs'[i].status = "sent" => docs'[i].hits > 0
           /\ docs'[i].status = "skipped" => docs'[i].hits = 0
           /\ docs'[i].hits <= Limit(docs'[i].channel)
           /\ docs'[i].status = "pending" => cur'[c] = i
    BY <1>6, <1>5, <1>7, <1>8, <2>5
  <2> QED BY <1>3, <1>5, <1>7, <1>8, <2>3, <2>6, <2>7, <2>8, DispatchLog
<1> QED BY <1>10, <1>11

\* sendEmail and sendWebhook.
LEMMA SendLog ==
  ASSUME LogInv, NEW c \in Consumers,
         SendEmail(c) \/ SendWebhook(c) \/ WebhookGivesUp(c)
  PROVE  LogInv'
<1> DEFINE k == cur[c]
<1>1. Types /\ Worker(c) /\ Entries /\ pc[c] = "logged"
  BY DEF LogInv, SendEmail, SendWebhook, WebhookGivesUp, AtWebhook
<1>2. /\ k \in 1..Len(docs) /\ tries[c] \in Nat /\ tries[c] <= MaxRetries
      /\ IF Channel(c) = "webhook" /\ ~NothingToSend(c)
         THEN docs[k].hits <= tries[c] ELSE docs[k].hits = 0 /\ tries[c] = 0
  BY <1>1 DEF Worker, Types
<1>3. /\ DOMAIN docs = 1..Len(docs) /\ IsList(docs)
      /\ DOMAIN docs[k] = Entered /\ docs[k].hits \in Nat
  BY <1>1, <1>2, DocsDomain DEF Entries
<1>4. UNCHANGED <<service, offset, crashes, pos, ops, chan, cur, stuck>>
  BY DEF SendEmail, SendWebhook, WebhookGivesUp, kafka, hist
<1>5. CASE SendEmail(c)
  <2>1. Channel(c) = "email" /\ tries' = tries
    BY <1>5 DEF SendEmail
  <2>2. tries' = [tries EXCEPT ![c] = 0]
    BY <1>1, <1>2, <2>1 DEF Types
  <2>3. PICK n \in 0..1, res \in {"sent", "failed"} :
             Hit(c, n) /\ Conclude(c, res) /\ (res = "sent" => n = 1)
    BY <1>5 DEF SendEmail
  <2>4. docs[k].hits + n <= Limit(Channel(c))
    BY <1>2, <2>1 DEF Limit
  <2> QED BY <1>1, <1>4, <2>2, <2>3, <2>4, HitLog
<1>6. CASE SendWebhook(c)
  <2>1. Channel(c) = "webhook" /\ ~NothingToSend(c) /\ tries[c] < MaxRetries
    BY <1>6 DEF SendWebhook, AtWebhook
  <2>2. PICK a \in Attempts :
          /\ Hit(c, a[2])
          /\ IF WebhookResult(a[1]) = "again"
             THEN tries' = [tries EXCEPT ![c] = @ + 1] /\ UNCHANGED <<ok, pc>>
             ELSE tries' = [tries EXCEPT ![c] = 0] /\ Conclude(c, WebhookResult(a[1]))
    BY <1>6 DEF SendWebhook
  <2>3. /\ a[2] \in 0..1 /\ WebhookResult(a[1]) \in {"sent", "failed", "again"}
        /\ WebhookResult(a[1]) = "sent" => a[2] = 1
    BY DEF Attempts, WebhookResult
  <2>4. docs[k].hits + a[2] <= Limit(Channel(c))
    BY <1>2, <1>3, <2>1, <2>3, RetriesAssumption DEF Limit
  <2>5. CASE WebhookResult(a[1]) = "again"
    <3>1. /\ tries' = [tries EXCEPT ![c] = tries[c] + 1] /\ UNCHANGED <<ok, pc>>
          /\ tries[c] + 1 \in Nat /\ tries[c] + 1 <= MaxRetries
      BY <1>2, <2>1, <2>2, <2>5, RetriesAssumption
    <3> QED BY <1>1, <1>4, <2>1, <2>2, <2>3, <3>1, HitLog
  <2>6. CASE WebhookResult(a[1]) # "again"
    BY <1>1, <1>4, <2>2, <2>3, <2>4, <2>6, HitLog
  <2> QED BY <2>5, <2>6
<1>7. CASE WebhookGivesUp(c)
  <2>1. /\ Channel(c) = "webhook" /\ ~NothingToSend(c)
        /\ tries' = [tries EXCEPT ![c] = 0] /\ Conclude(c, "failed") /\ docs' = docs
    BY <1>7 DEF WebhookGivesUp, AtWebhook
  <2>2. docs[k].hits + 0 <= Limit(Channel(c))
    BY <1>2, <1>3, <2>1, RetriesAssumption DEF Limit
  <2>3. \E res \in {"sent", "failed"} : Conclude(c, res) /\ (res = "sent" => 0 = 1)
    BY <2>1
  <2>4. PICK n \in 0..1, t \in Nat : n = 0 /\ t = 0
    OBVIOUS
  <2>5. /\ n = 0 /\ docs' = docs /\ tries' = [tries EXCEPT ![c] = t] /\ t = 0
        /\ \E res \in {"sent", "failed"} : Conclude(c, res) /\ (res = "sent" => n = 1)
        /\ docs[cur[c]].hits + n <= Limit(Channel(c))
    BY <2>1, <2>2, <2>3, <2>4
  <2> QED BY <1>1, <1>4, <2>4, <2>5, HitLog
<1> QED BY <1>5, <1>6, <1>7

\* saveInApp writes an entry of its own next to the pending one.
LEMMA SaveLog ==
  ASSUME LogInv, NEW c \in Consumers, SaveInApp(c)
  PROVE  LogInv'
<1> DEFINE k == cur[c]
           e == [docs[k] EXCEPT !.hits = 1]
           f == [Entry(c, "sent") EXCEPT !.hits = 1, !.channel = "in_app"]
           list == [docs EXCEPT ![k] = e]
<1>1. Types /\ Worker(c) /\ Entries /\ pc[c] = "logged" /\ Channel(c) # "webhook"
  BY DEF LogInv, SaveInApp, Stored
<1>2. /\ k \in 1..Len(docs) /\ tries[c] = 0 /\ docs[k].hits = 0
      /\ docs[k].status = "pending" /\ docs[k].channel = Channel(c)
      /\ Msg(c).kind \in Handled[service]
  BY <1>1 DEF Worker
<1>3. /\ Len(docs) \in Nat /\ DOMAIN docs = 1..Len(docs) /\ IsList(docs)
      /\ DOMAIN docs[k] = Entered
  BY <1>1, <1>2, DocsDomain DEF Entries
<1>4. /\ docs' = Append(list, f)
      /\ ok' = [ok EXCEPT ![c] = "sent"] /\ pc' = [pc EXCEPT ![c] = "sent"]
      /\ UNCHANGED <<service, offset, crashes, pos, ops, chan, tries, cur, stuck>>
  BY DEF SaveInApp, Conclude, kafka, hist
<1>5. /\ DOMAIN e = Entered /\ e.status = "pending" /\ e.channel = Channel(c) /\ e.hits = 1
  BY <1>2, <1>3 DEF Entered
<1>6. /\ DOMAIN f = Entered /\ f.status = "sent" /\ f.hits = 1 /\ f.channel = "in_app"
  BY EntryFields DEF Entered
<1> HIDE DEF e, f
<1>7. /\ IsList(list) /\ Len(list) = Len(docs)
      /\ list[k] = e /\ \A i \in 1..Len(docs) : i # k => list[i] = docs[i]
  BY <1>2, <1>3, ListExcept
<1> HIDE DEF list
<1>8. /\ IsList(docs') /\ Len(docs') = Len(docs) + 1 /\ DOMAIN docs' = 1..(Len(docs) + 1)
      /\ \A i \in 1..Len(docs) : docs'[i] = list[i]
      /\ docs'[Len(docs) + 1] = f
  BY <1>4, <1>7, ListAppend
<1>9. docs'[k] = e /\ \A i \in 1..Len(docs) : i # k => docs'[i] = docs[i]
  BY <1>2, <1>7, <1>8
<1>10. Types'
  BY <1>1, <1>4 DEF Types, PCs
<1>11. /\ Msg(c)' = Msg(c) /\ Channel(c)' = Channel(c)
  BY <1>4, SameMessage
<1>12. Limit("in_app") = 1 /\ Limit(Channel(c)) = 1
  BY <1>1 DEF Limit
<1>13. pc'[c] = "sent" /\ ok'[c] = "sent" /\ cur'[c] = k /\ tries'[c] = 0
  BY <1>1, <1>2, <1>4 DEF Types
<1> HIDE DEF k
<1>14. Worker(c)'
  BY <1>1, <1>2, <1>3, <1>4, <1>5, <1>8, <1>9, <1>11, <1>12, <1>13 DEF Worker
<1>15. \A d \in Consumers \ {c} :
         /\ pos'[d] = pos[d] /\ pc'[d] = pc[d] /\ chan'[d] = chan[d]
         /\ tries'[d] = tries[d] /\ ok'[d] = ok[d] /\ cur'[d] = cur[d]
  BY <1>1, <1>4 DEF Types
<1>16. \A i \in 1..Len(docs') :
         i \notin 1..Len(docs) \/ i = k => i = Len(docs) + 1 \/ i = k
  BY <1>3, <1>8
<1>17. \A i \in 1..Len(docs') : i \notin 1..Len(docs) \/ i = cur[c] =>
           /\ DOMAIN docs'[i] = Entered /\ docs'[i].hits \in Nat
           /\ docs'[i].status = "sent" => docs'[i].hits > 0
           /\ docs'[i].status = "skipped" => docs'[i].hits = 0
           /\ docs'[i].hits <= Limit(docs'[i].channel)
           /\ docs'[i].status = "pending" => cur'[c] = i
  BY <1>1, <1>5, <1>6, <1>8, <1>9, <1>12, <1>13, <1>16 DEF k
<1>18. /\ Len(docs') \in Nat /\ Len(docs) <= Len(docs') /\ DOMAIN docs' = 1..Len(docs')
       /\ \A i \in 1..Len(docs) : i # cur[c] => docs'[i] = docs[i]
       /\ cur'[c] = cur[c]
  BY <1>3, <1>4, <1>8, <1>9 DEF k
<1> QED BY <1>4, <1>8, <1>10, <1>14, <1>15, <1>17, <1>18, DispatchLog

\* The entry gets its final status.
LEMMA ResultLog ==
  ASSUME LogInv, NEW c \in Consumers, service = "notification", LogResult(c)
  PROVE  LogInv'
<1> DEFINE k == cur[c]
           st == IF pc[c] = "sent" THEN ok[c] ELSE "skipped"
           e == [docs[k] EXCEPT !.status = st]
<1>1. Types /\ Worker(c) /\ Entries /\ pc[c] \in {"logged", "sent"}
  BY DEF LogInv, LogResult
<1>2. /\ k \in 1..Len(docs) /\ docs[k].channel = Channel(c)
      /\ Msg(c).kind \in Handled[service]
  BY <1>1 DEF Worker
<1>3. /\ Len(docs) \in Nat /\ DOMAIN docs = 1..Len(docs) /\ IsList(docs)
      /\ DOMAIN docs[k] = Entered /\ docs[k].hits \in Nat
  BY <1>1, <1>2, DocsDomain DEF Entries
<1>4. /\ docs' = [docs EXCEPT ![k] = e]
      /\ pc' = [pc EXCEPT ![c] = Msg(c).kind] /\ chan' = [chan EXCEPT ![c] = @ + 1]
      /\ ok' = [ok EXCEPT ![c] = "none"] /\ cur' = [cur EXCEPT ![c] = 0]
      /\ UNCHANGED <<service, offset, crashes, pos, ops, tries, stuck>>
  BY DEF LogResult, kafka, hist
<1>5. DOMAIN e = Entered /\ e.status = st /\ e.channel = docs[k].channel /\ e.hits = docs[k].hits
  BY <1>3 DEF Entered
<1>6. /\ st = "sent" => docs[k].hits > 0
      /\ st = "skipped" => docs[k].hits = 0
      /\ docs[k].hits <= Limit(docs[k].channel)
      /\ st # "pending" /\ tries[c] = 0
  <2>1. CASE pc[c] = "sent"
    BY <1>1, <2>1 DEF Worker
  <2>2. CASE pc[c] = "logged"
    <3>1. NothingToSend(c)
      BY <2>2 DEF LogResult
    <3>2. docs[k].hits = 0 /\ tries[c] = 0
      BY <1>1, <2>2, <3>1 DEF Worker
    <3> QED BY <2>2, <3>2, RetriesAssumption DEF Limit
  <2> QED BY <1>1, <2>1, <2>2
<1> HIDE DEF e, st
<1>7. /\ IsList(docs') /\ Len(docs') = Len(docs) /\ DOMAIN docs' = 1..Len(docs)
      /\ docs'[k] = e /\ \A i \in 1..Len(docs) : i # k => docs'[i] = docs[i]
  BY <1>2, <1>3, <1>4, ListExcept
<1>8. Msg(c).kind \in {"send", "quota", "revoked"}
  BY <1>2 DEF Handled
<1>9. Types'
  BY <1>1, <1>4, <1>8 DEF Types, PCs
<1>10. Msg(c)' = Msg(c)
  BY <1>4, SameMessage
<1>11. pc'[c] = Msg(c).kind /\ cur'[c] = 0 /\ tries'[c] = 0
  BY <1>1, <1>4, <1>6 DEF Types
<1>12. Worker(c)'
  BY <1>2, <1>4, <1>8, <1>10, <1>11 DEF Worker
<1>13. \A d \in Consumers \ {c} :
         /\ pos'[d] = pos[d] /\ pc'[d] = pc[d] /\ chan'[d] = chan[d]
         /\ tries'[d] = tries[d] /\ ok'[d] = ok[d] /\ cur'[d] = cur[d]
  BY <1>1, <1>4 DEF Types
<1>14. \A i \in 1..Len(docs') : i \notin 1..Len(docs) \/ i = cur[c] =>
           /\ DOMAIN docs'[i] = Entered /\ docs'[i].hits \in Nat
           /\ docs'[i].status = "sent" => docs'[i].hits > 0
           /\ docs'[i].status = "skipped" => docs'[i].hits = 0
           /\ docs'[i].hits <= Limit(docs'[i].channel)
           /\ docs'[i].status = "pending" => cur'[c] = i
  BY <1>3, <1>5, <1>6, <1>7
<1>15. Len(docs') \in Nat /\ Len(docs) <= Len(docs') /\ DOMAIN docs' = 1..Len(docs')
  BY <1>3, <1>7
<1> QED BY <1>4, <1>7, <1>9, <1>11, <1>12, <1>13, <1>14, <1>15, DispatchLog

\* The notification service.
LEMMA NotificationLog ==
  ASSUME LogInv, NEW c \in Consumers, Notification(c)
  PROVE  LogInv'
<1>1. Types /\ Worker(c) /\ service = "notification"
  BY DEF LogInv, Notification
<1>2. CASE LogPending(c)
  BY <1>1, <1>2, PendingLog
<1>3. CASE Dispatched(c)
  <2>1. /\ pc[c] \in {"send", "quota", "revoked"} /\ Return(c)
        /\ UNCHANGED <<service, offset, crashes, ops, docs, stuck>>
    BY <1>3 DEF Dispatched, Dispatching, kafka, hist
  <2>2. cur[c] = 0
    BY <1>1, <2>1 DEF Worker
  <2> QED BY <2>1, <2>2, ReturnGivesUp
<1>4. CASE LogFails(c)
  <2>1. /\ Return(c) /\ stuck' = IF cur[c] = 0 THEN stuck ELSE stuck \cup {cur[c]}
        /\ UNCHANGED <<service, offset, crashes, ops, docs>>
    BY <1>4 DEF LogFails, kafka
  <2>2. stuck \subseteq stuck' /\ (cur[c] = 0 \/ cur[c] \in stuck')
    BY <2>1
  <2> QED BY <2>1, <2>2, ReturnGivesUp
<1>5. CASE LogResult(c)
  BY <1>1, <1>5, ResultLog
<1>6. CASE SendEmail(c) \/ SendWebhook(c) \/ WebhookGivesUp(c)
  BY <1>6, SendLog
<1>7. CASE SaveInApp(c)
  BY <1>7, SaveLog
<1> QED BY <1>2, <1>3, <1>4, <1>5, <1>6, <1>7 DEF Notification

\* LogInv is inductive.
LEMMA LogInductive == Spec => []LogInv
<1>1. Init => LogInv
  <2> SUFFICES ASSUME Init PROVE LogInv
    OBVIOUS
  <2>1. Types
    BY DEF Init, Types, PCs
  <2>2. \A c \in Consumers : pc[c] = "idle" /\ cur[c] = 0 /\ tries[c] = 0
    BY DEF Init
  <2>3. \A c \in Consumers : Worker(c)
    BY <2>2 DEF Worker
  <2>4. Apart
    BY <2>2 DEF Apart
  <2>5. docs = <<>> /\ DOMAIN docs = {}
    BY DEF Init
  <2>6. IsList(docs)
    <3>1. <<>> \in Seq({})
      BY EmptySeq
    <3> QED BY <2>5, <3>1 DEF IsList
  <2>7. Entries
    BY <2>5, <2>6 DEF Entries, LogHonest
  <2> QED BY <2>1, <2>3, <2>4, <2>7 DEF LogInv
<1>2. ASSUME LogInv, [Next]_vars PROVE LogInv'
  <2>1. CASE UNCHANGED vars
    <3>1. /\ UNCHANGED <<service, pos, pc, chan, tries, ok, docs, cur, stuck, crashes>>
          /\ UNCHANGED <<offset, ops>>
      BY <2>1 DEF vars, kafka, notif, hist
    <3> QED BY <1>2, <3>1, QuietLog DEF LogInv, Types
  <2>2. ASSUME NEW c \in Consumers, CommitOffset(c) PROVE LogInv'
    <3>1. /\ UNCHANGED <<service, pos, pc, chan, tries, ok, docs, cur, stuck, crashes, ops>>
          /\ offset' = [offset EXCEPT ![c] = pos[c]]
      BY <2>2 DEF CommitOffset, notif, hist
    <3> QED BY <1>2, <3>1, QuietLog DEF LogInv, Types
  <2>3. ASSUME NEW c \in Consumers, Take(c) \/ Crash(c) \/ Analytics(c) \/ Notification(c)
        PROVE  LogInv'
    BY <1>2, <2>3, TakeLog, CrashLog, AnalyticsLog, NotificationLog
  <2> QED BY <1>2, <2>1, <2>2, <2>3, OperationLog DEF Next
<1> QED BY <1>1, <1>2, PTL DEF Spec

\* An entry that says sent was delivered, whatever failed, crashed or was
\* tried again.
THEOREM LogTheorem == Spec => []LogHonest
<1>1. LogInv => LogHonest
  BY DEF LogInv, Entries
<1> QED BY <1>1, LogInductive, PTL

-----------------------------------------------------------------------------
(* The counts.                                                             *)

Of(k) == {o \in ops : o.k = k}

\* Updates are of messages that were given up, or of the one the handler
\* waits for; a message has one of each kind.
OpsInv ==
  /\ IsFiniteSet(ops)
  /\ \A o, p \in ops : o.c = p.c /\ o.at = p.at /\ o.k = p.k => o = p
  /\ \A o \in ops : o.at < pos[o.c] \/ (o.at = pos[o.c] /\ pc[o.c] = "settling")

CountTypes ==
  /\ store \in [Kinds \cup {"events", "quota"} -> Nat]
  /\ refused \in [Kinds -> Nat] /\ lost \in [Kinds -> Nat] /\ twice \in [Kinds -> Nat]
  /\ failures \in Nat

CountInv == Types /\ CountTypes /\ OpsInv /\ CountsAccounted

\* The updates of a kind are finitely many.
LEMMA OfFinite ==
  ASSUME OpsInv, NEW k
  PROVE  IsFiniteSet(Of(k)) /\ UnderWay(k) = Cardinality(Of(k)) /\ UnderWay(k) \in Nat
<1>1. Of(k) \subseteq ops /\ IsFiniteSet(ops)
  BY DEF Of, OpsInv
<1>2. IsFiniteSet(Of(k)) /\ Cardinality(Of(k)) \in Nat
  BY <1>1, FS_Subset, FS_CardinalityType
<1> QED BY <1>2 DEF UnderWay, Of

\* One update ends.
LEMMA OpEnds ==
  ASSUME OpsInv, NEW o \in ops, ops' = ops \ {o}
  PROVE  /\ UnderWay(o.k) \in Nat /\ UnderWay(o.k)' = UnderWay(o.k) - 1
         /\ \A k : k # o.k => UnderWay(k)' = UnderWay(k)
         /\ IsFiniteSet(ops')
<1>1. IsFiniteSet(Of(o.k)) /\ UnderWay(o.k) = Cardinality(Of(o.k)) /\ UnderWay(o.k) \in Nat
  BY OfFinite
<1>2. Of(o.k)' = Of(o.k) \ {o} /\ o \in Of(o.k)
  BY DEF Of
<1>3. UnderWay(o.k)' = Cardinality(Of(o.k)')
  BY DEF UnderWay, Of
<1>4. Cardinality(Of(o.k) \ {o}) = Cardinality(Of(o.k)) - 1
  BY <1>1, <1>2, FS_RemoveElement
<1>5. ASSUME NEW k, k # o.k PROVE UnderWay(k)' = UnderWay(k)
  <2>1. {p \in ops' : p.k = k} = {p \in ops : p.k = k}
    BY <1>5
  <2> QED BY <2>1 DEF UnderWay
<1>6. IsFiniteSet(ops')
  BY FS_RemoveElement DEF OpsInv
<1> QED BY <1>1, <1>2, <1>3, <1>4, <1>5, <1>6

\* Steps that neither start nor end an update.
LEMMA NoCountStep ==
  ASSUME CountInv, Types', ops' = ops, refused' = refused, lost' = lost,
         twice' = twice, failures' = failures,
         store' \in [Kinds \cup {"events", "quota"} -> Nat],
         \A k \in Kinds \cup {"events"} : store'[k] = store[k],
         \A c \in Consumers :
           \/ pos'[c] = pos[c] + 1
           \/ pos'[c] = pos[c] /\ (pc[c] = "settling" => pc'[c] = "settling")
  PROVE  CountInv'
<1>1. CountTypes'
  BY DEF CountInv, CountTypes
<1>2. \A o \in ops : o.c \in Consumers /\ o.at \in Nat /\ pos[o.c] \in Nat
  BY DEF CountInv, Types, Op
<1>3. ASSUME NEW o \in ops
      PROVE  o.at < pos'[o.c] \/ (o.at = pos'[o.c] /\ pc'[o.c] = "settling")
  BY <1>2 DEF CountInv, OpsInv
<1>4. OpsInv'
  BY <1>3 DEF CountInv, OpsInv
<1>5. \A k \in Kinds : UnderWay(k)' = UnderWay(k)
  BY DEF UnderWay
<1>6. CountsAccounted'
  BY <1>5 DEF CountInv, CountsAccounted
<1> QED BY <1>1, <1>4, <1>6 DEF CountInv

\* So is a return from a handler.
LEMMA ReturnPlaces ==
  ASSUME Types, NEW c \in Consumers, Return(c)
  PROVE  \A d \in Consumers :
           \/ pos'[d] = pos[d] + 1
           \/ pos'[d] = pos[d] /\ (pc[d] = "settling" => pc'[d] = "settling")
  BY DEF Types, Return

\* A message starts its updates.
LEMMA InsertCounts ==
  ASSUME CountInv, Types', NEW c \in Consumers, InsertApiEvent(c)
  PROVE  CountInv'
<1> DEFINE new(k) == [c |-> c, at |-> pos[c], k |-> k, seen |-> "not yet"]
<1>1. /\ pc[c] = "api" /\ pc' = [pc EXCEPT ![c] = "settling"] /\ pos' = pos
      /\ store' = [store EXCEPT !["events"] = @ + 1]
      /\ UNCHANGED <<refused, lost, twice, failures>>
  BY DEF InsertApiEvent, hist
<1>2. /\ Types /\ CountTypes /\ OpsInv /\ CountsAccounted
  BY DEF CountInv
<1>3. ops' = ops \cup {new(k) : k \in Kinds}
  BY DEF InsertApiEvent, StartOps
<1>4. \A o \in ops : o.c \in Consumers /\ o.at \in Nat /\ pos[o.c] \in Nat
  BY <1>2 DEF Types, Op
<1>5. ASSUME NEW o \in ops PROVE ~(o.c = c /\ o.at = pos[c])
  <2>1. o.at < pos[o.c] \/ pc[o.c] = "settling"
    BY <1>2 DEF OpsInv
  <2>2. pc[c] = "api" /\ pos[o.c] \in Nat
    BY <1>1, <1>4
  <2> QED BY <2>1, <2>2
<1>6. OpsInv'
  <2>1. IsFiniteSet(ops')
    <3>1. {new(k) : k \in Kinds} = {new("hour"), new("day"), new("realtime")}
      BY DEF Kinds
    <3>2. IsFiniteSet({new("hour"), new("day"), new("realtime")})
      <4> HIDE DEF new
      <4>1. IsFiniteSet({}) /\ {} \cup {new("hour")} = {new("hour")}
        BY FS_EmptySet
      <4>2. IsFiniteSet({new("hour")})
        BY <4>1, FS_AddElement
      <4>3. IsFiniteSet({new("hour")} \cup {new("day")})
        BY <4>2, FS_AddElement
      <4>4. IsFiniteSet({new("hour")} \cup {new("day")} \cup {new("realtime")})
        BY <4>3, FS_AddElement
      <4>5. {new("hour")} \cup {new("day")} \cup {new("realtime")}
              = {new("hour"), new("day"), new("realtime")}
        OBVIOUS
      <4> QED BY <4>4, <4>5
    <3> HIDE DEF new
    <3> QED BY <1>2, <1>3, <3>1, <3>2, FS_Union DEF OpsInv
  <2>2. \A k : new(k).c = c /\ new(k).at = pos[c] /\ new(k).k = k
    OBVIOUS
  <2> HIDE DEF new
  <2>3. ASSUME NEW o \in ops', NEW p \in ops', o.c = p.c, o.at = p.at, o.k = p.k PROVE o = p
    BY <1>2, <1>3, <1>5, <2>2, <2>3 DEF OpsInv
  <2>4. ASSUME NEW o \in ops'
        PROVE  o.at < pos'[o.c] \/ (o.at = pos'[o.c] /\ pc'[o.c] = "settling")
    <3>1. CASE o \in ops
      <4>1. o.c \in Consumers
        BY <1>4, <3>1
      <4>2. o.at < pos[o.c] \/ (o.at = pos[o.c] /\ pc[o.c] = "settling")
        BY <1>2, <3>1 DEF OpsInv
      <4> QED BY <1>1, <1>2, <4>1, <4>2 DEF Types
    <3>2. CASE o \notin ops
      <4>1. o.c = c /\ o.at = pos[c]
        BY <1>3, <2>2, <3>2
      <4> QED BY <1>1, <1>2, <4>1 DEF Types
    <3> QED BY <3>1, <3>2
  <2> QED BY <2>1, <2>3, <2>4 DEF OpsInv
<1>7. ASSUME NEW k \in Kinds PROVE UnderWay(k)' = UnderWay(k) + 1 /\ UnderWay(k) \in Nat
  <2>1. new(k).c = c /\ new(k).at = pos[c] /\ \A j : new(j).k = j
    OBVIOUS
  <2> HIDE DEF new
  <2>2. Of(k)' = Of(k) \cup {new(k)}
    BY <1>3, <2>1 DEF Of
  <2>3. new(k) \notin Of(k)
    BY <1>5, <2>1 DEF Of
  <2>4. IsFiniteSet(Of(k)) /\ UnderWay(k) = Cardinality(Of(k)) /\ UnderWay(k) \in Nat
    BY <1>2, OfFinite
  <2>5. UnderWay(k)' = Cardinality(Of(k)')
    BY DEF UnderWay, Of
  <2> QED BY <2>2, <2>3, <2>4, <2>5, FS_AddElement
<1>8. /\ store' \in [Kinds \cup {"events", "quota"} -> Nat]
      /\ store'["events"] = store["events"] + 1
      /\ \A k \in Kinds : store'[k] = store[k] /\ store[k] \in Nat
  <2>1. "events" \notin Kinds
    BY DEF Kinds
  <2>2. store' = [store EXCEPT !["events"] = store["events"] + 1]
    BY <1>1
  <2>3. store \in [Kinds \cup {"events", "quota"} -> Nat]
    BY <1>2 DEF CountTypes
  <2> QED BY <2>1, <2>2, <2>3
<1>9. CountTypes'
  BY <1>1, <1>2, <1>8 DEF CountTypes
<1>10. CountsAccounted'
  <2>1. ASSUME NEW k \in Kinds
        PROVE  store'[k] + UnderWay(k)' + refused'[k] + lost'[k]
                   = store'["events"] + twice'[k]
    <3>1. store[k] + UnderWay(k) + refused[k] + lost[k] = store["events"] + twice[k]
      BY <1>2 DEF CountsAccounted
    <3>2. /\ refused[k] \in Nat /\ lost[k] \in Nat /\ twice[k] \in Nat
          /\ store["events"] \in Nat
      BY <1>2 DEF CountTypes
    <3>3. store[k] \in Nat /\ store'[k] = store[k] /\ store'["events"] = store["events"] + 1
      BY <1>8
    <3>4. UnderWay(k) \in Nat /\ UnderWay(k)' = UnderWay(k) + 1
      BY <1>7
    <3>5. refused' = refused /\ lost' = lost /\ twice' = twice
      BY <1>1
    <3> QED BY <3>1, <3>2, <3>3, <3>4, <3>5
  <2> QED BY <1>1, <1>2, <2>1 DEF CountsAccounted
<1> QED BY <1>6, <1>9, <1>10 DEF CountInv

\* A crash cuts off the updates of one consumer, and counts them.
LEMMA CrashCounts ==
  ASSUME CountInv, Types', NEW c \in Consumers, Crash(c)
  PROVE  CountInv'
<1>1. Types /\ CountTypes /\ OpsInv /\ CountsAccounted
  BY DEF CountInv
<1>2. /\ ops' = {o \in ops : o.c # c} /\ store' = store /\ refused' = refused
      /\ UNCHANGED <<twice, failures>>
      /\ lost' = [k \in Kinds |->
                        lost[k] + Cardinality({o \in ops : o.c = c /\ o.k = k})]
      /\ pos' = [pos EXCEPT ![c] = offset[c]] /\ pc' = [pc EXCEPT ![c] = "idle"]
  BY DEF Crash
<1>3. ASSUME NEW k \in Kinds
      PROVE  /\ Cardinality({o \in ops : o.c = c /\ o.k = k}) \in Nat
             /\ UnderWay(k)' \in Nat
             /\ UnderWay(k) = UnderWay(k)' + Cardinality({o \in ops : o.c = c /\ o.k = k})
  <2> DEFINE A == {o \in ops : o.c = c /\ o.k = k}
             B == {o \in ops' : o.k = k}
  <2>1. Of(k) = B \cup A /\ A \cap B = {}
    BY <1>2 DEF Of
  <2>2. IsFiniteSet(Of(k)) /\ UnderWay(k) = Cardinality(Of(k))
    BY <1>1, OfFinite
  <2>3. A \subseteq Of(k) /\ B \subseteq Of(k)
    BY <2>1
  <2>4. UnderWay(k)' = Cardinality(B)
    BY DEF UnderWay
  <2> HIDE DEF A, B
  <2>5. /\ IsFiniteSet(A) /\ IsFiniteSet(B)
        /\ Cardinality(A) \in Nat /\ Cardinality(B) \in Nat
    BY <2>2, <2>3, FS_Subset, FS_CardinalityType
  <2>6. Cardinality(B \cup A) = Cardinality(B) + Cardinality(A) - Cardinality(B \cap A)
    BY <2>5, FS_Union
  <2>7. Cardinality(B \cap A) = 0
    <3>1. B \cap A = {}
      BY <2>1
    <3> QED BY <3>1, FS_EmptySet
  <2>8. UnderWay(k) = UnderWay(k)' + Cardinality(A)
    BY <2>1, <2>2, <2>4, <2>5, <2>6, <2>7
  <2> QED BY <2>4, <2>5, <2>8 DEF A
<1>4. CountTypes'
  <2>1. ASSUME NEW k \in Kinds
        PROVE  lost[k] + Cardinality({o \in ops : o.c = c /\ o.k = k}) \in Nat
    <3>1. lost[k] \in Nat
      BY <1>1 DEF CountTypes
    <3>2. Cardinality({o \in ops : o.c = c /\ o.k = k}) \in Nat
      BY <1>3
    <3> QED BY <3>1, <3>2
  <2>2. lost' \in [Kinds -> Nat]
    BY <1>2, <2>1
  <2> QED BY <1>1, <1>2, <2>2 DEF CountTypes
<1>5. OpsInv'
  <2>1. ops' \subseteq ops
    BY <1>2
  <2>2. IsFiniteSet(ops')
    BY <1>1, <2>1, FS_Subset DEF OpsInv
  <2>3. ASSUME NEW o \in ops'
        PROVE  o.at < pos'[o.c] \/ (o.at = pos'[o.c] /\ pc'[o.c] = "settling")
    <3>1. o \in ops /\ o.c # c /\ o.c \in Consumers
      BY <1>1, <1>2 DEF Types, Op
    <3>2. pos'[o.c] = pos[o.c] /\ pc'[o.c] = pc[o.c]
      BY <1>1, <1>2, <3>1 DEF Types
    <3> QED BY <1>1, <3>1, <3>2 DEF OpsInv
  <2> QED BY <1>1, <2>1, <2>2, <2>3 DEF OpsInv
<1>6. CountsAccounted'
  <2>1. ASSUME NEW k \in Kinds
        PROVE  store'[k] + UnderWay(k)' + refused'[k] + lost'[k]
                   = store'["events"] + twice'[k]
    <3> DEFINE n == Cardinality({o \in ops : o.c = c /\ o.k = k})
    <3>1. store[k] + UnderWay(k) + refused[k] + lost[k] = store["events"] + twice[k]
      BY <1>1 DEF CountsAccounted
    <3>2. /\ store[k] \in Nat /\ refused[k] \in Nat /\ lost[k] \in Nat /\ twice[k] \in Nat
          /\ twice' = twice
      BY <1>1, <1>2 DEF CountTypes
    <3>3. n \in Nat /\ UnderWay(k)' \in Nat /\ UnderWay(k) = UnderWay(k)' + n
      BY <1>3
    <3>4. store' = store /\ refused' = refused /\ lost'[k] = lost[k] + n
      BY <1>2
    <3> HIDE DEF n
    <3> QED BY <3>1, <3>2, <3>3, <3>4
  <2> QED BY <1>1, <1>2, <2>1 DEF CountsAccounted
<1> QED BY <1>4, <1>5, <1>6 DEF CountInv

\* An update ends: counted, refused or failed.
LEMMA EndCounts ==
  ASSUME CountInv, Types', NEW o \in ops,
         Update(o) \/ UpdateRefused(o) \/ UpdateFails(o) \/ UpdateUnanswered(o)
  PROVE  CountInv'
<1>1. /\ Types /\ CountTypes /\ OpsInv /\ CountsAccounted
      /\ o.c \in Consumers /\ o.k \in Kinds /\ o.at \in Nat
  BY DEF CountInv, Types, Op
<1>2. ops' = ops \ {o}
  BY DEF Update, UpdateRefused, UpdateFails, UpdateUnanswered, Reject
<1>3. /\ UnderWay(o.k) \in Nat /\ UnderWay(o.k)' = UnderWay(o.k) - 1
      /\ \A k : k # o.k => UnderWay(k)' = UnderWay(k)
      /\ IsFiniteSet(ops')
  BY <1>1, <1>2, OpEnds
<1>4. \A d \in Consumers :
        \/ pos'[d] = pos[d] + 1
        \/ pos'[d] = pos[d] /\ (pc[d] = "settling" => pc'[d] = "settling")
  <2>1. CASE UNCHANGED <<pos, pc>>
    BY <2>1
  <2>2. CASE GivenUp(o)
    BY <1>1, <2>2, ReturnPlaces DEF GivenUp
  <2>3. UNCHANGED <<pos, pc>> \/ GivenUp(o)
    BY DEF Update, UpdateRefused, UpdateFails, UpdateUnanswered, Reject
  <2> QED BY <2>1, <2>2, <2>3
<1>5. OpsInv'
  <2>1. ASSUME NEW p \in ops'
        PROVE  p.at < pos'[p.c] \/ (p.at = pos'[p.c] /\ pc'[p.c] = "settling")
    <3>1. p \in ops /\ p.c \in Consumers /\ p.at \in Nat /\ pos[p.c] \in Nat
      BY <1>1, <1>2 DEF Types, Op
    <3>2. p.at < pos[p.c] \/ (p.at = pos[p.c] /\ pc[p.c] = "settling")
      BY <1>1, <3>1 DEF OpsInv
    <3> QED BY <1>4, <3>1, <3>2
  <2> QED BY <1>1, <1>2, <1>3, <2>1 DEF OpsInv
<1>6. "events" \notin Kinds /\ Kinds \subseteq Kinds \cup {"events", "quota"}
  BY DEF Kinds
<1>7. /\ twice' = twice /\ failures' \in {failures, failures + 1}
      /\ \/ store' = [store EXCEPT ![o.k] = @ + 1] /\ UNCHANGED <<refused, lost>>
         \/ /\ refused' = [refused EXCEPT ![o.k] = @ + 1] /\ UNCHANGED <<store, lost>>
            /\ o.k # "realtime"
         \/ lost' = [lost EXCEPT ![o.k] = @ + 1] /\ UNCHANGED <<store, refused>>
  BY DEF Update, UpdateRefused, UpdateFails, UpdateUnanswered, Failing, Reject, Refused, hist
<1>8. CountTypes' /\ store'["events"] = store["events"]
  BY <1>1, <1>6, <1>7 DEF CountTypes
<1>9. ASSUME NEW k \in Kinds
      PROVE  store'[k] + UnderWay(k)' + refused'[k] + lost'[k]
                   = store'["events"] + twice'[k]
  <2>1. /\ store[k] \in Nat /\ refused[k] \in Nat /\ lost[k] \in Nat /\ twice[k] \in Nat
        /\ k \in DOMAIN store /\ k \in DOMAIN refused /\ k \in DOMAIN lost
    BY <1>1 DEF CountTypes
  <2>2. store[k] + UnderWay(k) + refused[k] + lost[k] = store["events"] + twice[k]
    BY <1>1 DEF CountsAccounted
  <2>3. UnderWay(k) \in Nat
    BY <1>1, OfFinite
  <2>4. CASE k = o.k
    <3>1. \/ store'[k] = store[k] + 1 /\ refused'[k] = refused[k] /\ lost'[k] = lost[k]
          \/ store'[k] = store[k] /\ refused'[k] = refused[k] + 1 /\ lost'[k] = lost[k]
          \/ store'[k] = store[k] /\ refused'[k] = refused[k] /\ lost'[k] = lost[k] + 1
      BY <1>7, <2>1, <2>4
    <3>2. UnderWay(k)' = UnderWay(k) - 1
      BY <1>3, <2>4
    <3> QED BY <1>7, <1>8, <2>1, <2>2, <2>3, <3>1, <3>2
  <2>5. CASE k # o.k
    <3>1. store'[k] = store[k] /\ refused'[k] = refused[k] /\ lost'[k] = lost[k]
      BY <1>7, <2>1, <2>5
    <3> QED BY <1>3, <1>7, <1>8, <2>2, <2>5, <3>1
  <2> QED BY <2>4, <2>5
<1>10. refused'["realtime"] = 0
  <2>1. refused["realtime"] = 0
    BY <1>1 DEF CountsAccounted
  <2>2. "realtime" \in DOMAIN refused
    BY <1>1 DEF CountTypes, Kinds
  <2>3. CASE refused' = refused
    BY <2>1, <2>3
  <2>4. CASE refused' = [refused EXCEPT ![o.k] = @ + 1] /\ o.k # "realtime"
    BY <2>1, <2>2, <2>4
  <2> QED BY <1>7, <2>3, <2>4
<1>11. CountsAccounted'
  BY <1>1, <1>7, <1>9, <1>10 DEF CountsAccounted
<1> QED BY <1>5, <1>8, <1>11 DEF CountInv

\* A realtime count is made once more.
LEMMA TwiceCounts ==
  ASSUME CountInv, Types', NEW o \in ops, CountTwice(o)
  PROVE  CountInv'
<1>1. /\ o.k = "realtime" /\ failures' = failures + 1
      /\ store' = [store EXCEPT !["realtime"] = @ + 1]
      /\ twice' = [twice EXCEPT !["realtime"] = @ + 1]
      /\ UNCHANGED <<pos, pc, ops, refused, lost>>
  BY DEF CountTwice, Failing
<1>2. CountTypes /\ CountsAccounted /\ OpsInv
  BY DEF CountInv
<1>3. CountTypes' /\ OpsInv'
  <2>1. CountTypes'
    <3>1. "realtime" \in Kinds /\ Kinds \subseteq Kinds \cup {"events", "quota"}
      BY DEF Kinds
    <3> QED BY <1>1, <1>2, <3>1 DEF CountTypes
  <2>2. OpsInv'
    BY <1>1, <1>2 DEF OpsInv
  <2> QED BY <2>1, <2>2
<1>4. ASSUME NEW k \in Kinds
      PROVE  store'[k] + UnderWay(k)' + refused'[k] + lost'[k]
               = store'["events"] + twice'[k]
  <2>1. /\ store[k] \in Nat /\ refused[k] \in Nat /\ lost[k] \in Nat /\ twice[k] \in Nat
        /\ store["events"] \in Nat /\ store'["events"] = store["events"]
    BY <1>1, <1>2 DEF CountTypes
  <2>2. store[k] + UnderWay(k) + refused[k] + lost[k] = store["events"] + twice[k]
    BY <1>2 DEF CountsAccounted
  <2>3. UnderWay(k) \in Nat /\ UnderWay(k)' = UnderWay(k)
    BY <1>1, <1>2, OfFinite DEF UnderWay
  <2>4. \/ store'[k] = store[k] + 1 /\ twice'[k] = twice[k] + 1
        \/ store'[k] = store[k] /\ twice'[k] = twice[k]
    BY <1>1, <1>2 DEF CountTypes, Kinds
  <2> QED BY <1>1, <2>1, <2>2, <2>3, <2>4
<1>5. twice'["hour"] = 0 /\ twice'["day"] = 0 /\ refused'["realtime"] = 0
  BY <1>1, <1>2 DEF CountTypes, CountsAccounted, Kinds
<1>6. CountsAccounted'
  BY <1>4, <1>5 DEF CountsAccounted
<1> QED BY <1>3, <1>6 DEF CountInv

\* An event is stored and its counts are never made.
LEMMA UnansweredCounts ==
  ASSUME CountInv, Types', NEW c \in Consumers, Return(c),
         store' = [store EXCEPT !["events"] = @ + 1],
         lost' = [k \in Kinds |-> lost[k] + 1],
         UNCHANGED <<ops, refused, twice, failures>>
  PROVE  CountInv'
<1>1. Types /\ CountTypes /\ CountsAccounted /\ OpsInv
  BY DEF CountInv
<1>2. CountTypes'
  BY <1>1 DEF CountTypes, Kinds
<1>3. OpsInv'
  <2>1. \A o \in ops : o.c \in Consumers /\ o.at \in Nat /\ pos[o.c] \in Nat
    BY <1>1 DEF Types, Op
  <2>2. \A d \in Consumers :
          \/ pos'[d] = pos[d] + 1
          \/ pos'[d] = pos[d] /\ (pc[d] = "settling" => pc'[d] = "settling")
    BY <1>1, ReturnPlaces
  <2>3. ASSUME NEW o \in ops
        PROVE  o.at < pos'[o.c] \/ (o.at = pos'[o.c] /\ pc'[o.c] = "settling")
    BY <1>1, <2>1, <2>2 DEF OpsInv
  <2> QED BY <1>1, <2>3 DEF OpsInv
<1>4. ASSUME NEW k \in Kinds
      PROVE  store'[k] + UnderWay(k)' + refused'[k] + lost'[k]
               = store'["events"] + twice'[k]
  <2> DEFINE s1 == store'[k]
             e1 == store'["events"]
             l1 == lost'[k]
  <2>1. /\ store[k] \in Nat /\ refused[k] \in Nat /\ lost[k] \in Nat /\ twice[k] \in Nat
        /\ store["events"] \in Nat
    BY <1>1 DEF CountTypes
  <2>2. s1 = store[k] /\ e1 = store["events"] + 1 /\ l1 = lost[k] + 1
    BY <1>1 DEF CountTypes, Kinds
  <2>3. store[k] + UnderWay(k) + refused[k] + lost[k] = store["events"] + twice[k]
    BY <1>1 DEF CountsAccounted
  <2>4. UnderWay(k) \in Nat /\ UnderWay(k)' = UnderWay(k)
    BY <1>1, OfFinite DEF UnderWay
  <2>5. refused'[k] = refused[k] /\ twice'[k] = twice[k]
    OBVIOUS
  <2> HIDE DEF s1, e1, l1
  <2>6. s1 + UnderWay(k)' + refused'[k] + l1 = e1 + twice'[k]
    BY <2>1, <2>2, <2>3, <2>4, <2>5
  <2> QED BY <2>6 DEF s1, e1, l1
<1>5. CountsAccounted'
  BY <1>1, <1>4 DEF CountsAccounted
<1> QED BY <1>2, <1>3, <1>5 DEF CountInv

\* An upsert looks for its bucket.
LEMMA FindCounts ==
  ASSUME CountInv, Types', NEW o \in ops, FindBucket(o)
  PROVE  CountInv'
<1> DEFINE st == IF store[o.k] = 0 THEN "absent" ELSE "there"
           p == [o EXCEPT !.seen = st]
<1>1. /\ Types /\ CountTypes /\ OpsInv /\ CountsAccounted /\ o \in Op
  BY DEF CountInv, Types
<1>2. /\ ops' = (ops \ {o}) \cup {p} /\ o.seen = "not yet"
      /\ UNCHANGED <<pos, pc, store, refused, lost, twice, failures>>
  BY DEF FindBucket, hist
<1>3. p.c = o.c /\ p.at = o.at /\ p.k = o.k /\ p.seen # "not yet"
  BY <1>1 DEF Op
<1> HIDE DEF p, st
<1>4. p \notin ops
  BY <1>1, <1>2, <1>3 DEF OpsInv
<1>5. OpsInv'
  <2>1. IsFiniteSet(ops')
    <3>1. IsFiniteSet(ops \ {o})
      BY <1>1, FS_RemoveElement DEF OpsInv
    <3> QED BY <1>2, <3>1, FS_AddElement
  <2>2. ASSUME NEW q \in ops'
        PROVE  q.at < pos'[q.c] \/ (q.at = pos'[q.c] /\ pc'[q.c] = "settling")
    BY <1>1, <1>2, <1>3 DEF OpsInv
  <2>3. ASSUME NEW q \in ops', NEW s \in ops', q.c = s.c, q.at = s.at, q.k = s.k PROVE q = s
    <3>1. \A x \in ops, y \in ops : x.c = y.c /\ x.at = y.at /\ x.k = y.k => x = y
      BY <1>1 DEF OpsInv
    <3>2. \A x \in ops \ {o} : ~(x.c = p.c /\ x.at = p.at /\ x.k = p.k)
      <4> SUFFICES ASSUME NEW x \in ops \ {o}, x.c = p.c, x.at = p.at, x.k = p.k PROVE FALSE
        OBVIOUS
      <4>1. x.c = o.c /\ x.at = o.at /\ x.k = o.k
        BY <1>3
      <4> QED BY <3>1, <4>1
    <3>3. q \in (ops \ {o}) \cup {p} /\ s \in (ops \ {o}) \cup {p}
      BY <1>2, <2>3
    <3>4. CASE q = p
      <4>1. s \notin ops \ {o}
        BY <2>3, <3>2, <3>4
      <4> QED BY <3>3, <3>4, <4>1
    <3>5. CASE s = p
      <4>1. q \notin ops \ {o}
        BY <2>3, <3>2, <3>5
      <4> QED BY <3>3, <3>5, <4>1
    <3>6. CASE q \in ops /\ s \in ops
      BY <2>3, <3>1, <3>6
    <3> QED BY <3>3, <3>4, <3>5, <3>6
  <2> QED BY <2>1, <2>2, <2>3 DEF OpsInv
<1>6. ASSUME NEW k \in Kinds PROVE UnderWay(k)' = UnderWay(k)
  <2>1. IsFiniteSet(Of(k)) /\ UnderWay(k) = Cardinality(Of(k)) /\ UnderWay(k) \in Nat
    BY <1>1, OfFinite
  <2>2. UnderWay(k)' = Cardinality(Of(k)')
    BY DEF UnderWay, Of
  <2>3. CASE k # o.k
    <3>1. Of(k)' = Of(k)
      BY <1>2, <1>3, <2>3 DEF Of
    <3> QED BY <2>1, <2>2, <3>1
  <2>4. CASE k = o.k
    <3>1. Of(k)' = (Of(k) \ {o}) \cup {p} /\ o \in Of(k) /\ p \notin Of(k) \ {o}
      BY <1>2, <1>3, <1>4, <2>4 DEF Of
    <3>2. /\ IsFiniteSet(Of(k) \ {o})
          /\ Cardinality(Of(k) \ {o}) = Cardinality(Of(k)) - 1
      BY <2>1, <3>1, FS_RemoveElement
    <3>3. Cardinality((Of(k) \ {o}) \cup {p}) = Cardinality(Of(k) \ {o}) + 1
      BY <3>1, <3>2, FS_AddElement
    <3> QED BY <2>1, <2>2, <3>1, <3>2, <3>3
  <2> QED BY <2>3, <2>4
<1>7. CountTypes'
  BY <1>1, <1>2 DEF CountTypes
<1>8. CountsAccounted'
  BY <1>1, <1>2, <1>6 DEF CountsAccounted
<1> QED BY <1>5, <1>7, <1>8 DEF CountInv

\* It holds throughout.
LEMMA CountInductive == Spec => []CountInv
<1>1. Init => CountInv
  <2> SUFFICES ASSUME Init PROVE CountInv
    OBVIOUS
  <2>1. Types
    BY DEF Init, Types, PCs
  <2>2. CountTypes /\ ops = {}
    BY DEF Init, CountTypes
  <2>3. OpsInv
    BY <2>2, FS_EmptySet DEF OpsInv
  <2>4. ASSUME NEW k \in Kinds PROVE UnderWay(k) = 0
    <3>1. {o \in ops : o.k = k} = {}
      BY <2>2
    <3> QED BY <3>1, FS_EmptySet DEF UnderWay
  <2>5. /\ \A k \in Kinds : store[k] = 0 /\ refused[k] = 0 /\ lost[k] = 0 /\ twice[k] = 0
        /\ store["events"] = 0 /\ refused["realtime"] = 0
        /\ twice["hour"] = 0 /\ twice["day"] = 0
    BY DEF Init, Kinds
  <2>6. CountsAccounted
    BY <2>4, <2>5 DEF CountsAccounted
  <2> QED BY <2>1, <2>2, <2>3, <2>6 DEF CountInv
<1>2. ASSUME CountInv, LogInv, LogInv', [Next]_vars PROVE CountInv'
  <2>1. Types /\ Types' /\ CountTypes
    BY <1>2 DEF LogInv, CountInv
  <2>2. CASE UNCHANGED vars
    <3>1. UNCHANGED <<pos, pc, ops, store, refused, lost, twice, failures>>
      BY <2>2 DEF vars, hist
    <3> QED BY <1>2, <2>1, <3>1, NoCountStep DEF CountTypes
  <2>3. ASSUME NEW c \in Consumers, CommitOffset(c) PROVE CountInv'
    <3>1. UNCHANGED <<pos, pc, ops, store, refused, lost, twice, failures>>
      BY <2>3 DEF CommitOffset, hist
    <3> QED BY <1>2, <2>1, <3>1, NoCountStep DEF CountTypes
  <2>4. ASSUME NEW c \in Consumers, Return(c), UNCHANGED <<ops, refused, lost, twice, failures>>,
               store' = store \/ store' = [store EXCEPT !["quota"] = @ + 1]
        PROVE  CountInv'
    <3>1. /\ store' \in [Kinds \cup {"events", "quota"} -> Nat]
          /\ \A k \in Kinds \cup {"events"} : store'[k] = store[k]
      BY <2>1, <2>4 DEF CountTypes, Kinds
    <3> QED BY <1>2, <2>1, <2>4, <3>1, NoCountStep, ReturnPlaces
  <2>5. ASSUME NEW c \in Consumers, pos' = pos,
               pc' = pc \/ (pc[c] # "settling" /\ \E x : pc' = [pc EXCEPT ![c] = x]),
               UNCHANGED <<ops, store, refused, lost, twice, failures>>
        PROVE  CountInv'
    <3>1. \A d \in Consumers : pc[d] = "settling" => pc'[d] = "settling"
      BY <2>1, <2>5 DEF Types
    <3> QED BY <1>2, <2>1, <2>5, <3>1, NoCountStep DEF CountTypes
  <2>6. ASSUME NEW c \in Consumers, Take(c) PROVE CountInv'
    <3>1. UNCHANGED <<ops, store, refused, lost, twice, failures>> /\ pc[c] = "idle"
      BY <2>6 DEF Take, hist
    <3>2. Return(c) \/ (pos' = pos /\ \E x : pc' = [pc EXCEPT ![c] = x])
      BY <2>6 DEF Take
    <3> QED BY <2>4, <2>5, <3>1, <3>2
  <2>7. ASSUME NEW c \in Consumers, Analytics(c) PROVE CountInv'
    <3>1. CASE InsertApiEvent(c)
      BY <1>2, <2>1, <3>1, InsertCounts
    <3>2. CASE HandleQuotaEvent(c) \/ InsertFails(c) \/ Settled(c)
      BY <2>4, <3>2 DEF HandleQuotaEvent, InsertFails, Settled, hist
    <3>3. CASE InsertUnanswered(c) /\ lost' = lost
      <4>1. Return(c) /\ UNCHANGED <<ops, refused, lost, twice, failures>>
        BY <3>3 DEF InsertUnanswered
      <4>2. store' = [store EXCEPT !["quota"] = @ + 1]
        <5>1. lost["hour"] \in Nat /\ "hour" \in Kinds
          BY <2>1 DEF CountTypes, Kinds
        <5>2. lost["hour"] # lost["hour"] + 1
          BY <5>1
        <5>3. lost' # [k \in Kinds |-> lost[k] + 1]
          BY <3>3, <5>1, <5>2
        <5> QED BY <3>3, <5>3 DEF InsertUnanswered
      <4> QED BY <2>4, <4>1, <4>2
    <3>4. CASE InsertUnanswered(c) /\ lost' # lost
      <4>1. /\ Return(c) /\ UNCHANGED <<ops, refused, twice, failures>>
            /\ store' = [store EXCEPT !["events"] = @ + 1]
            /\ lost' = [k \in Kinds |-> lost[k] + 1]
        BY <3>4 DEF InsertUnanswered
      <4> QED BY <1>2, <2>1, <4>1, UnansweredCounts
    <3> QED BY <2>7, <3>1, <3>2, <3>3, <3>4 DEF Analytics
  <2>8. ASSUME NEW c \in Consumers, Notification(c) PROVE CountInv'
    <3>1. UNCHANGED <<ops, store, refused, lost, twice, failures>>
      BY <2>8 DEF Notification, LogPending, Dispatched, LogResult, LogFails, SendEmail,
                  SendWebhook, WebhookGivesUp, SaveInApp, hist
    <3>2. CASE Dispatched(c) \/ LogFails(c)
      BY <2>4, <3>1, <3>2 DEF Dispatched, LogFails
    <3>3. CASE \/ LogPending(c) \/ LogResult(c) \/ SendEmail(c) \/ SendWebhook(c)
               \/ WebhookGivesUp(c) \/ SaveInApp(c)
      <4>1. pos' = pos /\ pc[c] # "settling"
        BY <3>3 DEF LogPending, Dispatching, LogResult, SendEmail, SendWebhook,
                    WebhookGivesUp, AtWebhook, SaveInApp
      <4>2. pc' = pc \/ \E x : pc' = [pc EXCEPT ![c] = x]
        BY <3>3 DEF LogPending, LogResult, SendEmail, SendWebhook,
                    WebhookGivesUp, SaveInApp, Conclude
      <4> QED BY <2>5, <3>1, <4>1, <4>2
    <3> QED BY <2>8, <3>2, <3>3 DEF Notification
  <2>9. ASSUME Operation PROVE CountInv'
    <3>1. PICK o \in ops : \/ FindBucket(o) \/ Update(o) \/ UpdateRefused(o)
                           \/ UpdateFails(o) \/ UpdateUnanswered(o) \/ CountTwice(o)
      BY <2>9 DEF Operation
    <3> QED BY <1>2, <2>1, <3>1, EndCounts, FindCounts, TwiceCounts
  <2> QED BY <1>2, <2>1, <2>2, <2>3, <2>6, <2>7, <2>8, <2>9, CrashCounts DEF Next
<1> QED BY <1>1, <1>2, LogInductive, PTL DEF Spec

\* No count is lost but to a failure, a crash or a unique index, and none is
\* made twice.
THEOREM CountsTheorem == Spec => []CountsAccounted
<1>1. CountInv => CountsAccounted
  BY DEF CountInv
<1> QED BY <1>1, CountInductive, PTL

-----------------------------------------------------------------------------
(* Counts lost at the creation of a bucket.  As long as a bucket is not    *)
(* there, none of its updates has ended, so a consumer holds one of them,  *)
(* and one more for each message it gave up because the other bucket       *)
(* refused it.  Only updates that have looked before can be refused.       *)

Upserts == {"hour", "day"}
Other(k) == IF k = "hour" THEN "day" ELSE "hour"

\* The handler waits for the update; it has been left to itself; it has found
\* no bucket.
Awaited(o) == pc[o.c] = "settling" /\ o.at = pos[o.c]
Stray(k) == {o \in ops : o.k = k /\ ~Awaited(o)}
Blind(k) == {o \in ops : o.k = k /\ o.seen = "absent"}

NoLoss == failures = 0 /\ \A k \in Kinds : lost[k] = 0
Size == Cardinality(Consumers)

\* Before bucket k is there.
Unborn(k) ==
  store[k] = 0 =>
    /\ refused[k] = 0
    /\ \A c \in Consumers :
         pc[c] = "settling" => \E o \in ops : o.c = c /\ o.at = pos[c] /\ o.k = k
    /\ Cardinality(Stray(k)) <= refused[Other(k)]

\* Bucket k is the first of the two.
Firstborn(k) ==
  store[k] > 0 /\ store[Other(k)] = 0 =>
    refused[k] + Cardinality(Blind(k)) <= Size - 1

BothBorn ==
  store["hour"] > 0 /\ store["day"] > 0 =>
    refused["hour"] + Cardinality(Blind("hour"))
      + refused["day"] + Cardinality(Blind("day")) <= 3 * (Size - 1)

RaceInv == NoLoss => (\A k \in Upserts : Unborn(k) /\ Firstborn(k)) /\ BothBorn

\* Arithmetic on cardinalities has its types from here.
LEMMA RaceSets ==
  ASSUME CountInv, NEW k
  PROVE  /\ IsFiniteSet(Of(k)) /\ IsFiniteSet(Stray(k)) /\ IsFiniteSet(Blind(k))
         /\ Cardinality(Of(k)) \in Nat /\ Cardinality(Stray(k)) \in Nat
         /\ Cardinality(Blind(k)) \in Nat
         /\ Size \in Nat /\ Size >= 1
<1>1. IsFiniteSet(ops)
  BY DEF CountInv, OpsInv
<1>2. Of(k) \subseteq ops /\ Stray(k) \subseteq ops /\ Blind(k) \subseteq ops
  BY DEF Of, Stray, Blind
<1>3. IsFiniteSet(Of(k)) /\ IsFiniteSet(Stray(k)) /\ IsFiniteSet(Blind(k))
  BY <1>1, <1>2, FS_Subset
<1>4. Size \in Nat /\ Size # 0
  BY ConsumersAssumption, FS_CardinalityType, FS_EmptySet DEF Size
<1>5. Size >= 1
  BY <1>4
<1> QED BY <1>3, <1>4, <1>5, FS_CardinalityType

\* A consumer waits for one update of each kind.
LEMMA FewUpdates ==
  ASSUME CountInv, NEW k
  PROVE  Cardinality(Of(k)) <= Size + Cardinality(Stray(k))
<1> DEFINE W == {o \in ops : o.k = k /\ Awaited(o)}
           f == [o \in W |-> o.c]
<1>1. Of(k) = W \cup Stray(k) /\ W \cap Stray(k) = {}
  BY DEF Of, Stray
<1>2. \A o \in W : o.c \in Consumers
  BY DEF CountInv, Types, Op
<1>3. \A o, p \in W : o.c = p.c => o = p
  BY DEF CountInv, OpsInv, Awaited
<1> HIDE DEF W
<1>4. f \in Injection(W, Consumers)
  BY <1>2, <1>3 DEF Injection, IsInjective
<1> HIDE DEF f
<1>5. IsFiniteSet(W) /\ Cardinality(W) <= Size
  BY <1>4, ConsumersAssumption, FS_Injection DEF Size
<1>6. /\ IsFiniteSet(Stray(k)) /\ Cardinality(Stray(k)) \in Nat /\ Size \in Nat
      /\ Cardinality(W) \in Nat
  BY <1>5, RaceSets, FS_CardinalityType
<1>7. Cardinality(W \cup Stray(k)) =
        Cardinality(W) + Cardinality(Stray(k)) - Cardinality(W \cap Stray(k))
  BY <1>5, <1>6, FS_Union
<1>8. Cardinality(W \cap Stray(k)) = 0
  BY <1>1, FS_EmptySet
<1>9. Cardinality(Of(k)) = Cardinality(W) + Cardinality(Stray(k))
  BY <1>1, <1>6, <1>7, <1>8
<1> QED BY <1>5, <1>6, <1>9

\* Steps that leave the updates alone, and the handlers that wait for one.
LEMMA QuietRace ==
  ASSUME RaceInv, ops' = ops, refused' = refused, lost' = lost, failures' = failures,
         \A k \in Upserts : store'[k] = store[k],
         \A o \in ops : Awaited(o)' = Awaited(o),
         \A c \in Consumers :
           pc'[c] = "settling" => pc[c] = "settling" /\ pos'[c] = pos[c]
  PROVE  RaceInv'
<1>1. \A k : Stray(k)' = Stray(k) /\ Blind(k)' = Blind(k)
  <2> TAKE k
  <2>1. Stray(k)' = Stray(k)
    <3>1. Stray(k)' = {o \in ops : o.k = k /\ ~Awaited(o)'}
      BY DEF Stray
    <3> QED BY <3>1 DEF Stray
  <2>2. Blind(k)' = Blind(k)
    BY DEF Blind
  <2> QED BY <2>1, <2>2
<1>2. \A k \in Upserts : Other(k) \in Upserts
  BY DEF Upserts, Other
<1>3. "hour" \in Upserts /\ "day" \in Upserts
  BY DEF Upserts
<1> SUFFICES ASSUME NoLoss' PROVE ((\A k \in Upserts : Unborn(k) /\ Firstborn(k)) /\ BothBorn)'
  BY DEF RaceInv
<1>4. (\A k \in Upserts : Unborn(k) /\ Firstborn(k)) /\ BothBorn
  BY DEF RaceInv, NoLoss
<1>5. ASSUME NEW k \in Upserts PROVE Unborn(k)'
  <2>1. Unborn(k) /\ store'[k] = store[k]
    BY <1>4
  <2>2. Cardinality(Stray(k))' = Cardinality(Stray(k))
    BY <1>1
  <2> QED BY <2>1, <2>2 DEF Unborn
<1>6. ASSUME NEW k \in Upserts PROVE Firstborn(k)'
  <2>1. Firstborn(k) /\ store'[k] = store[k] /\ store'[Other(k)] = store[Other(k)]
    BY <1>2, <1>4
  <2>2. Cardinality(Blind(k))' = Cardinality(Blind(k))
    BY <1>1
  <2> QED BY <2>1, <2>2 DEF Firstborn, Size
<1>7. BothBorn'
  <2>1. \A k : Cardinality(Blind(k))' = Cardinality(Blind(k))
    BY <1>1
  <2> QED BY <1>3, <1>4, <2>1 DEF BothBorn, Size
<1> QED BY <1>5, <1>6, <1>7

\* A message starts its updates.
LEMMA InsertRace ==
  ASSUME CountInv, RaceInv, NEW c \in Consumers, InsertApiEvent(c)
  PROVE  RaceInv'
<1> DEFINE new(k) == [c |-> c, at |-> pos[c], k |-> k, seen |-> "not yet"]
<1>1. /\ pc[c] = "api" /\ pc' = [pc EXCEPT ![c] = "settling"] /\ pos' = pos
      /\ store' = [store EXCEPT !["events"] = @ + 1]
      /\ UNCHANGED <<refused, lost, twice, failures>>
  BY DEF InsertApiEvent, hist
<1>2. ops' = ops \cup {new(k) : k \in Kinds}
  BY DEF InsertApiEvent, StartOps
<1>3. \A k : new(k).c = c /\ new(k).at = pos[c] /\ new(k).k = k /\ new(k).seen = "not yet"
  OBVIOUS
<1> HIDE DEF new
<1>4. /\ \A o \in ops : o.c \in Consumers /\ (o.c = c => o.at < pos[c]) /\ o.at \in Nat
      /\ pos[c] \in Nat /\ pc'[c] = "settling"
      /\ \A d \in Consumers : d # c => pc'[d] = pc[d]
  BY <1>1 DEF CountInv, Types, Op, OpsInv
<1>5. /\ \A o \in ops : Awaited(o)' = Awaited(o)
      /\ \A o \in ops' : o \notin ops => Awaited(o)' /\ o.seen # "absent"
  <2>1. ASSUME NEW o \in ops PROVE Awaited(o)' = Awaited(o)
    <3>1. CASE o.c = c
      <4>1. o.at # pos[c]
        BY <1>4, <3>1
      <4> QED BY <1>1, <3>1, <4>1 DEF Awaited
    <3>2. CASE o.c # c
      BY <1>1, <1>4, <3>2 DEF Awaited
    <3> QED BY <3>1, <3>2
  <2>2. ASSUME NEW o \in ops', o \notin ops PROVE Awaited(o)' /\ o.seen # "absent"
    <3>1. o.c = c /\ o.at = pos[c] /\ o.seen = "not yet"
      BY <1>2, <1>3, <2>2
    <3> QED BY <1>1, <1>4, <3>1 DEF Awaited
  <2> QED BY <2>1, <2>2
<1>6. \A k : Stray(k)' = Stray(k) /\ Blind(k)' = Blind(k)
  <2> TAKE k
  <2>1. Stray(k)' = Stray(k)
    <3>1. Stray(k)' = {o \in ops' : o.k = k /\ ~Awaited(o)'}
      BY DEF Stray
    <3> QED BY <1>2, <1>5, <3>1 DEF Stray
  <2>2. Blind(k)' = Blind(k)
    BY <1>2, <1>5 DEF Blind
  <2> QED BY <2>1, <2>2
<1>7. /\ \A k \in Upserts : store'[k] = store[k] /\ Other(k) \in Upserts /\ k \in Kinds
      /\ "hour" \in Upserts /\ "day" \in Upserts
  BY <1>1 DEF Upserts, Other, Kinds, CountInv, CountTypes
<1>8. \A k : /\ Cardinality(Stray(k))' = Cardinality(Stray(k))
             /\ Cardinality(Blind(k))' = Cardinality(Blind(k))
  BY <1>6
<1> SUFFICES ASSUME NoLoss' PROVE ((\A k \in Upserts : Unborn(k) /\ Firstborn(k)) /\ BothBorn)'
  BY DEF RaceInv
<1>9. (\A k \in Upserts : Unborn(k) /\ Firstborn(k)) /\ BothBorn
  BY <1>1 DEF RaceInv, NoLoss
<1>10. ASSUME NEW k \in Upserts, store'[k] = 0, NEW d \in Consumers, pc'[d] = "settling"
       PROVE  \E o \in ops' : o.c = d /\ o.at = pos'[d] /\ o.k = k
  <2>1. CASE d = c
    <3>1. new(k) \in ops'
      BY <1>2, <1>7
    <3> QED BY <1>1, <1>3, <2>1, <3>1
  <2>2. CASE d # c
    <3>1. pc[d] = "settling" /\ store[k] = 0
      BY <1>4, <1>7, <1>10, <2>2
    <3>2. PICK o \in ops : o.c = d /\ o.at = pos[d] /\ o.k = k
      BY <1>9, <3>1 DEF Unborn
    <3> QED BY <1>1, <1>2, <3>2
  <2> QED BY <2>1, <2>2
<1>11. ASSUME NEW k \in Upserts PROVE Unborn(k)'
  <2>1. Unborn(k) /\ store'[k] = store[k] /\ refused' = refused
    BY <1>1, <1>7, <1>9
  <2> QED BY <1>8, <1>10, <2>1 DEF Unborn
<1>12. ASSUME NEW k \in Upserts PROVE Firstborn(k)'
  <2>1. Firstborn(k) /\ store'[k] = store[k] /\ store'[Other(k)] = store[Other(k)]
    BY <1>7, <1>9
  <2> QED BY <1>1, <1>8, <2>1 DEF Firstborn, Size
<1>13. BothBorn'
  BY <1>1, <1>7, <1>8, <1>9 DEF BothBorn, Size
<1> QED BY <1>11, <1>12, <1>13

\* An upsert looks for its bucket; it goes blind only before the bucket is
\* there.
LEMMA FindRace ==
  ASSUME CountInv, RaceInv, NEW o \in ops, FindBucket(o)
  PROVE  RaceInv'
<1> DEFINE st == IF store[o.k] = 0 THEN "absent" ELSE "there"
           p == [o EXCEPT !.seen = st]
<1>1. /\ ops' = (ops \ {o}) \cup {p} /\ o.seen = "not yet"
      /\ UNCHANGED <<pos, pc, store, refused, lost, twice, failures>>
  BY DEF FindBucket, hist
<1>2. o \in Op
  BY DEF CountInv, Types
<1>3. /\ p.c = o.c /\ p.at = o.at /\ p.k = o.k
      /\ store[o.k] # 0 => p.seen = "there"
      /\ p.seen # "not yet"
  BY <1>2 DEF Op
<1> HIDE DEF p, st
<1>4. p \notin ops
  BY <1>1, <1>3 DEF CountInv, OpsInv
<1>5. \A q : Awaited(q)' = Awaited(q)
  BY <1>1 DEF Awaited
<1>6. Awaited(p) = Awaited(o)
  BY <1>3 DEF Awaited
<1>7. \A k : k # o.k \/ store[k] # 0 => Blind(k)' = Blind(k)
  BY <1>1, <1>3 DEF Blind
<1>8. \A k : Cardinality(Stray(k))' = Cardinality(Stray(k))
  <2> TAKE k
  <2>1. Stray(k)' = {q \in ops' : q.k = k /\ ~Awaited(q)}
    BY <1>5 DEF Stray
  <2>2. CASE o \notin Stray(k)
    <3>1. Stray(k)' = Stray(k)
      BY <1>1, <1>3, <1>6, <2>1, <2>2 DEF Stray
    <3> QED BY <3>1
  <2>3. CASE o \in Stray(k)
    <3>1. Stray(k)' = (Stray(k) \ {o}) \cup {p} /\ p \notin Stray(k) \ {o}
      BY <1>1, <1>3, <1>4, <1>6, <2>1, <2>3 DEF Stray
    <3>2. IsFiniteSet(Stray(k)) /\ Cardinality(Stray(k)) \in Nat
      BY RaceSets
    <3>3. /\ IsFiniteSet(Stray(k) \ {o})
          /\ Cardinality(Stray(k) \ {o}) = Cardinality(Stray(k)) - 1
      BY <2>3, <3>2, FS_RemoveElement
    <3>4. Cardinality((Stray(k) \ {o}) \cup {p}) = Cardinality(Stray(k) \ {o}) + 1
      BY <3>1, <3>3, FS_AddElement
    <3> QED BY <3>1, <3>2, <3>3, <3>4
  <2> QED BY <2>2, <2>3
<1> SUFFICES ASSUME NoLoss' PROVE ((\A k \in Upserts : Unborn(k) /\ Firstborn(k)) /\ BothBorn)'
  BY DEF RaceInv
<1>9. (\A k \in Upserts : Unborn(k) /\ Firstborn(k)) /\ BothBorn
  BY <1>1 DEF RaceInv, NoLoss
<1>10. ASSUME NEW k \in Upserts, store[k] = 0, NEW d \in Consumers, pc'[d] = "settling"
       PROVE  \E q \in ops' : q.c = d /\ q.at = pos'[d] /\ q.k = k
  <2>1. PICK q \in ops : q.c = d /\ q.at = pos[d] /\ q.k = k
    BY <1>1, <1>9, <1>10 DEF Unborn
  <2>2. CASE q = o
    BY <1>1, <1>3, <2>1, <2>2
  <2>3. CASE q # o
    BY <1>1, <2>1, <2>3
  <2> QED BY <2>2, <2>3
<1>11. ASSUME NEW k \in Upserts PROVE Unborn(k)'
  <2>1. Unborn(k)
    BY <1>9
  <2> QED BY <1>1, <1>8, <1>10, <2>1 DEF Unborn
<1>12. \A k : store[k] > 0 => Cardinality(Blind(k))' = Cardinality(Blind(k))
  <2> SUFFICES ASSUME NEW k, store[k] > 0
               PROVE  Cardinality(Blind(k))' = Cardinality(Blind(k))
    OBVIOUS
  <2>1. store[k] # 0
    OBVIOUS
  <2>2. Blind(k)' = Blind(k)
    BY <1>7, <2>1
  <2> QED BY <2>2
<1>13. ASSUME NEW k \in Upserts PROVE Firstborn(k)'
  <2>1. Firstborn(k)
    BY <1>9
  <2> QED BY <1>1, <1>12, <2>1 DEF Firstborn, Size
<1>14. BothBorn'
  <2> SUFFICES ASSUME store["hour"] > 0, store["day"] > 0
               PROVE  BothBorn'
    BY <1>1 DEF BothBorn
  <2>1. /\ Cardinality(Blind("hour"))' = Cardinality(Blind("hour"))
        /\ Cardinality(Blind("day"))' = Cardinality(Blind("day"))
    BY <1>12
  <2> QED BY <1>1, <1>9, <2>1 DEF BothBorn, Size
<1> QED BY <1>11, <1>13, <1>14

\* An update is made.  The first of its kind creates the bucket: the blind
\* ones that are left are as many as the updates but for this one.
LEMMA UpdateRace ==
  ASSUME CountInv, RaceInv, NEW o \in ops, Update(o)
  PROVE  RaceInv'
<1>1. /\ ops' = ops \ {o} /\ store' = [store EXCEPT ![o.k] = @ + 1]
      /\ o.k = "realtime" \/ o.seen # "absent" \/ ~(store[o.k] > 0)
      /\ UNCHANGED <<pos, pc, refused, lost, twice, failures>>
  BY DEF Update, Refused, hist
<1>2. /\ o.k \in Kinds /\ "hour" \in Upserts /\ "day" \in Upserts
      /\ \A k \in Upserts : store[k] \in Nat /\ refused[k] \in Nat /\ Other(k) \in Upserts
                            /\ Other(k) # k /\ Other(Other(k)) = k /\ k # "realtime"
      /\ \A k \in Upserts : k = "hour" \/ k = "day"
  BY DEF CountInv, Types, Op, CountTypes, Upserts, Kinds, Other
<1>3. /\ \A k \in Upserts : k # o.k => store'[k] = store[k]
      /\ o.k \in Upserts => store'[o.k] = store[o.k] + 1
  BY <1>1 DEF CountInv, CountTypes, Upserts, Kinds
<1>4. \A k : k # o.k => Stray(k)' = Stray(k) /\ Blind(k)' = Blind(k)
  BY <1>1 DEF Stray, Blind, Awaited
<1>5. \A k : k # o.k => /\ Cardinality(Stray(k))' = Cardinality(Stray(k))
                        /\ Cardinality(Blind(k))' = Cardinality(Blind(k))
  BY <1>4
<1> SUFFICES ASSUME NoLoss' PROVE ((\A k \in Upserts : Unborn(k) /\ Firstborn(k)) /\ BothBorn)'
  BY DEF RaceInv
<1>6. (\A k \in Upserts : Unborn(k) /\ Firstborn(k)) /\ BothBorn
  BY <1>1 DEF RaceInv, NoLoss
<1>7. ASSUME NEW k \in Upserts PROVE Unborn(k)'
  <2>1. CASE k = o.k
    <3>1. store'[k] # 0
      BY <1>2, <1>3, <2>1
    <3> QED BY <3>1 DEF Unborn
  <2>2. CASE k # o.k
    <3>1. Unborn(k) /\ store'[k] = store[k]
      BY <1>3, <1>6, <2>2
    <3>2. ASSUME NEW d \in Consumers,
                 \E q \in ops : q.c = d /\ q.at = pos[d] /\ q.k = k
          PROVE  \E q \in ops' : q.c = d /\ q.at = pos'[d] /\ q.k = k
      BY <1>1, <2>2, <3>2
    <3> QED BY <1>1, <1>5, <2>2, <3>1, <3>2 DEF Unborn
  <2> QED BY <2>1, <2>2
<1>8. CASE o.k \notin Upserts
  <2>1. /\ \A k \in Upserts : store'[k] = store[k] /\ store'[Other(k)] = store[Other(k)]
                              /\ Cardinality(Blind(k))' = Cardinality(Blind(k))
    BY <1>2, <1>3, <1>5, <1>8
  <2>2. ASSUME NEW k \in Upserts PROVE Firstborn(k)'
    <3>1. Firstborn(k)
      BY <1>6
    <3> QED BY <1>1, <2>1, <3>1 DEF Firstborn, Size
  <2>3. BothBorn'
    BY <1>1, <1>2, <1>6, <2>1 DEF BothBorn, Size
  <2> QED BY <1>7, <2>2, <2>3
<1>9. CASE o.k \in Upserts
  <2> DEFINE k == o.k
             j == Other(o.k)
             rk == refused[k]
             rj == refused[j]
             bk == Cardinality(Blind(k))'
             bj == Cardinality(Blind(j))
  <2>1. /\ j \in Upserts /\ k \in Upserts /\ j # k /\ Other(j) = k /\ Other(k) = j
        /\ rk \in Nat /\ rj \in Nat /\ store[k] \in Nat /\ store[j] \in Nat
        /\ store'[j] = store[j] /\ store'[k] > 0 /\ refused' = refused
        /\ Cardinality(Blind(j))' = bj
        /\ (k = "hour" /\ j = "day") \/ (k = "day" /\ j = "hour")
    BY <1>1, <1>2, <1>3, <1>5, <1>9
  <2>2. /\ Size \in Nat /\ Size >= 1 /\ bj \in Nat
        /\ Cardinality(Blind(k)) \in Nat /\ Cardinality(Stray(k)) \in Nat
        /\ IsFiniteSet(Of(k)) /\ Cardinality(Of(k)) \in Nat
    BY RaceSets
  <2>3. bk \in Nat /\ IsFiniteSet(Blind(k)')
    <3>1. Blind(k)' \subseteq ops
      BY <1>1 DEF Blind
    <3> QED BY <3>1, FS_Subset, FS_CardinalityType DEF CountInv, OpsInv
  <2>4. /\ Unborn(k) /\ Firstborn(k) /\ Unborn(j) /\ Firstborn(j) /\ BothBorn
    BY <1>6, <2>1
  <2>5. /\ store[j] = 0 => rk + bk <= Size - 1
        /\ store[j] > 0 => rk + bk + rj + bj <= 3 * (Size - 1)
    <3>1. CASE store[k] > 0
      <4>1. Blind(k)' = Blind(k)
        BY <1>1, <1>2, <2>1, <3>1 DEF Blind
      <4>2. bk = Cardinality(Blind(k))
        BY <4>1
      <4>3. store[j] = 0 => rk + bk <= Size - 1
        BY <2>1, <2>4, <3>1, <4>2 DEF Firstborn
      <4>4. store[j] > 0 => rk + bk + rj + bj <= 3 * (Size - 1)
        BY <2>1, <2>2, <2>3, <2>4, <3>1, <4>2 DEF BothBorn
      <4> QED BY <4>3, <4>4
    <3>2. CASE store[k] = 0
      <4>1. rk = 0 /\ Cardinality(Stray(k)) <= rj
        BY <2>1, <2>4, <3>2 DEF Unborn
      <4>2. Cardinality(Of(k)) <= Size + Cardinality(Stray(k))
        BY FewUpdates
      <4>3. bk <= Cardinality(Of(k)) - 1
        <5>1. Blind(k)' \subseteq Of(k) \ {o} /\ o \in Of(k)
          BY <1>1 DEF Blind, Of
        <5>2. /\ IsFiniteSet(Of(k) \ {o})
              /\ Cardinality(Of(k) \ {o}) = Cardinality(Of(k)) - 1
          BY <2>2, <5>1, FS_RemoveElement
        <5>3. bk <= Cardinality(Of(k) \ {o})
          BY <5>1, <5>2, FS_Subset
        <5> QED BY <5>2, <5>3
      <4>4. bk <= Size - 1 + rj
        BY <2>1, <2>2, <2>3, <4>1, <4>2, <4>3
      <4>5. store[j] = 0 => rj = 0
        BY <2>1, <2>4 DEF Unborn
      <4>6. store[j] > 0 => rj + bj <= Size - 1
        BY <2>1, <2>4, <3>2 DEF Firstborn
      <4>7. store[j] = 0 => rk + bk <= Size - 1
        BY <2>1, <2>2, <2>3, <4>1, <4>4, <4>5
      <4>8. store[j] > 0 => rk + bk + rj + bj <= 3 * (Size - 1)
        BY <2>1, <2>2, <2>3, <4>1, <4>4, <4>6
      <4> QED BY <4>7, <4>8
    <3> QED BY <2>1, <3>1, <3>2
  <2>6. Firstborn(k)'
    BY <2>1, <2>5 DEF Firstborn, Size
  <2>7. Firstborn(j)'
    BY <2>1 DEF Firstborn
  <2>8. BothBorn'
    <3>1. CASE k = "hour"
      BY <2>1, <2>2, <2>3, <2>5, <3>1 DEF BothBorn, Size
    <3>2. CASE k = "day"
      BY <2>1, <2>2, <2>3, <2>5, <3>2 DEF BothBorn, Size
    <3> QED BY <2>1, <3>1, <3>2
  <2>9. \A i \in Upserts : i = k \/ i = j
    BY <1>2, <2>1
  <2> QED BY <1>7, <2>6, <2>7, <2>8, <2>9
<1> QED BY <1>8, <1>9

\* An update is refused: a blind one less.  A handler that waited for it
\* leaves one update of the other kind to itself.
LEMMA RefusedRace ==
  ASSUME CountInv, RaceInv, NEW o \in ops, UpdateRefused(o)
  PROVE  RaceInv'
<1> DEFINE k == o.k
           j == Other(o.k)
<1>1. /\ ops' = ops \ {o} /\ store' = store /\ lost' = lost /\ failures' = failures
      /\ refused' = [refused EXCEPT ![k] = @ + 1]
      /\ k # "realtime" /\ o.seen = "absent" /\ store[k] > 0
      /\ IF Awaited(o) THEN Return(o.c) ELSE UNCHANGED <<pos, pc>>
  BY DEF UpdateRefused, Reject, GivenUp, Refused, Awaited
<1>2. o.c \in Consumers /\ k \in Kinds
  BY DEF CountInv, Types, Op
<1>3. /\ k \in Upserts /\ j \in Upserts /\ j # k /\ Other(j) = k
      /\ (k = "hour" /\ j = "day") \/ (k = "day" /\ j = "hour")
      /\ \A i \in Upserts : i = k \/ i = j
  BY <1>1, <1>2 DEF Upserts, Other, Kinds
<1>4. /\ refused[k] \in Nat /\ refused[j] \in Nat
      /\ refused'[k] = refused[k] + 1 /\ refused'[j] = refused[j]
  BY <1>1, <1>2, <1>3 DEF CountInv, CountTypes, Upserts, Kinds
<1>5. /\ \A d \in Consumers : d # o.c => pos'[d] = pos[d] /\ pc'[d] = pc[d]
      /\ pc' # pc => pc'[o.c] = "idle" /\ Awaited(o)
      /\ pc' = pc => pos' = pos \/ Awaited(o)
      /\ Awaited(o) => pc'[o.c] = "idle"
  BY <1>1, <1>2 DEF Return, CountInv, Types
<1>6. Blind(j)' = Blind(j) /\ Blind(k)' = Blind(k) \ {o} /\ o \in Blind(k)
  BY <1>1, <1>3 DEF Blind
<1>7. /\ Size \in Nat /\ Cardinality(Blind(j)) \in Nat
      /\ IsFiniteSet(Blind(k)) /\ Cardinality(Blind(k)) \in Nat
      /\ IsFiniteSet(Stray(j)) /\ Cardinality(Stray(j)) \in Nat
  BY RaceSets
<1>8. /\ Cardinality(Blind(j))' = Cardinality(Blind(j))
      /\ Cardinality(Blind(k))' = Cardinality(Blind(k)) - 1
  <2>1. Cardinality(Blind(k) \ {o}) = Cardinality(Blind(k)) - 1
    BY <1>6, <1>7, FS_RemoveElement
  <2> QED BY <1>6, <2>1
<1>9. Cardinality(Stray(j))' <= Cardinality(Stray(j)) + 1
  <2>1. CASE ~Awaited(o)
    <3>1. Stray(j)' = Stray(j)
      BY <1>1, <1>3, <2>1 DEF Stray, Awaited
    <3>2. Cardinality(Stray(j))' = Cardinality(Stray(j))
      BY <3>1
    <3> QED BY <1>7, <3>2
  <2>2. CASE Awaited(o)
    <3> DEFINE q == CHOOSE p \in ops : p.c = o.c /\ p.at = o.at /\ p.k = j
    <3>1. ASSUME NEW p \in Stray(j)' PROVE p \in Stray(j) \cup {q}
      <4>1. p \in ops /\ p.k = j
        BY <1>1, <3>1 DEF Stray
      <4>2. CASE Awaited(p) /\ p.c = o.c
        <5>1. p.at = o.at
          BY <2>2, <4>2 DEF Awaited
        <5>2. q \in ops /\ q.c = o.c /\ q.at = o.at /\ q.k = j
          BY <4>1, <4>2, <5>1
        <5>3. p = q
          <6> HIDE DEF q
          <6> QED BY <4>1, <4>2, <5>1, <5>2 DEF CountInv, OpsInv
        <5> QED BY <5>3
      <4>3. CASE p.c # o.c
        <5>1. p.c \in Consumers
          BY <4>1 DEF CountInv, Types, Op
        <5>2. Awaited(p)' = Awaited(p)
          BY <1>5, <4>3, <5>1 DEF Awaited
        <5> QED BY <3>1, <4>1, <5>2 DEF Stray
      <4>4. CASE ~Awaited(p)
        BY <4>1, <4>4 DEF Stray
      <4> QED BY <4>2, <4>3, <4>4
    <3> HIDE DEF q
    <3>2. /\ IsFiniteSet(Stray(j) \cup {q})
          /\ Cardinality(Stray(j) \cup {q}) <= Cardinality(Stray(j)) + 1
      <4> DEFINE G == Stray(j)
      <4>1. IsFiniteSet(G) /\ Cardinality(G) \in Nat
        BY <1>7
      <4> HIDE DEF G
      <4>2. /\ IsFiniteSet(G \cup {q})
            /\ Cardinality(G \cup {q}) \in {Cardinality(G), Cardinality(G) + 1}
        BY <4>1, FS_AddElement
      <4>3. Cardinality(G \cup {q}) <= Cardinality(G) + 1
        BY <4>1, <4>2
      <4> QED BY <4>2, <4>3 DEF G
    <3>3. Stray(j)' \subseteq Stray(j) \cup {q}
      BY <3>1
    <3>4. /\ IsFiniteSet(Stray(j)')
          /\ Cardinality(Stray(j)') <= Cardinality(Stray(j) \cup {q})
      BY <3>2, <3>3, FS_Subset
    <3>5. Cardinality(Stray(j)') \in Nat /\ Cardinality(Stray(j) \cup {q}) \in Nat
      BY <3>2, <3>4, FS_CardinalityType
    <3> QED BY <1>7, <3>2, <3>4, <3>5
  <2> QED BY <2>1, <2>2
<1> SUFFICES ASSUME NoLoss' PROVE ((\A i \in Upserts : Unborn(i) /\ Firstborn(i)) /\ BothBorn)'
  BY DEF RaceInv
<1>10. Unborn(j) /\ Firstborn(k) /\ Firstborn(j) /\ BothBorn
  BY <1>1, <1>3 DEF RaceInv, NoLoss
<1>11. Unborn(k)' /\ Firstborn(j)'
  BY <1>1, <1>3 DEF Unborn, Firstborn
<1>12. Firstborn(k)'
  BY <1>1, <1>3, <1>4, <1>7, <1>8, <1>10 DEF Firstborn, Size
<1>13. BothBorn'
  <2>1. CASE k = "hour"
    BY <1>1, <1>3, <1>4, <1>7, <1>8, <1>10, <2>1 DEF BothBorn, Size
  <2>2. CASE k = "day"
    BY <1>1, <1>3, <1>4, <1>7, <1>8, <1>10, <2>2 DEF BothBorn, Size
  <2> QED BY <1>3, <2>1, <2>2
<1>14. Unborn(j)'
  <2> SUFFICES ASSUME store[j] = 0 PROVE Unborn(j)'
    BY <1>1 DEF Unborn
  <2>1. /\ refused[j] = 0 /\ Cardinality(Stray(j)) <= refused[k]
        /\ \A d \in Consumers :
             pc[d] = "settling" => \E q \in ops : q.c = d /\ q.at = pos[d] /\ q.k = j
    BY <1>3, <1>10 DEF Unborn
  <2>2. Cardinality(Stray(j))' <= refused'[k]
    <3>1. Cardinality(Stray(j))' \in Nat
      <4>1. Stray(j)' \subseteq ops
        BY <1>1 DEF Stray
      <4> QED BY <4>1, FS_Subset, FS_CardinalityType DEF CountInv, OpsInv
    <3> QED BY <1>4, <1>7, <1>9, <2>1, <3>1
  <2>3. ASSUME NEW d \in Consumers, pc'[d] = "settling"
        PROVE  \E q \in ops' : q.c = d /\ q.at = pos'[d] /\ q.k = j
    <3>1. pc[d] = "settling" /\ pos'[d] = pos[d]
      <4>1. CASE Awaited(o)
        BY <1>5, <2>3, <4>1
      <4>2. CASE ~Awaited(o)
        BY <1>1, <2>3, <4>2
      <4> QED BY <4>1, <4>2
    <3>2. PICK q \in ops : q.c = d /\ q.at = pos[d] /\ q.k = j
      BY <2>1, <3>1
    <3>3. q \in ops'
      BY <1>1, <1>3, <3>2
    <3> QED BY <3>1, <3>2, <3>3
  <2> QED BY <1>3, <1>4, <2>1, <2>2, <2>3 DEF Unborn
<1> QED BY <1>3, <1>11, <1>12, <1>13, <1>14

\* A crash either cuts off updates, which counts as a loss, or meets a
\* consumer that has none.
LEMMA CrashRace ==
  ASSUME CountInv, CountInv', RaceInv, NEW c \in Consumers, Crash(c)
  PROVE  RaceInv'
<1> SUFFICES ASSUME NoLoss' PROVE RaceInv'
  BY DEF RaceInv
<1>1. /\ ops' = {o \in ops : o.c # c} /\ store' = store /\ refused' = refused
      /\ failures' = failures
      /\ lost' = [k \in Kinds |->
                        lost[k] + Cardinality({o \in ops : o.c = c /\ o.k = k})]
      /\ pos' = [pos EXCEPT ![c] = offset[c]] /\ pc' = [pc EXCEPT ![c] = "idle"]
  BY DEF Crash
<1>2. ASSUME NEW k \in Kinds
      PROVE  lost[k] = 0 /\ {o \in ops : o.c = c /\ o.k = k} = {}
  <2> DEFINE A == {o \in ops : o.c = c /\ o.k = k}
  <2>1. A \subseteq ops /\ IsFiniteSet(ops)
    BY DEF CountInv, OpsInv
  <2>2. lost[k] + Cardinality(A) = 0
    BY <1>1 DEF NoLoss
  <2> HIDE DEF A
  <2>3. IsFiniteSet(A) /\ Cardinality(A) \in Nat /\ lost[k] \in Nat
    BY <2>1, FS_Subset, FS_CardinalityType DEF CountInv, CountTypes
  <2>4. lost[k] = 0 /\ Cardinality(A) = 0
    BY <2>2, <2>3
  <2>5. A = {}
    BY <2>3, <2>4, FS_EmptySet
  <2> QED BY <2>4, <2>5 DEF A
<1>3. \A o \in ops : o.c \in Consumers /\ o.k \in Kinds /\ o.c # c
  BY <1>2 DEF CountInv, Types, Op
<1>4. ops' = ops
  BY <1>1, <1>3
<1>5. lost' = lost
  <2>1. lost \in [Kinds -> Nat] /\ lost' \in [Kinds -> Nat]
    BY DEF CountInv, CountTypes
  <2>2. \A k \in Kinds : lost'[k] = lost[k]
    BY <1>2 DEF NoLoss
  <2> QED BY <2>1, <2>2
<1>6. \A o \in ops : Awaited(o)' = Awaited(o)
  BY <1>1, <1>3 DEF Awaited, CountInv, Types
<1>7. \A d \in Consumers : pc'[d] = "settling" => pc[d] = "settling" /\ pos'[d] = pos[d]
  BY <1>1 DEF CountInv, Types
<1> QED BY <1>1, <1>4, <1>5, <1>6, <1>7, QuietRace

\* Every other step is quiet: a handler that goes on or returns was not
\* waiting, or all it waited for has ended.
LEMMA HandlerRace ==
  ASSUME CountInv, RaceInv, NEW c \in Consumers,
         \/ pc[c] # "settling"
         \/ \A o \in ops : o.c # c \/ o.at # pos[c],
         pc'[c] # "settling",
         \A d \in Consumers : d # c => pc'[d] = pc[d] /\ pos'[d] = pos[d],
         \A k \in Upserts : store'[k] = store[k],
         UNCHANGED <<ops, refused, lost, twice, failures>>
  PROVE  RaceInv'
<1>1. ASSUME NEW o \in ops PROVE Awaited(o)' = Awaited(o)
  <2>1. o.c \in Consumers
    BY DEF CountInv, Types, Op
  <2>2. CASE o.c = c
    BY <2>2 DEF Awaited
  <2>3. CASE o.c # c
    BY <2>1, <2>3 DEF Awaited
  <2> QED BY <2>2, <2>3
<1>2. \A d \in Consumers : pc'[d] = "settling" => pc[d] = "settling" /\ pos'[d] = pos[d]
  OBVIOUS
<1> QED BY <1>1, <1>2, QuietRace

\* No message has a kind of that name.
LEMMA KindIsHandled ==
  ASSUME Types, LogInv', NEW c \in Consumers, service' = service, pos' = pos,
         pc' = [pc EXCEPT ![c] = Msg(c).kind]
  PROVE  pc'[c] # "settling"
<1> SUFFICES ASSUME pc'[c] = "settling" PROVE FALSE
  OBVIOUS
<1>1. Msg(c).kind = "settling"
  BY DEF Types
<1>2. Msg(c)' = Msg(c)
  BY DEF Msg, Messages
<1>3. (pc[c] # "idle" => Msg(c).kind \in Handled[service])'
  BY DEF LogInv, Worker
<1>4. "settling" \in Handled[service]
  BY <1>1, <1>2, <1>3
<1> QED BY <1>4 DEF Handled, Types, Services

\* Without failures and crashes, counts are lost only where a bucket is
\* created, and no more than three for each consumer but the first.
THEOREM RaceTheorem == Spec => []LossAtBirthOnly
<1>1. Init => RaceInv
  <2> SUFFICES ASSUME Init PROVE RaceInv
    OBVIOUS
  <2>1. /\ ops = {} /\ \A c \in Consumers : pc[c] = "idle"
        /\ \A k \in Upserts : store[k] = 0 /\ refused[k] = 0 /\ Other(k) \in Upserts
        /\ "hour" \in Upserts
    BY DEF Init, Kinds, Upserts, Other
  <2>2. \A k : Cardinality(Stray(k)) = 0
    <3>1. \A k : Stray(k) = {}
      BY <2>1 DEF Stray
    <3> QED BY <3>1, FS_EmptySet
  <2>3. \A k \in Upserts : Unborn(k) /\ Firstborn(k)
    BY <2>1, <2>2 DEF Unborn, Firstborn
  <2>4. BothBorn
    BY <2>1 DEF BothBorn
  <2> QED BY <2>3, <2>4 DEF RaceInv
<1>2. ASSUME CountInv, CountInv', LogInv', RaceInv, [Next]_vars PROVE RaceInv'
  <2>1. Types /\ CountTypes
    BY <1>2 DEF CountInv
  <2>2. CASE UNCHANGED vars
    BY <1>2, <2>2, QuietRace DEF vars, hist, Awaited
  <2>3. ASSUME NEW c \in Consumers, CommitOffset(c) PROVE RaceInv'
    BY <1>2, <2>3, QuietRace DEF CommitOffset, hist, Awaited
  <2>4. ASSUME NEW c \in Consumers, Return(c), UNCHANGED <<ops, refused, lost, twice, failures>>,
               \/ pc[c] # "settling"
               \/ \A o \in ops : o.c # c \/ o.at # pos[c],
               \A k \in Upserts : store'[k] = store[k]
        PROVE  RaceInv'
    <3>1. /\ pc'[c] = "idle"
          /\ \A d \in Consumers : d # c => pc'[d] = pc[d] /\ pos'[d] = pos[d]
      BY <2>1, <2>4 DEF Return, Types
    <3> QED BY <1>2, <2>4, <3>1, HandlerRace
  <2>5. ASSUME NEW c \in Consumers, pos' = pos, pc[c] # "settling", pc'[c] # "settling",
               pc' = pc \/ \E x : pc' = [pc EXCEPT ![c] = x],
               UNCHANGED <<ops, store, refused, lost, twice, failures>>
        PROVE  RaceInv'
    <3>1. \A d \in Consumers : d # c => pc'[d] = pc[d] /\ pos'[d] = pos[d]
      BY <2>1, <2>5 DEF Types
    <3> QED BY <1>2, <2>5, <3>1, HandlerRace
  <2>6. ASSUME NEW c \in Consumers, Take(c) PROVE RaceInv'
    <3>1. UNCHANGED <<ops, store, refused, lost, twice, failures>> /\ pc[c] = "idle"
      BY <2>6 DEF Take, hist
    <3>2. CASE Return(c)
      BY <2>4, <3>1, <3>2
    <3>3. CASE ~Return(c)
      <4>1. /\ pos' = pos /\ pc' = [pc EXCEPT ![c] = Msg(c).kind]
            /\ service' = service
        BY <2>6, <3>3 DEF Take, kafka
      <4>2. pc'[c] # "settling"
        BY <1>2, <2>1, <4>1, KindIsHandled
      <4> QED BY <2>5, <3>1, <4>1, <4>2
    <3> QED BY <3>2, <3>3
  <2>7. ASSUME NEW c \in Consumers, Analytics(c) PROVE RaceInv'
    <3>1. CASE InsertApiEvent(c)
      BY <1>2, <3>1, InsertRace
    <3>2. CASE HandleQuotaEvent(c)
      <4>1. \A k \in Upserts : store'[k] = store[k]
        BY <2>1, <3>2 DEF HandleQuotaEvent, Upserts, CountTypes, Kinds
      <4>2. pc[c] # "settling" /\ Return(c) /\ UNCHANGED <<ops, refused, lost, twice, failures>>
        BY <3>2 DEF HandleQuotaEvent, hist
      <4> QED BY <2>4, <4>1, <4>2
    <3>3. CASE InsertFails(c) \/ Settled(c)
      BY <2>4, <3>3 DEF InsertFails, Settled, hist
    <3>4. CASE InsertUnanswered(c) /\ lost' = lost
      <4>1. /\ Return(c) /\ UNCHANGED <<ops, refused, lost, twice, failures>>
            /\ pc[c] # "settling"
        BY <3>4 DEF InsertUnanswered
      <4>2. \A k \in Upserts : store'[k] = store[k]
        BY <2>1, <3>4 DEF InsertUnanswered, Upserts, CountTypes, Kinds
      <4> QED BY <2>4, <4>1, <4>2
    <3>5. CASE InsertUnanswered(c) /\ lost' # lost
      <4>1. lost' = [k \in Kinds |-> lost[k] + 1]
        BY <3>5 DEF InsertUnanswered
      <4>2. "hour" \in Kinds /\ lost["hour"] \in Nat
        BY <2>1 DEF CountTypes, Kinds
      <4>3. lost'["hour"] # 0
        BY <4>1, <4>2
      <4> QED BY <4>2, <4>3 DEF RaceInv, NoLoss
    <3> QED BY <2>7, <3>1, <3>2, <3>3, <3>4, <3>5 DEF Analytics
  <2>8. ASSUME NEW c \in Consumers, Notification(c) PROVE RaceInv'
    <3>1. UNCHANGED <<ops, store, refused, lost, twice, failures>>
      BY <2>8 DEF Notification, LogPending, Dispatched, LogResult, LogFails, SendEmail,
                  SendWebhook, WebhookGivesUp, SaveInApp, hist
    <3>2. pc[c] # "settling"
      BY <2>8 DEF Notification, LogPending, Dispatched, Dispatching, LogResult, LogFails,
                  SendEmail, SendWebhook, WebhookGivesUp, AtWebhook, SaveInApp
    <3>3. CASE Dispatched(c) \/ LogFails(c)
      BY <2>4, <3>1, <3>2, <3>3 DEF Dispatched, LogFails
    <3>4. CASE \/ LogPending(c) \/ SendEmail(c) \/ SendWebhook(c)
               \/ WebhookGivesUp(c) \/ SaveInApp(c)
      <4>1. pos' = pos
        BY <3>4 DEF LogPending, SendEmail, SendWebhook, WebhookGivesUp, SaveInApp
      <4>2. pc' = pc \/ \E x \in {"logged", "sent"} : pc' = [pc EXCEPT ![c] = x]
        BY <3>4 DEF LogPending, SendEmail, SendWebhook, WebhookGivesUp, SaveInApp, Conclude
      <4>3. pc'[c] # "settling"
        BY <2>1, <3>2, <4>2 DEF Types
      <4> QED BY <2>5, <3>1, <3>2, <4>1, <4>2, <4>3
    <3>5. CASE LogResult(c)
      <4>1. pos' = pos /\ pc' = [pc EXCEPT ![c] = Msg(c).kind] /\ service' = service
        BY <3>5 DEF LogResult, kafka
      <4>2. pc'[c] # "settling"
        BY <1>2, <2>1, <4>1, KindIsHandled
      <4> QED BY <2>5, <3>1, <3>2, <4>1, <4>2
    <3> QED BY <2>8, <3>3, <3>4, <3>5 DEF Notification
  <2>9. ASSUME NEW o \in ops, UpdateFails(o) \/ UpdateUnanswered(o) \/ CountTwice(o)
        PROVE  RaceInv'
    <3>1. failures' = failures + 1 /\ failures \in Nat
      BY <2>1, <2>9 DEF UpdateFails, UpdateUnanswered, CountTwice, Failing, CountTypes
    <3>2. failures' # 0
      BY <3>1
    <3> QED BY <3>2 DEF RaceInv, NoLoss
  <2>10. ASSUME Operation PROVE RaceInv'
    <3>1. PICK o \in ops : \/ FindBucket(o) \/ Update(o) \/ UpdateRefused(o)
                           \/ UpdateFails(o) \/ UpdateUnanswered(o) \/ CountTwice(o)
      BY <2>10 DEF Operation
    <3> QED BY <1>2, <2>9, <3>1, FindRace, UpdateRace, RefusedRace
  <2> QED BY <1>2, <2>2, <2>3, <2>6, <2>7, <2>8, <2>10, CrashRace DEF Next
<1>3. ASSUME CountInv, RaceInv PROVE LossAtBirthOnly
  <2> SUFFICES ASSUME NoLoss PROVE refused["hour"] + refused["day"] <= Races
    BY DEF LossAtBirthOnly, NoLoss
  <2>1. /\ Size \in Nat /\ Size >= 1 /\ Races = 3 * (Size - 1)
        /\ Cardinality(Blind("hour")) \in Nat /\ Cardinality(Blind("day")) \in Nat
    BY <1>3, RaceSets DEF Races, Size
  <2>2. /\ refused["hour"] \in Nat /\ refused["day"] \in Nat
        /\ store["hour"] \in Nat /\ store["day"] \in Nat
    BY <1>3 DEF CountInv, CountTypes, Kinds
  <2>3. BothBorn /\ \A k \in {"hour", "day"} : Unborn(k) /\ Firstborn(k)
    BY <1>3 DEF RaceInv, Upserts
  <2>4. CASE store["hour"] > 0 /\ store["day"] > 0
    BY <2>1, <2>2, <2>3, <2>4 DEF BothBorn
  <2>5. CASE store["hour"] = 0 /\ store["day"] = 0
    BY <2>1, <2>2, <2>3, <2>5 DEF Unborn
  <2>6. CASE store["hour"] > 0 /\ store["day"] = 0
    <3>1. refused["day"] = 0 /\ refused["hour"] + Cardinality(Blind("hour")) <= Size - 1
      BY <2>3, <2>6 DEF Unborn, Firstborn, Other
    <3> QED BY <2>1, <2>2, <3>1
  <2>7. CASE store["hour"] = 0 /\ store["day"] > 0
    <3>1. refused["hour"] = 0 /\ refused["day"] + Cardinality(Blind("day")) <= Size - 1
      BY <2>3, <2>7 DEF Unborn, Firstborn, Other
    <3> QED BY <2>1, <2>2, <3>1
  <2> QED BY <2>2, <2>4, <2>5, <2>6, <2>7
<1> QED BY <1>1, <1>2, <1>3, CountInductive, LogInductive, PTL DEF Spec

=============================================================================
