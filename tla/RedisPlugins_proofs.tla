------------------------- MODULE RedisPlugins_proofs -------------------------
(***************************************************************************)
(* Proofs about the two plugins of the gateway that keep their state in    *)
(* Redis: the rate limit, for any number of requests, gateways and clocks  *)
(* and any policy, and the circuit breaker, for any number of requests and *)
(* any configuration the plugin accepts.                                   *)
(***************************************************************************)
EXTENDS CircuitBreaker, RateLimit, FiniteSetTheorems, TLAPS

----------------------------------------------------------------------------
(* RATE LIMIT                                                              *)

\* Gateway g may read s for a script that runs at t.
ReadBy(g, s, t) == t + Offset[g] - Delay <= s /\ s <= t + Offset[g]
Read(s, t) == \E g \in Gateways : ReadBy(g, s, t)

Request == [pc : {"idle", "plan", "sent"}, id : Nat, g : Gateways \cup {None},
            period : Periods \cup {None}, limit : Limits, stamp : Nat]
Grant == [id : Nat, stamp : Nat, at : Nat, exp : Nat]
Promise == [period : Periods, limit : Nat, window : Int, at : Int]
CachedPlan == [limits : Plans, at : Nat]

Member == [id : Nat, score : Nat]
Bucket == [tokens : Int, last : Nat, exp : Nat]

LimitTypes ==
  /\ cfg \in Configs /\ now \in Times /\ taken \in Nat
  /\ zset \in [Periods -> SUBSET Member] /\ zexp \in [Periods -> Nat]
  /\ count \in [Periods -> [Windows -> Nat]] /\ cexp \in [Periods -> [Windows -> Nat]]
  /\ bucket \in Bucket \cup {None}
  /\ planCache \in [Gateways -> CachedPlan \cup {None}]
  /\ req \in [Slots -> Request]
  /\ grants \in [Periods -> SUBSET Grant]
  /\ promise \in Promise \cup {None}

\* Limits a request may be checked against.
Fits(limit) ==
  /\ \A p \in Periods : limit[p] <= LargestLimit(p)
  /\ ~cfg.plan => limit = cfg.limits

\* What a request under way has read and decided.
Served(r) ==
  LET q == req[r] IN
  /\ q.pc # "idle" => q.g \in Gateways /\ q.id <= taken
  /\ q.pc = "plan" => cfg.plan
  /\ q.pc = "sent" =>
       /\ q.period \in Periods
       /\ ReadBy(q.g, q.stamp, now) /\ q.stamp \in Stamps
       /\ Fits(q.limit)
       /\ IF cfg.strategy = "token_bucket" THEN q.period = "rpm"
          ELSE q.limit[q.period] > 0

\* The order in which the periods are checked.
Before(p, q) == <<p, q>> \in {<<"rpm", "rph">>, <<"rpm", "rpd">>, <<"rph", "rpd">>}

\* An id belongs to one request, which a period lets pass once, after the
\* periods before it.
OneEach == \A r, s \in Slots :
  req[r].pc # "idle" /\ req[s].pc # "idle" /\ req[r].id = req[s].id => r = s
Onward(r) == \A p \in Periods : \A e \in grants[p] :
  req[r].pc # "idle" /\ req[r].id = e.id => req[r].pc = "sent" /\ Before(p, req[r].period)
GrantedOnce == \A p \in Periods :
  /\ \A e, f \in grants[p] : e.id = f.id => e = f
  /\ \A e \in grants[p] : e.id <= taken
Ids == OneEach /\ GrantedOnce /\ \A r \in Slots : Onward(r)

\* What was let pass was let pass in the past, by a clock that may be read so.
Past == \A p \in Periods : /\ IsFiniteSet(grants[p])
                           /\ \A e \in grants[p] : e.at <= now /\ Read(e.stamp, e.at)

LimitInv == LimitTypes /\ (\A r \in Slots : Served(r)) /\ Ids /\ Past


\* The quotient times the divisor is at most the dividend, by less than the divisor.
LEMMA DivDef == ASSUME NEW a \in Int, NEW b \in Nat \ {0}
  PROVE  /\ a \div b \in Int /\ (a \div b) * b <= a /\ a < (a \div b) * b + b
  OBVIOUS

\* CeilDiv rounds up: Math.ceil of a quotient.
LEMMA CeilDivDef == ASSUME NEW a \in Int, NEW b \in Nat \ {0}
  PROVE  /\ CeilDiv(a, b) \in Int /\ CeilDiv(a, b) * b >= a
         /\ a >= 0 => CeilDiv(a, b) >= 0
  BY DEF CeilDiv

\* Multiplication by a natural number is monotone.
LEMMA MulLeq == ASSUME NEW a \in Int, NEW b \in Int, NEW c \in Nat, a <= b PROVE a * c <= b * c
  OBVIOUS

\* Two stamps in one window differ by less than its length.
LEMMA SameWindow == ASSUME NEW s \in Nat, NEW t \in Nat, NEW b \in Nat \ {0},
   s \div b = t \div b PROVE s - t <= b - 1
  OBVIOUS

\* A stamp in an earlier window is the smaller one; with a window between
\* them, by more than the length.
LEMMA EarlierWindow == ASSUME NEW s \in Nat, NEW t \in Nat, NEW b \in Nat \ {0}
   PROVE /\ s \div b < t \div b => s < t
         /\ s \div b + 1 < t \div b => s + b < t
  OBVIOUS

\* One more element.
LEMMA AddOne ==
  ASSUME NEW S, IsFiniteSet(S), NEW x
  PROVE  /\ IsFiniteSet(S \cup {x}) /\ Cardinality(S) \in Nat
         /\ Cardinality(S \cup {x}) \in Nat /\ Cardinality(S \cup {x}) <= Cardinality(S) + 1
         /\ x \notin S => Cardinality(S \cup {x}) = Cardinality(S) + 1
<1>1. IsFiniteSet(S \cup {x}) /\ Cardinality(S) \in Nat
      BY FS_AddElement, FS_CardinalityType
<1>2. CASE x \in S
  <2>1. S \cup {x} = S
        BY <1>2
  <2> QED BY <1>1, <1>2, <2>1
<1> QED BY <1>1, <1>2, FS_AddElement

\* The maximum of a set that has one.
LEMMA MaxDef ==
  ASSUME NEW S, \E x \in S : \A y \in S : x >= y
  PROVE  Max(S) \in S /\ \A y \in S : Max(S) >= y
  BY DEF Max

\* LargestLimit bounds the limit that the policy and the plan give a period.
LEMMA LargestLimitDef == ASSUME cfg \in Configs, NEW p \in Periods
  PROVE  /\ LargestLimit(p) \in Nat /\ cfg.limits[p] <= LargestLimit(p)
         /\ \A plan \in Plans : cfg.plan => WithPlan(plan)[p] <= LargestLimit(p)
         /\ ~cfg.plan => LargestLimit(p) = cfg.limits[p]
<1> USE PolicyAssumption, PlanAssumption DEF Limits
<1>1. cfg.limits \in [Periods -> Nat] /\ \A q \in Plans : q \in [Periods -> Nat]
  OBVIOUS
<1> DEFINE values == {q[p] : q \in Plans}
           top == Max(values)
<1>2. top \in Nat /\ \A q \in Plans : q[p] <= top
  <2>1. PICK q \in Plans : \A z \in Plans : z[p] <= q[p] OBVIOUS
  <2>2. \E x \in values : \A y \in values : x >= y
    <3> WITNESS q[p] \in values
    <3> QED BY <2>1, <1>1
  <2>3. top \in values /\ \A y \in values : top >= y
     BY <2>2, MaxDef
  <2> QED BY <2>3, <1>1
<1> QED BY <1>1, <1>2 DEF LargestLimit, WithPlan

\* Following yields a later period that has a limit.
LEMMA FollowingDef ==
  ASSUME NEW limit \in Limits, NEW p \in Periods, Following(p, limit) # None
  PROVE  /\ Following(p, limit) \in Periods /\ Before(p, Following(p, limit))
         /\ limit[Following(p, limit)] > 0
  BY DEF Following, Periods, Before, Limits

\* So does First, for the first period.
LEMMA FirstDef ==
  ASSUME NEW limit \in Limits, First(limit) # None
  PROVE  /\ First(limit) \in Periods
         /\ IF cfg.strategy = "token_bucket" THEN First(limit) = "rpm"
            ELSE limit[First(limit)] > 0
<1> DEFINE f == Following(None, limit)
<1>1. f # None => f \in Periods /\ limit[f] > 0
      BY DEF Following, Periods, Limits
<1> QED BY <1>1 DEF First, Periods

\* A gateway reads its clock.
LEMMA ClockRead ==
  ASSUME LimitTypes, NEW g \in Gateways
  PROVE  ReadBy(g, Clock(g), now) /\ Clock(g) \in Stamps /\ Clock(g) \in Nat
  BY ClockAssumption DEF LimitTypes, Clock, ReadBy, Stamps, Times

\* A request that a step leaves alone keeps what it has read and decided.
LEMMA ServedUnchanged ==
  ASSUME LimitTypes, NEW r \in Slots, Served(r), req'[r] = req[r], cfg' = cfg, now' = now,
         taken' \in Nat, taken <= taken'
  PROVE  Served(r)'
<1>1. \A p \in Periods : LargestLimit(p)' = LargestLimit(p)
      BY DEF LargestLimit
<1>2. Fits(req[r].limit) => Fits(req[r].limit)'
      BY <1>1 DEF Fits
<1>3. \A g \in Gateways : ReadBy(g, req[r].stamp, now) => ReadBy(g, req[r].stamp, now)'
      BY DEF ReadBy
<1>4. req[r].id <= taken => req[r].id <= taken'
      BY DEF LimitTypes, Request
<1> QED BY <1>2, <1>3, <1>4 DEF Served

\* Sending a script for a period with a limit that fits.
LEMMA Sends ==
  ASSUME LimitTypes, NEW r \in Slots, \A s \in Slots : Served(s),
         NEW id \in Nat, NEW g \in Gateways, NEW p \in Periods, NEW limit \in Limits,
         cfg' = cfg, now' = now, taken' \in Nat, taken <= taken', id <= taken',
         Fits(limit), IF cfg.strategy = "token_bucket" THEN p = "rpm" ELSE limit[p] > 0,
         Send(r, id, g, p, limit)
  PROVE  /\ req' \in [Slots -> Request]
         /\ \A s \in Slots : Served(s)'
         /\ req'[r].pc = "sent" /\ req'[r].id = id /\ req'[r].period = p
         /\ \A s \in Slots \ {r} : req'[s] = req[s]
<1>1. ReadBy(g, Clock(g), now) /\ Clock(g) \in Stamps /\ Clock(g) \in Nat
      BY ClockRead
<1>2. /\ req'[r] = [pc |-> "sent", id |-> id, g |-> g, period |-> p,
                    limit |-> limit, stamp |-> Clock(g)]
      /\ \A s \in Slots \ {r} : req'[s] = req[s]
      /\ req' \in [Slots -> Request]
      BY <1>1 DEF Send, LimitTypes, Request
<1>3. \A q \in Periods : LargestLimit(q)' = LargestLimit(q)
      BY DEF LargestLimit
<1>4. Fits(limit)'
      BY <1>3 DEF Fits
<1>5. Served(r)'
      BY <1>1, <1>2, <1>4 DEF Served, ReadBy
<1> QED BY <1>2, <1>5, ServedUnchanged

\* A request that has its answer.
LEMMA Stops ==
  ASSUME LimitTypes, NEW r \in Slots, \A s \in Slots : Served(s),
         cfg' = cfg, now' = now, taken' \in Nat, taken <= taken',
         req' = [req EXCEPT ![r] = Idle]
  PROVE  /\ req' \in [Slots -> Request]
         /\ \A s \in Slots : Served(s)'
         /\ req'[r].pc = "idle"
         /\ \A s \in Slots \ {r} : req'[s] = req[s]
<1>1. Idle \in Request /\ Idle.pc = "idle"
      BY DEF Idle, Request, Unlimited, Limits
<1>2. req' \in [Slots -> Request] /\ req'[r] = Idle /\ \A s \in Slots \ {r} : req'[s] = req[s]
      BY <1>1 DEF LimitTypes
<1>3. Served(r)'
      BY <1>1, <1>2 DEF Served
<1> QED BY <1>1, <1>2, <1>3, ServedUnchanged

\* A request whose limits are known.
LEMMA Begins ==
  ASSUME LimitTypes, NEW r \in Slots, \A s \in Slots : Served(s),
         NEW id \in Nat, NEW g \in Gateways, NEW limit \in Limits,
         cfg' = cfg, now' = now, taken' \in Nat, taken <= taken', id <= taken',
         Fits(limit), Begin(r, id, g, limit)
  PROVE  /\ req' \in [Slots -> Request]
         /\ \A s \in Slots : Served(s)'
         /\ req'[r].pc = "idle" \/ (req'[r].pc = "sent" /\ req'[r].id = id)
         /\ \A s \in Slots \ {r} : req'[s] = req[s]
<1>1. CASE First(limit) = None
  <2>1. req' = [req EXCEPT ![r] = Idle]
        BY <1>1 DEF Begin
  <2>2. /\ req' \in [Slots -> Request]
        /\ \A s \in Slots : Served(s)'
        /\ req'[r].pc = "idle"
        /\ \A s \in Slots \ {r} : req'[s] = req[s]
        BY <2>1, Stops
  <2> QED BY <2>2
<1>2. CASE First(limit) # None
  <2>1. First(limit) \in Periods
        /\ IF cfg.strategy = "token_bucket" THEN First(limit) = "rpm"
           ELSE limit[First(limit)] > 0
        BY <1>2, FirstDef
  <2> QED BY <1>2, <2>1, Sends DEF Begin
<1> QED BY <1>1, <1>2

\* Limits of a plan, or of the policy alone, fit.
LEMMA PlanFits ==
  ASSUME LimitTypes
  PROVE  /\ cfg.limits \in Limits /\ Fits(cfg.limits)
         /\ \A limits \in Plans : cfg.plan =>
              WithPlan(limits) \in Limits /\ Fits(WithPlan(limits))
<1>1. cfg \in Configs /\ cfg.limits \in Limits /\ Plans \subseteq Limits
      BY PolicyAssumption, PlanAssumption DEF LimitTypes
<1>2. Fits(cfg.limits)
      BY <1>1, LargestLimitDef DEF Fits
<1>3. ASSUME NEW limits \in Plans, cfg.plan
      PROVE  WithPlan(limits) \in Limits /\ Fits(WithPlan(limits))
  <2>1. \A p \in Periods : WithPlan(limits)[p] <= LargestLimit(p)
    <3> TAKE p \in Periods
    <3>1. \A plan \in Plans : cfg.plan => WithPlan(plan)[p] <= LargestLimit(p)
          BY <1>1, LargestLimitDef
    <3> QED BY <1>3, <3>1
  <2>2. WithPlan(limits) \in Limits
        BY <1>1 DEF WithPlan, Limits
  <2> QED BY <1>3, <2>1, <2>2 DEF Fits
<1> QED BY <1>1, <1>2, <1>3

\* What becomes of the request whose script has run or has failed.
Moves(r) == \/ Go(r) \/ req' = [req EXCEPT ![r] = Idle] \/ UNCHANGED req

\* The request goes on to a later period, ends, or waits for a repeated
\* script.
LEMMA GoStep ==
  ASSUME LimitTypes, NEW r \in Slots, \A s \in Slots : Served(s),
         req[r].pc = "sent", Moves(r), cfg' = cfg, now' = now, taken' = taken
  PROVE  /\ req' \in [Slots -> Request]
         /\ \A s \in Slots : Served(s)'
         /\ \A s \in Slots \ {r} : req'[s] = req[s]
         /\ \/ req'[r].pc = "idle"
            \/ (req'[r] = req[r] /\ ~Go(r))
            \/ /\ req'[r].pc = "sent" /\ req'[r].id = req[r].id
               /\ Before(req[r].period, req'[r].period)
<1> DEFINE q == req[r]
           next == IF cfg.strategy = "token_bucket" THEN None ELSE Following(q.period, q.limit)
<1>1. q \in Request /\ q.g \in Gateways /\ q.period \in Periods /\ Fits(q.limit) /\ q.id <= taken
      /\ q.limit \in Limits /\ q.id \in Nat
      BY DEF Served, LimitTypes, Request
<1>2. CASE Go(r) /\ next # None
  <2>1. /\ next \in Periods /\ Before(q.period, next) /\ q.limit[next] > 0
        /\ cfg.strategy # "token_bucket"
        BY <1>1, <1>2, FollowingDef
  <2>2. Send(r, q.id, q.g, next, q.limit)
        BY <1>2 DEF Go
  <2>3. taken' \in Nat /\ taken <= taken'
        BY DEF LimitTypes
  <2> HIDE DEF next, q
  <2>4. /\ req' \in [Slots -> Request]
        /\ \A s \in Slots : Served(s)'
        /\ req'[r].pc = "sent" /\ req'[r].id = q.id /\ req'[r].period = next
        /\ \A s \in Slots \ {r} : req'[s] = req[s]
        BY <1>1, <2>1, <2>2, <2>3, Sends
  <2> QED BY <2>1, <2>4 DEF q
<1>3. CASE (Go(r) /\ next = None) \/ req' = [req EXCEPT ![r] = Idle]
  <2>1. req' = [req EXCEPT ![r] = Idle]
        BY <1>3 DEF Go
  <2>2. taken' \in Nat /\ taken <= taken'
        BY DEF LimitTypes
  <2> QED BY <2>1, <2>2, Stops
<1>4. CASE UNCHANGED req /\ ~Go(r)
  <2>1. \A s \in Slots : Served(s)'
        BY <1>4, ServedUnchanged DEF LimitTypes
  <2> QED BY <1>4, <2>1 DEF LimitTypes
<1> QED BY <1>2, <1>3, <1>4 DEF Moves

\* The steps that run no script let nothing pass and deny nothing.
Quiet == UNCHANGED <<cfg, store, grants, promise>>
NoScript ==
  \/ \E r \in Slots, g \in Gateways : Start(r, g)
  \/ \E r \in Slots : PlanFound(r) \/ PlanFails(r) \/ FailOpen(r)
  \/ TimePasses

\* They leave the store and the history alone.
LEMMA NoScriptQuiet == NoScript => Quiet
  BY DEF NoScript, Quiet, Start, PlanFound, PlanFails, FailOpen, TimePasses

\* What was let pass stays in the past.
LEMMA PastStep ==
  ASSUME LimitTypes, Past, grants' = grants, now' \in Times, now <= now'
  PROVE  Past'
<1> SUFFICES ASSUME NEW p \in Periods, NEW e \in grants[p] PROVE e.at <= now'
    BY DEF Past, Read, ReadBy
<1> QED BY DEF Past, LimitTypes, Times, Grant

\* Another request, or the same one in a later period.
LEMMA IdsStep ==
  ASSUME LimitTypes, Ids, NEW r \in Slots, grants' = grants,
         taken' \in Nat, taken <= taken',
         \A s \in Slots \ {r} : req'[s] = req[s],
         \/ req'[r].pc = "idle"
         \/ req'[r] = req[r]
         \/ req'[r].id = taken' /\ taken' = taken + 1 /\ \A s \in Slots \ {r} : Served(s)
         \/ req'[r].pc = "sent" /\ req'[r].id = req[r].id /\ req[r].pc = "plan"
         \/ /\ req'[r].pc = "sent" /\ req'[r].id = req[r].id /\ req[r].pc = "sent"
            /\ Before(req[r].period, req'[r].period)
  PROVE  Ids'
<1>1. \A q \in Periods : \A e \in grants[q] : e.id \in Nat /\ e.id <= taken
      BY DEF LimitTypes, Grant, Ids, GrantedOnce
<1>2. /\ \A s \in Slots : req[s].id \in Nat
      /\ taken \in Nat
      BY DEF LimitTypes, Request
<1>3. GrantedOnce'
  <2>1. ASSUME NEW q \in Periods, NEW e \in grants[q] PROVE e.id <= taken'
        BY <1>1, <1>2
  <2> QED BY <2>1 DEF Ids, GrantedOnce
<1>4. \A s \in Slots \ {r} : Onward(s)'
      BY DEF Ids, Onward
<1>5. OneEach' /\ Onward(r)'
  <2>1. CASE req'[r].pc = "idle" \/ req'[r] = req[r]
        BY <2>1 DEF Ids, OneEach, Onward
  <2>2. CASE req'[r].id = taken' /\ taken' = taken + 1 /\ \A s \in Slots \ {r} : Served(s)
    <3>1. ASSUME NEW s \in Slots \ {r}, req'[s].pc # "idle" PROVE req'[s].id # req'[r].id
          BY <1>2, <2>2, <3>1 DEF Served
    <3>2. ASSUME NEW q \in Periods, NEW e \in grants[q] PROVE e.id # req'[r].id
          BY <1>1, <1>2, <2>2
    <3> QED BY <3>1, <3>2 DEF Ids, OneEach, Onward
  <2>3. CASE /\ req'[r].id = req[r].id /\ req'[r].pc = "sent"
             /\ \/ req[r].pc = "plan"
                \/ req[r].pc = "sent" /\ Before(req[r].period, req'[r].period)
    <3>1. OneEach'
          BY <2>3 DEF Ids, OneEach
    <3>2. Onward(r)'
      <4> SUFFICES ASSUME NEW p \in Periods, NEW e \in grants[p], req[r].id = e.id
                   PROVE  Before(p, req'[r].period)
          BY <2>3 DEF Onward
      <4>1. req[r].pc = "sent" /\ Before(p, req[r].period) /\ Before(req[r].period, req'[r].period)
            BY <2>3 DEF Ids, Onward
      <4> QED BY <4>1 DEF Before
    <3> QED BY <3>1, <3>2
  <2> QED BY <2>1, <2>2, <2>3
<1> QED BY <1>3, <1>4, <1>5 DEF Ids

\* The types survive a step that runs no script.
LEMMA StoreTypes ==
  ASSUME LimitTypes, Quiet, now' \in Times, taken' \in Nat, req' \in [Slots -> Request],
         planCache' \in [Gateways -> CachedPlan \cup {None}]
  PROVE  LimitTypes'
  BY DEF LimitTypes, Quiet, store

\* A step that runs no script preserves LimitInv.
LEMMA NoScriptInv ==
  ASSUME LimitInv, NoScript
  PROVE  LimitInv' /\ Quiet /\ (now' = now \/ TimePasses)
<1>q. Quiet
      BY NoScriptQuiet
<1> USE DEF store
<1>0. LimitTypes /\ (\A r \in Slots : Served(r)) /\ Ids /\ Past /\ now \in Times /\ now <= now
      /\ taken \in Nat /\ taken <= taken
      BY DEF LimitInv, LimitTypes, Times
<1>1. ASSUME NEW r \in Slots, NEW g \in Gateways, Start(r, g)
      PROVE  LimitInv' /\ now' = now
  <2>1. taken' = taken + 1 /\ taken' \in Nat /\ taken <= taken' /\ now' = now /\ cfg' = cfg
        /\ planCache' = planCache /\ grants' = grants
        BY <1>0, <1>1 DEF Start
  <2>2. /\ req' \in [Slots -> Request]
        /\ \A s \in Slots : Served(s)'
        /\ req'[r].pc = "idle" \/ req'[r].id = taken'
        /\ \A s \in Slots \ {r} : req'[s] = req[s]
    <3>1. CASE AsksPlan /\ ~LocalFresh(g)
      <4>1. /\ req' = [req EXCEPT ![r] = [Idle EXCEPT !.pc = "plan", !.id = taken', !.g = g]]
            /\ cfg.plan
            BY <1>1, <3>1 DEF Start, AsksPlan
      <4>2. /\ req' \in [Slots -> Request]
            /\ \A s \in Slots \ {r} : req'[s] = req[s]
            /\ req'[r].pc = "plan" /\ req'[r].id = taken' /\ req'[r].g = g
            BY <1>0, <2>1, <4>1 DEF LimitTypes, Request, Idle, Unlimited, Limits
      <4>3. Served(r)'
            BY <2>1, <4>1, <4>2 DEF Served
      <4> QED BY <1>0, <2>1, <4>2, <4>3, ServedUnchanged
    <3>2. CASE ~(AsksPlan /\ ~LocalFresh(g))
      <4> DEFINE limit == IF AsksPlan THEN WithPlan(planCache[g].limits) ELSE cfg.limits
      <4>1. Begin(r, taken', g, limit)
            BY <1>1, <3>2 DEF Start
      <4>2. AsksPlan => planCache[g].limits \in Plans /\ cfg.plan
            BY <1>0, <3>2 DEF AsksPlan, LocalFresh, LimitTypes, CachedPlan
      <4>3. limit \in Limits /\ Fits(limit)
            BY <1>0, <4>2, PlanFits
      <4> HIDE DEF limit
      <4>4. /\ req' \in [Slots -> Request]
            /\ \A s \in Slots : Served(s)'
            /\ req'[r].pc = "idle" \/ (req'[r].pc = "sent" /\ req'[r].id = taken')
            /\ \A s \in Slots \ {r} : req'[s] = req[s]
            BY <1>0, <2>1, <4>1, <4>3, Begins
      <4> QED BY <4>4
    <3> QED BY <3>1, <3>2
  <2>3. Ids'
        BY <1>0, <2>1, <2>2, IdsStep
  <2> QED BY <1>0, <2>1, <2>2, <2>3, <1>q, StoreTypes, PastStep DEF LimitInv, LimitTypes
<1>2. ASSUME NEW r \in Slots, PlanFound(r) \/ PlanFails(r)
      PROVE  LimitInv' /\ now' = now
  <2>1. /\ req[r].pc = "plan" /\ cfg.plan /\ req[r].g \in Gateways /\ req[r].id <= taken
        /\ req[r].id \in Nat
        /\ taken' = taken /\ now' = now /\ cfg' = cfg /\ grants' = grants
        BY <1>0, <1>2 DEF PlanFound, PlanFails, Served, LimitTypes, Request
  <2>2. PICK limit \in Limits : Fits(limit) /\ Begin(r, req[r].id, req[r].g, limit)
    <3>1. CASE PlanFails(r)
          BY <1>0, <3>1, PlanFits DEF PlanFails
    <3>2. CASE PlanFound(r)
      <4>1. PICK limits \in Plans : Begin(r, req[r].id, req[r].g, WithPlan(limits))
            BY <3>2 DEF PlanFound
      <4> QED BY <1>0, <2>1, <4>1, PlanFits
    <3> QED BY <1>2, <3>1, <3>2
  <2>3. /\ req' \in [Slots -> Request]
        /\ \A s \in Slots : Served(s)'
        /\ req'[r].pc = "idle" \/ (req'[r].pc = "sent" /\ req'[r].id = req[r].id)
        /\ \A s \in Slots \ {r} : req'[s] = req[s]
        BY <1>0, <2>1, <2>2, Begins
  <2>4. planCache' \in [Gateways -> CachedPlan \cup {None}]
    <3>1. now \in Nat
          BY <1>0 DEF Times
    <3>2. planCache' = planCache \/ \E limits \in Plans :
            planCache' = [planCache EXCEPT ![req[r].g] = [limits |-> limits, at |-> now]]
          BY <1>2 DEF PlanFound, PlanFails
    <3>3. \A limits \in Plans : [limits |-> limits, at |-> now] \in CachedPlan
          BY <3>1 DEF CachedPlan
    <3>4. planCache \in [Gateways -> CachedPlan \cup {None}]
          BY <1>0 DEF LimitTypes
    <3> QED BY <3>2, <3>3, <3>4
  <2>5. Ids'
        BY <1>0, <2>1, <2>3, IdsStep
  <2> QED BY <1>0, <2>1, <2>3, <2>4, <2>5, <1>q, StoreTypes, PastStep DEF LimitInv
<1>3. ASSUME NEW r \in Slots, FailOpen(r)
      PROVE  LimitInv' /\ now' = now
  <2>1. /\ req[r].pc = "sent" /\ Go(r) /\ taken' = taken /\ now' = now /\ cfg' = cfg
        /\ grants' = grants /\ planCache' = planCache
        BY <1>3 DEF FailOpen
  <2>2. /\ req' \in [Slots -> Request]
        /\ \A s \in Slots : Served(s)'
        /\ \A s \in Slots \ {r} : req'[s] = req[s]
        /\ \/ req'[r].pc = "idle"
           \/ (req'[r] = req[r] /\ ~Go(r))
           \/ /\ req'[r].pc = "sent" /\ req'[r].id = req[r].id
              /\ Before(req[r].period, req'[r].period)
        BY <1>0, <2>1, GoStep DEF Moves
  <2>3. Ids'
        BY <1>0, <2>1, <2>2, IdsStep
  <2> QED BY <1>0, <2>1, <2>2, <2>3, <1>q, StoreTypes, PastStep DEF LimitInv, LimitTypes
<1>4. CASE TimePasses
  <2>1. /\ now' = now + 1 /\ now' \in Times /\ now <= now'
        /\ taken' = taken /\ cfg' = cfg /\ grants' = grants /\ planCache' = planCache
        /\ req' = req
        BY <1>0, <1>4, ClockAssumption DEF TimePasses, Times
  <2>2. ASSUME NEW r \in Slots PROVE Served(r)'
    <3>1. \A p \in Periods : LargestLimit(p)' = LargestLimit(p)
          BY <2>1 DEF LargestLimit
    <3>2. Fits(req[r].limit) => Fits(req[r].limit)'
          BY <2>1, <3>1 DEF Fits
    <3>3. req[r].pc = "sent" => ReadBy(req[r].g, req[r].stamp, now)'
      <4> SUFFICES ASSUME req[r].pc = "sent"
                   PROVE  ReadBy(req[r].g, req[r].stamp, now)'
          OBVIOUS
      <4>1. req[r].g \in Gateways /\ ReadBy(req[r].g, req[r].stamp, now)
            /\ req[r].stamp \in Nat
            BY <1>0 DEF Served, LimitTypes, Request
      <4>2. Clock(req[r].g) - req[r].stamp < Delay
            BY <1>4 DEF TimePasses
      <4>3. Offset[req[r].g] \in Nat /\ Delay \in Nat /\ now \in Nat
            BY <1>0, <4>1, ClockAssumption DEF Times
      <4> QED BY <2>1, <4>1, <4>2, <4>3 DEF ReadBy, Clock
    <3> QED BY <1>0, <2>1, <3>2, <3>3 DEF Served
  <2>3. Ids'
        BY <1>0, <2>1 DEF Ids, OneEach, Onward, GrantedOnce
  <2> QED BY <1>0, <1>4, <2>1, <2>2, <2>3, <1>q, StoreTypes, PastStep DEF LimitInv, LimitTypes
<1> QED BY <1>1, <1>2, <1>3, <1>4, <1>q DEF NoScript

GrantOf(r, exp) == [id |-> req[r].id, stamp |-> req[r].stamp, at |-> now, exp |-> exp]

\* What a script that lets r pass or denies it may do to the history.
LEMMA PassGrants ==
  ASSUME LimitInv, NEW r \in Slots, req[r].pc = "sent", NEW exp \in Nat, Pass(r, exp)
  PROVE  /\ Moves(r)
         /\ \/ grants' = grants
            \/ /\ grants' = [grants EXCEPT ![req[r].period] = @ \cup {GrantOf(r, exp)}]
               /\ Go(r)
         /\ GrantOf(r, exp) \in Grant
         /\ \A e \in grants[req[r].period] : e.id # req[r].id
         /\ promise' = promise \/ promise' = None
         /\ promise' = None \/ (promise # None /\ promise.period # req[r].period)
         /\ req[r].period \in Periods
<1>1. GrantOf(r, exp) \in Grant
      BY DEF LimitInv, LimitTypes, Request, Times, Grant, GrantOf
<1>2. \A e \in grants[req[r].period] : e.id # req[r].id
  <2>1. req[r].period \in Periods /\ Onward(r)
        BY DEF LimitInv, Served, Ids
  <2> QED BY <2>1 DEF Onward, Before
<1>3. req[r].period \in Periods
      BY DEF LimitInv, Served
<1> QED BY <1>1, <1>2, <1>3 DEF Pass, AnswerLost, Moves, GrantOf

\* The same for a script that denies r.
LEMMA DenyGrants ==
  ASSUME LimitInv, NEW r \in Slots, req[r].pc = "sent", NEW reset \in Int, Deny(r, reset)
  PROVE  /\ Moves(r) /\ grants' = grants
         /\ \/ promise' = promise
            \/ promise' = [period |-> req[r].period, limit |-> req[r].limit[req[r].period],
                           window |-> req[r].stamp \div Len[req[r].period],
                           at |-> Clock(req[r].g) + RetryAfter(reset, Clock(req[r].g))]
         /\ promise' \in Promise \cup {None}
         /\ req[r].period \in Periods
<1>1. /\ req[r].period \in Periods /\ req[r].g \in Gateways
      /\ req[r].limit \in [Periods -> Nat] /\ req[r].stamp \in Nat
      BY DEF LimitInv, LimitTypes, Served, Request, Limits
<1>2. req[r].stamp \div Len[req[r].period] \in Int
      BY <1>1, ClockAssumption, DivDef
<1>3. Clock(req[r].g) \in Nat
      BY <1>1, ClockRead DEF LimitInv
<1>4. Clock(req[r].g) + RetryAfter(reset, Clock(req[r].g)) \in Int
      BY <1>3 DEF RetryAfter
<1>5. promise \in Promise \cup {None}
      BY DEF LimitInv, LimitTypes
<1> QED BY <1>1, <1>2, <1>4, <1>5 DEF Deny, AnswerLost, Moves, Promise

\* A script that leaves well-typed keys preserves LimitInv.
LEMMA ScriptInv ==
  ASSUME LimitInv, NEW r \in Slots, req[r].pc = "sent",
         NEW exp \in Nat, NEW reset \in Int, Pass(r, exp) \/ Deny(r, reset),
         zset' \in [Periods -> SUBSET Member], zexp' \in [Periods -> Nat],
         count' \in [Periods -> [Windows -> Nat]], cexp' \in [Periods -> [Windows -> Nat]],
         bucket' \in Bucket \cup {None},
         UNCHANGED <<cfg, now, planCache, taken>>
  PROVE  LimitInv'
<1> DEFINE p == req[r].period
           grant == GrantOf(r, exp)
<1>0. LimitTypes /\ (\A s \in Slots : Served(s)) /\ Ids /\ Past
      BY DEF LimitInv
<1>1. /\ Moves(r)
      /\ \/ grants' = grants
         \/ grants' = [grants EXCEPT ![p] = @ \cup {grant}] /\ Go(r)
            /\ grant \in Grant /\ \A e \in grants[p] : e.id # req[r].id
      /\ promise' \in Promise \cup {None}
      /\ p \in Periods
  <2>1. CASE Pass(r, exp)
        BY <1>0, <2>1, PassGrants DEF LimitTypes
  <2>2. CASE Deny(r, reset)
        BY <2>2, DenyGrants
  <2> QED BY <2>1, <2>2
<1>2. /\ req' \in [Slots -> Request]
      /\ \A s \in Slots : Served(s)'
      /\ \A s \in Slots \ {r} : req'[s] = req[s]
      /\ \/ req'[r].pc = "idle"
         \/ (req'[r] = req[r] /\ ~Go(r))
         \/ /\ req'[r].pc = "sent" /\ req'[r].id = req[r].id
            /\ Before(req[r].period, req'[r].period)
      BY <1>0, <1>1, GoStep
<1>3. LimitTypes'
  <2>1. grants \in [Periods -> SUBSET Grant]
        BY <1>0 DEF LimitTypes
  <2>2. grants' \in [Periods -> SUBSET Grant]
    <3>1. CASE grants' = [grants EXCEPT ![p] = @ \cup {grant}] /\ grant \in Grant
      <4> HIDE DEF grant
      <4> QED BY <1>1, <2>1, <3>1
    <3> QED BY <1>1, <2>1, <3>1
  <2> QED BY <1>0, <1>1, <1>2, <2>2 DEF LimitTypes
<1>4. CASE grants' = grants
  <2>1. taken' \in Nat /\ taken <= taken' /\ now' \in Times /\ now <= now'
        BY <1>0 DEF LimitTypes, Times
  <2>2. Ids'
        BY <1>0, <1>2, <1>4, <2>1, IdsStep
  <2>3. Past'
        BY <1>0, <1>4, <2>1, PastStep
  <2> QED BY <1>2, <1>3, <2>2, <2>3 DEF LimitInv
<1>5. CASE /\ grants' = [grants EXCEPT ![p] = @ \cup {grant}] /\ Go(r)
           /\ grant \in Grant /\ \A e \in grants[p] : e.id # req[r].id
  <2>1. /\ grants'[p] = grants[p] \cup {grant}
        /\ \A q \in Periods \ {p} : grants'[q] = grants[q]
        BY <1>0, <1>1, <1>5 DEF LimitTypes
  <2>2. /\ grant.id = req[r].id /\ grant.at = now /\ grant.stamp = req[r].stamp
        /\ req[r].id <= taken /\ ReadBy(req[r].g, req[r].stamp, now) /\ req[r].g \in Gateways
        BY <1>0 DEF GrantOf, Served
  <2>3. GrantedOnce'
        BY <1>0, <1>5, <2>1, <2>2 DEF Ids, GrantedOnce
  <2>4. OneEach'
        BY <1>0, <1>2, <1>5 DEF Ids, OneEach
  <2>5. ASSUME NEW s \in Slots PROVE Onward(s)'
    <3> SUFFICES ASSUME NEW q \in Periods, NEW e \in grants'[q],
                        req'[s].pc # "idle", req'[s].id = e.id
                 PROVE  req'[s].pc = "sent" /\ Before(q, req'[s].period)
        BY DEF Onward
    <3>1. CASE s # r
      <4>1. req'[s] = req[s] /\ req[s].id # req[r].id
            BY <1>0, <1>2, <3>1 DEF Ids, OneEach
      <4>2. e \in grants[q]
        <5>1. e # grant
              BY <2>2, <4>1
        <5> QED BY <2>1, <5>1
      <4> QED BY <1>0, <4>1, <4>2 DEF Ids, Onward
    <3>2. CASE s = r
      <4>1. req'[r].pc = "sent" /\ Before(p, req'[r].period) /\ req'[r].id = req[r].id
            BY <1>2, <1>5, <3>2
      <4>2. e \in grants[q] => Before(q, p)
            BY <1>0, <3>2, <4>1 DEF Ids, Onward
      <4>3. e \notin grants[q] => q = p
            BY <2>1
      <4> QED BY <3>2, <4>1, <4>2, <4>3 DEF Before
    <3> QED BY <3>1, <3>2
  <2>6. Past'
    <3>1. ASSUME NEW q \in Periods, NEW e \in grants'[q]
          PROVE  e.at <= now' /\ Read(e.stamp, e.at)'
      <4>1. CASE e \in grants[q]
            BY <1>0, <4>1 DEF Past, Read, ReadBy
      <4>2. CASE e = grant
        <5>1. now <= now
              BY <1>0 DEF LimitTypes, Times
        <5> QED BY <2>2, <4>2, <5>1 DEF Read, ReadBy
      <4> QED BY <2>1, <4>1, <4>2
    <3>2. \A q \in Periods : IsFiniteSet(grants'[q])
      <4>1. \A q \in Periods : IsFiniteSet(grants[q])
            BY <1>0 DEF Past
      <4>2. IsFiniteSet(grants[p] \cup {grant})
            BY <1>1, <4>1, FS_AddElement
      <4> QED BY <2>1, <4>1, <4>2
    <3> QED BY <3>1, <3>2 DEF Past
  <2> QED BY <1>2, <1>3, <2>3, <2>4, <2>5, <2>6 DEF LimitInv, Ids
<1> QED BY <1>1, <1>4, <1>5

\* Capacity and refill of the bucket are positive for every limit.
LEMMA PolicyDef ==
  ASSUME LimitTypes, NEW rpm \in Nat
  PROVE  /\ Capacity(rpm) \in Nat \ {0} /\ Rate(rpm) \in Nat \ {0} /\ FillTime(rpm) \in Nat
         /\ Token \in Nat \ {0}
<1> USE DEF RpmOr100
<1>1. cfg.burst \in Nat /\ cfg.refill \in Nat /\ Token \in Nat \ {0}
      BY PolicyAssumption, ClockAssumption DEF LimitTypes, Token, Periods
<1>2. DefaultRpm \in Nat \ {0}
      BY PolicyAssumption
<1>3. Capacity(rpm) \in Nat \ {0}
      BY <1>1, <1>2 DEF Capacity, CeilDiv
<1>4. Rate(rpm) \in Nat \ {0}
      BY <1>1, <1>2 DEF Rate
<1>5. Capacity(rpm) * Token \in Nat
      BY <1>1, <1>3
<1>6. FillTime(rpm) \in Int /\ FillTime(rpm) >= 0
      BY <1>4, <1>5, CeilDivDef DEF FillTime
<1> QED BY <1>1, <1>3, <1>4, <1>6

\* What a script finds in the bucket.
LEMMA LevelDef ==
  ASSUME LimitTypes, NEW rpm \in Nat, NEW stamp \in Int
  PROVE  Level(rpm, stamp) \in Int /\ Level(rpm, stamp) <= Capacity(rpm) * Token
<1>1. Capacity(rpm) \in Nat /\ Rate(rpm) \in Nat /\ Token \in Nat
      BY PolicyDef
<1>2. Capacity(rpm) * Token \in Int
      BY <1>1
<1>3. CASE bucket # None /\ bucket.exp > now
  <2>1. bucket.tokens \in Int /\ bucket.last \in Nat
        BY <1>3 DEF LimitTypes, Bucket
  <2>2. bucket.tokens + (stamp - bucket.last) * Rate(rpm) \in Int
        BY <1>1, <2>1
  <2> QED BY <1>2, <1>3, <2>2 DEF Level, Refilled
<1> QED BY <1>2, <1>3 DEF Level

\* The fields of a request whose script is under way.
LEMMA SentTypes ==
  ASSUME LimitInv, NEW r \in Slots, req[r].pc = "sent"
  PROVE  /\ req[r].id \in Nat /\ req[r].stamp \in Nat /\ req[r].period \in Periods
         /\ req[r].g \in Gateways /\ req[r].limit \in [Periods -> Nat]
         /\ Clock(req[r].g) \in Nat /\ now \in Nat
         /\ Len[req[r].period] \in Nat \ {0}
         /\ req[r].stamp \div Len[req[r].period] \in Windows
<1>1. /\ req[r].id \in Nat /\ req[r].stamp \in Nat /\ req[r].period \in Periods
      /\ req[r].g \in Gateways /\ req[r].limit \in [Periods -> Nat] /\ now \in Nat
      /\ req[r].stamp \in Stamps
      BY DEF LimitInv, LimitTypes, Served, Request, Limits, Times
<1>2. Clock(req[r].g) \in Nat
      BY <1>1, ClockRead DEF LimitInv
<1>3. req[r].stamp \div Len[req[r].period] \in Windows
      BY <1>1 DEF Windows
<1> QED BY <1>1, <1>2, <1>3, ClockAssumption

\* SLIDING_WINDOW preserves LimitInv, ...
LEMMA SlidingTypes ==
  ASSUME LimitInv, NEW r \in Slots, SlidingRuns(r)
  PROVE  LimitInv'
<1> DEFINE q == req[r]
           p == req[r].period
<1>1. q.pc = "sent" /\ UNCHANGED <<cfg, now, count, cexp, bucket, planCache, taken>>
      BY DEF SlidingRuns
<1>2. /\ q.id \in Nat /\ q.stamp \in Nat /\ p \in Periods /\ now \in Nat /\ Len[p] \in Nat
      BY <1>1, SentTypes
<1>3. /\ zset \in [Periods -> SUBSET Member] /\ zexp \in [Periods -> Nat]
      /\ count \in [Periods -> [Windows -> Nat]] /\ cexp \in [Periods -> [Windows -> Nat]]
      /\ bucket \in Bucket \cup {None}
      BY DEF LimitInv, LimitTypes
<1>4. Kept(p, q.stamp) \subseteq Member
      BY <1>2, <1>3 DEF Kept
<1>5. CASE /\ zset' = [zset EXCEPT ![p] =
                          Kept(p, q.stamp) \cup {[id |-> q.id, score |-> q.stamp]}]
           /\ zexp' = [zexp EXCEPT ![p] = now + 2 * Len[p]]
           /\ Pass(r, now + 2 * Len[p])
  <2>1. now + 2 * Len[p] \in Nat /\ 0 \in Int
        BY <1>2
  <2>2. zset' \in [Periods -> SUBSET Member] /\ zexp' \in [Periods -> Nat]
        BY <1>2, <1>3, <1>4, <1>5, <2>1 DEF Member
  <2> QED BY <1>1, <1>3, <1>5, <2>1, <2>2, ScriptInv
<1>6. CASE /\ zset' = [zset EXCEPT ![p] = Kept(p, q.stamp)]
           /\ zexp' = zexp
           /\ \E first \in Kept(p, q.stamp) :
                Deny(r, IF first.score > 0 THEN first.score + Len[p] ELSE q.stamp + Len[p])
  <2>1. PICK first \in Kept(p, q.stamp) :
                Deny(r, IF first.score > 0 THEN first.score + Len[p] ELSE q.stamp + Len[p])
        BY <1>6
  <2>2. (IF first.score > 0 THEN first.score + Len[p] ELSE q.stamp + Len[p]) \in Int /\ 0 \in Nat
        BY <1>2, <1>4 DEF Member
  <2>3. zset' \in [Periods -> SUBSET Member] /\ zexp' \in [Periods -> Nat]
        BY <1>2, <1>3, <1>4, <1>6
  <2> QED BY <1>1, <1>3, <2>1, <2>2, <2>3, ScriptInv
<1> QED BY <1>5, <1>6 DEF SlidingRuns

\* The counter a script of the fixed window finds and leaves.
LEMMA CounterTypes ==
  ASSUME LimitInv, NEW p \in Periods, NEW w \in Windows
  PROVE  /\ cexp[p][w] \in Nat /\ count[p][w] \in Nat
         /\ Current(p, w) \in Nat \ {0} /\ Expiry(p, w) \in Nat /\ now \in Nat
         /\ Len[p] \in Nat \ {0}
<1>1. count[p][w] \in Nat /\ cexp[p][w] \in Nat /\ now \in Nat /\ Len[p] \in Nat \ {0}
      BY ClockAssumption DEF LimitInv, LimitTypes, Times
<1> QED BY <1>1 DEF Current, Expiry

\* ... so does FIXED_WINDOW, ...
LEMMA FixedTypes ==
  ASSUME LimitInv, NEW r \in Slots, FixedRuns(r)
  PROVE  LimitInv'
<1> DEFINE q == req[r]
           p == req[r].period
           w == q.stamp \div Len[p]
<1>1. q.pc = "sent" /\ UNCHANGED <<cfg, now, zset, zexp, bucket, planCache, taken>>
      BY DEF FixedRuns
<1>2. p \in Periods /\ w \in Windows /\ Clock(q.g) \in Nat
      BY <1>1, SentTypes
<1>3. /\ zset \in [Periods -> SUBSET Member] /\ zexp \in [Periods -> Nat]
      /\ count \in [Periods -> [Windows -> Nat]] /\ cexp \in [Periods -> [Windows -> Nat]]
      /\ bucket \in Bucket \cup {None}
      BY DEF LimitInv, LimitTypes
<1>4. Current(p, w) \in Nat /\ Expiry(p, w) \in Nat /\ now \in Nat
      BY <1>2, CounterTypes
<1>5. /\ count' = [count EXCEPT ![p][w] = Current(p, w)]
      /\ cexp' = [cexp EXCEPT ![p][w] = Expiry(p, w)]
      /\ Pass(r, Expiry(p, w)) \/ Deny(r, Clock(q.g) + Expiry(p, w) - now)
      BY DEF FixedRuns
<1>6. count' \in [Periods -> [Windows -> Nat]] /\ cexp' \in [Periods -> [Windows -> Nat]]
      BY <1>2, <1>3, <1>4, <1>5
<1>7. Clock(q.g) + Expiry(p, w) - now \in Int
      BY <1>2, <1>4
<1> QED BY <1>1, <1>3, <1>4, <1>5, <1>6, <1>7, ScriptInv

\* ... and so does TOKEN_BUCKET.
LEMMA BucketTypes ==
  ASSUME LimitInv, NEW r \in Slots, BucketRuns(r)
  PROVE  LimitInv'
<1> DEFINE q == req[r]
           rpm == q.limit["rpm"]
           level == Level(rpm, q.stamp)
           exp == now + 2 * FillTime(rpm)
           reset == Clock(q.g) + CeilDiv(Token - level, Rate(rpm))
<1>1. q.pc = "sent" /\ UNCHANGED <<cfg, now, zset, zexp, count, cexp, planCache, taken>>
      BY DEF BucketRuns
<1>2. rpm \in Nat /\ q.stamp \in Nat /\ Clock(q.g) \in Nat /\ now \in Nat
      BY <1>1, SentTypes DEF Periods
<1>3. /\ zset \in [Periods -> SUBSET Member] /\ zexp \in [Periods -> Nat]
      /\ count \in [Periods -> [Windows -> Nat]] /\ cexp \in [Periods -> [Windows -> Nat]]
      /\ LimitTypes
      BY DEF LimitInv, LimitTypes
<1>4. Token \in Nat /\ Rate(rpm) \in Nat \ {0} /\ FillTime(rpm) \in Nat /\ level \in Int
  <2>1. q.stamp \in Int
        BY <1>2
  <2>2. level \in Int
        BY <1>2, <1>3, <2>1, LevelDef
  <2> QED BY <1>2, <1>3, <2>2, PolicyDef
<1>5. exp \in Nat /\ reset \in Int
  <2>1. CeilDiv(Token - level, Rate(rpm)) \in Int
        BY <1>4, CeilDivDef
  <2> QED BY <1>2, <1>4, <2>1
<1>6. /\ Pass(r, exp) \/ Deny(r, reset)
      /\ \E tokens \in {level, level - Token} :
           bucket' = [tokens |-> tokens, last |-> q.stamp, exp |-> exp]
      BY DEF BucketRuns
<1>7. bucket' \in Bucket \cup {None}
      BY <1>2, <1>4, <1>5, <1>6 DEF Bucket
<1> HIDE DEF level, exp, reset
<1> QED BY <1>1, <1>3, <1>5, <1>6, <1>7, ScriptInv

\* Nothing has been let pass at first.
LEMMA LimitInvInit == LimitInit => LimitInv
<1> SUFFICES ASSUME LimitInit PROVE LimitInv
    OBVIOUS
<1>1. Idle \in Request /\ Idle.pc = "idle"
      BY DEF Idle, Request, Unlimited, Limits
<1>2. LimitTypes
      BY <1>1, ClockAssumption DEF LimitInit, LimitTypes, Times
<1>3. /\ \A r \in Slots : Served(r) /\ Onward(r)
      /\ OneEach
      BY <1>1 DEF LimitInit, Served, Onward, OneEach
<1>4. GrantedOnce /\ Past
      BY FS_EmptySet DEF LimitInit, GrantedOnce, Past
<1> QED BY <1>2, <1>3, <1>4 DEF LimitInv, Ids

\* A step runs a script or none.
LEMMA LimitSteps ==
  ASSUME LimitNext
  PROVE  NoScript \/ \E r \in Slots : SlidingRuns(r) \/ FixedRuns(r) \/ BucketRuns(r)
  BY DEF LimitNext, NoScript

\* LimitInv is inductive.
LEMMA LimitInvStep == LimitInv /\ [LimitNext]_limitVars => LimitInv'
<1> SUFFICES ASSUME LimitInv, [LimitNext]_limitVars PROVE LimitInv'
    OBVIOUS
<1>1. CASE UNCHANGED limitVars
  <2> USE <1>1 DEF limitVars, store
  <2>1. LimitTypes'
        BY DEF LimitInv, LimitTypes
  <2>2. \A r \in Slots : Served(r)' /\ Onward(r)'
    <3> TAKE r \in Slots
    <3>1. \A p \in Periods : LargestLimit(p)' = LargestLimit(p)
          BY DEF LargestLimit
    <3>2. Fits(req[r].limit) => Fits(req[r].limit)'
          BY <3>1 DEF Fits
    <3> QED BY <3>2 DEF LimitInv, Served, ReadBy, Ids, Onward
  <2>3. OneEach' /\ GrantedOnce'
        BY DEF LimitInv, Ids, OneEach, GrantedOnce
  <2>4. Past'
        BY DEF LimitInv, Past, Read, ReadBy
  <2> QED BY <2>1, <2>2, <2>3, <2>4 DEF LimitInv, Ids
<1>2. CASE NoScript
      BY <1>2, NoScriptInv
<1> QED BY <1>1, <1>2, LimitSteps, SlidingTypes, FixedTypes, BucketTypes

----------------------------------------------------------------------------
MemberOf(e) == [id |-> e.id, score |-> e.stamp]

\* The sorted set still holds what was let pass lately, and holds no more
\* than the limit.
StillThere(p) == \A e \in grants[p] :
  /\ e.at + 2 * Len[p] <= zexp[p]
  /\ e.at + Len[p] - Slack > now => MemberOf(e) \in zset[p]
FewMembers(p) == /\ IsFiniteSet(zset[p])
                 /\ ~cfg.plan => Cardinality(zset[p]) <= cfg.limits[p]
FewGranted(p) == \A t \in Times :
  Cardinality(Granted(p, t, Len[p] - Slack)) <= LargestLimit(p)
SlidingInv ==
  cfg.strategy = "sliding_window" =>
    /\ \A p \in Periods : StillThere(p) /\ FewMembers(p) /\ FewGranted(p)
    /\ RetryAfterEnough

\* Stamps are apart by at most as much as their scripts, and Slack.
LEMMA PairRead ==
  ASSUME NEW s \in Int, NEW t \in Int, NEW u \in Int, NEW v \in Int, Read(s, t), Read(u, v)
  PROVE  s - u <= t - v + Slack
<1>1. PICK g \in Gateways : ReadBy(g, s, t)
      BY DEF Read
<1>2. PICK h \in Gateways : ReadBy(h, u, v)
      BY DEF Read
<1>3. /\ Offset[g] \in Nat /\ Offset[h] \in Nat /\ Skew \in Nat /\ Delay \in Nat
      /\ Offset[g] - Offset[h] <= Skew
      BY ClockAssumption
<1> QED BY <1>1, <1>2, <1>3 DEF ReadBy, Slack

\* Slack is a natural number.
LEMMA SlackType == Slack \in Nat
  BY ClockAssumption DEF Slack

\* Only finitely many requests were let pass.
LEMMA GrantedFinite ==
  ASSUME LimitInv, NEW p \in Periods, NEW t, NEW n
  PROVE  IsFiniteSet(Granted(p, t, n)) /\ Cardinality(Granted(p, t, n)) \in Nat
<1>1. IsFiniteSet(grants[p]) /\ Granted(p, t, n) \subseteq grants[p]
      BY DEF LimitInv, Past, Granted
<1> QED BY <1>1, FS_Subset, FS_CardinalityType

\* A script leaves no more members than it finds.
LEMMA KeptFinite ==
  ASSUME NEW p \in Periods, FewMembers(p), NEW stamp
  PROVE  /\ IsFiniteSet(Kept(p, stamp)) /\ Cardinality(Kept(p, stamp)) \in Nat
         /\ Cardinality(zset[p]) \in Nat /\ Cardinality(Kept(p, stamp)) <= Cardinality(zset[p])
<1>1. Kept(p, stamp) \subseteq zset[p]
      BY DEF Kept
<1> QED BY <1>1, FS_Subset, FS_CardinalityType DEF FewMembers

\* A promise is kept as long as nothing is added to the set.
LEMMA SlidingPromiseKept ==
  ASSUME LimitInv, SlidingInv, cfg.strategy = "sliding_window", cfg' = cfg, now' \in Nat,
         now <= now', promise' = promise \/ promise' = None,
         \A p \in Periods :
            \/ promise' = None
            \/ promise.period # p
            \/ zset'[p] \subseteq zset[p] /\ zexp'[p] = zexp[p]
  PROVE  RetryAfterEnough'
<1> SUFFICES ASSUME promise' # None, ~cfg.plan
             PROVE  SlidingPasses(promise.period, promise.limit, promise.at + Slack)'
    BY DEF RetryAfterEnough
<1> DEFINE p == promise.period
           at == promise.at + Slack
<1>1. promise # None /\ promise' = promise /\ p \in Periods /\ promise.limit \in Nat
      BY DEF LimitInv, LimitTypes, Promise
<1>2. zset'[p] \subseteq zset[p] /\ zexp'[p] = zexp[p]
      BY <1>1
<1>3. FewMembers(p) /\ SlidingPasses(p, promise.limit, at)
      BY <1>1 DEF SlidingInv, RetryAfterEnough
<1>4. zexp[p] \in Nat /\ now \in Nat
      BY <1>1 DEF LimitInv, LimitTypes, Times
<1>5. Kept(p, at)' \subseteq Kept(p, at)
      BY <1>1, <1>2, <1>4 DEF Kept, InWindow
<1>6. Cardinality(Kept(p, at)') <= Cardinality(Kept(p, at)) /\ Cardinality(Kept(p, at)') \in Nat
      /\ Cardinality(Kept(p, at)) \in Nat
      BY <1>1, <1>3, <1>5, KeptFinite, FS_Subset, FS_CardinalityType
<1> QED BY <1>1, <1>3, <1>6 DEF SlidingPasses

\* A step that runs no script preserves SlidingInv, ...
LEMMA SlidingQuiet ==
  ASSUME LimitInv, SlidingInv, Quiet, now' \in Times, now <= now'
  PROVE  SlidingInv'
<1> SUFFICES ASSUME cfg.strategy = "sliding_window"
             PROVE  SlidingInv'
    BY DEF SlidingInv, Quiet
<1>1. cfg' = cfg /\ zset' = zset /\ zexp' = zexp /\ grants' = grants /\ promise' = promise
      BY DEF Quiet, store
<1>2. RetryAfterEnough'
      BY <1>1, SlidingPromiseKept DEF Times
<1>3. ASSUME NEW p \in Periods
      PROVE  StillThere(p)' /\ FewMembers(p)' /\ FewGranted(p)'
  <2>1. StillThere(p) /\ FewMembers(p) /\ FewGranted(p)
        BY DEF SlidingInv
  <2>2. StillThere(p)'
    <3> SUFFICES ASSUME NEW e \in grants[p]
                 PROVE  /\ e.at + 2 * Len[p] <= zexp[p]
                        /\ e.at + Len[p] - Slack > now' => MemberOf(e) \in zset[p]
        BY <1>1 DEF StillThere, MemberOf
    <3>1. e.at \in Nat /\ Len[p] \in Nat /\ Slack \in Nat /\ now \in Nat /\ now' \in Nat
          BY SlackType, ClockAssumption DEF LimitInv, LimitTypes, Grant, Times
    <3> QED BY <2>1, <3>1 DEF StillThere
  <2>3. LargestLimit(p)' = LargestLimit(p)
        BY <1>1 DEF LargestLimit
  <2>4. \A t \in Times : Granted(p, t, Len[p] - Slack)' = Granted(p, t, Len[p] - Slack)
        BY <1>1 DEF Granted
  <2> QED BY <1>1, <2>1, <2>2, <2>3, <2>4 DEF FewMembers, FewGranted
<1> QED BY <1>2, <1>3 DEF SlidingInv

\* A script that runs keeps what was let pass lately.
LEMMA RecentKept ==
  ASSUME LimitInv, NEW r \in Slots, req[r].pc = "sent", NEW p \in Periods, StillThere(p),
         NEW e \in grants[p], e.at + Len[p] - Slack > now
  PROVE  MemberOf(e) \in Kept(p, req[r].stamp)
<1>1. /\ e.at \in Nat /\ e.stamp \in Nat /\ now \in Nat /\ Len[p] \in Nat \ {0} /\ Slack \in Nat
      /\ e.at <= now /\ req[r].stamp \in Nat /\ zexp[p] \in Nat
      BY SentTypes, SlackType, ClockAssumption DEF LimitInv, LimitTypes, Past, Grant
<1>2. Read(e.stamp, e.at) /\ Read(req[r].stamp, now)
      BY DEF LimitInv, Served, Past, Read
<1>3. req[r].stamp - e.stamp <= now - e.at + Slack
      BY <1>1, <1>2, PairRead
<1>4. e.at + 2 * Len[p] <= zexp[p] /\ MemberOf(e) \in zset[p]
      BY DEF StillThere
<1> QED BY <1>1, <1>3, <1>4 DEF Kept, InWindow, MemberOf

\* What is let pass lately is no more than the members.
LEMMA GrantedMembers ==
  ASSUME NEW set, NEW members, IsFiniteSet(set), IsFiniteSet(members),
         \A e \in set : MemberOf(e) \in members,
         \A e, f \in set : e.id = f.id => e = f
  PROVE  Cardinality(set) <= Cardinality(members)
<1> DEFINE f == [e \in set |-> MemberOf(e)]
<1>1. f \in Injection(set, members)
      BY DEF Injection, IsInjective, MemberOf
<1> QED BY <1>1, FS_Injection

\* ... a script that lets a request pass preserves it, ...
LEMMA SlidingPass ==
  ASSUME LimitInv, LimitInv', SlidingInv, cfg.strategy = "sliding_window",
         NEW r \in Slots, req[r].pc = "sent", NEW p \in Periods, req[r].period = p,
         cfg' = cfg, now' = now,
         SlidingPasses(p, req[r].limit[p], req[r].stamp),
         zset' = [zset EXCEPT ![p] = Kept(p, req[r].stamp)
                                       \cup {[id |-> req[r].id, score |-> req[r].stamp]}],
         zexp' = [zexp EXCEPT ![p] = now + 2 * Len[p]],
         Pass(r, now + 2 * Len[p])
  PROVE  SlidingInv'
<1> DEFINE exp == now + 2 * Len[p]
           grant == GrantOf(r, exp)
           kept == Kept(p, req[r].stamp)
           limit == req[r].limit[p]
<1>1. /\ p \in Periods /\ now \in Nat /\ Len[p] \in Nat \ {0} /\ Slack \in Nat /\ exp \in Nat
      /\ req[r].stamp \in Nat /\ limit \in Nat
      BY SentTypes, SlackType
<1>2. /\ Moves(r)
      /\ \/ grants' = grants
         \/ grants' = [grants EXCEPT ![p] = @ \cup {grant}]
      /\ grant \in Grant
      /\ \A e \in grants[p] : e.id # req[r].id
      /\ promise' = promise \/ promise' = None
      /\ promise' = None \/ (promise # None /\ promise.period # p)
      BY <1>1, PassGrants
<1>3. /\ grants \in [Periods -> SUBSET Grant]
      /\ zset \in [Periods -> SUBSET Member] /\ zexp \in [Periods -> Nat]
      BY DEF LimitInv, LimitTypes
<1>4. /\ zset'[p] = kept \cup {MemberOf(grant)}
      /\ zexp'[p] = exp
      /\ \A q \in Periods \ {p} : zset'[q] = zset[q] /\ zexp'[q] = zexp[q] /\ grants'[q] = grants[q]
      /\ grants'[p] = grants[p] \/ grants'[p] = grants[p] \cup {grant}
      BY <1>1, <1>2, <1>3 DEF GrantOf, MemberOf
<1>5. limit <= LargestLimit(p) /\ LargestLimit(p) \in Nat /\ (~cfg.plan => limit = cfg.limits[p])
      BY <1>1, LargestLimitDef DEF LimitInv, LimitTypes, Served, Fits
<1>6. \A q \in Periods : StillThere(q) /\ FewMembers(q) /\ FewGranted(q)
      BY DEF SlidingInv
<1>7. IsFiniteSet(kept) /\ Cardinality(kept) \in Nat /\ Cardinality(kept) < limit
      BY <1>1, <1>6, KeptFinite DEF SlidingPasses
<1>8. IsFiniteSet(zset'[p]) /\ Cardinality(zset'[p]) <= limit /\ Cardinality(zset'[p]) \in Nat
  <2> HIDE DEF kept, grant, limit
  <2>1. /\ IsFiniteSet(kept \cup {MemberOf(grant)})
        /\ Cardinality(kept \cup {MemberOf(grant)}) \in Nat
        /\ Cardinality(kept \cup {MemberOf(grant)}) <= Cardinality(kept) + 1
        BY <1>7, AddOne
  <2>2. limit \in Nat /\ Cardinality(kept) < limit /\ Cardinality(kept) \in Nat
        BY <1>1, <1>7
  <2>3. zset'[p] = kept \cup {MemberOf(grant)}
        BY <1>4
  <2>4. \A n \in Nat : n <= Cardinality(kept) + 1 => n <= limit
        BY <2>2
  <2> QED BY <2>1, <2>3, <2>4
<1>9. ASSUME NEW e \in grants'[p]
      PROVE  /\ e.at \in Nat /\ e.at <= now
             /\ e.at + Len[p] - Slack > now => MemberOf(e) \in zset'[p]
  <2>1. CASE e \in grants[p]
    <3>1. e.at \in Nat /\ e.at <= now
          BY <1>1, <1>3, <2>1 DEF LimitInv, Past, Grant
    <3> QED BY <1>1, <1>4, <1>6, <2>1, <3>1, RecentKept
  <2>2. CASE e = grant
        BY <1>1, <1>4, <2>2 DEF GrantOf
  <2> QED BY <1>4, <2>1, <2>2
<1>10. StillThere(p)' /\ FewMembers(p)'
  <2>1. FewMembers(p)'
        BY <1>1, <1>5, <1>8 DEF FewMembers
  <2>2. StillThere(p)'
    <3> SUFFICES ASSUME NEW e \in grants'[p]
                 PROVE  /\ e.at + 2 * Len[p] <= zexp'[p]
                        /\ e.at + Len[p] - Slack > now' => MemberOf(e) \in zset'[p]
        BY DEF StillThere, MemberOf
    <3> QED BY <1>1, <1>4, <1>9
  <2> QED BY <2>1, <2>2
<1>11. FewGranted(p)'
  <2> SUFFICES ASSUME NEW t \in Times
               PROVE  Cardinality(Granted(p, t, Len[p] - Slack)') <= LargestLimit(p)
      BY DEF FewGranted, LargestLimit
  <2> DEFINE old == Granted(p, t, Len[p] - Slack)
             new == Granted(p, t, Len[p] - Slack)'
  <2>1. new \subseteq grants'[p] /\ IsFiniteSet(new)
    <3>1. new \subseteq grants'[p]
          BY DEF Granted
    <3>2. IsFiniteSet(grants'[p])
          BY <1>1 DEF LimitInv, Past
    <3> QED BY <3>1, <3>2, FS_Subset
  <2>2. CASE grant \in new
    <3>1. t \in Nat /\ now < t + Len[p] - Slack
          BY <1>1, <2>2 DEF Granted, GrantOf, Times
    <3>2. \A e \in new : MemberOf(e) \in zset'[p]
      <4> SUFFICES ASSUME NEW e \in new PROVE MemberOf(e) \in zset'[p]
          OBVIOUS
      <4>1. t <= e.at /\ e \in grants'[p]
            BY DEF Granted
      <4> QED BY <1>1, <1>9, <3>1, <4>1
    <3>3. \A e, f \in new : e.id = f.id => e = f
          BY <1>1, <2>1 DEF LimitInv, Ids, GrantedOnce
    <3>4. Cardinality(new) <= Cardinality(zset'[p])
          BY <1>8, <2>1, <3>2, <3>3, GrantedMembers
    <3> QED BY <1>1, <1>5, <1>8, <2>1, <3>4, FS_CardinalityType
  <2>3. CASE grant \notin new
    <3>1. new \subseteq old
          BY <1>4, <2>3 DEF Granted
    <3>2. IsFiniteSet(old) /\ Cardinality(old) \in Nat /\ Cardinality(old) <= LargestLimit(p)
          BY <1>1, <1>6, GrantedFinite DEF FewGranted
    <3> QED BY <1>5, <3>1, <3>2, FS_Subset, FS_CardinalityType
  <2> QED BY <2>2, <2>3
<1>12. ASSUME NEW q \in Periods \ {p}
       PROVE  StillThere(q)' /\ FewMembers(q)' /\ FewGranted(q)'
  <2>1. zset'[q] = zset[q] /\ zexp'[q] = zexp[q] /\ grants'[q] = grants[q]
        BY <1>4
  <2>2. StillThere(q) /\ FewMembers(q) /\ FewGranted(q)
        BY <1>6
  <2>3. StillThere(q)' /\ FewMembers(q)'
        BY <2>1, <2>2 DEF StillThere, FewMembers, MemberOf
  <2>4. LargestLimit(q)' = LargestLimit(q)
        BY DEF LargestLimit
  <2>5. \A t \in Times : Granted(q, t, Len[q] - Slack)' = Granted(q, t, Len[q] - Slack)
        BY <2>1 DEF Granted
  <2> QED BY <2>2, <2>3, <2>4, <2>5 DEF FewGranted
<1>13. RetryAfterEnough'
  <2>1. now' \in Nat /\ now <= now'
        BY <1>1
  <2>2. \A q \in Periods : \/ promise' = None \/ promise.period # q
                           \/ zset'[q] \subseteq zset[q] /\ zexp'[q] = zexp[q]
        BY <1>2, <1>4
  <2> QED BY <1>2, <2>1, <2>2, SlidingPromiseKept
<1> QED BY <1>10, <1>11, <1>12, <1>13 DEF SlidingInv

\* ... and a script that denies one: when the oldest member has left the
\* window there is room.
LEMMA SlidingDeny ==
  ASSUME LimitInv, SlidingInv, cfg.strategy = "sliding_window",
         NEW r \in Slots, req[r].pc = "sent", NEW p \in Periods, req[r].period = p,
         cfg' = cfg, now' = now,
         ~SlidingPasses(p, req[r].limit[p], req[r].stamp),
         zset' = [zset EXCEPT ![p] = Kept(p, req[r].stamp)], zexp' = zexp,
         NEW first \in Kept(p, req[r].stamp),
         Deny(r, IF first.score > 0 THEN first.score + Len[p] ELSE req[r].stamp + Len[p])
  PROVE  SlidingInv'
<1> DEFINE kept == Kept(p, req[r].stamp)
           limit == req[r].limit[p]
           reset == IF first.score > 0 THEN first.score + Len[p] ELSE req[r].stamp + Len[p]
           clock == Clock(req[r].g)
<1>1. /\ p \in Periods /\ now \in Nat /\ Len[p] \in Nat \ {0} /\ Slack \in Nat
      /\ req[r].stamp \in Nat /\ limit \in Nat /\ clock \in Nat
      BY SentTypes, SlackType
<1>2. first \in zset[p] /\ first.score \in Nat
      BY <1>1 DEF Kept, LimitInv, LimitTypes, Member
<1>3. reset \in Int /\ reset >= first.score + Len[p]
      BY <1>1, <1>2
<1> HIDE DEF reset
<1>4. /\ grants' = grants
      /\ \/ promise' = promise
         \/ promise' = [period |-> p, limit |-> limit,
                        window |-> req[r].stamp \div Len[p],
                        at |-> clock + RetryAfter(reset, clock)]
      BY <1>3, DenyGrants DEF reset
<1>5. \A q \in Periods : StillThere(q) /\ FewMembers(q) /\ FewGranted(q)
      BY DEF SlidingInv
<1>6. /\ zset'[p] = kept
      /\ \A q \in Periods \ {p} : zset'[q] = zset[q]
      BY <1>1 DEF LimitInv, LimitTypes
<1>7. /\ IsFiniteSet(kept) /\ Cardinality(kept) \in Nat
      /\ ~cfg.plan => Cardinality(kept) <= cfg.limits[p]
      BY <1>1, <1>5, KeptFinite, LargestLimitDef DEF FewMembers, LimitInv, LimitTypes
<1>8. ASSUME NEW q \in Periods
      PROVE  StillThere(q)' /\ FewMembers(q)' /\ FewGranted(q)'
  <2>1. StillThere(q) /\ FewMembers(q) /\ FewGranted(q)
        BY <1>5
  <2>2. StillThere(q)'
    <3> SUFFICES ASSUME NEW e \in grants[q], e.at + Len[q] - Slack > now
                 PROVE  MemberOf(e) \in zset'[q]
        BY <1>4, <2>1 DEF StillThere, MemberOf
    <3>1. MemberOf(e) \in zset[q]
          BY <2>1 DEF StillThere
    <3> QED BY <1>6, <2>1, <3>1, RecentKept
  <2>3. FewMembers(q)'
        BY <1>6, <1>7, <2>1 DEF FewMembers
  <2>4. LargestLimit(q)' = LargestLimit(q)
        BY DEF LargestLimit
  <2>5. \A t \in Times : Granted(q, t, Len[q] - Slack)' = Granted(q, t, Len[q] - Slack)
        BY <1>4 DEF Granted
  <2> QED BY <2>1, <2>2, <2>3, <2>4, <2>5 DEF FewGranted
<1>9. RetryAfterEnough'
  <2>1. CASE promise' = promise
    <3>1. \A q \in Periods : zset'[q] \subseteq zset[q]
          BY <1>6 DEF Kept
    <3>2. now' \in Nat /\ now <= now'
          BY <1>1
    <3> QED BY <2>1, <3>1, <3>2, SlidingPromiseKept
  <2>2. CASE promise' = [period |-> p, limit |-> limit, window |-> req[r].stamp \div Len[p],
                         at |-> clock + RetryAfter(reset, clock)]
    <3> SUFFICES ASSUME ~cfg.plan, NEW at, at = promise'.at + Slack, NEW lim, lim = limit
                 PROVE  SlidingPasses(p, lim, at)'
        BY <2>2 DEF RetryAfterEnough
    <3>1. at \in Int /\ at >= reset
          BY <1>1, <1>3, <2>2 DEF RetryAfter
    <3>2. Kept(p, at)' \subseteq kept \ {first}
      <4>1. Kept(p, at)' \subseteq kept
            BY <1>6 DEF Kept
      <4>2. ~InWindow(first.score, at, Len[p])
            BY <1>1, <1>2, <1>3, <3>1 DEF InWindow
      <4>3. first \notin Kept(p, at)'
            BY <4>2 DEF Kept, InWindow
      <4> QED BY <4>1, <4>3
    <3>3. IsFiniteSet(kept \ {first}) /\ Cardinality(kept \ {first}) = Cardinality(kept) - 1
          BY <1>7, FS_RemoveElement
    <3>4. Cardinality(Kept(p, at)') <= Cardinality(kept) - 1 /\ Cardinality(Kept(p, at)') \in Nat
          BY <3>2, <3>3, FS_Subset, FS_CardinalityType
    <3>5. limit = cfg.limits[p]
          BY <1>1 DEF LimitInv, Served, Fits
    <3>6. Cardinality(Kept(p, at)') < limit
          BY <1>1, <1>7, <3>4, <3>5
    <3> QED BY <3>6 DEF SlidingPasses
  <2> QED BY <1>4, <2>1, <2>2
<1> QED BY <1>8, <1>9 DEF SlidingInv

\* SlidingInv is inductive relative to LimitInv.
LEMMA SlidingStep ==
  ASSUME LimitInv, LimitInv', SlidingInv, cfg.strategy = "sliding_window", LimitNext
  PROVE  SlidingInv'
<1>1. CASE NoScript
  <2>1. Quiet /\ now' \in Times /\ now <= now'
        BY <1>1, NoScriptInv DEF LimitInv, LimitTypes, Times, TimePasses
  <2> QED BY <2>1, SlidingQuiet
<1>2. ASSUME NEW r \in Slots, SlidingRuns(r)
      PROVE  SlidingInv'
  <2>1. req[r].pc = "sent" /\ cfg' = cfg /\ now' = now
        BY <1>2 DEF SlidingRuns
  <2>p. PICK p \in Periods : req[r].period = p
        BY <2>1, SentTypes
  <2>2. CASE SlidingPasses(p, req[r].limit[p], req[r].stamp)
        BY <1>2, <2>1, <2>p, <2>2, SlidingPass DEF SlidingRuns
  <2>3. CASE ~SlidingPasses(p, req[r].limit[p], req[r].stamp)
        BY <1>2, <2>1, <2>p, <2>3, SlidingDeny DEF SlidingRuns
  <2> QED BY <2>2, <2>3
<1>3. ASSUME NEW r \in Slots, FixedRuns(r) \/ BucketRuns(r)
      PROVE  FALSE
      BY <1>3 DEF FixedRuns, BucketRuns
<1> QED BY <1>1, <1>2, <1>3, LimitSteps

----------------------------------------------------------------------------
Window(p, e) == e.stamp \div Len[p]
\* Gateways named window w of p at t.
Named(p, w, t) == \E s \in Nat : s \div Len[p] = w /\ Read(s, t)
\* What the counter of window w that expired or expires at x let pass, and
\* what of it after the tick in which it was created.
Counted(p, w, x) == {e \in grants[p] : Window(p, e) = w /\ e.exp = x}
CountedLater(p, w, x) == {e \in Counted(p, w, x) : e.at > x - Len[p]}

\* The counter of a window, and all the counters it has had.
CounterNow(p, w) ==
  LET x == cexp[p][w] IN
  /\ x <= now + Len[p]
  /\ x > 0 => /\ count[p][w] > 0 /\ Named(p, w, x - Len[p])
              /\ Cardinality(Counted(p, w, x)) <= count[p][w]
              /\ Cardinality(CountedLater(p, w, x)) < count[p][w]
CountersFew(p, w) == \A x \in Nat :
  /\ Cardinality(Counted(p, w, x)) <= LargestLimit(p)
  /\ LargestLimit(p) > 0 => Cardinality(CountedLater(p, w, x)) < LargestLimit(p)
GrantPlaced(p) == \A e \in grants[p] :
  /\ e.at < e.exp /\ e.exp <= e.at + Len[p]
  /\ Named(p, Window(p, e), e.exp - Len[p])
  /\ Window(p, e) \in Windows
  /\ LET x == cexp[p][Window(p, e)] IN e.exp = x \/ e.exp <= x - Len[p]
CountersApart(p) == \A e, f \in grants[p] :
  Window(p, e) = Window(p, f) /\ e.exp < f.exp => e.exp <= f.exp - Len[p]
Counters(p) ==
  GrantPlaced(p) /\ CountersApart(p) /\ \A w \in Windows : CounterNow(p, w) /\ CountersFew(p, w)
FixedInv ==
  cfg.strategy = "fixed_window" => (\A p \in Periods : Counters(p)) /\ RetryAfterEnough

\* A set covered by three finite sets.
LEMMA ThreeSets ==
  ASSUME NEW A, NEW B, NEW C, NEW G, IsFiniteSet(A), IsFiniteSet(B), IsFiniteSet(C),
         G \subseteq A \cup B \cup C
  PROVE  /\ Cardinality(G) <= Cardinality(A) + Cardinality(B) + Cardinality(C)
         /\ Cardinality(G) \in Nat /\ Cardinality(A) \in Nat /\ Cardinality(B) \in Nat
         /\ Cardinality(C) \in Nat
<1>1. /\ IsFiniteSet(A \cup B) /\ IsFiniteSet(A \cap B)
      /\ Cardinality(A \cup B) = Cardinality(A) + Cardinality(B) - Cardinality(A \cap B)
  <2>1. IsFiniteSet(A \cap B)
        BY FS_Subset, A \cap B \subseteq A
  <2> QED BY <2>1, FS_Union
<1>2. /\ IsFiniteSet((A \cup B) \cup C) /\ IsFiniteSet((A \cup B) \cap C)
      /\ Cardinality((A \cup B) \cup C)
           = Cardinality(A \cup B) + Cardinality(C) - Cardinality((A \cup B) \cap C)
  <2>1. IsFiniteSet((A \cup B) \cap C)
        BY FS_Subset, (A \cup B) \cap C \subseteq C
  <2> QED BY <1>1, <2>1, FS_Union
<1>3. IsFiniteSet(G) /\ Cardinality(G) <= Cardinality((A \cup B) \cup C)
      BY <1>2, FS_Subset
<1>4. /\ Cardinality(A) \in Nat /\ Cardinality(B) \in Nat /\ Cardinality(C) \in Nat
      /\ Cardinality(G) \in Nat /\ Cardinality(A \cap B) \in Nat
      /\ Cardinality((A \cup B) \cap C) \in Nat
      BY <1>1, <1>2, <1>3, FS_CardinalityType
<1> QED BY <1>1, <1>2, <1>3, <1>4

\* A counter counted finitely many requests.
LEMMA CountedFinite ==
  ASSUME LimitInv, NEW p \in Periods, NEW w, NEW x
  PROVE  /\ IsFiniteSet(Counted(p, w, x)) /\ IsFiniteSet(CountedLater(p, w, x))
         /\ Cardinality(Counted(p, w, x)) \in Nat /\ Cardinality(CountedLater(p, w, x)) \in Nat
         /\ Cardinality(CountedLater(p, w, x)) <= Cardinality(Counted(p, w, x))
<1>1. IsFiniteSet(grants[p])
      BY DEF LimitInv, Past
<1>2. Counted(p, w, x) \subseteq grants[p] /\ CountedLater(p, w, x) \subseteq Counted(p, w, x)
      BY DEF Counted, CountedLater
<1> QED BY <1>1, <1>2, FS_Subset, FS_CardinalityType

\* The fields of a request that was let pass.
LEMMA GrantTypes ==
  ASSUME LimitInv, NEW p \in Periods, NEW e \in grants[p]
  PROVE  /\ e.id \in Nat /\ e.stamp \in Nat /\ e.at \in Nat /\ e.exp \in Nat /\ e.at <= now
         /\ Read(e.stamp, e.at) /\ Window(p, e) \in Int
         /\ Len[p] \in Nat \ {0} /\ now \in Nat /\ Slack \in Nat
<1>1. /\ e.stamp \in Nat /\ Len[p] \in Nat \ {0}
      BY ClockAssumption DEF LimitInv, LimitTypes, Grant
<1>2. Window(p, e) \in Int
      BY <1>1, DivDef DEF Window
<1> QED BY <1>1, <1>2, SlackType DEF LimitInv, LimitTypes, Past, Grant, Times

\* A window that two gateways named at times at least its length apart.
LEMMA NamedTwice ==
  ASSUME NEW p \in Periods, NEW w \in Int, NEW v \in Int, NEW t \in Int, NEW u \in Int,
         Named(p, w, t), Named(p, v, u)
  PROVE  /\ w = v /\ t <= u - Len[p] => Slack >= 1
         /\ w < v => t - u < Slack
<1>1. PICK s \in Nat : s \div Len[p] = w /\ Read(s, t)
      BY DEF Named
<1>2. PICK z \in Nat : z \div Len[p] = v /\ Read(z, u)
      BY DEF Named
<1>3. s - z <= t - u + Slack /\ z - s <= u - t + Slack
      BY <1>1, <1>2, PairRead
<1>4. Len[p] \in Nat \ {0} /\ Slack \in Nat
      BY ClockAssumption, SlackType
<1>5. ASSUME w = v, t <= u - Len[p] PROVE Slack >= 1
  <2>1. z - s <= Len[p] - 1
        BY <1>1, <1>2, <1>4, <1>5, SameWindow
  <2> QED BY <1>3, <1>4, <1>5, <2>1
<1>6. ASSUME w < v PROVE t - u < Slack
  <2>1. s < z
        BY <1>1, <1>2, <1>4, <1>6, EarlierWindow
  <2> QED BY <1>3, <1>4, <2>1
<1> QED BY <1>5, <1>6

\* What passed in a stretch was counted by at most three counters, and by two
\* of them only when the counters of one window did not lapse early.
LEMMA FixedBound ==
  ASSUME LimitInv, FixedInv, cfg.strategy = "fixed_window", NEW p \in Periods, NEW t \in Times,
         LargestLimit(p) > 0
  PROVE  Cardinality(Granted(p, t, Len[p] - Slack))
           <= IF Slack = 0 THEN 2 * LargestLimit(p) ELSE 3 * LargestLimit(p) - 1
<1> DEFINE G == Granted(p, t, Len[p] - Slack)
           L == LargestLimit(p)
           W(e) == Window(p, e)
<1>0. L \in Nat /\ t \in Nat /\ Len[p] \in Nat \ {0} /\ Slack \in Nat
      BY LargestLimitDef, SlackType, ClockAssumption DEF LimitInv, LimitTypes, Times
<1>1. ASSUME NEW e \in G
      PROVE  /\ e \in grants[p] /\ e.at \in Nat /\ e.exp \in Nat /\ e.stamp \in Nat
             /\ W(e) \in Int /\ W(e) \in Windows
             /\ t <= e.at /\ e.at < t + Len[p] - Slack
             /\ e.at < e.exp /\ e.exp <= e.at + Len[p]
             /\ Read(e.stamp, e.at) /\ Named(p, W(e), e.exp - Len[p])
  <2>1. e \in grants[p] /\ t <= e.at /\ e.at < t + (Len[p] - Slack)
        BY DEF Granted
  <2>2. GrantPlaced(p)
        BY DEF FixedInv, Counters
  <2> QED BY <1>0, <2>1, <2>2, GrantTypes DEF GrantPlaced
<1>2. ASSUME NEW e \in G, NEW f \in G
      PROVE  W(e) <= W(f) + 1
  <2>1. e.stamp - f.stamp <= e.at - f.at + Slack
        BY <1>1, PairRead
  <2>2. e.stamp - f.stamp < Len[p]
        BY <1>0, <1>1, <2>1
  <2>3. /\ e.stamp \in Nat /\ f.stamp \in Nat
        /\ W(e) = e.stamp \div Len[p] /\ W(f) = f.stamp \div Len[p]
        /\ W(e) \in Int /\ W(f) \in Int
        BY <1>1 DEF Window
  <2>4. ~(f.stamp + Len[p] < e.stamp)
        BY <1>0, <2>2, <2>3
  <2>5. ~(W(f) + 1 < W(e))
        BY <1>0, <2>3, <2>4, EarlierWindow
  <2> HIDE DEF W
  <2> QED BY <2>3, <2>5
<1>3. ASSUME NEW e \in G, NEW f \in G, W(e) = W(f), e.exp < f.exp
      PROVE  e.exp <= f.exp - Len[p]
  <2>1. CountersApart(p)
        BY DEF FixedInv, Counters
  <2> QED BY <1>1, <1>3, <2>1 DEF CountersApart
<1> HIDE DEF W
\* A window has at most two counters in the stretch, ...
<1>4. ASSUME NEW e \in G, NEW f \in G, NEW g \in G, W(e) = W(f), W(f) = W(g),
             e.exp < f.exp, f.exp < g.exp
      PROVE  FALSE
  <2>1. e.exp <= f.exp - Len[p] /\ f.exp <= g.exp - Len[p]
        BY <1>3, <1>4
  <2> QED BY <1>0, <1>1, <2>1
\* ... only if it is named for longer than its length, ...
<1>5. ASSUME NEW e \in G, NEW f \in G, W(e) = W(f), e.exp < f.exp
      PROVE  Slack >= 1 /\ e.at > e.exp - Len[p]
  <2>1. e.exp <= f.exp - Len[p]
        BY <1>3, <1>5
  <2>2. /\ e.exp - Len[p] \in Int /\ f.exp - Len[p] \in Int
        /\ e.exp - Len[p] <= (f.exp - Len[p]) - Len[p]
        BY <1>0, <1>1, <2>1
  <2>3. Slack >= 1
        BY <1>1, <1>5, <2>2, NamedTwice
  <2> QED BY <1>0, <1>1, <2>1, <2>3
\* ... and only one of two windows has two.
<1>6. ASSUME NEW e \in G, NEW f \in G, NEW g \in G, NEW h \in G,
             W(e) = W(f), e.exp < f.exp, W(g) = W(h), g.exp < h.exp
      PROVE  ~(W(e) < W(g))
  <2> SUFFICES ASSUME W(e) < W(g) PROVE FALSE
      OBVIOUS
  <2>1. e.exp <= f.exp - Len[p] /\ g.exp <= h.exp - Len[p]
        BY <1>3, <1>6
  <2>2. Named(p, W(f), f.exp - Len[p]) /\ Named(p, W(g), g.exp - Len[p])
        BY <1>1
  <2>3. /\ f.exp - Len[p] \in Int /\ g.exp - Len[p] \in Int
        /\ W(f) \in Int /\ W(g) \in Int /\ W(f) < W(g)
        BY <1>0, <1>1, <1>6
  <2>4. (f.exp - Len[p]) - (g.exp - Len[p]) < Slack
        BY <2>2, <2>3, NamedTwice
  <2> QED BY <1>0, <1>1, <2>1, <2>4
<1>7. ASSUME NEW e \in G
      PROVE  /\ IsFiniteSet(Counted(p, W(e), e.exp)) /\ IsFiniteSet(CountedLater(p, W(e), e.exp))
             /\ Cardinality(Counted(p, W(e), e.exp)) <= L
             /\ Cardinality(CountedLater(p, W(e), e.exp)) <= L - 1
             /\ Cardinality(Counted(p, W(e), e.exp)) \in Nat
             /\ Cardinality(CountedLater(p, W(e), e.exp)) \in Nat
  <2>1. CountersFew(p, W(e))
        BY <1>1 DEF FixedInv, Counters
  <2>2. /\ IsFiniteSet(Counted(p, W(e), e.exp)) /\ IsFiniteSet(CountedLater(p, W(e), e.exp))
        /\ Cardinality(Counted(p, W(e), e.exp)) \in Nat
        /\ Cardinality(CountedLater(p, W(e), e.exp)) \in Nat
        BY CountedFinite
  <2>3. /\ Cardinality(Counted(p, W(e), e.exp)) <= L
        /\ Cardinality(CountedLater(p, W(e), e.exp)) < L
        BY <1>1, <2>1 DEF CountersFew
  <2> QED BY <1>0, <2>2, <2>3
<1>8. ASSUME NEW e \in G, NEW f \in G, W(e) = W(f), e.exp = f.exp
      PROVE  f \in Counted(p, W(e), e.exp)
      BY <1>1, <1>8 DEF Counted, W
<1>9. CASE \E e, f \in G : W(e) = W(f) /\ e.exp < f.exp
  <2>1. PICK e \in G, f \in G : W(e) = W(f) /\ e.exp < f.exp
        BY <1>9
  <2>2. ASSUME NEW h \in G, W(h) = W(e)
        PROVE  h \in CountedLater(p, W(e), e.exp) \cup Counted(p, W(f), f.exp)
    <3>1. h.exp = e.exp \/ h.exp = f.exp
          BY <1>1, <1>4, <2>1, <2>2
    <3>2. CASE h.exp = e.exp
      <4>1. h.at > h.exp - Len[p]
            BY <1>5, <2>1, <2>2, <3>2
      <4>2. h \in Counted(p, W(e), e.exp)
            BY <1>8, <2>2, <3>2
      <4> QED BY <3>2, <4>1, <4>2 DEF CountedLater
    <3>3. CASE h.exp = f.exp
          BY <1>8, <2>1, <2>2, <3>3
    <3> QED BY <3>1, <3>2, <3>3
  <2>3. \E g \in G : G \subseteq CountedLater(p, W(e), e.exp) \cup Counted(p, W(f), f.exp)
                                  \cup Counted(p, W(g), g.exp)
    <3>1. CASE \A h \in G : W(h) = W(e)
          BY <2>2, <3>1
    <3>2. CASE \E g \in G : W(g) # W(e)
      <4>1. PICK g \in G : W(g) # W(e)
            BY <3>2
      <4>2. ASSUME NEW h \in G, W(h) # W(e)
            PROVE  h \in Counted(p, W(g), g.exp)
        <5>1. W(h) = W(g)
              BY <1>1, <1>2, <4>1, <4>2
        <5>2. h.exp = g.exp
          <6>1. ~(h.exp < g.exp)
                BY <1>1, <1>6, <2>1, <4>1, <5>1
          <6>2. ~(g.exp < h.exp)
                BY <1>1, <1>6, <2>1, <4>1, <5>1
          <6> QED BY <1>1, <6>1, <6>2
        <5> QED BY <1>8, <5>1, <5>2
      <4> QED BY <2>2, <4>1, <4>2
    <3> QED BY <3>1, <3>2
  <2>4. PICK g \in G : G \subseteq CountedLater(p, W(e), e.exp) \cup Counted(p, W(f), f.exp)
                                     \cup Counted(p, W(g), g.exp)
        BY <2>3
  <2> DEFINE a == Cardinality(CountedLater(p, W(e), e.exp))
             b == Cardinality(Counted(p, W(f), f.exp))
             c == Cardinality(Counted(p, W(g), g.exp))
  <2>5. /\ Cardinality(G) <= a + b + c /\ Cardinality(G) \in Nat
        /\ a \in Nat /\ b \in Nat /\ c \in Nat
        BY <1>7, <2>4, ThreeSets
  <2>6. a <= L - 1 /\ b <= L /\ c <= L
        BY <1>7
  <2>7. Slack # 0
        BY <1>0, <1>5, <2>1
  <2> HIDE DEF a, b, c, L, G
  <2>8. Cardinality(G) <= 3 * L - 1
        BY <1>0, <2>5, <2>6
  <2> QED BY <2>7, <2>8 DEF L, G
<1>10. CASE (\A e, f \in G : W(e) = W(f) => e.exp = f.exp) /\ G # {}
  <2>1. PICK e \in G : TRUE
        BY <1>10
  <2>2. \E g \in G : G \subseteq Counted(p, W(e), e.exp) \cup Counted(p, W(g), g.exp) \cup {}
    <3>1. CASE \A h \in G : W(h) = W(e)
          BY <1>8, <1>10, <2>1, <3>1
    <3>2. CASE \E g \in G : W(g) # W(e)
      <4>1. PICK g \in G : W(g) # W(e)
            BY <3>2
      <4>2. ASSUME NEW h \in G, W(h) # W(e)
            PROVE  W(h) = W(g)
            BY <1>1, <1>2, <2>1, <4>1, <4>2
      <4> QED BY <1>8, <1>10, <2>1, <4>1, <4>2
    <3> QED BY <3>1, <3>2
  <2>3. PICK g \in G : G \subseteq Counted(p, W(e), e.exp) \cup Counted(p, W(g), g.exp) \cup {}
        BY <2>2
  <2> DEFINE a == Cardinality(Counted(p, W(e), e.exp))
             b == Cardinality(Counted(p, W(g), g.exp))
  <2>4. /\ Cardinality(G) <= a + b + 0 /\ Cardinality(G) \in Nat
        /\ a \in Nat /\ b \in Nat
        BY <1>7, <2>1, <2>3, ThreeSets, FS_EmptySet
  <2>5. a <= L /\ b <= L
        BY <1>7, <2>1
  <2> HIDE DEF a, b, L, G
  <2>6. Cardinality(G) <= 2 * L /\ 2 * L <= 3 * L - 1
    <3>1. L \in Nat /\ L > 0
          BY <1>0 DEF L
    <3> QED BY <2>4, <2>5, <3>1
  <2>7. Cardinality(G) <= 3 * L - 1
    <3>1. L \in Nat
          BY <1>0
    <3> QED BY <2>4, <2>6, <3>1
  <2> QED BY <2>6, <2>7 DEF L, G
<1>11. CASE G = {}
  <2>1. Cardinality(G) = 0
        BY <1>11, FS_EmptySet
  <2>2. 0 <= 2 * L /\ 0 <= 3 * L - 1
        BY <1>0
  <2> HIDE DEF G, L
  <2> QED BY <2>1, <2>2 DEF G, L
<1>12. \/ \E e, f \in G : W(e) = W(f) /\ e.exp < f.exp
       \/ \A e, f \in G : W(e) = W(f) => e.exp = f.exp
       BY <1>1
<1> QED BY <1>9, <1>10, <1>11, <1>12

\* A step that leaves counters and history alone preserves FixedInv, ...
LEMMA FixedQuiet ==
  ASSUME LimitInv, FixedInv, cfg.strategy = "fixed_window", cfg' = cfg,
         count' = count, cexp' = cexp, grants' = grants, promise' = promise,
         now' \in Times, now <= now'
  PROVE  FixedInv'
<1>1. ASSUME NEW p \in Periods PROVE Counters(p)'
  <2>1. Counters(p)
        BY DEF FixedInv
  <2>2. GrantPlaced(p)' /\ CountersApart(p)'
        BY <2>1 DEF Counters, GrantPlaced, CountersApart, Window, Named, Read, ReadBy
  <2>3. ASSUME NEW w \in Windows PROVE CounterNow(p, w)' /\ CountersFew(p, w)'
    <3>1. LargestLimit(p)' = LargestLimit(p)
          BY DEF LargestLimit
    <3>2. \A x : /\ Counted(p, w, x)' = Counted(p, w, x)
                 /\ CountedLater(p, w, x)' = CountedLater(p, w, x)
          BY DEF Counted, CountedLater, Window
    <3>3. CountersFew(p, w)'
          BY <2>1, <3>1, <3>2 DEF Counters, CountersFew
    <3>4. cexp[p][w] \in Nat /\ now \in Nat /\ now' \in Nat /\ Len[p] \in Nat
          BY CounterTypes DEF Times
    <3>5. cexp'[p][w] <= now' + Len[p]
          BY <2>1, <3>4 DEF Counters, CounterNow
    <3>6. CounterNow(p, w)'
      <4> DEFINE x == cexp[p][w]
      <4>1. x > 0 => /\ count[p][w] > 0 /\ Named(p, w, x - Len[p])
                     /\ Cardinality(Counted(p, w, x)) <= count[p][w]
                     /\ Cardinality(CountedLater(p, w, x)) < count[p][w]
            BY <2>1 DEF Counters, CounterNow
      <4>2. Named(p, w, x - Len[p]) => Named(p, w, x - Len[p])'
            BY DEF Named, Read, ReadBy
      <4>3. /\ Counted(p, w, cexp[p][w])' = Counted(p, w, cexp[p][w])
            /\ CountedLater(p, w, cexp[p][w])' = CountedLater(p, w, cexp[p][w])
            BY DEF Counted, CountedLater, Window
      <4> QED BY <3>5, <4>1, <4>2, <4>3 DEF CounterNow
    <3> QED BY <3>3, <3>6
  <2> QED BY <2>2, <2>3 DEF Counters
<1>2. RetryAfterEnough'
      BY DEF FixedInv, RetryAfterEnough
<1> QED BY <1>1, <1>2 DEF FixedInv

\* The window of p that a gateway names when its clock shows s.
WindowAt(p, s) == s \div Len[p]

\* The counter a script leaves, and what it let pass.
LEMMA CounterStep ==
  ASSUME LimitInv, LimitInv', NEW r \in Slots, req[r].pc = "sent",
         NEW p \in Periods, req[r].period = p, NEW w \in Windows, w = WindowAt(p, req[r].stamp),
         Counters(p), cfg' = cfg, now' = now,
         count' = [count EXCEPT ![p][w] = Current(p, w)],
         cexp' = [cexp EXCEPT ![p][w] = Expiry(p, w)],
         \/ grants' = grants
         \/ /\ grants' = [grants EXCEPT ![p] = @ \cup {GrantOf(r, Expiry(p, w))}]
            /\ Within(Current(p, w), req[r].limit[p])
  PROVE  Counters(p)' /\ Named(p, w, Expiry(p, w) - Len[p]) /\ now < Expiry(p, w)
<1> DEFINE exp == Expiry(p, w)
           cur == Current(p, w)
           grant == GrantOf(r, exp)
           limit == req[r].limit[p]
           L == LargestLimit(p)
<1>1. /\ cexp[p][w] \in Nat /\ count[p][w] \in Nat /\ cur \in Nat \ {0} /\ exp \in Nat
      /\ now \in Nat /\ Len[p] \in Nat \ {0} /\ limit \in Nat /\ req[r].stamp \in Nat
      /\ w \in Int /\ L \in Nat /\ limit <= L
  <2>1. /\ cexp[p][w] \in Nat /\ count[p][w] \in Nat /\ cur \in Nat \ {0} /\ exp \in Nat
        /\ now \in Nat /\ Len[p] \in Nat \ {0}
        BY CounterTypes
  <2>2. limit \in Nat /\ req[r].stamp \in Nat
        BY SentTypes
  <2>3. limit <= L
        BY DEF LimitInv, Served, Fits
  <2>4. L \in Nat
        BY LargestLimitDef DEF LimitInv, LimitTypes
  <2>5. WindowAt(p, req[r].stamp) \in Int
    <3>1. PICK b \in Nat \ {0} : b = Len[p]
          BY <2>1
    <3>2. \A n \in Nat : n \div b \in Int
          BY DivDef
    <3> QED BY <2>2, <3>1, <3>2 DEF WindowAt
  <2> QED BY <2>1, <2>2, <2>3, <2>4, <2>5
<1>2. GrantPlaced(p) /\ CountersApart(p) /\ CounterNow(p, w) /\ CountersFew(p, w)
      BY DEF Counters
<1>3. /\ cexp'[p][w] = exp /\ count'[p][w] = cur
      /\ \A v \in Windows \ {w} : cexp'[p][v] = cexp[p][v] /\ count'[p][v] = count[p][v]
      BY DEF LimitInv, LimitTypes
\* What CounterNow says of the counter as it is.
<1>a. /\ cexp[p][w] <= now + Len[p]
      /\ cexp[p][w] > 0 => /\ count[p][w] > 0 /\ Named(p, w, cexp[p][w] - Len[p])
                           /\ Cardinality(Counted(p, w, cexp[p][w])) <= count[p][w]
                           /\ Cardinality(CountedLater(p, w, cexp[p][w])) < count[p][w]
      BY <1>2, Zenon DEF CounterNow
<1>4. \/ /\ cexp[p][w] > now /\ exp = cexp[p][w] /\ cur = count[p][w] + 1 /\ count[p][w] > 0
      \/ /\ cexp[p][w] <= now /\ exp = now + Len[p] /\ cur = 1
  <2>1. cur = 1 + (IF cexp[p][w] > now THEN count[p][w] ELSE 0)
        BY DEF Current
  <2>2. exp = IF cur = 1 THEN now + Len[p] ELSE cexp[p][w]
        BY DEF Expiry
  <2>3. cexp[p][w] > 0 => count[p][w] > 0
        BY <1>a
  <2>t. /\ cexp[p][w] \in Nat /\ count[p][w] \in Nat /\ now \in Nat
        BY <1>1
  <2> HIDE DEF exp, cur
  <2>4. CASE cexp[p][w] > now
    <3>1. cur = 1 + count[p][w]
          BY <2>1, <2>4
    <3>2. count[p][w] > 0
          BY <2>3, <2>4, <2>t
    <3>3. cur # 1
          BY <3>1, <3>2, <2>t
    <3>4. exp = cexp[p][w]
          BY <2>2, <3>3
    <3>5. cur = count[p][w] + 1
          BY <3>1, <2>t
    <3> QED BY <2>4, <3>2, <3>4, <3>5
  <2>5. CASE cexp[p][w] <= now
    <3>1. ~(cexp[p][w] > now)
          BY <2>5, <2>t
    <3>2. cur = 1
          BY <2>1, <3>1
    <3>3. exp = now + Len[p]
          BY <2>2, <3>2
    <3> QED BY <2>5, <3>2, <3>3
  <2>6. cexp[p][w] > now \/ cexp[p][w] <= now
        BY <2>t
  <2> QED BY <2>4, <2>5, <2>6
<1>5. Named(p, w, now)
  <2>1. Read(req[r].stamp, now)
        BY DEF LimitInv, Served, Read
  <2> QED BY <1>1, <2>1 DEF Named, WindowAt
<1>6. now < exp /\ exp <= now + Len[p] /\ Named(p, w, exp - Len[p])
  <2>1. CASE cexp[p][w] > now /\ exp = cexp[p][w]
    <3>1. cexp[p][w] > 0
          BY <1>1, <2>1
    <3>2. Named(p, w, cexp[p][w] - Len[p])
          BY <1>a, <3>1
    <3> QED BY <1>a, <2>1, <3>2
  <2>2. CASE exp = now + Len[p]
    <3>1. exp - Len[p] = now
          BY <1>1, <2>2
    <3> QED BY <1>1, <1>5, <2>2, <3>1
  <2> QED BY <1>4, <2>1, <2>2
<1>7. /\ grants \in [Periods -> SUBSET Grant]
      /\ grants'[p] = grants[p] \/ (grants'[p] = grants[p] \cup {grant} /\ cur <= limit)
      BY DEF LimitInv, LimitTypes, Within
<1>8. grant.at = now /\ grant.exp = exp /\ Window(p, grant) = w /\ grant.stamp = req[r].stamp
      BY DEF GrantOf, Window, WindowAt
<1> HIDE DEF grant, exp, cur, limit, L
\* Old counters of the window have lapsed by the time exp belongs to.
<1>9. ASSUME NEW e \in grants[p], Window(p, e) = w
      PROVE  /\ e.exp = exp \/ e.exp <= exp - Len[p]
             /\ cexp[p][w] <= now => e.exp # exp
  <2>1. e.exp \in Nat /\ (e.exp = cexp[p][w] \/ e.exp <= cexp[p][w] - Len[p])
        BY <1>2, <1>9, GrantTypes DEF GrantPlaced
  <2> QED BY <1>1, <1>4, <2>1
<1>10. GrantPlaced(p)'
  <2> SUFFICES ASSUME NEW e \in grants'[p]
               PROVE  /\ e.at < e.exp /\ e.exp <= e.at + Len[p]
                      /\ Named(p, Window(p, e), e.exp - Len[p])
                      /\ Window(p, e) \in Windows
                      /\ \/ e.exp = cexp'[p][Window(p, e)]
                         \/ e.exp <= cexp'[p][Window(p, e)] - Len[p]
      BY DEF GrantPlaced, Named, Window, Read, ReadBy
  <2>1. CASE e \in grants[p]
    <3>1. CASE Window(p, e) = w
          BY <1>2, <1>3, <1>9, <2>1, <3>1 DEF GrantPlaced
    <3>2. CASE Window(p, e) # w
          BY <1>2, <1>3, <2>1, <3>2 DEF GrantPlaced
    <3> QED BY <3>1, <3>2
  <2>2. CASE e = grant
        BY <1>3, <1>6, <1>8, <2>2
  <2> QED BY <1>7, <2>1, <2>2
<1>11. CountersApart(p)'
  <2> SUFFICES ASSUME NEW e \in grants'[p], NEW f \in grants'[p],
                      Window(p, e) = Window(p, f), e.exp < f.exp
               PROVE  e.exp <= f.exp - Len[p]
      BY DEF CountersApart, Window
  <2>1. CASE e \in grants[p] /\ f \in grants[p]
        BY <1>2, <2>1 DEF CountersApart
  <2>2. CASE f = grant
    <3>1. e \in grants[p] /\ Window(p, e) = w
          BY <1>1, <1>7, <1>8, <2>2
    <3> QED BY <1>1, <1>8, <1>9, <2>2, <3>1
  <2>3. CASE e = grant
    <3>1. f \in grants[p] /\ Window(p, f) = w
          BY <1>1, <1>7, <1>8, <2>3
    <3>2. f.exp \in Nat
          BY <3>1, GrantTypes
    <3> QED BY <1>1, <1>8, <1>9, <2>3, <3>1, <3>2
  <2> QED BY <1>7, <2>1, <2>2, <2>3
\* The counters that are not this one.
<1>12. ASSUME NEW v, NEW x, v # w \/ x # exp
       PROVE  /\ Counted(p, v, x)' = Counted(p, v, x)
              /\ CountedLater(p, v, x)' = CountedLater(p, v, x)
  <2>1. Counted(p, v, x)' = Counted(p, v, x)
        BY <1>7, <1>8, <1>12 DEF Counted, Window
  <2> QED BY <2>1 DEF CountedLater
<1> DEFINE old == Counted(p, w, exp)
           later == CountedLater(p, w, exp)
<1>13. /\ IsFiniteSet(old) /\ IsFiniteSet(later)
       /\ Cardinality(old) \in Nat /\ Cardinality(later) \in Nat
       BY CountedFinite
<1>14. Cardinality(old) + 1 <= cur /\ Cardinality(later) + 1 <= cur
  <2>1. CASE cexp[p][w] > now /\ exp = cexp[p][w] /\ cur = count[p][w] + 1
    <3>1. cexp[p][w] > 0
          BY <1>1, <2>1
    <3>2. /\ Cardinality(Counted(p, w, cexp[p][w])) <= count[p][w]
          /\ Cardinality(CountedLater(p, w, cexp[p][w])) < count[p][w]
          BY <1>a, <3>1
    <3>3. Cardinality(old) <= count[p][w] /\ Cardinality(later) < count[p][w]
          BY <2>1, <3>2
    <3> HIDE DEF old, later
    <3> QED BY <1>1, <1>13, <2>1, <3>3
  <2>2. CASE cexp[p][w] <= now /\ cur = 1
    <3>1. old = {} /\ later = {}
          BY <1>9, <2>2 DEF Counted, CountedLater
    <3>2. Cardinality(old) = 0 /\ Cardinality(later) = 0
          BY <3>1, FS_EmptySet
    <3> QED BY <2>2, <3>2
  <2> QED BY <1>4, <2>1, <2>2
\* This one.
<1>15. ASSUME NEW x, x = exp
       PROVE  /\ Cardinality(Counted(p, w, x)') <= cur
              /\ Cardinality(CountedLater(p, w, x)') < cur
              /\ Cardinality(Counted(p, w, x)') \in Nat
              /\ Cardinality(CountedLater(p, w, x)') \in Nat
              /\ \/ Counted(p, w, x)' = old /\ CountedLater(p, w, x)' = later
                 \/ cur <= limit
  <2>1. CASE grants'[p] = grants[p]
    <3>1. Counted(p, w, x)' = old /\ CountedLater(p, w, x)' = later
          BY <1>15, <2>1 DEF Counted, CountedLater, Window
    <3> QED BY <1>1, <1>13, <1>14, <3>1
  <2>2. CASE grants'[p] = grants[p] \cup {grant} /\ cur <= limit
    <3>1. Counted(p, w, x)' = old \cup {grant}
          BY <1>8, <1>15, <2>2 DEF Counted, Window
    <3>2. \/ CountedLater(p, w, x)' = later \cup {grant} /\ cexp[p][w] > now
          \/ CountedLater(p, w, x)' = later
      <4>1. CASE cexp[p][w] > now
        <5>1. now > exp - Len[p] \/ now <= exp - Len[p]
              BY <1>1
        <5> QED BY <1>1, <1>8, <1>15, <3>1, <4>1 DEF CountedLater, Counted
      <4>2. CASE cexp[p][w] <= now
        <5>1. ~(grant.at > exp - Len[p])
              BY <1>1, <1>4, <1>8, <4>2
        <5> QED BY <1>15, <3>1, <5>1 DEF CountedLater, Counted
      <4> QED BY <1>1, <4>1, <4>2
    <3>3. Cardinality(old \cup {grant}) <= Cardinality(old) + 1
          /\ Cardinality(old \cup {grant}) \in Nat
          BY <1>13, AddOne
    <3>4. Cardinality(later \cup {grant}) <= Cardinality(later) + 1
          /\ Cardinality(later \cup {grant}) \in Nat
          BY <1>13, AddOne
    <3>5. cexp[p][w] > now => Cardinality(later) + 2 <= cur
      <4> SUFFICES ASSUME cexp[p][w] > now PROVE Cardinality(later) + 2 <= cur
          OBVIOUS
      <4>1. cexp[p][w] > 0 /\ exp = cexp[p][w] /\ cur = count[p][w] + 1
            BY <1>1, <1>4
      <4>2. Cardinality(CountedLater(p, w, cexp[p][w])) < count[p][w]
            BY <1>a, <4>1
      <4>3. Cardinality(later) < count[p][w]
            BY <4>1, <4>2
      <4>4. Cardinality(later) \in Nat /\ count[p][w] \in Nat
            BY <1>1, <1>13
      <4> HIDE DEF later
      <4>5. Cardinality(later) + 2 <= count[p][w] + 1
            BY <4>3, <4>4
      <4> QED BY <4>1, <4>5
    <3>6. Cardinality(CountedLater(p, w, x)') < cur
          /\ Cardinality(CountedLater(p, w, x)') \in Nat
      <4> HIDE DEF old, later
      <4>1. CASE CountedLater(p, w, x)' = later \cup {grant} /\ cexp[p][w] > now
        <5>1. Cardinality(later) + 2 <= cur /\ Cardinality(later) \in Nat /\ cur \in Nat
              BY <1>1, <1>13, <3>5, <4>1
        <5>2. Cardinality(later \cup {grant}) < cur /\ Cardinality(later \cup {grant}) \in Nat
              BY <3>4, <5>1
        <5> QED BY <4>1, <5>2
      <4>2. CASE CountedLater(p, w, x)' = later
            BY <1>1, <1>13, <1>14, <4>2
      <4> QED BY <3>2, <4>1, <4>2
    <3>7. Cardinality(Counted(p, w, x)') <= cur /\ Cardinality(Counted(p, w, x)') \in Nat
      <4> HIDE DEF old, later
      <4>1. Cardinality(old) + 1 <= cur /\ Cardinality(old) \in Nat /\ cur \in Nat
            BY <1>1, <1>13, <1>14
      <4>2. Cardinality(old \cup {grant}) <= cur /\ Cardinality(old \cup {grant}) \in Nat
            BY <3>3, <4>1
      <4> QED BY <3>1, <4>2
    <3> QED BY <2>2, <3>6, <3>7
  <2> QED BY <1>7, <2>1, <2>2
<1>16. ASSUME NEW v \in Windows
       PROVE  CounterNow(p, v)' /\ CountersFew(p, v)'
  <2>0. LargestLimit(p)' = L
        BY DEF LargestLimit, L
  <2>1. CASE v = w
    <3> SUFFICES CounterNow(p, w)' /\ CountersFew(p, w)'
        BY <2>1
    <3>1. PICK x : x = exp
          OBVIOUS
    <3>2. CounterNow(p, w)'
      <4>1. cexp'[p][w] = x /\ count'[p][w] = cur
            BY <1>3, <3>1
      <4>2. Counted(p, w, cexp[p][w])' = Counted(p, w, x)'
            /\ CountedLater(p, w, cexp[p][w])' = CountedLater(p, w, x)'
            BY <4>1 DEF Counted, CountedLater
      <4>3. Named(p, w, cexp[p][w] - Len[p])'
            BY <1>6, <3>1, <4>1 DEF Named, Read, ReadBy
      <4>4. /\ x <= now' + Len[p] /\ cur > 0
            /\ Cardinality(Counted(p, w, x)') <= cur
            /\ Cardinality(CountedLater(p, w, x)') < cur
            BY <1>1, <1>6, <1>15, <3>1
      <4>5. /\ cexp'[p][w] <= now' + Len[p] /\ count'[p][w] > 0
            /\ Cardinality(Counted(p, w, cexp[p][w])') <= count'[p][w]
            /\ Cardinality(CountedLater(p, w, cexp[p][w])') < count'[p][w]
            BY <4>1, <4>2, <4>4
      <4> QED BY <4>3, <4>5, Zenon DEF CounterNow
    <3>3. CountersFew(p, w)'
      <4> SUFFICES ASSUME NEW y \in Nat
                   PROVE  /\ Cardinality(Counted(p, w, y)') <= L
                          /\ L > 0 => Cardinality(CountedLater(p, w, y)') < L
          BY <2>0 DEF CountersFew
      <4>1. /\ Cardinality(Counted(p, w, y)) <= L
            /\ L > 0 => Cardinality(CountedLater(p, w, y)) < L
            BY <1>2 DEF CountersFew, L
      <4>2. CASE y = exp
            BY <1>1, <1>15, <4>1, <4>2
      <4>3. CASE y # exp
            BY <1>12, <4>1, <4>3
      <4> QED BY <4>2, <4>3
    <3> QED BY <3>2, <3>3
  <2>2. CASE v # w
    <3>1. CounterNow(p, v) /\ CountersFew(p, v)
          BY DEF Counters
    <3>2. cexp'[p][v] = cexp[p][v] /\ count'[p][v] = count[p][v]
          BY <1>3, <2>2
    <3>3. \A x : /\ Counted(p, v, x)' = Counted(p, v, x)
                 /\ CountedLater(p, v, x)' = CountedLater(p, v, x)
          BY <1>12, <2>2
    <3>4. CountersFew(p, v)'
          BY <2>0, <3>1, <3>3 DEF CountersFew, L
    <3>5. CounterNow(p, v)'
      <4>1. Counted(p, v, cexp[p][v])' = Counted(p, v, cexp[p][v])
            /\ CountedLater(p, v, cexp[p][v])' = CountedLater(p, v, cexp[p][v])
        <5>1. PICK x : x = cexp[p][v]
              OBVIOUS
        <5>2. Counted(p, v, cexp[p][v])' = Counted(p, v, x)'
              /\ CountedLater(p, v, cexp[p][v])' = CountedLater(p, v, x)'
              BY <3>2, <5>1 DEF Counted, CountedLater
        <5> QED BY <3>3, <5>1, <5>2
      <4>2. Named(p, v, cexp[p][v] - Len[p]) => Named(p, v, cexp[p][v] - Len[p])'
            BY <3>2 DEF Named, Read, ReadBy
      <4> QED BY <3>1, <3>2, <4>1, <4>2 DEF CounterNow
    <3> QED BY <3>4, <3>5
  <2> QED BY <2>1, <2>2
<1> QED BY <1>6, <1>10, <1>11, <1>16 DEF Counters, exp

\* The end of the window, by any clock, comes before the end of its counter by
\* the clock of the gateway that denies, and the clocks' difference.
LEMMA WindowOver ==
  ASSUME NEW p \in Periods, NEW w \in Int, NEW x \in Int, Named(p, w, x - Len[p]),
         NEW g \in Gateways, NEW at \in Nat, at >= x + Offset[g] + Slack
  PROVE  at \div Len[p] > w
<1>1. PICK s \in Nat : s \div Len[p] = w /\ Read(s, x - Len[p])
      BY DEF Named
<1>2. PICK h \in Gateways : ReadBy(h, s, x - Len[p])
      BY <1>1 DEF Read
<1>3. /\ Len[p] \in Nat \ {0} /\ Slack \in Nat /\ Skew <= Slack /\ Skew \in Nat
      /\ Offset[h] - Offset[g] <= Skew /\ Offset[g] \in Nat /\ Offset[h] \in Nat
      /\ Delay \in Nat
      BY ClockAssumption, SlackType DEF Slack
<1>4. s + Len[p] <= at
      BY <1>2, <1>3 DEF ReadBy
<1>5. PICK b \in Nat \ {0} : b = Len[p]
      BY <1>3
<1>6. at \div b \in Int /\ at < (at \div b) * b + b /\ (s \div b) * b <= s /\ b \in Nat \ {0}
      BY DivDef
<1>7. ~(at \div b <= w)
  <2> SUFFICES ASSUME at \div b <= w PROVE FALSE
      OBVIOUS
  <2>1. (at \div b) * b <= w * b
        BY <1>6, MulLeq
  <2> QED BY <1>1, <1>4, <1>5, <1>6, <2>1
<1> QED BY <1>5, <1>6, <1>7

\* ... and so does a script of the fixed window.
LEMMA FixedScript ==
  ASSUME LimitInv, LimitInv', FixedInv, cfg.strategy = "fixed_window",
         NEW r \in Slots, req[r].pc = "sent", NEW p \in Periods, req[r].period = p,
         FixedRuns(r)
  PROVE  FixedInv'
<1>1. PICK w \in Windows : w = req[r].stamp \div Len[p]
      BY SentTypes
<1> DEFINE exp == Expiry(p, w)
           limit == req[r].limit[p]
           clock == Clock(req[r].g)
           reset == clock + exp - now
<1>2. /\ count' = [count EXCEPT ![p][w] = Current(p, w)]
      /\ cexp' = [cexp EXCEPT ![p][w] = exp]
      /\ IF Within(Current(p, w), limit) THEN Pass(r, exp) ELSE Deny(r, reset)
      /\ cfg' = cfg /\ now' = now
      BY <1>1 DEF FixedRuns
<1>3. /\ exp \in Nat /\ clock \in Nat /\ now \in Nat /\ reset \in Int /\ w \in Int
      /\ Len[p] \in Nat \ {0} /\ req[r].g \in Gateways /\ Slack \in Nat
      /\ Offset[req[r].g] \in Nat /\ clock = now + Offset[req[r].g]
  <2>1. /\ exp \in Nat /\ clock \in Nat /\ now \in Nat /\ req[r].stamp \in Nat
        /\ Len[p] \in Nat \ {0} /\ req[r].g \in Gateways
        BY SentTypes, CounterTypes
  <2>2. w \in Int
        BY <1>1, <2>1, DivDef
  <2> QED BY <2>1, <2>2, SlackType, ClockAssumption DEF Clock
<1>4. /\ \/ grants' = grants
         \/ /\ grants' = [grants EXCEPT ![p] = @ \cup {GrantOf(r, exp)}]
            /\ Within(Current(p, w), limit)
      /\ \/ promise' = promise \/ promise' = None
         \/ promise' = [period |-> p, limit |-> limit, window |-> req[r].stamp \div Len[p],
                        at |-> clock + RetryAfter(reset, clock)]
  <2> HIDE DEF exp, reset, limit
  <2>1. CASE Within(Current(p, w), limit)
        BY <1>2, <1>3, <2>1, PassGrants
  <2>2. CASE ~Within(Current(p, w), limit)
        BY <1>2, <1>3, <2>2, DenyGrants DEF limit
  <2> QED BY <2>1, <2>2
<1>5. /\ Counters(p)' /\ Named(p, w, exp - Len[p]) /\ now < exp
  <2>1. Counters(p)
        BY DEF FixedInv
  <2>2. w = WindowAt(p, req[r].stamp)
        BY <1>1 DEF WindowAt
  <2> QED BY <1>2, <1>4, <2>1, <2>2, CounterStep
<1>6. ASSUME NEW q \in Periods \ {p} PROVE Counters(q)'
  <2>1. /\ grants'[q] = grants[q] /\ count'[q] = count[q] /\ cexp'[q] = cexp[q]
        BY <1>2, <1>4 DEF LimitInv, LimitTypes
  <2>2. Counters(q)
        BY DEF FixedInv
  <2>3. GrantPlaced(q)' /\ CountersApart(q)'
        BY <2>1, <2>2 DEF Counters, GrantPlaced, CountersApart, Window, Named, Read, ReadBy
  <2>4. ASSUME NEW v \in Windows PROVE CounterNow(q, v)' /\ CountersFew(q, v)'
    <3>1. CounterNow(q, v) /\ CountersFew(q, v)
          BY <2>2 DEF Counters
    <3>2. LargestLimit(q)' = LargestLimit(q)
          BY <1>2 DEF LargestLimit
    <3>3. \A x : /\ Counted(q, v, x)' = Counted(q, v, x)
                 /\ CountedLater(q, v, x)' = CountedLater(q, v, x)
          BY <2>1 DEF Counted, CountedLater, Window
    <3>4. CountersFew(q, v)'
          BY <3>1, <3>2, <3>3 DEF CountersFew
    <3>5. CounterNow(q, v)'
      <4>1. Counted(q, v, cexp[q][v])' = Counted(q, v, cexp[q][v])
            /\ CountedLater(q, v, cexp[q][v])' = CountedLater(q, v, cexp[q][v])
            BY <2>1 DEF Counted, CountedLater, Window
      <4>2. Named(q, v, cexp[q][v] - Len[q]) => Named(q, v, cexp[q][v] - Len[q])'
            BY <2>1 DEF Named, Read, ReadBy
      <4> QED BY <1>2, <2>1, <3>1, <4>1, <4>2 DEF CounterNow
    <3> QED BY <3>4, <3>5
  <2> QED BY <2>3, <2>4 DEF Counters
<1>7. RetryAfterEnough'
  <2>1. CASE promise' = promise \/ promise' = None
        BY <1>2, <2>1 DEF FixedInv, RetryAfterEnough
  <2>2. CASE promise' = [period |-> p, limit |-> limit, window |-> req[r].stamp \div Len[p],
                         at |-> clock + RetryAfter(reset, clock)]
    <3>1. /\ clock + RetryAfter(reset, clock) + Slack >= exp + Offset[req[r].g] + Slack
          /\ clock + RetryAfter(reset, clock) + Slack \in Nat
          BY <1>3 DEF RetryAfter
    <3> HIDE DEF exp, reset
    <3>2. (clock + RetryAfter(reset, clock) + Slack) \div Len[p] > w
          BY <1>3, <1>5, <3>1, WindowOver
    <3> QED BY <1>1, <1>2, <2>2, <3>2 DEF RetryAfterEnough
  <2> QED BY <1>4, <2>1, <2>2
<1> QED BY <1>2, <1>5, <1>6, <1>7 DEF FixedInv

\* FixedInv is inductive relative to LimitInv.
LEMMA FixedStep ==
  ASSUME LimitInv, LimitInv', FixedInv, cfg.strategy = "fixed_window", LimitNext
  PROVE  FixedInv'
<1>1. CASE NoScript
  <2>1. Quiet /\ now' \in Times /\ now <= now'
        BY <1>1, NoScriptInv DEF LimitInv, LimitTypes, Times, TimePasses
  <2> QED BY <2>1, FixedQuiet DEF Quiet, store
<1>2. ASSUME NEW r \in Slots, FixedRuns(r)
      PROVE  FixedInv'
  <2>1. req[r].pc = "sent"
        BY <1>2 DEF FixedRuns
  <2>2. PICK p \in Periods : req[r].period = p
        BY <2>1, SentTypes
  <2> QED BY <1>2, <2>1, <2>2, FixedScript
<1>3. ASSUME NEW r \in Slots, SlidingRuns(r) \/ BucketRuns(r)
      PROVE  FALSE
      BY <1>3 DEF SlidingRuns, BucketRuns
<1> QED BY <1>1, <1>2, <1>3, LimitSteps

----------------------------------------------------------------------------
Rpm == cfg.limits["rpm"]
Since(t) == {e \in grants["rpm"] : t <= e.at}
\* When the bucket was last written.
Touched == bucket.exp - 2 * FillTime(Rpm)

\* By any gateway's clock the debt of the bucket is paid by now.
DebtBounded == \A g \in Gateways :
  bucket.tokens + (Touched + Offset[g] + Skew - bucket.last) * Rate(Rpm) >= 0
PromiseFunded == promise # None =>
  /\ promise.limit = Rpm /\ promise.period = "rpm"
  /\ bucket.tokens + (promise.at - bucket.last) * Rate(Rpm) >= Token
\* What passed since t was paid from a full bucket and from what it was
\* refilled with since the first of it.
Paid == Slack <= FillTime(Rpm) =>
  \A t \in Times : Since(t) = {} \/ \E f \in Since(t) :
    Token * Cardinality(Since(t)) + bucket.tokens
      <= Capacity(Rpm) * Token + (bucket.last - f.stamp) * Rate(Rpm)

BucketOK ==
  /\ bucket = None => grants["rpm"] = {} /\ promise = None
  /\ bucket # None =>
       /\ bucket.tokens <= Capacity(Rpm) * Token /\ Touched <= now
       /\ DebtBounded /\ PromiseFunded /\ Paid

BucketInv == (cfg.strategy = "token_bucket" /\ ~cfg.plan) => BucketOK /\ BucketHolds

\* A debt that is paid by u is paid by v.
LEMMA DebtLater ==
  ASSUME NEW tok \in Int, NEW last \in Int, NEW s \in Int, NEW u \in Int, NEW v \in Int,
         NEW x \in Int, NEW R \in Nat, u <= v, tok + (u + x - last) * R >= 0
  PROVE  (tok + (s - last) * R) + (v + x - s) * R >= 0
<1>1. u * R <= v * R
      BY MulLeq
<1> QED BY <1>1

\* Refilling a bucket moves the account to the later stamp, ...
LEMMA PaidLater ==
  ASSUME NEW m \in Int, NEW tok \in Int, NEW last \in Int, NEW s \in Int, NEW fs \in Int,
         NEW C \in Int, NEW R \in Nat, NEW level \in Int,
         m + tok <= C + (last - fs) * R, level <= tok + (s - last) * R
  PROVE  m + level <= C + (s - fs) * R
  OBVIOUS

\* ... and so does a key that expired, for the bucket fills in F.
LEMMA PaidAfresh ==
  ASSUME NEW m \in Int, NEW tok \in Int, NEW last \in Int, NEW s \in Int, NEW fs \in Int,
         NEW C \in Int, NEW R \in Nat, NEW u \in Int, NEW x \in Int, NEW F \in Int,
         NEW slack \in Int,
         m + tok <= C + (last - fs) * R, tok + (u + x - last) * R >= 0,
         s >= u + 2 * F + x - slack, slack <= F, C <= F * R
  PROVE  m + C <= C + (s - fs) * R
<1>1. m <= C + (u + x - fs) * R
      OBVIOUS
<1>2. (u + F + x) * R <= s * R
      BY MulLeq
<1>3. (u + F + x) * R = F * R + (u + x - fs) * R + fs * R
      OBVIOUS
<1>4. (s - fs) * R = s * R - fs * R
      OBVIOUS
<1> DEFINE a == (u + x - fs) * R
           b == fs * R
           c == F * R
           d == s * R
<1>5. a \in Int /\ b \in Int /\ c \in Int /\ d \in Int
      OBVIOUS
<1>6. m <= C + a /\ c + a + b <= d /\ C <= c /\ (s - fs) * R = d - b
      BY <1>1, <1>2, <1>3, <1>4
<1> HIDE DEF a, b, c, d
<1> QED BY <1>5, <1>6

\* The bucket holds a token at least and fills within FillTime.
LEMMA BucketConstants ==
  ASSUME LimitTypes
  PROVE  /\ Rpm \in Nat /\ Capacity(Rpm) \in Nat \ {0} /\ Rate(Rpm) \in Nat \ {0}
         /\ FillTime(Rpm) \in Nat /\ Token \in Nat \ {0}
         /\ Capacity(Rpm) * Token \in Nat /\ Token <= Capacity(Rpm) * Token
         /\ Capacity(Rpm) * Token <= FillTime(Rpm) * Rate(Rpm)
<1>1. Rpm \in Nat
      BY PlanFits DEF Rpm, Limits, Periods
<1>2. /\ Capacity(Rpm) \in Nat \ {0} /\ Rate(Rpm) \in Nat \ {0} /\ FillTime(Rpm) \in Nat
      /\ Token \in Nat \ {0}
      BY <1>1, PolicyDef
<1>3. 1 * Token <= Capacity(Rpm) * Token
      BY <1>2, MulLeq
<1>4. Capacity(Rpm) * Token \in Nat
      BY <1>2
<1>5. Capacity(Rpm) * Token <= FillTime(Rpm) * Rate(Rpm)
      BY <1>2, <1>4, CeilDivDef DEF FillTime
<1> QED BY <1>1, <1>2, <1>3, <1>4, <1>5

\* Retry-After of the token bucket.
LEMMA PromiseKeptByBucket ==
  ASSUME LimitInv, BucketInv, cfg.strategy = "token_bucket"
  PROVE  RetryAfterEnough
<1> SUFFICES ASSUME promise # None, ~cfg.plan
             PROVE  BucketPasses(promise.limit, promise.at + Slack)
    BY DEF RetryAfterEnough
<1>0. LimitTypes
      BY DEF LimitInv
<1>1. /\ bucket # None /\ bucket.tokens \in Int /\ bucket.last \in Int
      /\ promise.limit = Rpm
      /\ bucket.tokens + (promise.at - bucket.last) * Rate(Rpm) >= Token
      BY <1>0 DEF BucketInv, BucketOK, PromiseFunded, LimitTypes, Bucket
<1>2. promise.at \in Int /\ Slack \in Nat
      BY <1>0, SlackType DEF LimitTypes, Promise
<1> DEFINE R == Rate(Rpm)
           C == Capacity(Rpm) * Token
           at == promise.at
           last == bucket.last
<1>3. R \in Nat /\ C \in Nat /\ Token \in Nat /\ Token <= C
      BY <1>0, BucketConstants
<1>4. bucket.tokens + ((at + Slack) - last) * R >= Token
  <2>1. (at - last) * R <= ((at + Slack) - last) * R
    <3>1. at - last \in Int /\ (at + Slack) - last \in Int /\ at - last <= (at + Slack) - last
          BY <1>1, <1>2
    <3> HIDE DEF R
    <3> QED BY <1>3, <3>1, MulLeq
  <2>2. (at - last) * R \in Int /\ ((at + Slack) - last) * R \in Int
        BY <1>1, <1>2, <1>3
  <2> QED BY <1>1, <1>3, <2>1, <2>2
<1> HIDE DEF C
<1>5. Level(Rpm, at + Slack) >= Token
      BY <1>3, <1>4 DEF Level, Refilled, C
<1> QED BY <1>1, <1>5 DEF BucketPasses

\* Only finitely many requests were let pass since t.
LEMMA SinceFinite ==
  ASSUME LimitInv, NEW t
  PROVE  /\ IsFiniteSet(Since(t)) /\ Cardinality(Since(t)) \in Nat
         /\ Since(t) \subseteq grants["rpm"]
<1>1. IsFiniteSet(grants["rpm"]) /\ Since(t) \subseteq grants["rpm"]
      BY DEF LimitInv, Past, Since, Periods
<1> QED BY <1>1, FS_Subset, FS_CardinalityType

\* A step that leaves bucket and history alone preserves BucketInv, ...
LEMMA BucketQuiet ==
  ASSUME LimitInv, BucketInv, cfg.strategy = "token_bucket", cfg' = cfg, bucket' = bucket,
         grants' = grants, promise' = promise, now' \in Times, now <= now'
  PROVE  BucketInv'
<1> SUFFICES ASSUME ~cfg.plan PROVE BucketOK' /\ BucketHolds'
    BY DEF BucketInv
<1>1. Rpm' = Rpm /\ \A rpm : /\ Rate(rpm)' = Rate(rpm) /\ Capacity(rpm)' = Capacity(rpm)
                             /\ FillTime(rpm)' = FillTime(rpm)
      BY DEF Rpm, Rate, Capacity, FillTime, RpmOr100
<1>2. BucketOK /\ BucketHolds
      BY DEF BucketInv
<1>3. ASSUME bucket # None
      PROVE  /\ bucket.tokens <= Capacity(Rpm) * Token
             /\ Touched <= now' /\ Touched' = Touched
             /\ DebtBounded' /\ PromiseFunded' /\ Paid'
  <2>1. /\ bucket.tokens <= Capacity(Rpm) * Token /\ Touched <= now
        /\ DebtBounded /\ PromiseFunded /\ Paid
        BY <1>2, <1>3 DEF BucketOK
  <2>2. Touched' = Touched
        BY <1>1 DEF Touched
  <2>3. Touched <= now'
    <3>1. bucket.exp \in Nat /\ FillTime(Rpm) \in Nat /\ now \in Nat /\ now' \in Nat
          BY <1>3, BucketConstants DEF LimitInv, LimitTypes, Bucket, Times
    <3> QED BY <2>1, <3>1 DEF Touched
  <2>4. DebtBounded' /\ PromiseFunded'
        BY <1>1, <2>1, <2>2 DEF DebtBounded, PromiseFunded
  <2>5. Paid'
        BY <1>1, <2>1 DEF Paid, Since
  <2> QED BY <2>1, <2>2, <2>3, <2>4, <2>5
<1>4. BucketOK'
      BY <1>1, <1>2, <1>3 DEF BucketOK
<1>5. BucketHolds'
      BY <1>1, <1>2 DEF BucketHolds, Granted
<1> QED BY <1>4, <1>5

\* The level a script finds, of a bucket that has not expired or of a full one.
LEMMA LevelFound ==
  ASSUME LimitInv, NEW s \in Int
  PROVE  /\ Level(Rpm, s) \in Int /\ Level(Rpm, s) <= Capacity(Rpm) * Token
         /\ \/ Level(Rpm, s) = Capacity(Rpm) * Token /\ (bucket = None \/ bucket.exp <= now)
            \/ /\ bucket # None /\ bucket.exp > now
               /\ Level(Rpm, s) <= bucket.tokens + (s - bucket.last) * Rate(Rpm)
               /\ \/ Level(Rpm, s) = Capacity(Rpm) * Token
                  \/ Level(Rpm, s) = bucket.tokens + (s - bucket.last) * Rate(Rpm)
<1>1. LimitTypes /\ now \in Nat
      BY DEF LimitInv, LimitTypes, Times
<1>2. Level(Rpm, s) \in Int /\ Level(Rpm, s) <= Capacity(Rpm) * Token
      BY <1>1, BucketConstants, LevelDef
<1>3. CASE bucket # None /\ bucket.exp > now
  <2> DEFINE a == bucket.tokens + (s - bucket.last) * Rate(Rpm)
             c == Capacity(Rpm) * Token
  <2>1. bucket.tokens \in Int /\ bucket.last \in Nat
        BY <1>1, <1>3 DEF LimitTypes, Bucket
  <2>2. a \in Int /\ c \in Int
        BY <1>1, <2>1, BucketConstants
  <2>3. Level(Rpm, s) = IF a < c THEN a ELSE c
        BY <1>3 DEF Level, Refilled
  <2> HIDE DEF a, c
  <2>4. Level(Rpm, s) <= a /\ (Level(Rpm, s) = c \/ Level(Rpm, s) = a)
        BY <2>2, <2>3
  <2> QED BY <1>2, <1>3, <2>4 DEF a, c
<1>4. CASE ~(bucket # None /\ bucket.exp > now)
  <2>1. bucket # None => bucket.exp \in Nat
        BY <1>1 DEF LimitTypes, Bucket
  <2> QED BY <1>1, <1>2, <1>4, <2>1 DEF Level
<1> QED BY <1>3, <1>4

\* The debt of the bucket a script leaves.
LEMMA DebtStep ==
  ASSUME LimitInv, BucketOK, NEW s \in Nat, NEW g \in Gateways, ReadBy(g, s, now),
         NEW h \in Gateways
  PROVE  Level(Rpm, s) + (now + Offset[h] + Skew - s) * Rate(Rpm) >= 0
<1> DEFINE R == Rate(Rpm)
           C == Capacity(Rpm) * Token
           x == Offset[h] + Skew
           level == Level(Rpm, s)
<1>1. R \in Nat /\ C \in Nat /\ FillTime(Rpm) \in Nat
      BY BucketConstants DEF LimitInv
<1>2. x \in Int /\ now \in Int /\ Offset[g] \in Int /\ Offset[g] <= x
      BY ClockAssumption DEF LimitInv, LimitTypes, Times
<1>3. /\ level \in Int
      /\ level = C \/ (bucket # None /\ level = bucket.tokens + (s - bucket.last) * R)
      BY LevelFound
<1>4. now + Offset[h] + Skew - s = now + x - s
      BY <1>2, ClockAssumption
<1> SUFFICES level + (now + x - s) * R >= 0
    BY <1>4
<1>5. CASE level = C
  <2>1. now + x - s \in Nat
        BY <1>2 DEF ReadBy
  <2>2. (now + x - s) * R \in Nat
    <3> HIDE DEF x, R
    <3> QED BY <1>1, <2>1
  <2> HIDE DEF level, C
  <2> QED BY <1>1, <1>5, <2>2
<1>6. CASE bucket # None /\ level = bucket.tokens + (s - bucket.last) * R
  <2>1. bucket.tokens \in Int /\ bucket.last \in Int /\ bucket.exp \in Int
        BY <1>6 DEF LimitInv, LimitTypes, Bucket
  <2>2. Touched \in Int /\ Touched <= now
        BY <1>1, <1>6, <2>1 DEF Touched, BucketOK
  <2>3. bucket.tokens + (Touched + x - bucket.last) * R >= 0
    <3>1. bucket.tokens + (Touched + Offset[h] + Skew - bucket.last) * R >= 0
          BY <1>6 DEF BucketOK, DebtBounded
    <3>2. Touched + Offset[h] + Skew - bucket.last = Touched + x - bucket.last
          BY <2>1, <2>2, ClockAssumption
    <3> QED BY <3>1, <3>2
  <2> HIDE DEF x, R, level
  <2>4. (bucket.tokens + (s - bucket.last) * R) + (now + x - s) * R >= 0
        BY <1>1, <1>2, <2>1, <2>2, <2>3, DebtLater
  <2> QED BY <1>6, <2>4
<1> QED BY <1>3, <1>5, <1>6

\* The bucket a script finds still pays for what passed before it.
LEMMA PaidStep ==
  ASSUME LimitInv, BucketOK, Slack <= FillTime(Rpm), NEW s \in Nat, NEW g \in Gateways,
         ReadBy(g, s, now), NEW t \in Times, Since(t) # {}
  PROVE  \E f \in Since(t) :
           Token * Cardinality(Since(t)) + Level(Rpm, s)
             <= Capacity(Rpm) * Token + (s - f.stamp) * Rate(Rpm)
<1> DEFINE R == Rate(Rpm)
           C == Capacity(Rpm) * Token
           F == FillTime(Rpm)
           x == Offset[g] + Skew
           level == Level(Rpm, s)
           m == Token * Cardinality(Since(t))
<1>1. R \in Nat /\ C \in Nat /\ F \in Nat /\ Token \in Nat /\ C <= F * R
      BY BucketConstants DEF LimitInv
<1>2. m \in Int
      BY <1>1, SinceFinite
<1>3. bucket # None
      BY SinceFinite DEF BucketOK
<1>4. bucket.tokens \in Int /\ bucket.last \in Int /\ bucket.exp \in Int /\ now \in Int
      BY <1>3 DEF LimitInv, LimitTypes, Bucket, Times
<1>5. PICK f \in Since(t) : m + bucket.tokens <= C + (bucket.last - f.stamp) * R
      BY <1>3 DEF BucketOK, Paid
<1>6. f.stamp \in Int
      BY SinceFinite, GrantTypes DEF Periods
<1>7. level \in Int
      BY LevelFound
<1> SUFFICES m + level <= C + (s - f.stamp) * R
    OBVIOUS
<1>8. CASE level <= bucket.tokens + (s - bucket.last) * R
  <2> HIDE DEF m, R, C, level
  <2> QED BY <1>1, <1>2, <1>4, <1>5, <1>6, <1>7, <1>8, PaidLater
<1>9. CASE level = C /\ bucket.exp <= now
  <2>1. /\ x \in Int /\ Slack \in Int /\ Touched \in Int /\ bucket.exp = Touched + 2 * F
        /\ Offset[g] \in Int /\ Delay \in Int /\ x - Slack = Offset[g] - Delay
        BY <1>1, <1>4, ClockAssumption, SlackType DEF Touched, Slack
  <2>2. s >= now + Offset[g] - Delay
        BY <1>4, <2>1 DEF ReadBy
  <2>3. s >= Touched + 2 * F + x - Slack
        BY <1>1, <1>4, <1>9, <2>1, <2>2
  <2>4. bucket.tokens + (Touched + x - bucket.last) * R >= 0
    <3>1. bucket.tokens + (Touched + Offset[g] + Skew - bucket.last) * R >= 0
          BY <1>3 DEF BucketOK, DebtBounded
    <3>2. Touched + Offset[g] + Skew - bucket.last = Touched + x - bucket.last
          BY <1>4, <2>1, ClockAssumption
    <3> QED BY <3>1, <3>2
  <2> HIDE DEF m, R, C, level, x, F
  <2>5. m + C <= C + (s - f.stamp) * R
        BY <1>1, <1>2, <1>4, <1>5, <1>6, <2>1, <2>3, <2>4, PaidAfresh DEF F
  <2> QED BY <1>9, <2>5
<1>10. level <= bucket.tokens + (s - bucket.last) * R \/ (level = C /\ bucket.exp <= now)
       BY <1>3, LevelFound
<1> QED BY <1>8, <1>9, <1>10

\* ... and so does a script of the token bucket.
LEMMA BucketScript ==
  ASSUME LimitInv, LimitInv', BucketInv, cfg.strategy = "token_bucket", ~cfg.plan,
         NEW r \in Slots, BucketRuns(r)
  PROVE  BucketInv'
<1> DEFINE s == req[r].stamp
           g == req[r].g
           R == Rate(Rpm)
           C == Capacity(Rpm) * Token
           level == Level(Rpm, s)
           exp == now + 2 * FillTime(Rpm)
           clock == Clock(g)
           reset == clock + CeilDiv(Token - level, R)
           grant == GrantOf(r, exp)
<1>1. /\ req[r].pc = "sent" /\ s \in Nat /\ g \in Gateways /\ clock \in Nat /\ now \in Nat
      /\ req[r].period = "rpm" /\ req[r].limit["rpm"] = Rpm /\ ReadBy(g, s, now)
      /\ cfg' = cfg /\ now' = now
  <2>1. req[r].pc = "sent" /\ cfg' = cfg /\ now' = now
        BY DEF BucketRuns
  <2> QED BY <2>1, SentTypes DEF LimitInv, Served, Fits, Rpm
<1>2. /\ R \in Nat \ {0} /\ C \in Nat /\ FillTime(Rpm) \in Nat
      /\ Token \in Nat \ {0} /\ Token <= C
      /\ level \in Int /\ level <= C /\ exp \in Nat /\ Slack \in Nat
      /\ Capacity(Rpm) \in Nat
  <2>1. /\ R \in Nat \ {0} /\ C \in Nat /\ FillTime(Rpm) \in Nat
        /\ Token \in Nat \ {0} /\ Token <= C
        /\ Capacity(Rpm) \in Nat
        BY BucketConstants DEF LimitInv
  <2>2. level \in Int /\ level <= C
        BY <1>1, LevelFound
  <2> QED BY <1>1, <2>1, <2>2, SlackType
<1>3. BucketOK /\ BucketHolds
      BY DEF BucketInv
<1>4. /\ Rpm' = Rpm /\ Token' = Token /\ Slack' = Slack
      /\ \A rpm : /\ Rate(rpm)' = Rate(rpm) /\ Capacity(rpm)' = Capacity(rpm)
                  /\ FillTime(rpm)' = FillTime(rpm)
      BY <1>1 DEF Rpm, Rate, Capacity, FillTime, RpmOr100, Token, Slack
<1>5. \/ /\ level >= Token
         /\ bucket' = [tokens |-> level - Token, last |-> s, exp |-> exp]
         /\ Pass(r, exp)
      \/ /\ level < Token
         /\ bucket' = [tokens |-> level, last |-> s, exp |-> exp]
         /\ Deny(r, reset)
  <2> HIDE DEF level, exp
  <2>1. \/ /\ level >= Token
           /\ bucket' = [tokens |-> level - Token, last |-> s, exp |-> exp]
           /\ Pass(r, exp)
        \/ /\ ~(level >= Token)
           /\ bucket' = [tokens |-> level, last |-> s, exp |-> exp]
           /\ Deny(r, reset)
        BY <1>1 DEF BucketRuns, BucketPasses, level, exp
  <2> QED BY <1>2, <2>1
<1> HIDE DEF level, exp, C, R
<1>6. reset \in Int
  <2>1. CeilDiv(Token - level, R) \in Int
        BY <1>2, CeilDivDef
  <2> QED BY <1>1, <2>1
<1>7. /\ bucket' # None /\ bucket'.tokens \in Int /\ bucket'.last = s /\ bucket'.exp = exp
      /\ bucket'.tokens <= level
      /\ bucket'.tokens <= C
      /\ Touched' = now
  <2>1. /\ bucket'.tokens \in Int /\ bucket'.last = s /\ bucket'.exp = exp
        /\ bucket'.tokens <= level /\ bucket'.tokens <= C
        BY <1>2, <1>5
  <2>2. bucket' # None
        BY <1>1, <1>2, <1>5, NoneAssumption
  <2>3. Touched' = now
        BY <1>1, <1>2, <1>4, <2>1 DEF Touched, exp
  <2> QED BY <2>1, <2>2, <2>3
\* What the step does to the history.
<1>8. \/ /\ grants'["rpm"] = grants["rpm"] \cup {grant} /\ level >= Token
         /\ bucket'.tokens = level - Token /\ grant \in Grant
         /\ grant \notin grants["rpm"]
      \/ grants'["rpm"] = grants["rpm"]
  <2>1. grants \in [Periods -> SUBSET Grant] /\ "rpm" \in Periods
        BY DEF LimitInv, LimitTypes, Periods
  <2>2. CASE /\ Pass(r, exp) /\ level >= Token
             /\ bucket' = [tokens |-> level - Token, last |-> s, exp |-> exp]
    <3>1. /\ \/ grants' = grants
             \/ grants' = [grants EXCEPT !["rpm"] = @ \cup {grant}]
          /\ grant \in Grant /\ \A e \in grants["rpm"] : e.id # req[r].id
          BY <1>1, <1>2, <2>2, PassGrants
    <3>2. grant \notin grants["rpm"]
          BY <3>1 DEF GrantOf
    <3> QED BY <2>1, <2>2, <3>1, <3>2
  <2>3. CASE Deny(r, reset)
    <3>1. grants' = grants
      <4> HIDE DEF reset
      <4> QED BY <1>1, <1>6, <2>3, DenyGrants
    <3> QED BY <3>1
  <2> QED BY <1>5, <2>2, <2>3
<1>9. grant.stamp = s /\ grant.at = now
      BY DEF GrantOf
<1> HIDE DEF grant
<1>10. DebtBounded'
  <2> SUFFICES ASSUME NEW h \in Gateways
               PROVE  bucket'.tokens + (now + Offset[h] + Skew - s) * R >= 0
      BY <1>4, <1>7 DEF DebtBounded, R
  <2>1. level + (now + Offset[h] + Skew - s) * R >= 0
        BY <1>1, <1>3, DebtStep DEF level, R
  <2>2. now + Offset[h] + Skew - s \in Nat
    <3>1. Offset[h] \in Nat /\ Offset[g] \in Nat /\ Offset[g] - Offset[h] <= Skew /\ Skew \in Nat
          BY <1>1, ClockAssumption
    <3> QED BY <1>1, <3>1 DEF ReadBy
  <2> DEFINE y == now + Offset[h] + Skew - s
  <2>3. y * R \in Nat
    <3> HIDE DEF y
    <3> QED BY <1>2, <2>2 DEF y
  <2> HIDE DEF y
  <2>4. bucket'.tokens + y * R >= 0
    <3>1. CASE bucket'.tokens = level
          BY <2>1, <3>1 DEF y
    <3>2. CASE bucket'.tokens = level - Token /\ level >= Token
          BY <1>2, <2>3, <3>2
    <3> QED BY <1>5, <3>1, <3>2
  <2> QED BY <2>4 DEF y
<1>11. PromiseFunded'
  <2> SUFFICES ASSUME promise' # None
               PROVE  /\ promise'.limit = Rpm /\ promise'.period = "rpm"
                      /\ bucket'.tokens + (promise'.at - s) * R >= Token
      BY <1>4, <1>7 DEF PromiseFunded, R
  <2>1. CASE promise' = promise
    <3>1. promise # None /\ bucket # None /\ PromiseFunded
          BY <1>3, <2>1 DEF BucketOK
    <3>2. promise.limit = Rpm /\ promise.period = "rpm" /\ promise.at \in Int
          /\ bucket.tokens + (promise.at - bucket.last) * R >= Token
          /\ bucket.tokens \in Int /\ bucket.last \in Int
          BY <3>1 DEF PromiseFunded, LimitInv, LimitTypes, Promise, Bucket, R
    <3>3. ~Pass(r, exp)
      <4> SUFFICES ASSUME Pass(r, exp) PROVE FALSE
          OBVIOUS
      <4>1. promise' = None \/ promise.period # req[r].period
            BY <1>1, <1>2, PassGrants
      <4> QED BY <1>1, <3>2, <4>1
    <3>4. level < Token /\ bucket'.tokens = level
          BY <1>5, <3>3
    <3>5. level = bucket.tokens + (s - bucket.last) * R
          BY <1>1, <1>2, <3>4, LevelFound DEF level, C, R
    <3>6. (bucket.tokens + (s - bucket.last) * R) + (promise.at - s) * R
             = bucket.tokens + (promise.at - bucket.last) * R
      <4>1. R \in Int /\ s \in Int
            BY <1>1, <1>2
      <4> HIDE DEF s
      <4> QED BY <3>2, <4>1
    <3> QED BY <2>1, <3>2, <3>4, <3>5, <3>6
  <2>2. CASE promise' # promise
    <3>1. Deny(r, reset) /\ level < Token /\ bucket'.tokens = level
      <4>1. ~Pass(r, exp)
        <5> SUFFICES ASSUME Pass(r, exp) PROVE FALSE
            OBVIOUS
        <5>1. promise' = promise \/ promise' = None
              BY <1>1, <1>2, PassGrants
        <5> QED BY <2>2, <5>1
      <4> QED BY <1>5, <4>1
    <3>2. promise' = [period |-> "rpm", limit |-> Rpm, window |-> s \div Len["rpm"],
                      at |-> clock + RetryAfter(reset, clock)]
      <4> HIDE DEF reset
      <4> QED BY <1>1, <1>6, <2>2, <3>1, DenyGrants
    <3> DEFINE d == CeilDiv(Token - level, R)
    <3>3. d \in Int /\ d * R >= Token - level
          BY <1>2, CeilDivDef
    <3> HIDE DEF d
    <3>4. promise'.at \in Int /\ promise'.at >= clock + d
          BY <1>1, <3>2, <3>3 DEF RetryAfter, d
    <3>5. clock >= s
          BY <1>1 DEF ReadBy, Clock
    <3> DEFINE w == promise'.at - s
    <3>6. w \in Int /\ d <= w
          BY <1>1, <3>3, <3>4, <3>5
    <3> HIDE DEF w
    <3>7. d * R <= w * R
          BY <1>2, <3>3, <3>6, MulLeq
    <3>8. d * R \in Int /\ w * R \in Int
          BY <1>2, <3>3, <3>6
    <3>9. level + w * R >= Token
          BY <1>2, <3>3, <3>7, <3>8
    <3> QED BY <3>1, <3>2, <3>9 DEF w
  <2> QED BY <2>1, <2>2
<1>12. ASSUME Slack <= FillTime(Rpm), NEW t \in Times, Since(t)' # {}
       PROVE  \E f \in Since(t)' :
                Token * Cardinality(Since(t)') + bucket'.tokens <= C + (s - f.stamp) * R
  <2>1. IsFiniteSet(Since(t)) /\ Cardinality(Since(t)) \in Nat
        BY SinceFinite
  <2>2. \A e \in Since(t) : e.stamp \in Int
        BY SinceFinite, GrantTypes DEF Periods
  <2>3. Since(t) # {} =>
          \E f \in Since(t) : Token * Cardinality(Since(t)) + level <= C + (s - f.stamp) * R
        BY <1>1, <1>3, <1>12, PaidStep DEF level, C, R
  <2>4. CASE Since(t)' = Since(t)
    <3>1. PICK f \in Since(t) : Token * Cardinality(Since(t)) + level <= C + (s - f.stamp) * R
          BY <1>12, <2>3, <2>4
    <3> DEFINE a == Token * Cardinality(Since(t))
               b == (s - f.stamp) * R
    <3>2. a \in Int /\ b \in Int
          BY <1>1, <1>2, <2>1, <2>2
    <3> HIDE DEF a, b
    <3>3. a + bucket'.tokens <= C + b
          BY <1>2, <1>7, <3>1, <3>2 DEF a, b
    <3> QED BY <2>4, <3>3 DEF a, b
  <2>5. CASE Since(t)' # Since(t)
    <3>1. /\ Since(t)' = Since(t) \cup {grant} /\ grant \notin Since(t)
          /\ level >= Token /\ bucket'.tokens = level - Token
          BY <1>8, <2>5 DEF Since
    <3>2. Cardinality(Since(t)') = Cardinality(Since(t)) + 1
          BY <2>1, <3>1, AddOne
    <3> DEFINE n == Cardinality(Since(t))
    <3>3. Token * (n + 1) = Token * n + Token /\ Token * n \in Int
          BY <1>2, <2>1
    <3>4. CASE Since(t) = {}
      <4>1. n = 0
            BY <3>4, FS_EmptySet
      <4>2. Token * (n + 1) = Token /\ (s - grant.stamp) * R = 0
        <5>1. s - grant.stamp = 0
              BY <1>1, <1>9
        <5> QED BY <1>2, <4>1, <5>1
      <4>3. Token * Cardinality(Since(t)') + bucket'.tokens <= C + (s - grant.stamp) * R
            BY <1>2, <3>1, <3>2, <4>2
      <4> QED BY <3>1, <4>3
    <3>5. CASE Since(t) # {}
      <4>1. PICK f \in Since(t) : Token * n + level <= C + (s - f.stamp) * R
            BY <2>3, <3>5
      <4> DEFINE a == Token * n
                 b == (s - f.stamp) * R
      <4>2. a \in Int /\ b \in Int
            BY <1>1, <1>2, <2>1, <2>2
      <4>3. Token * (n + 1) = a + Token
            BY <3>3
      <4> HIDE DEF a, b, n
      <4>4. (a + Token) + (level - Token) <= C + b
            BY <1>2, <4>1, <4>2 DEF a, b
      <4>5. Token * Cardinality(Since(t)') + bucket'.tokens <= C + b
            BY <3>1, <3>2, <4>3, <4>4 DEF n
      <4> QED BY <3>1, <4>5 DEF b
    <3> QED BY <3>4, <3>5
  <2> QED BY <2>4, <2>5
<1>13. Paid'
       BY <1>4, <1>7, <1>12 DEF Paid, C, R
<1>14. BucketOK'
       BY <1>1, <1>4, <1>7, <1>10, <1>11, <1>13 DEF BucketOK, C
<1>15. BucketHolds'
  <2> SUFFICES ASSUME Slack <= FillTime(Rpm), NEW t \in Times, NEW n \in 1..(MaxTime + 1 - t)
               PROVE  Cardinality(Granted("rpm", t, n)')
                        <= Capacity(Rpm) + ((n - 1 + Slack) * R) \div Token
      BY <1>1, <1>4 DEF BucketHolds, Rpm, R
  <2> DEFINE G == Granted("rpm", t, n)
             N == Cardinality(Granted("rpm", t, n)')
             gain == (n - 1 + Slack) * R
  <2>1. t \in Nat /\ n \in Nat /\ n >= 1 /\ gain \in Int
    <3>1. t \in Nat /\ n \in Nat /\ n >= 1
          BY ClockAssumption DEF Times
    <3> QED BY <1>2, <3>1
  <2>2. CASE G' \subseteq G
    <3>1. IsFiniteSet(G) /\ Cardinality(G) \in Nat
          BY GrantedFinite DEF Periods
    <3>2. N <= Cardinality(G) /\ N \in Nat
          BY <2>2, <3>1, FS_Subset, FS_CardinalityType
    <3>3. Cardinality(G) <= Capacity(Rpm) + gain \div Token
          BY <1>3 DEF BucketHolds, Rpm, R
    <3>4. gain \div Token \in Int
          BY <1>2, <2>1, DivDef
    <3> HIDE DEF N, G, gain
    <3>5. N <= Capacity(Rpm) + gain \div Token
          BY <1>2, <3>1, <3>2, <3>3, <3>4
    <3> QED BY <3>5 DEF N, gain
  <2>3. CASE ~(G' \subseteq G)
    <3>1. /\ grants'["rpm"] = grants["rpm"] \cup {grant} /\ level >= Token
          /\ bucket'.tokens = level - Token /\ grant \in G'
          BY <1>8, <2>3 DEF Granted
    <3>2. t <= now /\ now < t + n
          BY <1>9, <3>1 DEF Granted
    <3>3. G' = Since(t)'
      <4>1. \A e \in grants'["rpm"] : e.at \in Nat /\ e.at <= now
            BY <1>1, GrantTypes, <1>9, <3>1 DEF Periods
      <4>2. \A e \in grants'["rpm"] : e.at < t + n
            BY <1>1, <2>1, <3>2, <4>1
      <4> QED BY <4>2 DEF Granted, Since
    <3>4. PICK f \in Since(t)' :
            Token * Cardinality(Since(t)') + bucket'.tokens <= C + (s - f.stamp) * R
          BY <1>12, <3>1, <3>3
    <3>5. f.stamp \in Int /\ f.at \in Int /\ t <= f.at /\ Read(f.stamp, f.at)
      <4>1. f \in grants'["rpm"] /\ t <= f.at
            BY DEF Since
      <4>2. CASE f \in grants["rpm"]
            BY <4>1, <4>2, GrantTypes DEF Periods
      <4>3. CASE f = grant
            BY <1>1, <1>9, <4>1, <4>3 DEF Read
      <4> QED BY <3>1, <4>1, <4>2, <4>3
    <3>6. s - f.stamp <= n - 1 + Slack /\ s - f.stamp \in Int /\ n - 1 + Slack \in Int
      <4>1. Read(s, now)
            BY <1>1 DEF Read
      <4>2. s - f.stamp <= now - f.at + Slack
            BY <1>1, <3>5, <4>1, PairRead
      <4> QED BY <1>1, <1>2, <2>1, <3>2, <3>5, <4>2
    <3>7. (s - f.stamp) * R <= gain /\ (s - f.stamp) * R \in Int
      <4>1. R \in Nat
            BY <1>2
      <4> HIDE DEF s
      <4> QED BY <3>6, <4>1, MulLeq
    <3>8. N \in Nat /\ N = Cardinality(Since(t)')
      <4>1. IsFiniteSet(grants'["rpm"])
            BY DEF LimitInv, Past, Periods
      <4>2. G' \subseteq grants'["rpm"]
            BY DEF Granted
      <4> QED BY <3>3, <4>1, <4>2, FS_Subset, FS_CardinalityType
    <3>9. Token * N \in Int
          BY <1>2, <3>8
    <3>10. Token * N <= C + gain
      <4> DEFINE b == (s - f.stamp) * R
                 a == Token * N
      <4>1. a + bucket'.tokens <= C + b
            BY <3>4, <3>8
      <4>2. bucket'.tokens >= 0 /\ bucket'.tokens \in Int
            BY <1>2, <3>1
      <4>3. a \in Int /\ b \in Int /\ b <= gain
            BY <3>7, <3>9
      <4> HIDE DEF a, b, gain
      <4>4. a <= C + gain
            BY <1>2, <2>1, <4>1, <4>2, <4>3
      <4> QED BY <4>4 DEF a
    <3> HIDE DEF N, gain
    <3>11. N - Capacity(Rpm) <= gain \div Token
      <4> DEFINE k == N - Capacity(Rpm)
                 z == gain \div Token
      <4>1. k \in Int /\ z \in Int /\ gain < z * Token + Token
            BY <1>2, <2>1, <3>8, DivDef
      <4>2. k * Token <= gain
            BY <1>2, <2>1, <3>8, <3>10 DEF C
      <4> HIDE DEF k, z
      <4>3. ~(z + 1 <= k)
        <5> SUFFICES ASSUME z + 1 <= k PROVE FALSE
            OBVIOUS
        <5>1. (z + 1) * Token <= k * Token
              BY <1>2, <4>1, MulLeq
        <5>2. (z + 1) * Token = z * Token + Token /\ z * Token \in Int /\ k * Token \in Int
              BY <1>2, <4>1
        <5> QED BY <1>2, <2>1, <4>1, <4>2, <5>1, <5>2
      <4>4. k <= z
            BY <4>1, <4>3
      <4> QED BY <4>4 DEF k, z
    <3>12. gain \div Token \in Int
          BY <1>2, <2>1, DivDef
    <3>13. N <= Capacity(Rpm) + gain \div Token
          BY <1>2, <3>8, <3>11, <3>12
    <3> QED BY <3>13 DEF N, gain
  <2> QED BY <2>2, <2>3
<1> QED BY <1>14, <1>15 DEF BucketInv

\* BucketInv is inductive relative to LimitInv.
LEMMA BucketStep ==
  ASSUME LimitInv, LimitInv', BucketInv, cfg.strategy = "token_bucket", LimitNext
  PROVE  BucketInv'
<1>1. CASE NoScript
  <2>1. Quiet /\ now' \in Times /\ now <= now'
        BY <1>1, NoScriptInv DEF LimitInv, LimitTypes, Times, TimePasses
  <2> QED BY <2>1, BucketQuiet DEF Quiet, store
<1>2. ASSUME NEW r \in Slots, BucketRuns(r)
      PROVE  BucketInv'
  <2>1. cfg' = cfg
        BY <1>2 DEF BucketRuns
  <2>2. CASE cfg.plan
        BY <2>1, <2>2 DEF BucketInv
  <2>3. CASE ~cfg.plan
        BY <1>2, <2>3, BucketScript
  <2> QED BY <2>2, <2>3
<1>3. ASSUME NEW r \in Slots, SlidingRuns(r) \/ FixedRuns(r)
      PROVE  FALSE
      BY <1>3 DEF SlidingRuns, FixedRuns
<1> QED BY <1>1, <1>2, <1>3, LimitSteps

----------------------------------------------------------------------------
StrategyInv == LimitInv /\ SlidingInv /\ FixedInv /\ BucketInv

\* The policy's configuration does not change.
LEMMA PolicyStays == ASSUME LimitNext PROVE cfg' = cfg
  BY DEF LimitNext, Start, PlanFound, PlanFails, FailOpen, TimePasses, SlidingRuns, FixedRuns,
     BucketRuns

\* The empty Redis satisfies the invariants of the three strategies, ...
LEMMA StrategyInit == LimitInit => StrategyInv
<1> SUFFICES ASSUME LimitInit PROVE StrategyInv
    OBVIOUS
<1>1. LimitInv
      BY LimitInvInit
<1>2. /\ grants = [p \in Periods |-> {}] /\ promise = None /\ bucket = None /\ now = 0
      /\ zset = [p \in Periods |-> {}] /\ cexp = [p \in Periods |-> [w \in Windows |-> 0]]
      BY DEF LimitInit
<1>3. RetryAfterEnough
      BY <1>2 DEF RetryAfterEnough
<1>4. IsFiniteSet({}) /\ Cardinality({}) = 0
      BY FS_EmptySet
<1>5. ASSUME NEW p \in Periods
      PROVE  /\ LargestLimit(p) \in Nat /\ cfg.limits[p] \in Nat /\ Len[p] \in Nat \ {0}
             /\ grants[p] = {} /\ zset[p] = {}
  <2>1. cfg \in Configs
        BY DEF LimitInit
  <2> QED BY <1>2, <2>1, LargestLimitDef, PolicyAssumption, ClockAssumption DEF Limits
<1>6. SlidingInv
  <2>1. ASSUME NEW p \in Periods PROVE StillThere(p) /\ FewMembers(p) /\ FewGranted(p)
    <3>1. \A t \in Times : Granted(p, t, Len[p] - Slack) = {}
          BY <1>5 DEF Granted
    <3>2. StillThere(p)
          BY <1>5 DEF StillThere
    <3>3. FewMembers(p)
      <4>1. zset[p] = {} /\ cfg.limits[p] \in Nat
            BY <1>5
      <4>2. Cardinality(zset[p]) = 0 /\ IsFiniteSet(zset[p])
            BY <1>4, <4>1
      <4> QED BY <4>1, <4>2 DEF FewMembers
    <3>4. FewGranted(p)
      <4> SUFFICES ASSUME NEW t \in Times
                   PROVE  Cardinality(Granted(p, t, Len[p] - Slack)) <= LargestLimit(p)
          BY DEF FewGranted
      <4>1. Cardinality(Granted(p, t, Len[p] - Slack)) = 0
            BY <1>4, <3>1
      <4> QED BY <1>5, <4>1
    <3> QED BY <3>2, <3>3, <3>4
  <2> QED BY <1>3, <2>1 DEF SlidingInv
<1>7. FixedInv
  <2>1. ASSUME NEW p \in Periods PROVE Counters(p)
    <3>1. \A w, x : Counted(p, w, x) = {} /\ CountedLater(p, w, x) = {}
          BY <1>5 DEF Counted, CountedLater
    <3>2. ASSUME NEW w \in Windows PROVE CounterNow(p, w) /\ CountersFew(p, w)
      <4>1. cexp[p][w] = 0
            BY <1>2
      <4>2. CounterNow(p, w)
            BY <1>2, <1>5, <4>1 DEF CounterNow
      <4>3. \A y : Cardinality(Counted(p, w, y)) = 0 /\ Cardinality(CountedLater(p, w, y)) = 0
            BY <1>4, <3>1
      <4>4. CountersFew(p, w)
            BY <1>5, <4>3 DEF CountersFew
      <4> QED BY <4>2, <4>4
    <3> QED BY <1>5, <3>2 DEF Counters, GrantPlaced, CountersApart
  <2> QED BY <1>3, <2>1 DEF FixedInv
<1>8. BucketInv
  <2>1. BucketOK
        BY <1>2 DEF BucketOK, Periods
  <2>2. BucketHolds
    <3> SUFFICES ASSUME NEW t \in Times, NEW n \in 1..(MaxTime + 1 - t)
                 PROVE  Cardinality(Granted("rpm", t, n))
                          <= Capacity(Rpm) + ((n - 1 + Slack) * Rate(Rpm)) \div Token
        BY DEF BucketHolds, Rpm
    <3>1. Cardinality(Granted("rpm", t, n)) = 0
          BY <1>2, <1>4 DEF Granted, Periods
    <3> DEFINE gain == (n - 1 + Slack) * Rate(Rpm)
    <3>2. gain \in Nat
      <4>1. n - 1 + Slack \in Nat
            BY ClockAssumption, SlackType DEF Times
      <4> DEFINE k == n - 1 + Slack
      <4>2. Rate(Rpm) \in Nat
            BY <1>1, BucketConstants DEF LimitInv
      <4> HIDE DEF k
      <4>3. k * Rate(Rpm) \in Nat
            BY <4>1, <4>2 DEF k
      <4> QED BY <4>3 DEF k
    <3>3. Token \in Nat \ {0} /\ Capacity(Rpm) \in Nat
          BY <1>1, BucketConstants DEF LimitInv
    <3> HIDE DEF gain
    <3>4. gain \div Token \in Nat
          BY <3>2, <3>3
    <3> QED BY <3>1, <3>3, <3>4 DEF gain
  <2> QED BY <2>1, <2>2 DEF BucketInv
<1> QED BY <1>1, <1>6, <1>7, <1>8 DEF StrategyInv

\* ... and every step preserves them.
LEMMA StrategyStep == StrategyInv /\ [LimitNext]_limitVars => StrategyInv'
<1> SUFFICES ASSUME StrategyInv, [LimitNext]_limitVars PROVE StrategyInv'
    OBVIOUS
<1>1. LimitInv /\ SlidingInv /\ FixedInv /\ BucketInv
      BY DEF StrategyInv
<1>2. LimitInv'
      BY <1>1, LimitInvStep
<1>3. cfg' = cfg
      BY PolicyStays DEF limitVars
<1>4. SlidingInv'
  <2> SUFFICES ASSUME cfg.strategy = "sliding_window" PROVE SlidingInv'
      BY <1>3 DEF SlidingInv
  <2>1. CASE UNCHANGED limitVars
    <3>1. Quiet /\ now' \in Times /\ now <= now'
          BY <1>1, <2>1 DEF limitVars, store, Quiet, LimitInv, LimitTypes, Times
    <3> QED BY <1>1, <3>1, SlidingQuiet
  <2> QED BY <1>1, <1>2, <2>1, SlidingStep
<1>5. FixedInv'
  <2> SUFFICES ASSUME cfg.strategy = "fixed_window" PROVE FixedInv'
      BY <1>3 DEF FixedInv
  <2>1. CASE UNCHANGED limitVars
    <3>1. /\ count' = count /\ cexp' = cexp /\ grants' = grants /\ promise' = promise
          /\ now' \in Times /\ now <= now'
          BY <1>1, <2>1 DEF limitVars, store, LimitInv, LimitTypes, Times
    <3> QED BY <1>1, <1>3, <3>1, FixedQuiet
  <2> QED BY <1>1, <1>2, <2>1, FixedStep
<1>6. BucketInv'
  <2> SUFFICES ASSUME cfg.strategy = "token_bucket" PROVE BucketInv'
      BY <1>3 DEF BucketInv
  <2>1. CASE UNCHANGED limitVars
    <3>1. /\ bucket' = bucket /\ grants' = grants /\ promise' = promise
          /\ now' \in Times /\ now <= now'
          BY <1>1, <2>1 DEF limitVars, store, LimitInv, LimitTypes, Times
    <3> QED BY <1>1, <1>3, <3>1, BucketQuiet
  <2> QED BY <1>1, <1>2, <2>1, BucketStep
<1> QED BY <1>2, <1>4, <1>5, <1>6 DEF StrategyInv

\* What the inductive invariant is for.
THEOREM RateLimitInvariant == LimitSpec => []StrategyInv
BY StrategyInit, StrategyStep, PTL DEF LimitSpec

\* SLIDING_WINDOW: at most the limit passes in any stretch that is shorter
\* than the window by the clocks' difference and the delay.
THEOREM SlidingWindowHolds == LimitSpec => []SlidingHolds
<1>1. StrategyInv => SlidingHolds
      BY DEF StrategyInv, SlidingInv, FewGranted, SlidingHolds
<1> QED BY <1>1, RateLimitInvariant, PTL

\* FIXED_WINDOW: less than three times the limit passes in a window's length,
\* and at most twice the limit if there is one clock and no delay.
THEOREM FixedWindowHolds == LimitSpec => []FixedHolds
<1>1. StrategyInv => FixedHolds
      BY FixedBound DEF StrategyInv, FixedHolds
<1> QED BY <1>1, RateLimitInvariant, PTL

\* TOKEN_BUCKET: no more passes than the capacity and the refill pay for.
THEOREM TokenBucketHolds == LimitSpec => []BucketHolds
<1>1. StrategyInv => BucketHolds
      BY DEF StrategyInv, BucketInv, BucketHolds
<1> QED BY <1>1, RateLimitInvariant, PTL

\* A client that waits for Retry-After is let pass, or counted in a later
\* window.
THEOREM RetryAfterHolds == LimitSpec => []RetryAfterEnough
<1>1. StrategyInv => RetryAfterEnough
  <2> SUFFICES ASSUME StrategyInv PROVE RetryAfterEnough
      OBVIOUS
  <2>1. cfg.strategy \in {"sliding_window", "fixed_window", "token_bucket"}
        BY PolicyAssumption DEF StrategyInv, LimitInv, LimitTypes
  <2> QED BY <2>1, PromiseKeptByBucket DEF StrategyInv, SlidingInv, FixedInv
<1> QED BY <1>1, RateLimitInvariant, PTL

----------------------------------------------------------------------------
(* CIRCUIT BREAKER                                                         *)

USE DEF Headers, OpenBranch, HalfBranch, ClosedBranch, InPlugin

\* The empty Redis satisfies the inductive invariant.
LEMMA CBInit == Init => CBInv
<1> SUFFICES ASSUME Init PROVE CBInv
    OBVIOUS
<1> USE ConfigAssumption DEF Init
<1>1. TypeOK
  <2>1. brought \in BOOLEAN /\ failed \in BOOLEAN
        OBVIOUS
  <2>2. /\ openAge \in 0..Timeout /\ half \in 0..(HalfOpenMax + 1)
        /\ halfTTL \in 0..Timeout /\ quiet \in 0..Timeout
        /\ fails \in Nat /\ total \in Nat
        OBVIOUS
  <2>3. /\ pc \in [Requests -> InPlugin \cup {"idle", "upstream"}]
        /\ code \in [Requests -> {"0", "2xx", "5xx"}]
        /\ hdr \in [Requests -> Headers] /\ seen \in [Requests -> Nat]
        OBVIOUS
  <2> QED BY <2>1, <2>2, <2>3 DEF TypeOK
<1>2. AnswerBeforeCount /\ ProbeNeverCounts
      BY DEF AnswerBeforeCount, ProbeNeverCounts
<1>3. CountersExpire /\ ProbesRunOut
      BY DEF CountersExpire, ProbesRunOut
<1> QED BY <1>1, <1>2, <1>3 DEF CBInv

\* INCR, EXPIRE and DEL keep the set of counters that have no expiry.
LEMMA IncrType ==
  ASSUME lasting \subseteq CounterNames, NEW c \in CounterNames, NEW n, Incr(c, n)
  PROVE  lasting' \subseteq CounterNames
BY DEF Incr

LEMMA EndsType ==
  ASSUME lasting \subseteq CounterNames, NEW cs, Ends(cs)
  PROVE  lasting' \subseteq CounterNames
BY DEF Ends

\* The three INCRs preserve the types.
LEMMA CountTypes ==
  ASSUME TypeOK, NEW r \in Requests, CountProbe(r) \/ CountTotal(r) \/ CountFail(r)
  PROVE  TypeOK'
<1> USE ConfigAssumption
<1>1. CASE CountProbe(r)
  <2>1. half' \in 0..(HalfOpenMax + 1)
        BY <1>1 DEF CountProbe, TypeOK
  <2>2. half' \in Nat
        BY <2>1
  <2>3. lasting' \subseteq CounterNames
        BY <1>1, IncrType DEF CountProbe, TypeOK, CounterNames
  <2>4. seen' \in [Requests -> Nat]
        BY <1>1, <2>2 DEF CountProbe, TypeOK
  <2>5. quiet' \in 0..Timeout
        BY <1>1 DEF CountProbe
  <2>6. pc' \in [Requests -> InPlugin \cup {"idle", "upstream"}]
        BY <1>1 DEF CountProbe, TypeOK, Goto
  <2>7. UNCHANGED <<state, openAge, halfTTL, fails, total, code, hdr, brought, failed>>
        BY <1>1 DEF CountProbe
  <2> QED BY <2>1, <2>3, <2>4, <2>5, <2>6, <2>7 DEF TypeOK
<1>2. CASE CountTotal(r)
  <2>1. lasting' \subseteq CounterNames
        BY <1>2, IncrType DEF CountTotal, TypeOK, CounterNames
  <2>2. total' \in Nat
        BY <1>2 DEF CountTotal, TypeOK
  <2>3. pc' \in [Requests -> InPlugin \cup {"idle", "upstream"}]
        BY <1>2 DEF CountTotal, TypeOK, Goto
  <2>4. UNCHANGED <<state, openAge, half, halfTTL, fails, code, hdr, seen, quiet, brought, failed>>
        BY <1>2 DEF CountTotal, history
  <2> QED BY <2>1, <2>2, <2>3, <2>4 DEF TypeOK
<1>3. CASE CountFail(r)
  <2>1. lasting' \subseteq CounterNames
        BY <1>3, IncrType DEF CountFail, TypeOK, CounterNames
  <2>2. fails' \in Nat
        BY <1>3 DEF CountFail, TypeOK
  <2>3. seen' \in [Requests -> Nat]
        BY <1>3 DEF CountFail, TypeOK
  <2>4. pc' \in [Requests -> InPlugin \cup {"idle", "upstream"}]
        BY <1>3 DEF CountFail, TypeOK, Goto
  <2>5. UNCHANGED <<state, openAge, half, halfTTL, total, code, hdr, quiet, brought, failed>>
        BY <1>3 DEF CountFail, history
  <2> QED BY <2>1, <2>2, <2>3, <2>4, <2>5 DEF TypeOK
<1> QED BY <1>1, <1>2, <1>3

\* Each await of the plugin preserves the types.
LEMMA TypeStep == TypeOK /\ [Next]_vars => TypeOK'
<1> SUFFICES ASSUME TypeOK, [Next]_vars PROVE TypeOK'
    OBVIOUS
<1> USE ConfigAssumption
    DEF TypeOK, redisVars, history, Goto, Return, Abort, Incr, Ends, CounterNames
<1>1. CASE \E r \in Requests, h \in InHeaders : Arrive(r, h)
      BY <1>1 DEF Arrive
<1>2. CASE \E r \in Requests, c \in {"2xx", "5xx"} : Respond(r, c)
      BY <1>2 DEF Respond
<1>3. ASSUME NEW r \in Requests, PluginStep(r) PROVE TypeOK'
  <2>1. CASE ReadState(r)
        BY <2>1 DEF ReadState
  <2>2. CASE ReadOpenAt(r) \/ SetHalfOpen(r)
        BY <2>2 DEF ReadOpenAt, SetHalfOpen
  <2>3. CASE DelHalf(r)
        BY <2>3 DEF DelHalf
  <2>4. CASE CountProbe(r) \/ CountTotal(r) \/ CountFail(r)
        BY <2>4, CountTypes
  <2>5. CASE ExpireProbe(r)
        BY <2>5 DEF ExpireProbe, TryProbe
  <2>7. CASE ExpireTotal(r)
        BY <2>7 DEF ExpireTotal
  <2>8. CASE ExpireFail(r)
        BY <2>8, EndsType DEF ExpireFail
  <2>9. CASE CheckRate(r)
        BY <2>9 DEF CheckRate
  <2>10. CASE Trip(r)
        BY <2>10 DEF Trip
  <2>12. CASE Stamp(r)
    <3>1. lasting' \subseteq CounterNames
          BY <2>12, EndsType DEF Stamp
    <3> QED BY <2>12, <3>1 DEF Stamp
  <2>11. CASE Reset(r)
        BY <2>11 DEF Reset
  <2> QED BY <1>3, <2>1, <2>2, <2>3, <2>4, <2>5, <2>7, <2>8, <2>9, <2>10, <2>11,
             <2>12 DEF PluginStep
<1>4. CASE \E r \in Requests : RedisError(r)
      BY <1>4 DEF RedisError
<1>5. CASE WindowPasses
      BY <1>5 DEF WindowPasses
<1>6. CASE Tick
      BY <1>6 DEF Tick
<1>7. CASE UNCHANGED vars
      BY <1>7 DEF vars
<1> QED BY <1>1, <1>2, <1>3, <1>4, <1>5, <1>6, <1>7 DEF Next

\* A breaker that has opened, and no request has brought the header of a probe.
CanNotClose == ~ brought /\ state # "closed"

\* A step preserves the facts about counted requests and probes, and does not
\* close a breaker that has opened.
LEMMA ControlStep ==
  ASSUME CBInv, Next
  PROVE  /\ AnswerBeforeCount' /\ ProbeNeverCounts'
         /\ CanNotClose => state' # "closed"
<1> USE DEF CBInv, TypeOK, AnswerBeforeCount, ProbeNeverCounts, redisVars,
            history, Goto, Return, Abort, CanNotClose
<1>1. ASSUME NEW r \in Requests, NEW h \in InHeaders, Arrive(r, h)
      PROVE  /\ AnswerBeforeCount' /\ ProbeNeverCounts'
             /\ CanNotClose => state' # "closed"
  <2>1. /\ state' = state /\ pc' = [pc EXCEPT ![r] = "read"]
        /\ code' = [code EXCEPT ![r] = "0"] /\ hdr' = [hdr EXCEPT ![r] = h]
        BY <1>1 DEF Arrive
  <2>2. AnswerBeforeCount'
        BY <2>1
  <2>3. ~ brought' => ~ brought /\ h # "half_open_probe"
        BY <1>1 DEF Arrive
  <2>4. ProbeNeverCounts'
        BY <2>1, <2>3
  <2> QED BY <2>1, <2>2, <2>4
<1>2. CASE \E r \in Requests, c \in {"2xx", "5xx"} : Respond(r, c)
      BY <1>2 DEF Respond
<1>3. ASSUME NEW r \in Requests, PluginStep(r)
      PROVE  /\ AnswerBeforeCount' /\ ProbeNeverCounts'
             /\ CanNotClose => state' # "closed"
  <2>1. CASE ReadState(r)
    <3>1. UNCHANGED <<code, hdr, state, brought>>
          BY <2>1 DEF ReadState
    <3>2. PICK l : /\ pc' = [pc EXCEPT ![r] = l]
                   /\ \/ l = "openAt" /\ state = "open"
                      \/ l = "half" /\ state = "half_open"
                      \/ l = "upstream" /\ code[r] = "0"
                      \/ l = "count" /\ state = "closed" /\ code[r] # "0"
          BY <2>1 DEF ReadState
    <3>3. AnswerBeforeCount'
          BY <3>1, <3>2 DEF ClosedBranch
    <3>4. ProbeNeverCounts'
          BY <3>1, <3>2 DEF ClosedBranch
    <3> QED BY <3>1, <3>3, <3>4
  <2>2. CASE ReadOpenAt(r) \/ SetHalfOpen(r)
        BY <2>2 DEF ReadOpenAt, SetHalfOpen
  <2>3. CASE DelHalf(r)
        BY <2>3 DEF DelHalf
  <2>4. CASE CountProbe(r)
        BY <2>4 DEF CountProbe
  <2>5. CASE ExpireProbe(r)
        BY <2>5 DEF ExpireProbe, TryProbe
  <2>6. CASE CountTotal(r)
        BY <2>6 DEF CountTotal
  <2>7. CASE ExpireTotal(r)
        BY <2>7 DEF ExpireTotal
  <2>8. CASE CountFail(r) \/ ExpireFail(r) \/ CheckRate(r)
        BY <2>8 DEF CountFail, ExpireFail, CheckRate
  <2>9. CASE Trip(r) \/ Stamp(r) \/ Reset(r)
        BY <2>9 DEF Trip, Stamp, Reset
  <2> QED BY <1>3, <2>1, <2>2, <2>3, <2>4, <2>5, <2>6, <2>7, <2>8, <2>9
          DEF PluginStep
<1>4. CASE \E r \in Requests : RedisError(r)
      BY <1>4 DEF RedisError
<1>5. CASE WindowPasses \/ Tick
      BY <1>5 DEF WindowPasses, Tick
<1> QED BY <1>1, <1>2, <1>3, <1>4, <1>5 DEF Next

\* What CountersExpire says of one counter, whose EXPIRE is the await l.
Expires(c, l) == c \in lasting => \E r \in Requests : pc[r] = l

\* The INCR of a counter leaves it with an expiry or on the way to one, and
\* the EXPIRE that follows gives it one; nothing else touches an expiry.
LEMMA ExpiryStep == ASSUME CBInv, Next PROVE CountersExpire'
<1> SUFFICES ASSUME ~ failed'
             PROVE  /\ Expires("half", "halfExpire")'
                    /\ Expires("total", "countExpire")'
                    /\ Expires("fails", "failExpire")'
    BY DEF CountersExpire, Expires
<1>0. ~ failed
      BY DEF Next, Arrive, Respond, PluginStep, ReadState, ReadOpenAt, SetHalfOpen,
             DelHalf, CountProbe, ExpireProbe, CountTotal, ExpireTotal, CountFail,
             ExpireFail, CheckRate, Trip, Stamp, Reset, RedisError, WindowPasses, Tick,
             history, redisVars
<1>1. /\ Expires("half", "halfExpire") /\ Expires("total", "countExpire")
      /\ Expires("fails", "failExpire")
      /\ pc \in [Requests -> InPlugin \cup {"idle", "upstream"}]
      BY <1>0 DEF CBInv, CountersExpire, Expires, TypeOK
<1> USE <1>1 DEF redisVars, history, Goto, Return, Abort, Incr, Ends, Expires
<1>2. CASE \E r \in Requests, h \in InHeaders : Arrive(r, h)
      BY <1>2 DEF Arrive
<1>3. CASE \E r \in Requests, c \in {"2xx", "5xx"} : Respond(r, c)
      BY <1>3 DEF Respond
<1>4. ASSUME NEW r \in Requests, PluginStep(r)
      PROVE  /\ Expires("half", "halfExpire")'
             /\ Expires("total", "countExpire")'
             /\ Expires("fails", "failExpire")'
  <2>1. CASE ReadState(r)
    <3>1. pc[r] = "read" /\ \E l : pc' = [pc EXCEPT ![r] = l]
      <4>1. state \in {"closed", "open", "half_open"} /\ pc[r] = "read"
            BY <2>1 DEF ReadState, CBInv, TypeOK
      <4>2. CASE state = "open"
            BY <2>1, <4>1, <4>2 DEF ReadState
      <4>3. CASE state = "half_open"
            BY <2>1, <4>1, <4>3 DEF ReadState
      <4>4. CASE state = "closed" /\ code[r] = "0"
            BY <2>1, <4>1, <4>4 DEF ReadState
      <4>5. CASE state = "closed" /\ code[r] # "0"
            BY <2>1, <4>1, <4>5 DEF ReadState
      <4> QED BY <4>1, <4>2, <4>3, <4>4, <4>5
    <3>2. \A q \in Requests : pc[q] # "read" => pc'[q] = pc[q]
          BY <3>1
    <3>3. lasting' = lasting
          BY <2>1 DEF ReadState
    <3> QED BY <3>2, <3>3
  <2>2. CASE ReadOpenAt(r) \/ SetHalfOpen(r) \/ DelHalf(r)
        BY <2>2 DEF ReadOpenAt, SetHalfOpen, DelHalf
  <2>3. CASE CountProbe(r)
        BY <2>3 DEF CountProbe
  <2>4. CASE ExpireProbe(r)
        BY <2>4 DEF ExpireProbe, TryProbe
  <2>5. CASE CountTotal(r)
        BY <2>5 DEF CountTotal
  <2>6. CASE ExpireTotal(r)
        BY <2>6 DEF ExpireTotal
  <2>7. CASE CountFail(r)
        BY <2>7 DEF CountFail
  <2>8. CASE ExpireFail(r) \/ CheckRate(r)
        BY <2>8 DEF ExpireFail, CheckRate
  <2>9. CASE Trip(r) \/ Stamp(r) \/ Reset(r)
        BY <2>9 DEF Trip, Stamp, Reset
  <2> QED BY <1>4, <2>1, <2>2, <2>3, <2>4, <2>5, <2>6, <2>7, <2>8, <2>9
          DEF PluginStep
<1>5. CASE \E r \in Requests : RedisError(r)
      BY <1>5 DEF RedisError
<1>6. CASE WindowPasses \/ Tick
      BY <1>6 DEF WindowPasses, Tick
<1> QED BY <1>2, <1>3, <1>4, <1>5, <1>6 DEF Next

\* The probe counter's time to live ends no later than Timeout after the last
\* command of the half_open branch.
LEMMA RunOutStep == ASSUME CBInv, Next PROVE ProbesRunOut'
<1> USE ConfigAssumption DEF CBInv, TypeOK, ProbesRunOut, redisVars, history
<1>1. CASE /\ UNCHANGED <<half, halfTTL, quiet>>
           /\ "half" \in lasting => "half" \in lasting'
      BY <1>1
<1>2. CASE \/ \E r \in Requests, h \in InHeaders : Arrive(r, h)
           \/ \E r \in Requests, c \in {"2xx", "5xx"} : Respond(r, c)
           \/ \E r \in Requests : RedisError(r)
           \/ WindowPasses
      BY <1>1, <1>2 DEF Arrive, Respond, RedisError, WindowPasses
<1>3. ASSUME NEW r \in Requests, PluginStep(r) PROVE ProbesRunOut'
  <2>1. CASE ReadState(r) \/ ReadOpenAt(r) \/ SetHalfOpen(r)
        BY <1>1, <2>1 DEF ReadState, ReadOpenAt, SetHalfOpen
  <2>2. CASE DelHalf(r) \/ Reset(r)
        BY <2>2 DEF DelHalf, Reset
  <2>3. CASE CountProbe(r)
        BY <2>3 DEF CountProbe, Incr
  <2>4. CASE ExpireProbe(r)
        BY <2>4 DEF ExpireProbe
  <2>5. CASE CountTotal(r) \/ ExpireTotal(r) \/ CountFail(r) \/ ExpireFail(r)
        BY <1>1, <2>5 DEF CountTotal, ExpireTotal, CountFail, ExpireFail, Incr, Ends
  <2>6. CASE CheckRate(r) \/ Trip(r) \/ Stamp(r)
        BY <1>1, <2>6 DEF CheckRate, Trip, Stamp, Ends
  <2> QED BY <1>3, <2>1, <2>2, <2>3, <2>4, <2>5, <2>6 DEF PluginStep
<1>4. CASE Tick
      BY <1>4 DEF Tick
<1> QED BY <1>2, <1>3, <1>4 DEF Next

\* Only answered requests are counted, probes are never counted, and the
\* counters expire.
THEOREM CBInvariant == Spec => []CBInv
<1>1. CBInv /\ [Next]_vars => CBInv'
  <2> SUFFICES ASSUME CBInv, [Next]_vars PROVE CBInv'
      OBVIOUS
  <2>1. TypeOK'
        BY TypeStep DEF CBInv
  <2>2. CASE UNCHANGED vars
        BY <2>1, <2>2 DEF vars, redisVars, history, CBInv, AnswerBeforeCount,
                          ProbeNeverCounts, CountersExpire, ProbesRunOut
  <2> QED BY <2>1, <2>2, ControlStep, ExpiryStep, RunOutStep DEF CBInv
<1> QED BY <1>1, CBInit, PTL DEF Spec

\* The reset branch of circuit-breaker.ts is never taken by a probe: a breaker
\* that has opened once is open or half open for ever after, unless a request
\* has brought the header of a probe with it.
THEOREM BreakerNeverRecloses == Spec => [][CanNotClose => state' # "closed"]_vars
<1>1. CBInv /\ [Next]_vars => [CanNotClose => state' # "closed"]_vars
      BY ControlStep
<1> QED BY <1>1, CBInvariant, PTL DEF Spec

\* Only the INCR of the half_open branch leads to its EXPIRE.
LEMMA OnlyCountProbe ==
  ASSUME TypeOK, Next, NEW r \in Requests, pc[r] = "half", pc'[r] = "halfExpire"
  PROVE  CountProbe(r)
<1> USE DEF TypeOK, Goto, Return, Abort
<1>1. CASE \/ \E q \in Requests, h \in InHeaders : Arrive(q, h)
           \/ \E q \in Requests, c \in {"2xx", "5xx"} : Respond(q, c)
      BY <1>1 DEF Arrive, Respond
<1>2. ASSUME NEW q \in Requests, PluginStep(q) PROVE CountProbe(r)
  <2>1. CASE pc[q] # "half"
    <3>1. q # r
          BY <2>1
    <3>2. CASE ReadState(q) \/ ReadOpenAt(q) \/ SetHalfOpen(q) \/ DelHalf(q)
          BY <3>1, <3>2 DEF ReadState, ReadOpenAt, SetHalfOpen, DelHalf
    <3>3. CASE ExpireProbe(q) \/ CountTotal(q) \/ ExpireTotal(q) \/ CountFail(q)
          BY <3>1, <3>3 DEF ExpireProbe, TryProbe, CountTotal, ExpireTotal, CountFail
    <3>4. CASE ExpireFail(q) \/ CheckRate(q) \/ Trip(q) \/ Stamp(q) \/ Reset(q)
          BY <3>1, <3>4 DEF ExpireFail, CheckRate, Trip, Stamp, Reset
    <3>5. CASE CountProbe(q)
          BY <2>1, <3>5 DEF CountProbe
    <3> QED BY <1>2, <3>2, <3>3, <3>4, <3>5 DEF PluginStep
  <2>2. CASE pc[q] = "half"
    <3>1. CountProbe(q)
          BY <1>2, <2>2
          DEF PluginStep, ReadState, ReadOpenAt, SetHalfOpen, DelHalf, ExpireProbe,
              CountTotal, ExpireTotal, CountFail, ExpireFail, CheckRate, Trip, Stamp,
              Reset
    <3>2. q = r
          BY <3>1 DEF CountProbe
    <3> QED BY <3>1, <3>2
  <2> QED BY <2>1, <2>2
<1>3. CASE (\E q \in Requests : RedisError(q)) \/ WindowPasses \/ Tick
      BY <1>3 DEF RedisError, WindowPasses, Tick
<1> QED BY <1>1, <1>2, <1>3 DEF Next

\* A half-open breaker refuses a request only while traffic keeps the counter
\* of its probes alive: EXPIRE follows every INCR (ExpireProbe).
THEOREM LullTheorem == Spec => LullRestoresProbes
<1> DEFINE Act ==
      \A r \in Requests :
        Overdrawn(r) /\ ~ failed
          => quiet < Timeout \/ \E q \in Requests : pc[q] = "halfExpire"
<1>1. ASSUME CBInv, Next PROVE Act
  <2> SUFFICES ASSUME NEW r \in Requests, Overdrawn(r), ~ failed
               PROVE  quiet < Timeout \/ \E q \in Requests : pc[q] = "halfExpire"
      OBVIOUS
  <2> USE ConfigAssumption DEF CBInv, TypeOK, Overdrawn
  <2>1. pc[r] = "half" /\ pc'[r] = "halfExpire"
        OBVIOUS
  <2>2. CountProbe(r)
        BY <1>1, <2>1, OnlyCountProbe
  <2>3. half # 0
    <3>1. half' > HalfOpenMax
      <4>1. seen'[r] = half'
            BY <1>1, <2>2 DEF CountProbe
      <4> QED BY <4>1
    <3>2. half' = half \/ half' = half + 1
          BY <2>2 DEF CountProbe
    <3>3. half \in Nat /\ HalfOpenMax \in Nat \ {0}
          BY <1>1
    <3> QED BY <3>1, <3>2, <3>3
  <2>4. CASE "half" \in lasting
        BY <2>4, <1>1 DEF CountersExpire
  <2>5. CASE halfTTL > 0 /\ halfTTL + quiet <= Timeout
        BY <2>5, <1>1
  <2> QED BY <1>1, <2>3, <2>4, <2>5 DEF ProbesRunOut
<1>2. CBInv /\ [Next]_vars => [Act]_vars
      BY <1>1
<1>3. Spec => [][Act]_vars
      BY <1>2, CBInvariant, PTL DEF Spec
<1> QED BY <1>3 DEF LullRestoresProbes

\* An open breaker in which no earlier reader is left refuses every request
\* until Timeout has passed.
THEOREM BreakerHolds == Spec => OpenHolds
<1>1. CBInv /\ [Next]_vars =>
        [SettledOpen =>
           /\ SettledOpen' \/ openAge' = Timeout
           /\ \A r \in Requests : LetThrough(r) => RedisError(r)]_vars
  <2> SUFFICES ASSUME CBInv, Next, SettledOpen
               PROVE  /\ SettledOpen' \/ openAge' = Timeout
                      /\ \A r \in Requests : LetThrough(r) => RedisError(r)
      OBVIOUS
  <2> USE DEF CBInv, TypeOK, SettledOpen, LetThrough, redisVars, history, Goto,
              Return, Abort
  <2>1. CASE \/ \E r \in Requests, h \in InHeaders : Arrive(r, h)
             \/ \E r \in Requests, c \in {"2xx", "5xx"} : Respond(r, c)
        BY <2>1 DEF Arrive, Respond
  <2>2. ASSUME NEW r \in Requests, PluginStep(r)
        PROVE  /\ SettledOpen' \/ openAge' = Timeout
               /\ \A q \in Requests : LetThrough(q) => RedisError(q)
    <3>1. ReadState(r) \/ ReadOpenAt(r)
          BY <2>2 DEF PluginStep, SetHalfOpen, DelHalf, CountProbe, ExpireProbe,
             CountTotal, ExpireTotal, CountFail, ExpireFail, CheckRate, Trip, Stamp,
             Reset
    <3> QED BY <3>1, ConfigAssumption DEF ReadState, ReadOpenAt, TimedOut
  <2>3. ASSUME NEW r \in Requests, RedisError(r)
        PROVE  /\ SettledOpen' \/ openAge' = Timeout
               /\ \A q \in Requests : LetThrough(q) => RedisError(q)
        BY <2>3 DEF RedisError
  <2>4. CASE WindowPasses
        BY <2>4 DEF WindowPasses
  <2>5. CASE Tick
        BY <2>5, ConfigAssumption DEF Tick
  <2> QED BY <2>1, <2>2, <2>3, <2>4, <2>5 DEF Next
<1> QED BY <1>1, CBInvariant, PTL DEF Spec, OpenHolds
=============================================================================
