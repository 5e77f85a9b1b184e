----------------------------- MODULE RateLimit -----------------------------
(***************************************************************************)
(* The rate-limit plugin of the gateway (plugins/rate-limit): requests of  *)
(* one client for one API, taken by several gateways and counted in one    *)
(* Redis by a sliding window, a fixed window or a token bucket.            *)
(*                                                                         *)
(* A script is atomic, but the time it works with is the clock of the      *)
(* gateway that sent it: Offset[g] ticks ahead of Redis's clock `now`, and *)
(* read up to Delay ticks before the script runs.  Redis expires keys by   *)
(* its own clock.  An answer may be lost; the driver then sends the script *)
(* again or reports an error.                                              *)
(*                                                                         *)
(* Tokens are counted in parts of 1/Len.rpm, so that rpm/60 tokens per     *)
(* second are rpm parts per tick and every amount is an integer.           *)
(***************************************************************************)
EXTENDS Integers, FiniteSets, FiniteSetsExt

CONSTANTS
  Slots,      \* requests that can be under way at the same time
  Gateways,
  Offset,     \* gateway -> how far its clock is ahead of Redis's
  Skew,       \* the most that two gateways' clocks differ by
  Delay,      \* longest time from Date.now() to the script
  Len,        \* ticks in a window, for rpm, rph and rpd
  Configs,    \* configurations of the policy
  DefaultRpm, \* the 100 of `rpm ?? 100`
  Plans,      \* limits of the plans, 0 for none
  PlanTTL,    \* PLAN_CACHE_TTL_MS
  MaxTime,    \* bound: the last tick
  MaxTotal,   \* configuration -> bound: requests in a behaviour
  MaxFailures,\* bound: scripts not run and answers lost in a behaviour
  None        \* no value

Periods == {"rpm", "rph", "rpd"}
Limits == [Periods -> Nat]

ASSUME ClockAssumption ==
  /\ Offset \in [Gateways -> Nat]
  /\ \A g, h \in Gateways : Offset[g] - Offset[h] <= Skew
  /\ Skew \in Nat /\ Delay \in Nat /\ PlanTTL \in Nat /\ MaxTime \in Nat
  /\ Len \in [Periods -> Nat \ {0}]
\* parseIntCfg and parseFloatCfg take nothing that is not positive; 0 is a
\* limit that is not set.
ASSUME PolicyAssumption ==
  /\ DefaultRpm \in Nat \ {0}
  /\ Configs \subseteq
       [strategy : {"sliding_window", "fixed_window", "token_bucket"},
        limits : Limits, burst : Nat, refill : Nat, plan : BOOLEAN]
\* plans is a finite table.
ASSUME PlanAssumption ==
  /\ Plans \subseteq Limits
  /\ \A p \in Periods : \E top \in Plans : \A q \in Plans : q[p] <= top[p]

\* No hash is taken for a missing key.
ASSUME NoneAssumption == None \notin [tokens : Int, last : Nat, exp : Nat]

Slack == Skew + Delay
Times == 0..MaxTime
Stamps == {t + Offset[g] : t \in Times, g \in Gateways}
Windows == UNION {{s \div Len[p] : s \in Stamps} : p \in Periods}

VARIABLES
  cfg,      \* the policy's configuration
  now,      \* Redis's clock
  zset,     \* period -> the sorted set, of [id, score]
  zexp,     \* period -> when that key expires
  count,    \* period -> window id -> the counter
  cexp,     \* period -> window id -> when it expires
  bucket,   \* [tokens, last, exp] of the hash, or None
  planCache,\* gateway -> [limits, at] in localCache, or None
  req,      \* slot -> the request it holds
  grants,   \* history: period -> [id, stamp, at, exp] of those it let pass
  promise,  \* history: the last Retry-After given and not overtaken, or None
  taken,    \* history: requests so far
  failures  \* history: scripts not run and answers lost so far

store == <<zset, zexp, count, cexp, bucket>>
limitVars == <<cfg, now, store, planCache, req, grants, promise, taken, failures>>

Unlimited == [p \in Periods |-> 0]
Idle == [pc |-> "idle", id |-> 0, g |-> None, period |-> None, limit |-> Unlimited,
         stamp |-> 0]

LimitInit ==
  /\ cfg \in Configs
  /\ now = 0
  /\ zset = [p \in Periods |-> {}]
  /\ zexp = [p \in Periods |-> 0]
  /\ count = [p \in Periods |-> [w \in Windows |-> 0]]
  /\ cexp = [p \in Periods |-> [w \in Windows |-> 0]]
  /\ bucket = None
  /\ planCache = [g \in Gateways |-> None]
  /\ req = [r \in Slots |-> Idle]
  /\ grants = [p \in Periods |-> {}]
  /\ promise = None
  /\ taken = 0 /\ failures = 0

CeilDiv(a, b) == (a + b - 1) \div b
Clock(g) == now + Offset[g]

----------------------------------------------------------------------------
(* A request.                                                              *)

\* The next period with a limit; the token bucket has a single round.
Following(p, limit) ==
  LET after == CASE p = "rpm" -> {"rph", "rpd"} [] p = "rph" -> {"rpd"}
                 [] p = "rpd" -> {} [] OTHER -> Periods
      left == {q \in after : limit[q] > 0}
  IN IF left = {} THEN None
     ELSE IF "rpm" \in left THEN "rpm" ELSE IF "rph" \in left THEN "rph" ELSE "rpd"

First(limit) ==
  IF cfg.strategy = "token_bucket" /\ Following(None, limit) # None
  THEN "rpm" ELSE Following(None, limit)

\* The script for period p is sent with the clock of this moment.
Send(r, id, g, p, limit) ==
  req' = [req EXCEPT ![r] = [pc |-> "sent", id |-> id, g |-> g, period |-> p,
                             limit |-> limit, stamp |-> Clock(g)]]

\* With no limit at all the plugin lets the request pass.
Begin(r, id, g, limit) ==
  IF First(limit) = None THEN req' = [req EXCEPT ![r] = Idle]
                         ELSE Send(r, id, g, First(limit), limit)

\* The plan fills in the limits the policy does not set.
WithPlan(limits) ==
  [p \in Periods |-> IF cfg.limits[p] = 0 THEN limits[p] ELSE cfg.limits[p]]
AsksPlan == cfg.plan /\ (cfg.limits["rpm"] = 0 \/ cfg.limits["rpd"] = 0)
LocalFresh(g) == planCache[g] # None /\ now - planCache[g].at < PlanTTL

\* rateLimit up to its first await.
Start(r, g) ==
  /\ req[r].pc = "idle"
  /\ taken < MaxTotal[cfg]
  /\ taken' = taken + 1
  /\ IF AsksPlan /\ ~LocalFresh(g)
     THEN req' = [req EXCEPT ![r] = [Idle EXCEPT !.pc = "plan", !.id = taken', !.g = g]]
     ELSE Begin(r, taken', g,
                IF AsksPlan THEN WithPlan(planCache[g].limits) ELSE cfg.limits)
  /\ UNCHANGED <<cfg, now, store, planCache, grants, promise, failures>>

\* resolvePlanLimits finds a plan in Redis or at the subscription service: the
\* subscriber's, or the one before it.
PlanFound(r) ==
  \E limits \in Plans :
    /\ req[r].pc = "plan"
    /\ planCache' = [planCache EXCEPT ![req[r].g] = [limits |-> limits, at |-> now]]
    /\ Begin(r, req[r].id, req[r].g, WithPlan(limits))
    /\ UNCHANGED <<cfg, now, store, grants, promise, taken, failures>>

\* resolvePlanLimits returns null.
PlanFails(r) ==
  /\ req[r].pc = "plan"
  /\ Begin(r, req[r].id, req[r].g, cfg.limits)
  /\ UNCHANGED <<cfg, now, store, planCache, grants, promise, taken, failures>>

\* The request is let pass in its period and goes on to the next one.
Go(r) ==
  LET q == req[r]
      next == IF cfg.strategy = "token_bucket" THEN None
              ELSE Following(q.period, q.limit)
  IN IF next = None THEN req' = [req EXCEPT ![r] = Idle]
     ELSE Send(r, q.id, q.g, next, q.limit)

\* The script has run and its answer is lost with the connection.  ioredis
\* sends the script again with the same arguments, or gives up: the catch of
\* each strategy lets the request pass.
AnswerLost(r) ==
  /\ failures < MaxFailures /\ failures' = failures + 1
  /\ Go(r) \/ UNCHANGED req
  /\ UNCHANGED grants

\* A script that lets r pass; exp is the expiry it leaves its key.
Pass(r, exp) ==
  LET q == req[r]
      grant == [id |-> q.id, stamp |-> q.stamp, at |-> now, exp |-> exp]
  IN /\ \/ /\ Go(r)
           /\ grants' = [grants EXCEPT ![q.period] = @ \cup {grant}]
           /\ UNCHANGED failures
        \/ AnswerLost(r)
     /\ promise' = IF promise # None /\ promise.period = q.period THEN None ELSE promise

\* Retry-After of a denied request, in ticks of the gateway's clock.
\* Mutant of RetryAfter: always the least.
RetryAfter_Now(reset, clock) == 1
RetryAfter(reset, clock) == IF reset - clock > 1 THEN reset - clock ELSE 1

\* A script that denies r: 429 with Retry-After.
Deny(r, reset) ==
  LET q == req[r] IN
  \/ /\ req' = [req EXCEPT ![r] = Idle]
     /\ promise' = [period |-> q.period, limit |-> q.limit[q.period],
                    window |-> q.stamp \div Len[q.period],
                    at |-> Clock(q.g) + RetryAfter(reset, Clock(q.g))]
     /\ UNCHANGED <<grants, failures>>
  \/ AnswerLost(r) /\ UNCHANGED promise

\* Redis does not take the script, and the request passes.
FailOpen(r) ==
  /\ req[r].pc = "sent"
  /\ failures < MaxFailures /\ failures' = failures + 1
  /\ Go(r)
  /\ UNCHANGED <<cfg, now, store, planCache, grants, promise, taken>>

----------------------------------------------------------------------------
(* SLIDING_WINDOW                                                          *)

\* ZREMRANGEBYSCORE key -inf window_start
\* Mutant of InWindow: the window is one tick short.
InWindow_Off(score, stamp, len) == score > stamp - len + 1
InWindow(score, stamp, len) == score > stamp - len

\* The members a script leaves that runs now with this stamp.
Kept(p, stamp) ==
  {m \in zset[p] : zexp[p] > now /\ InWindow(m.score, stamp, Len[p])}

SlidingPasses(p, limit, stamp) == Cardinality(Kept(p, stamp)) < limit

SlidingRuns(r) ==
  LET q == req[r]
      p == q.period
      kept == Kept(p, q.stamp)
  IN /\ q.pc = "sent"
     /\ cfg.strategy = "sliding_window"
     /\ \/ /\ SlidingPasses(p, q.limit[p], q.stamp)
           /\ zset' = [zset EXCEPT ![p] = kept \cup {[id |-> q.id, score |-> q.stamp]}]
           /\ zexp' = [zexp EXCEPT ![p] = now + 2 * Len[p]]
           /\ Pass(r, now + 2 * Len[p])
        \/ /\ ~SlidingPasses(p, q.limit[p], q.stamp)
           /\ zset' = [zset EXCEPT ![p] = kept]
           /\ \E first \in kept :
                /\ \A m \in kept : first.score <= m.score
                /\ Deny(r, IF first.score > 0 THEN first.score + Len[p]
                                              ELSE q.stamp + Len[p])
           /\ UNCHANGED zexp
     /\ UNCHANGED <<cfg, now, count, cexp, bucket, planCache, taken>>

----------------------------------------------------------------------------
(* FIXED_WINDOW                                                            *)

\* INCR
Current(p, w) == 1 + IF cexp[p][w] > now THEN count[p][w] ELSE 0
\* EXPIRE only when INCR has created the counter
Expiry(p, w) == IF Current(p, w) = 1 THEN now + Len[p] ELSE cexp[p][w]

\* Mutant of Within: one request too many.
Within_OneMore(current, limit) == current <= limit + 1
Within(current, limit) == current <= limit

FixedRuns(r) ==
  LET q == req[r]
      p == q.period
      w == q.stamp \div Len[p]
  IN /\ q.pc = "sent"
     /\ cfg.strategy = "fixed_window"
     /\ count' = [count EXCEPT ![p][w] = Current(p, w)]
     /\ cexp' = [cexp EXCEPT ![p][w] = Expiry(p, w)]
     /\ IF Within(Current(p, w), q.limit[p])
        THEN Pass(r, Expiry(p, w))
        ELSE Deny(r, Clock(q.g) + Expiry(p, w) - now)
     /\ UNCHANGED <<cfg, now, zset, zexp, bucket, planCache, taken>>

----------------------------------------------------------------------------
(* TOKEN_BUCKET                                                            *)

Token == Len["rpm"]
RpmOr100(rpm) == IF rpm > 0 THEN rpm ELSE DefaultRpm
\* burst_size, in tokens, and refill_rate
Capacity(rpm) == IF cfg.burst > 0 THEN cfg.burst ELSE CeilDiv(3 * RpmOr100(rpm), 2)
Rate(rpm) == IF cfg.refill > 0 THEN cfg.refill ELSE RpmOr100(rpm)
FillTime(rpm) == CeilDiv(Capacity(rpm) * Token, Rate(rpm))

\* Mutant of Refilled: a clock behind takes nothing out.
Refilled_Clamped(tokens, elapsed, rate, cap) ==
  IF tokens + (IF elapsed > 0 THEN elapsed * rate ELSE 0) < cap
  THEN tokens + (IF elapsed > 0 THEN elapsed * rate ELSE 0) ELSE cap
Refilled(tokens, elapsed, rate, cap) ==
  IF tokens + elapsed * rate < cap THEN tokens + elapsed * rate ELSE cap

\* The parts of tokens a script finds that runs now with this stamp.
Level(rpm, stamp) ==
  IF bucket # None /\ bucket.exp > now
  THEN Refilled(bucket.tokens, stamp - bucket.last, Rate(rpm), Capacity(rpm) * Token)
  ELSE Capacity(rpm) * Token

BucketPasses(rpm, stamp) == Level(rpm, stamp) >= Token

BucketRuns(r) ==
  LET q == req[r]
      rpm == q.limit["rpm"]
      level == Level(rpm, q.stamp)
      exp == now + 2 * FillTime(rpm)
  IN /\ q.pc = "sent"
     /\ cfg.strategy = "token_bucket"
     /\ \/ /\ BucketPasses(rpm, q.stamp)
           /\ bucket' = [tokens |-> level - Token, last |-> q.stamp, exp |-> exp]
           /\ Pass(r, exp)
        \/ /\ ~BucketPasses(rpm, q.stamp)
           /\ bucket' = [tokens |-> level, last |-> q.stamp, exp |-> exp]
           /\ Deny(r, Clock(q.g) + CeilDiv(Token - level, Rate(rpm)))
     /\ UNCHANGED <<cfg, now, zset, zexp, count, cexp, planCache, taken>>

----------------------------------------------------------------------------

\* No script runs more than Delay ticks after its stamp was read.
TimePasses ==
  /\ now < MaxTime
  /\ \A r \in Slots : req[r].pc = "sent" => Clock(req[r].g) - req[r].stamp < Delay
  /\ now' = now + 1
  /\ UNCHANGED <<cfg, store, planCache, req, grants, promise, taken, failures>>

LimitNext ==
  \/ \E r \in Slots, g \in Gateways : Start(r, g)
  \/ \E r \in Slots : \/ PlanFound(r) \/ PlanFails(r)
                      \/ SlidingRuns(r) \/ FixedRuns(r) \/ BucketRuns(r)
                      \/ FailOpen(r)
  \/ TimePasses

LimitSpec == LimitInit /\ [][LimitNext]_limitVars

----------------------------------------------------------------------------
(* Properties.                                                             *)

\* The largest limit period p can have been checked against.
LargestLimit(p) ==
  IF cfg.limits[p] = 0 /\ cfg.plan THEN Max({q[p] : q \in Plans}) ELSE cfg.limits[p]

\* What was let pass in the n ticks from t on.
Granted(p, t, n) == {e \in grants[p] : t <= e.at /\ e.at < t + n}

\* However the requests of a client fall on the gateways, the sliding window
\* (SLIDING_WINDOW) lets at most the limit pass in any stretch of time that
\* is shorter than the window by the clocks' difference and the delay.
SlidingHolds ==
  cfg.strategy = "sliding_window" =>
    \A p \in Periods, t \in Times :
      Cardinality(Granted(p, t, Len[p] - Slack)) <= LargestLimit(p)

\* With one clock and no delay the fixed window (FIXED_WINDOW) lets at most
\* twice the limit pass in a window's length.  Otherwise a counter, which
\* expires by Redis's clock, may lapse while a gateway behind still names its
\* window, and a third counter counts in the same stretch: less than three
\* times the limit pass.
FixedHolds ==
  cfg.strategy = "fixed_window" =>
    \A p \in Periods, t \in Times :
      LargestLimit(p) > 0 =>
        Cardinality(Granted(p, t, Len[p] - Slack))
          <= IF Slack = 0 THEN 2 * LargestLimit(p) ELSE 3 * LargestLimit(p) - 1

\* In any stretch of time the token bucket (TOKEN_BUCKET) lets pass at most
\* its capacity and what it was refilled with, a clock that is behind
\* included: what such a clock takes out of the bucket comes back once.  The
\* key must outlive the clocks' difference, and the limit must not change.
BucketHolds ==
  LET rpm == cfg.limits["rpm"] IN
  (cfg.strategy = "token_bucket" /\ ~cfg.plan /\ Slack <= FillTime(rpm)) =>
    \A t \in Times : \A n \in 1..(MaxTime + 1 - t) :
      Cardinality(Granted("rpm", t, n)) <=
        Capacity(rpm) + ((n - 1 + Slack) * Rate(rpm)) \div Token

\* A client that was denied and waits for Retry-After, and for the clocks'
\* difference on top of it, is let pass by the sliding window or the bucket
\* that denied it if no other request was let pass since, and is counted in
\* a later window by the fixed one (applyRateLimitHeaders; limits that do not
\* change).
RetryAfterEnough ==
  (promise # None /\ ~cfg.plan) =>
    LET p == promise.period
        at == promise.at + Slack
    IN CASE cfg.strategy = "sliding_window" -> SlidingPasses(p, promise.limit, at)
         [] cfg.strategy = "fixed_window" -> at \div Len[p] > promise.window
         [] OTHER -> BucketPasses(promise.limit, at)
============================================================================
