--------------------------- MODULE CircuitBreaker ---------------------------
(***************************************************************************)
(* The circuit breaker plugin of the gateway (circuit-breaker.ts), for one *)
(* API.  The same function runs twice per request: in pre_request, before  *)
(* the upstream has answered (statusCode 0), and in post_response.  Its    *)
(* state is a handful of Redis keys shared by every gateway process; each  *)
(* await is a step of its own here, so requests interleave between them,   *)
(* and a request may end with an exception after any of them.  The policy  *)
(* engine's plugin (policy-engine/internal/plugins/circuit_breaker.go) has *)
(* the same logic on the same keys.                                        *)
(***************************************************************************)
EXTENDS Naturals

CONSTANTS
  Requests,     \* requests in flight at the same time, on any gateway
  Threshold,    \* config: failures that open the breaker
  ErrThreshold, \* config: failure rate, in percent, that opens it
  Timeout,      \* config: ticks from open to half_open
  HalfOpenMax,  \* config: requests let through in half_open
  MaxCount,     \* bound on the counters of one window
  InHeaders     \* x-circuit-breaker as a request may arrive with it

Headers == {"none", "half_open", "half_open_probe"}

ASSUME ConfigAssumption ==
  /\ Threshold \in Nat \ {0} /\ ErrThreshold \in Nat \ {0}
  /\ Timeout \in Nat \ {0} /\ HalfOpenMax \in Nat \ {0}
  /\ MaxCount \in Nat \ {0}
  /\ InHeaders \subseteq Headers

VARIABLES
  state,    \* cb:state, "closed" when there is no such key
  openAge,  \* age of cb:open_at, up to Timeout; no such key counts as old
  half,     \* cb:half, up to HalfOpenMax + 1; 0 when there is no such key
  halfTTL,  \* its time to live
  fails,    \* cb:fail
  total,    \* cb:total
  lasting,  \* the counters that exist without an expiry
  pc,       \* a request's next await
  code,     \* ctx.statusCode
  hdr,      \* ctx.requestHeaders['x-circuit-breaker']
  seen,     \* the counter value its last INCR returned
  quiet,    \* history: ticks since a command of the half_open branch
  brought,  \* history: a request has arrived with the header of a probe
  failed    \* history: a Redis command has failed

redisVars == <<state, openAge, half, halfTTL, fails, total, lasting>>
history == <<quiet, brought, failed>>
vars == <<redisVars, pc, code, hdr, seen, history>>

\* Awaits of the plugin: reading the state, then those of each branch.
OpenBranch == {"openAt", "setHalf", "delHalf"}
HalfBranch == {"half", "halfExpire"}
ClosedBranch == {"count", "countExpire", "fail", "failExpire", "rate",
                 "trip", "stamp", "reset"}
InPlugin == {"read"} \cup OpenBranch \cup HalfBranch \cup ClosedBranch
CounterNames == {"half", "fails", "total"}

TypeOK ==
  /\ state \in {"closed", "open", "half_open"}
  /\ openAge \in 0..Timeout
  /\ half \in 0..(HalfOpenMax + 1) /\ halfTTL \in 0..Timeout
  /\ fails \in Nat /\ total \in Nat
  /\ lasting \subseteq CounterNames
  /\ pc \in [Requests -> InPlugin \cup {"idle", "upstream"}]
  /\ code \in [Requests -> {"0", "2xx", "5xx"}]
  /\ hdr \in [Requests -> Headers]
  /\ seen \in [Requests -> Nat]
  /\ quiet \in 0..Timeout /\ brought \in BOOLEAN /\ failed \in BOOLEAN

Init ==
  /\ state = "closed" /\ openAge = Timeout
  /\ half = 0 /\ halfTTL = 0
  /\ fails = 0 /\ total = 0 /\ lasting = {}
  /\ pc = [r \in Requests |-> "idle"]
  /\ code = [r \in Requests |-> "0"]
  /\ hdr = [r \in Requests |-> "none"]
  /\ seen = [r \in Requests |-> 0]
  /\ quiet = Timeout /\ brought = FALSE /\ failed = FALSE

-----------------------------------------------------------------------------
Goto(r, l) == pc' = [pc EXCEPT ![r] = l]

\* The plugin returns: before the upstream the request goes on to it, after
\* it the request is over.
Return(r) == Goto(r, IF code[r] = "0" THEN "upstream" ELSE "idle")

\* abort() ends the request; after the upstream nobody looks at ctx.aborted.
Abort(r) == Goto(r, "idle")

\* INCR of the counter c at n: a key it creates has no expiry, one that it
\* finds keeps its own.
Incr(c, n) == lasting' = IF n = 0 THEN lasting \cup {c} ELSE lasting

\* EXPIRE or DEL of the counters in cs.
Ends(cs) == lasting' = lasting \ cs

\* The catch-all handler reaches pre_request.
Arrive(r, h) ==
  /\ pc[r] = "idle"
  /\ Goto(r, "read")
  /\ code' = [code EXCEPT ![r] = "0"]
  /\ hdr' = [hdr EXCEPT ![r] = h]
  /\ brought' = (brought \/ h = "half_open_probe")
  /\ UNCHANGED <<redisVars, seen, quiet, failed>>

\* forwardRequest answers (a timeout is a 504), post_response begins.
Respond(r, c) ==
  /\ pc[r] = "upstream"
  /\ code' = [code EXCEPT ![r] = c]
  /\ Goto(r, "read")
  /\ UNCHANGED <<redisVars, hdr, seen, history>>

\* Mutant of ReadState: the early return for statusCode 0 is missing.
ReadState_CountsEarly(r) ==
  /\ pc[r] = "read"
  /\ CASE state = "open"      -> Goto(r, "openAt")
       [] state = "half_open" -> Goto(r, "half")
       [] state = "closed"    -> Goto(r, "count")
  /\ UNCHANGED <<redisVars, code, hdr, seen, history>>

ReadState(r) ==
  /\ pc[r] = "read"
  /\ CASE state = "open"      -> Goto(r, "openAt")
       [] state = "half_open" -> Goto(r, "half")
       [] state = "closed"    -> IF code[r] = "0" THEN Return(r)
                                                  ELSE Goto(r, "count")
  /\ UNCHANGED <<redisVars, code, hdr, seen, history>>

\* Mutant of TimedOut: a tick too early.
TimedOut_Early == openAge + 1 >= Timeout

TimedOut == openAge >= Timeout

\* Mutant of ReadOpenAt: a refused request stamps open_at anew.
ReadOpenAt_Renews(r) ==
  /\ pc[r] = "openAt"
  /\ IF TimedOut THEN Goto(r, "setHalf") /\ UNCHANGED openAge
                 ELSE Abort(r) /\ openAge' = 0
  /\ UNCHANGED <<state, half, halfTTL, fails, total, lasting,
                 code, hdr, seen, history>>

ReadOpenAt(r) ==
  /\ pc[r] = "openAt"
  /\ IF TimedOut THEN Goto(r, "setHalf") ELSE Abort(r)
  /\ UNCHANGED <<redisVars, code, hdr, seen, history>>

\* SET half_open; the DEL of the probe counter follows.
SetHalfOpen(r) ==
  /\ pc[r] = "setHalf"
  /\ state' = "half_open"
  /\ Goto(r, "delHalf")
  /\ UNCHANGED <<openAge, half, halfTTL, fails, total, lasting,
                 code, hdr, seen, history>>

DelHalf(r) ==
  /\ pc[r] = "delHalf"
  /\ half' = 0 /\ halfTTL' = 0 /\ Ends({"half"})
  /\ hdr' = [hdr EXCEPT ![r] = "half_open"]
  /\ Return(r)
  /\ UNCHANGED <<state, openAge, fails, total, code, seen, history>>

\* INCR of the probe counter, by a request or by its answer.
CountProbe(r) ==
  /\ pc[r] = "half"
  /\ half' = IF half > HalfOpenMax THEN half ELSE half + 1
  /\ Incr("half", half)
  /\ seen' = [seen EXCEPT ![r] = half']
  /\ Goto(r, "halfExpire")
  /\ quiet' = 0
  /\ UNCHANGED <<state, openAge, halfTTL, fails, total, code, hdr, brought, failed>>

\* What the plugin does with the count it got.
TryProbe(r) ==
  IF seen[r] > HalfOpenMax
    THEN Abort(r) /\ UNCHANGED hdr
    ELSE Return(r) /\ hdr' = [hdr EXCEPT ![r] = "half_open_probe"]

\* Mutant of ExpireProbe: there is no EXPIRE.
ExpireProbe_None(r) ==
  /\ pc[r] = "halfExpire"
  /\ TryProbe(r)
  /\ seen' = [seen EXCEPT ![r] = 0]
  /\ quiet' = 0
  /\ UNCHANGED <<redisVars, code, brought, failed>>

\* EXPIRE (nothing if the counter is gone): every request, let through or
\* refused, and every answer renews the expiry.
ExpireProbe(r) ==
  /\ pc[r] = "halfExpire"
  /\ halfTTL' = IF half > 0 THEN Timeout ELSE 0
  /\ Ends({"half"})
  /\ TryProbe(r)
  /\ seen' = [seen EXCEPT ![r] = 0]
  /\ quiet' = 0
  /\ UNCHANGED <<state, openAge, half, fails, total, code, brought, failed>>

\* INCR, then EXPIRE of cb:total.
CountTotal(r) ==
  /\ pc[r] = "count" /\ total < MaxCount
  /\ total' = total + 1 /\ Incr("total", total)
  /\ Goto(r, "countExpire")
  /\ UNCHANGED <<state, openAge, half, halfTTL, fails, code, hdr, seen, history>>

ExpireTotal(r) ==
  /\ pc[r] = "countExpire"
  /\ Ends({"total"})
  /\ \/ code[r] = "5xx" /\ Goto(r, "fail")
     \/ code[r] # "5xx" /\ hdr[r] = "half_open_probe" /\ Goto(r, "reset")
     \/ code[r] # "5xx" /\ hdr[r] # "half_open_probe" /\ Return(r)
  /\ UNCHANGED <<state, openAge, half, halfTTL, fails, total,
                 code, hdr, seen, history>>

\* INCR, then EXPIRE of cb:fail.
CountFail(r) ==
  /\ pc[r] = "fail" /\ fails < MaxCount
  /\ fails' = fails + 1 /\ Incr("fails", fails)
  /\ seen' = [seen EXCEPT ![r] = fails + 1]
  /\ Goto(r, "failExpire")
  /\ UNCHANGED <<state, openAge, half, halfTTL, total, code, hdr, history>>

ExpireFail(r) ==
  /\ pc[r] = "failExpire"
  /\ Ends({"fails"})
  /\ Goto(r, "rate")
  /\ UNCHANGED <<state, openAge, half, halfTTL, fails, total,
                 code, hdr, seen, history>>

\* A total that is gone (deleted by another trip) counts as 1.
FailRate(r) == (seen[r] * 100) \div (IF total = 0 THEN 1 ELSE total)

CheckRate(r) ==
  /\ pc[r] = "rate"
  /\ IF seen[r] >= Threshold \/ FailRate(r) >= ErrThreshold
       THEN Goto(r, "trip") ELSE Return(r)
  /\ seen' = [seen EXCEPT ![r] = 0]
  /\ UNCHANGED <<redisVars, code, hdr, history>>

\* Promise.all: SET open reaches Redis first ...
Trip(r) ==
  /\ pc[r] = "trip"
  /\ state' = "open"
  /\ Goto(r, "stamp")
  /\ UNCHANGED <<openAge, half, halfTTL, fails, total, lasting,
                 code, hdr, seen, history>>

\* ... then SET open_at and the two DELs.
Stamp(r) ==
  /\ pc[r] = "stamp"
  /\ openAge' = 0
  /\ fails' = 0 /\ total' = 0 /\ Ends({"fails", "total"})
  /\ Return(r)
  /\ UNCHANGED <<state, half, halfTTL, code, hdr, seen, history>>

\* "probe succeeded, reset to closed".
Reset(r) ==
  /\ pc[r] = "reset"
  /\ state' = "closed" /\ openAge' = Timeout
  /\ half' = 0 /\ halfTTL' = 0
  /\ fails' = 0 /\ total' = 0 /\ lasting' = {}
  /\ Return(r)
  /\ UNCHANGED <<code, hdr, seen, history>>

\* A Redis command fails: executePhase logs the exception and goes on.  What
\* earlier commands did stays, a counter without its EXPIRE for one.
RedisError(r) ==
  /\ pc[r] \in InPlugin
  /\ Return(r)
  /\ seen' = [seen EXCEPT ![r] = 0]
  /\ failed' = TRUE
  /\ UNCHANGED <<redisVars, code, hdr, quiet, brought>>

\* The counters of a window expire, each by its own EXPIRE.
WindowPasses ==
  /\ \/ "fails" \notin lasting /\ fails' = 0 /\ UNCHANGED total
     \/ "total" \notin lasting /\ total' = 0 /\ UNCHANGED fails
  /\ UNCHANGED <<state, openAge, half, halfTTL, lasting,
                 pc, code, hdr, seen, history>>

Tick ==
  /\ openAge < Timeout \/ halfTTL > 0 \/ quiet < Timeout
  /\ openAge' = IF openAge < Timeout THEN openAge + 1 ELSE openAge
  /\ halfTTL' = IF halfTTL > 0 THEN halfTTL - 1 ELSE 0
  /\ half' = IF halfTTL <= 1 /\ "half" \notin lasting THEN 0 ELSE half
  /\ quiet' = IF quiet < Timeout THEN quiet + 1 ELSE quiet
  /\ UNCHANGED <<state, fails, total, lasting, pc, code, hdr, seen, brought, failed>>

-----------------------------------------------------------------------------
PluginStep(r) ==
  \/ ReadState(r) \/ ReadOpenAt(r) \/ SetHalfOpen(r) \/ DelHalf(r)
  \/ CountProbe(r) \/ ExpireProbe(r)
  \/ CountTotal(r) \/ ExpireTotal(r)
  \/ CountFail(r) \/ ExpireFail(r) \/ CheckRate(r)
  \/ Trip(r) \/ Stamp(r) \/ Reset(r)

Next ==
  \/ \E r \in Requests, h \in InHeaders : Arrive(r, h)
  \/ \E r \in Requests, c \in {"2xx", "5xx"} : Respond(r, c)
  \/ \E r \in Requests : PluginStep(r) \/ RedisError(r)
  \/ WindowPasses
  \/ Tick

Spec == Init /\ [][Next]_vars

\* Requests keep coming, handlers run to their end, upstreams answer or time
\* out (PROXY_TIMEOUT_MS), and time passes.
Fairness ==
  /\ \A r \in Requests :
       /\ WF_vars(\E h \in InHeaders : Arrive(r, h))
       /\ WF_vars(\E c \in {"2xx", "5xx"} : Respond(r, c))
       /\ WF_vars(PluginStep(r))
  /\ WF_vars(Tick)

LiveSpec == Spec /\ Fairness

-----------------------------------------------------------------------------
\* Results are recorded only for requests the upstream has answered.
AnswerBeforeCount ==
  \A r \in Requests : /\ pc[r] \in ClosedBranch => code[r] # "0"
                      /\ pc[r] = "upstream" => code[r] = "0"

\* A probe exists only when the breaker has opened, and reads it so.
ProbeNeverCounts ==
  ~ brought =>
     \A r \in Requests :
        /\ hdr[r] = "half_open_probe" =>
              state # "closed" /\ pc[r] \notin ClosedBranch
        /\ pc[r] \in HalfBranch => state # "closed"
        /\ pc[r] # "reset"

\* A counter has an expiry, unless it is about to get one or a command failed.
CountersExpire ==
  ~ failed =>
     /\ "half" \in lasting => \E r \in Requests : pc[r] = "halfExpire"
     /\ "total" \in lasting => \E r \in Requests : pc[r] = "countExpire"
     /\ "fails" \in lasting => \E r \in Requests : pc[r] = "failExpire"

\* The probe counter is gone when the half_open branch was quiet for Timeout.
ProbesRunOut ==
  half # 0 => \/ "half" \in lasting
              \/ halfTTL > 0 /\ halfTTL + quiet <= Timeout

(***************************************************************************)
(* The inductive invariant: only answered requests are counted, a probe    *)
(* that was let through in half_open never reaches the branch that would   *)
(* count it or close the breaker, a counter is without an expiry only      *)
(* between its INCR and its EXPIRE or after a failed command, and the one  *)
(* of the probes runs out when nothing renews it.                          *)
(***************************************************************************)
CBInv ==
  /\ TypeOK /\ AnswerBeforeCount /\ ProbeNeverCounts
  /\ CountersExpire /\ ProbesRunOut

\* The breaker is open, not yet for Timeout, and no request in the plugin has
\* read it before it opened or has already decided to half-open it.
SettledOpen ==
  /\ state = "open" /\ openAge < Timeout
  /\ \A r \in Requests : pc[r] \in {"idle", "read", "openAt", "upstream"}

LetThrough(r) == pc[r] # "upstream" /\ pc'[r] = "upstream"

(***************************************************************************)
(* An open breaker holds: once the requests that were in the plugin when   *)
(* it opened are through, it stays open until Timeout has passed, and no   *)
(* request reaches the upstream unless a Redis command of its own fails.   *)
(***************************************************************************)
OpenHolds ==
  [][SettledOpen =>
       /\ SettledOpen' \/ openAge' = Timeout
       /\ \A r \in Requests : LetThrough(r) => RedisError(r)]_vars

(***************************************************************************)
(* What the comment in the branch that closes the breaker says ("a probe   *)
(* succeeded -> reset to closed"): a probe that is answered well and ends, *)
(* no command having failed and with nobody else in the plugin, leaves the *)
(* breaker closed.  The branch runs only when the state reads closed, and  *)
(* a probe reads half_open.                                                *)
(***************************************************************************)
ProbeSuccessCloses ==
  [][\A r \in Requests :
       /\ hdr[r] = "half_open_probe" /\ code[r] = "2xx"
       /\ pc[r] \in InPlugin /\ pc'[r] = "idle"
       /\ ~ failed' /\ \A q \in Requests \ {r} : pc[q] \notin InPlugin
       => state' = "closed"]_vars

\* The half-open breaker counts the request r, to one probe too many.
Overdrawn(r) ==
  /\ pc[r] = "half" /\ code[r] = "0"
  /\ pc'[r] = "halfExpire" /\ seen'[r] > HalfOpenMax

(***************************************************************************)
(* Refusals in half_open feed on traffic: as every request renews the      *)
(* expiry of the counter, a request is refused only if another one is in   *)
(* that branch or was there less than Timeout ago.  So a steady stream of  *)
(* requests may be refused for ever, and a lull of Timeout ends it, unless *)
(* a command has failed.                                                   *)
(***************************************************************************)
LullRestoresProbes ==
  [][\A r \in Requests :
       Overdrawn(r) /\ ~ failed
         => quiet < Timeout \/ \E q \in Requests : pc[q] = "halfExpire"]_vars

(***************************************************************************)
(* An open breaker is tried again: with requests coming, time passing and  *)
(* Redis answering it does not stay open.                                  *)
(***************************************************************************)
OpenIsRetried == state = "open" /\ ~ failed ~> state # "open" \/ failed
=============================================================================
