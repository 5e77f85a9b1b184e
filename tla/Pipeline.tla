------------------------------ MODULE Pipeline ------------------------------
(***************************************************************************)
(* The catch-all handler of one gateway (server.ts): pre_request policies, *)
(* the upstream, post_response policies.  Every await is a step, so the    *)
(* handlers of several requests interleave; the results of token           *)
(* introspections and the answers of the upstream are shared in Redis.     *)
(*                                                                         *)
(* Which chain getPolicyChain returns is a free choice here, once for each *)
(* phase: any version of the chain of the API, or none.  ChainCache says   *)
(* which versions these can be.  Time is counted in ticks: the fetch of an *)
(* introspection ends after at most FetchMax, its time-out, and the SET of *)
(* the result, which has none of its own, after at most StoreMax.          *)
(***************************************************************************)
EXTENDS Plugins, Integers

CONSTANTS
  Requests,  \* connections of clients, one request at a time on each
  Inputs,    \* connection -> requests that may arrive on it
  Route,     \* the API a path is routed to; other paths have no route
  Chains,    \* API -> sequence of chains, each a sequence of policies
  IntroTTL,  \* cache_ttl_s of the introspection
  CacheTTL,  \* ttl of the response cache
  FetchMax,  \* time-out of a fetch
  StoreMax   \* how long a SET can take until Redis has it or it has failed

ASSUME TimeAssumption ==
  /\ IntroTTL \in Nat \ {0} /\ CacheTTL \in Nat \ {0}
  /\ FetchMax \in Nat /\ StoreMax \in Nat

AllPolicies == UNION {Range(c) : c \in UNION {Range(Chains[a]) : a \in DOMAIN Chains}}

\* AUTH_METHODS of auth/index.ts
AuthMethods == {"jwt", "introspect", "basic", "hmac", "api_key"}

\* The columns of policies: an integer order, and a list of methods and two
\* flags for an auth policy.  Every API that can be named has a chain.
ASSUME ChainsAssumption ==
  /\ \A a \in DOMAIN Chains : Chains[a] \in Seq(Seq(AllPolicies))
  /\ KeyApi \in DOMAIN Chains /\ Range(Route) \subseteq DOMAIN Chains
  /\ \A p \in AllPolicies :
       /\ p.order \in Int
       /\ p.type = "auth" => /\ p.cfg.methods \in Seq(Range(p.cfg.methods))
                            /\ p.cfg.anonymous \in BOOLEAN /\ p.cfg.failOpen \in BOOLEAN
       /\ p.type = "transform" => p.cfg.responseHeaders \in Seq(Range(p.cfg.responseHeaders))

VARIABLES
  live,    \* the access token is active at the authorization server
  dead,    \* ticks since it is not
  intro,   \* introspect:<hash> in Redis
  store,   \* cached answers in Redis
  h        \* the handlers, one for each connection

vars == <<live, dead, intro, store, h>>

TokenLag == IntroTTL + FetchMax + StoreMax
Nothing == [active |-> "none", ttl |-> 0]
NoAnswer == [status |-> 0, body |-> "none", headers |-> {}, via |-> "none"]
NoRequest == [method |-> "GET", path |-> "", cred |-> "none", origin |-> "none",
              ip |-> "", headers |-> {}, query |-> {}, body |-> "none"]

\* chain is history: the policies that pre_request has been given;
\* answer is the last answer on the connection and how it came about.
Idle(answer) ==
  [pc |-> "idle", ctx |-> createExecContext("", NoRequest), phase |-> "pre_request",
   todo |-> <<>>, method |-> 1, got |-> "none", age |-> 0, chain |-> <<>>,
   answer |-> answer]

Init ==
  /\ live = TRUE /\ dead = 0
  /\ intro = Nothing
  /\ store = <<>>
  /\ h = [r \in Requests |-> Idle(NoAnswer)]

-----------------------------------------------------------------------------
Become(r, new) == h' = [h EXCEPT ![r] = new]

\* A step of the handler that leaves Redis and the token alone.
Local(r, new) == Become(r, new) /\ UNCHANGED <<live, dead, intro, store>>

Answer(status, body, headers, via) ==
  Idle([status |-> status, body |-> body, headers |-> headers, via |-> via])

\* The headers of the context go out, its body does not.
flushAbort(c) ==
  Answer(c.code, IF c.code = 204 THEN "none" ELSE "error", c.resHeaders,
         IF c.hit THEN "hit" ELSE "abort")

flushCtxResponse(c) ==
  Answer(c.status, c.resBody, c.resHeaders, IF c.hit THEN "hit" ELSE "upstream")

(***************************************************************************)
(* A request arrives: matchRoute, checkUpstream, createExecContext.        *)
(***************************************************************************)
NoRoute(r, req) ==
  /\ h[r].pc = "idle"
  /\ req.path \notin DOMAIN Route
  /\ Local(r, Answer(404, "error", {}, "gateway"))

Blocked(r, req) ==
  /\ h[r].pc = "idle"
  /\ req.path \in DOMAIN Route
  /\ Local(r, Answer(502, "error", {}, "gateway"))

Arrive(r, req) ==
  /\ h[r].pc = "idle"
  /\ req.path \in DOMAIN Route
  /\ Local(r, [Idle(NoAnswer) EXCEPT !.pc = "chain",
                                     !.ctx = createExecContext(Route[req.path], req)])

(***************************************************************************)
(* executePhase: the chain of whatever API the context names by then (an   *)
(* API key may have changed it), or none, and its policies in order.       *)
(***************************************************************************)
BeginPhase(r) ==
  /\ h[r].pc = "chain"
  /\ \E v \in 0..Len(Chains[h[r].ctx.api]) :
       LET policies == IF v = 0 THEN <<>>
                       ELSE PhasePolicies(Chains[h[r].ctx.api][v], h[r].phase)
       IN  Local(r, [h[r] EXCEPT !.pc = "policies", !.todo = policies, !.method = 1,
                                 !.chain = IF h[r].phase = "pre_request"
                                             THEN policies ELSE @])

Policy(r) == Head(h[r].todo)

Running(r) ==
  /\ h[r].pc = "policies" /\ h[r].todo # <<>>
  /\ ~h[r].ctx.aborted /\ ~h[r].ctx.hit

Applies(r) == Running(r) /\ evalCondition(Policy(r).cond, h[r].ctx)

\* On to the next policy with context c.
Proceed(r, c) ==
  [h[r] EXCEPT !.pc = "policies", !.ctx = c, !.todo = Tail(@), !.method = 1,
               !.got = "none", !.age = 0]

\* The condition is false, or PLUGIN_MAP does not know the type.
SkipPolicy(r) ==
  /\ Running(r)
  /\ ~evalCondition(Policy(r).cond, h[r].ctx) \/ Policy(r).type \notin KnownTypes
  /\ Local(r, Proceed(r, h[r].ctx))

\* Plugins that end in one step.
RunPlugin(r) ==
  /\ Applies(r)
  /\ \E c \in Effect(Policy(r), h[r].ctx, h[r].phase) : Local(r, Proceed(r, c))

StoreEntry(k) == IF k \in DOMAIN store THEN store[k].entry ELSE NoEntry

\* cache.ts before the upstream, and after it; Redis may fail either time.
RunCacheLookup(r) ==
  /\ Applies(r) /\ Policy(r).type = "cache" /\ h[r].ctx.status = 0
  /\ LET c == h[r].ctx
         k == buildKey(c, Policy(r).cfg)
     IN  \E d \in IF Cacheable(c, Policy(r).cfg) THEN CacheLookup(c, StoreEntry(k))
                                                 ELSE {c} :
           Local(r, Proceed(r, d))

RunCacheStore(r) ==
  /\ Applies(r) /\ Policy(r).type = "cache" /\ h[r].ctx.status # 0
  /\ LET c == h[r].ctx
         k == buildKey(c, Policy(r).cfg)
         e == [entry |-> CacheEntry(c), ttl |-> CacheTTL]
     IN  store' \in {store} \cup
           (IF Cacheable(c, Policy(r).cfg) /\ Storable(c)
              THEN {[x \in DOMAIN store \cup {k} |-> IF x = k THEN e ELSE store[x]]}
              ELSE {})
  /\ Become(r, Proceed(r, h[r].ctx))
  /\ UNCHANGED <<live, dead, intro>>

-----------------------------------------------------------------------------
(***************************************************************************)
(* auth/index.ts: the methods are tried in order.                          *)
(***************************************************************************)
AuthPolicy(r) == Applies(r) /\ Policy(r).type = "auth"
Methods(r) == Policy(r).cfg.methods
Trying(r, m) ==
  AuthPolicy(r) /\ h[r].method <= Len(Methods(r)) /\ Methods(r)[h[r].method] = m

\* Mutant of Conclude: a method that fails ends the plugin.
Conclude_First(r, res) == Proceed(r, res.ctx)

Conclude(r, res) ==
  IF res.ok THEN Proceed(r, res.ctx)
  ELSE [h[r] EXCEPT !.pc = "policies", !.ctx = res.ctx, !.method = @ + 1,
                    !.got = "none", !.age = 0]

TryMethod(r) ==
  \E m \in {"jwt", "basic", "hmac", "api_key"} :
    /\ Trying(r, m)
    /\ \E res \in AuthResults(m, h[r].ctx, Policy(r).cfg) : Local(r, Conclude(r, res))

\* A name that is not one of AUTH_METHODS is skipped.
UnknownMethod(r) ==
  /\ AuthPolicy(r) /\ h[r].method <= Len(Methods(r))
  /\ Methods(r)[h[r].method] \notin AuthMethods
  /\ Local(r, Conclude(r, Failed(h[r].ctx)))

\* introspect.ts: without a bearer token there is nothing to ask.
IntrospectNothing(r) ==
  /\ Trying(r, "introspect") /\ h[r].pc = "policies"
  /\ h[r].ctx.cred \notin {"token", "badToken"}
  /\ Local(r, Conclude(r, Failed(h[r].ctx)))

\* A result in Redis (of the one good token).
IntrospectCached(r) ==
  /\ Trying(r, "introspect") /\ h[r].ctx.cred = "token"
  /\ intro.active # "none"
  /\ Local(r, Conclude(r, applyIntrospectResult(h[r].ctx, Policy(r).cfg, intro.active)))

\* Nothing there, or Redis does not answer.
IntrospectAsk(r) ==
  /\ Trying(r, "introspect") /\ h[r].ctx.cred \in {"token", "badToken"}
  /\ Local(r, [h[r] EXCEPT !.pc = "introspect"])

\* The authorization server looks at the token; the answer is under way.
IntrospectAnswers(r) ==
  /\ h[r].pc = "introspect" /\ h[r].got = "none"
  /\ Local(r, [h[r] EXCEPT !.got = IF live /\ h[r].ctx.cred = "token" THEN "yes" ELSE "no"])

\* Mutant of ResultTTL: a result is kept for longer than asked.
ResultTTL_Long(active) == TokenLag + 1

\* Inactive results are kept for 10 seconds, at most one tick.
ResultTTL(active) == IF active = "yes" THEN IntroTTL ELSE 1

\* resp.json() resolves; the result is sent to Redis.
IntrospectTake(r) ==
  /\ h[r].pc = "introspect" /\ h[r].got # "none"
  /\ Local(r, [h[r] EXCEPT !.pc = "storing", !.age = 0])

\* The SET resolves or fails: either way the answer is what counts.
IntrospectStore(r) ==
  /\ h[r].pc = "storing"
  /\ intro' \in {intro} \cup     \* the SET fails, or it is the entry of another token
       (IF h[r].ctx.cred = "token"
          THEN {[active |-> h[r].got, ttl |-> ResultTTL(h[r].got)]} ELSE {})
  /\ Become(r, Conclude(r, applyIntrospectResult(h[r].ctx, Policy(r).cfg, h[r].got)))
  /\ UNCHANGED <<live, dead, store>>

IntrospectFails(r) ==
  /\ h[r].pc = "introspect"
  /\ Local(r, Conclude(r, Unavailable(h[r].ctx, Policy(r).cfg)))

\* Every method has failed.
AuthFails(r) ==
  /\ AuthPolicy(r) /\ h[r].method > Len(Methods(r))
  /\ Local(r, Proceed(r, IF Policy(r).cfg.anonymous THEN h[r].ctx
                                                    ELSE abort(h[r].ctx, 401)))

-----------------------------------------------------------------------------
PhaseOver(r) ==
  h[r].pc = "policies" /\ (h[r].todo = <<>> \/ h[r].ctx.aborted \/ h[r].ctx.hit)

\* Mutant of Flush: only hits end the handler.
Flush_HitOnly(r) ==
  /\ PhaseOver(r) /\ h[r].phase = "pre_request" /\ h[r].ctx.hit
  /\ Local(r, flushCtxResponse(h[r].ctx))

\* Aborts first; a hit is always aborted too.
Flush(r) ==
  /\ PhaseOver(r) /\ h[r].phase = "pre_request" /\ (h[r].ctx.aborted \/ h[r].ctx.hit)
  /\ Local(r, IF h[r].ctx.aborted THEN flushAbort(h[r].ctx)
                                  ELSE flushCtxResponse(h[r].ctx))

Forward(r) ==
  /\ PhaseOver(r) /\ h[r].phase = "pre_request" /\ ~h[r].ctx.aborted /\ ~h[r].ctx.hit
  /\ Local(r, [h[r] EXCEPT !.pc = "upstream", !.todo = <<>>])

\* forwardRequest: what the upstream sends, or a 502 or 504 of the gateway.
UpstreamResponses ==
  {[status |-> 200, headers |-> {"content-type"}, body |-> "json"],
   [status |-> 504, headers |-> {}, body |-> "text"]}

TakeResponse(c, resp) ==
  [c EXCEPT !.status = resp.status, !.resBody = resp.body, !.resHeaders = resp.headers]

Respond(r, resp) ==
  /\ h[r].pc = "upstream"
  /\ Local(r, [h[r] EXCEPT !.pc = "chain", !.phase = "post_response",
                           !.ctx = TakeResponse(@, resp)])

\* The body breaks off: arrayBuffer() throws, the error handler answers.
ResponseBreaks(r) ==
  /\ h[r].pc = "upstream"
  /\ Local(r, Answer(500, "error", {}, "gateway"))

\* After post_response the answer is sent, aborted or not.
Finish(r) ==
  /\ PhaseOver(r) /\ h[r].phase = "post_response"
  /\ Local(r, flushCtxResponse(h[r].ctx))

-----------------------------------------------------------------------------
RevokeToken ==
  live /\ live' = FALSE /\ UNCHANGED <<dead, intro, store, h>>

Asking(r) == h[r].pc \in {"introspect", "storing"}

Tick ==
  /\ \A r \in Requests :
       /\ h[r].pc = "introspect" => h[r].age < FetchMax
       /\ h[r].pc = "storing" => h[r].age < StoreMax
  /\ h' = [r \in Requests |-> IF Asking(r) THEN [h[r] EXCEPT !.age = @ + 1] ELSE h[r]]
  /\ dead' = IF live \/ dead > TokenLag THEN dead ELSE dead + 1
  /\ intro' = IF intro.ttl <= 1 THEN Nothing ELSE [intro EXCEPT !.ttl = @ - 1]
  /\ store' = [k \in {x \in DOMAIN store : store[x].ttl > 1} |->
                 [store[k] EXCEPT !.ttl = @ - 1]]
  /\ UNCHANGED live

HandlerStep(r) ==
  \/ BeginPhase(r) \/ SkipPolicy(r) \/ RunPlugin(r)
  \/ RunCacheLookup(r) \/ RunCacheStore(r)
  \/ TryMethod(r) \/ UnknownMethod(r)
  \/ IntrospectNothing(r) \/ IntrospectCached(r) \/ IntrospectAsk(r)
  \/ IntrospectTake(r) \/ IntrospectStore(r) \/ IntrospectFails(r) \/ AuthFails(r)
  \/ Flush(r) \/ Forward(r) \/ Finish(r)
  \/ \E resp \in UpstreamResponses : Respond(r, resp)
  \/ ResponseBreaks(r)

Next ==
  \/ \E r \in Requests : \E req \in Inputs[r] :
       Arrive(r, req) \/ NoRoute(r, req) \/ Blocked(r, req)
  \/ \E r \in Requests : HandlerStep(r) \/ IntrospectAnswers(r)
  \/ RevokeToken
  \/ Tick

Spec == Init /\ [][Next]_vars

\* A handler runs to its end: all it awaits answers or has a time-out.
LiveSpec == Spec /\ \A r \in Requests : WF_vars(HandlerStep(r))

-----------------------------------------------------------------------------
GoodFor(m, cred) ==
  CASE m \in {"jwt", "introspect"} -> cred = "token"
    [] m = "basic"                 -> cred = "basic"
    [] m = "hmac"                  -> cred = "sig"
    [] m = "api_key"               -> cred \in {"key", "queryKey"}
    [] OTHER                       -> FALSE

\* An auth policy without condition that neither fails open nor lets the
\* anonymous pass.
Guards(p) ==
  p.type = "auth" /\ p.cond.key = "" /\ ~p.cfg.anonymous /\ ~p.cfg.failOpen

\* Whatever fails on the way (Redis, an authorization server, a plugin), a
\* request reaches the upstream only with a credential that one method of
\* each guarding policy of its chain accepts, and is answered from the cache
\* only with one that satisfies the guards that come before the cache
\* (executePhase's loop, authPlugin, the early returns of server.ts).
AuthBeforeUpstream ==
  \A r \in Requests : \A i \in DOMAIN h[r].chain :
    LET p == h[r].chain[i]
        beforeCache == \A j \in 1..(i - 1) : h[r].chain[j].type # "cache"
    IN  /\ Guards(p)
        /\ h[r].pc = "upstream" \/ (h[r].ctx.hit /\ beforeCache)
        => \E n \in DOMAIN p.cfg.methods : GoodFor(p.cfg.methods[n], h[r].ctx.cred)

\* An answer that was not an upstream's own success is never given again:
\* hits repeat 2xx answers only (cache.ts, the check before SET).
HitsAreGood ==
  \A r \in Requests : h[r].answer.via = "hit" => h[r].answer.status \in 200..299

\* A hit was answered without the body that cache.ts has put into the
\* context for it: cache.ts aborts on a hit too, and server.ts sends aborts,
\* with a body of its own, first.
BodyLost(r) == h[r].answer.via = "hit" /\ h[r].answer.body \in {"error", "none"}

\* A request that cors has let through is answered from its upstream without
\* the header of cors: forwardRequest takes over the headers of the upstream
\* in place of those that pre_request has set.  (No policy here removes it.)
CorsLost(r) ==
  /\ h[r].pc # "idle" /\ h[r].ctx.origin # "none"
  /\ \E i \in DOMAIN h[r].chain :
       h[r].chain[i].type = "cors" /\ h[r].chain[i].cond.key = ""
  /\ h'[r].pc = "idle" /\ h'[r].answer.via = "upstream"
  /\ "access-control" \notin h'[r].answer.headers

\* What plugins prepare before the upstream reaches the client, of which
\* docs/ROUTING.md names two: "CORS headers 注入" and "Redis 快取回應（命中則
\* bypass 上游）".  Even that one of the two always does is wrong: a behaviour
\* loses the body of a hit, and then the headers of cors.
PluginsReachClient ==
  [][(\A r \in Requests : ~ BodyLost(r)) \/ (\A r \in Requests : ~ CorsLost(r))]_vars

Introspecting(r) ==
  /\ h[r].todo # <<>> /\ Policy(r).type = "auth"
  /\ h[r].method <= Len(Methods(r)) /\ Methods(r)[h[r].method] = "introspect"

\* A token that the authorization server no longer takes as active lets
\* nobody in after TokenLag ticks: an answer may have been FetchMax under
\* way and StoreMax on its way to Redis, and is kept for IntroTTL
\* (introspect.ts).
RevokedTokenEnds ==
  [][\A r \in Requests :
       Introspecting(r) /\ h[r].ctx.client = "" /\ h'[r].ctx.client = "token"
         => dead < TokenLag]_vars

\* Every request is answered, whatever its chain and whatever fails.
RequestsAnswered ==
  \A r \in Requests : h[r].pc = "chain" ~> h[r].pc = "idle"
=============================================================================
