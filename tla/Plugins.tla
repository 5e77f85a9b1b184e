------------------------------ MODULE Plugins ------------------------------
(***************************************************************************)
(* The request context of the gateway (pipeline/types.ts) and its plugins  *)
(* as operators: a plugin maps a context to the set of contexts it may     *)
(* leave behind, one for every outcome of the services it asks.  A header  *)
(* or query parameter is its name: what matters is whether it is there.    *)
(*                                                                         *)
(* The circuit breaker and the rate limiter are modelled in detail in      *)
(* CircuitBreaker and RateLimit; here they are their outcomes.             *)
(***************************************************************************)
EXTENDS Naturals, Sequences, FiniteSets, SequencesExt

CONSTANTS
  KeyApi,     \* the API that the API key of a request was issued for
  NoEntry     \* no such key in Redis

(***************************************************************************)
(* A request as it arrives: cred is the one credential it carries.         *)
(***************************************************************************)
Credentials == {"none", "token", "badToken", "basic", "badBasic",
                "key", "queryKey", "badKey", "sig", "badSig"}

createExecContext(api, req) ==
  [api |-> api, client |-> "", plan |-> "", claims |-> {},
   method |-> req.method, path |-> req.path, cred |-> req.cred,
   origin |-> req.origin, ip |-> req.ip,
   reqHeaders |-> req.headers, query |-> req.query, reqBody |-> req.body,
   status |-> 0, resHeaders |-> {}, resBody |-> "none",
   hit |-> FALSE, aborted |-> FALSE, code |-> 0]

abort(c, status) == [c EXCEPT !.aborted = TRUE, !.code = status]

respond(c, names) == [c EXCEPT !.resHeaders = @ \cup names]

-----------------------------------------------------------------------------
\* claims.ts: what a credential says of its bearer, and the headers for the
\* upstream that carry it.
applyIdentity(c, id) ==
  [c EXCEPT !.client = id.client,
            !.plan = IF id.plan = "" THEN @ ELSE id.plan,
            !.claims = @ \cup id.claims,
            !.reqHeaders = @ \cup {"x-client-id"}
                             \cup (IF id.plan = "" THEN {} ELSE {"x-plan"})]

forwardClaims(c, wanted) ==
  [c EXCEPT !.reqHeaders = @ \cup (wanted \cap c.claims)]

Identity(cred) ==
  [client |-> cred, plan |-> IF cred \in {"key", "queryKey"} THEN "pro" ELSE "",
   claims |-> IF cred = "token" THEN {"sub"} ELSE {}]

Failed(c) == [ok |-> FALSE, ctx |-> c]
Passed(c) == [ok |-> TRUE, ctx |-> c]

\* A service that does not answer, or answers with an error.
Unavailable(c, cfg) == IF cfg.failOpen THEN Passed(c) ELSE Failed(c)

\* jwt.ts: a token with a good signature and the scopes asked for; the key
\* set may be out of reach.
jwtAuth(c, cfg) ==
  IF c.cred # "token" THEN {Failed(c)}
  ELSE {Failed(c)} \cup
       (IF cfg.scopes
          THEN {Passed(forwardClaims(applyIdentity(c, Identity("token")), cfg.forward))}
          ELSE {})

\* basic.ts: malformed and wrong credentials fail, else the service decides.
basicAuth(c, cfg) ==
  CASE c.cred = "basic"    -> {Passed(applyIdentity(c, Identity("basic"))),
                               Unavailable(c, cfg)}
    [] c.cred = "badBasic" -> {Failed(c), Unavailable(c, cfg)}
    [] OTHER               -> {Failed(c)}

\* hmac.ts: no service is asked; a stale timestamp, a large body or another
\* signature fail.  The client is who the request says it is.
hmacAuth(c, cfg) ==
  IF c.cred # "sig" THEN {Failed(c)}
  ELSE {Passed(IF "x-client-id" \in c.reqHeaders THEN [c EXCEPT !.client = "sig"] ELSE c)}

\* A key in the query is taken out of the context before it is looked at.
TakeKey(c) ==
  IF c.cred = "queryKey" THEN [c EXCEPT !.query = @ \ {"api_key"}] ELSE c

\* api-key.ts: the answer of Redis or of the service also names the API.
apiKeyAuth(c0, cfg) ==
  LET c == TakeKey(c0) IN
  CASE c.cred \in {"key", "queryKey"} ->
         {Passed([applyIdentity(c, Identity(c.cred)) EXCEPT !.api = KeyApi]),
          Unavailable(c, cfg)}
    [] c.cred = "badKey" -> {Failed(c), Unavailable(c, cfg)}
    [] OTHER             -> {Failed(c)}

\* introspect.ts applied to an answer: "yes", "no" or "error".
applyIntrospectResult(c, cfg, info) ==
  CASE info = "yes" /\ cfg.scopes ->
         Passed(forwardClaims(applyIdentity(c, Identity("token")), cfg.forward))
    [] info = "error"             -> Unavailable(c, cfg)
    [] OTHER                      -> Failed(c)

-----------------------------------------------------------------------------
\* cors.ts: a request without Origin is none of its business.
cors(c, cfg) ==
  CASE c.origin = "none"                            -> {c}
    [] c.origin = "foreign" /\ ~cfg.anyOrigin       -> {abort(c, 403)}
    [] OTHER ->
         LET d == respond(c, {"access-control"})
         IN  {IF c.method = "OPTIONS" THEN abort(d, 204) ELSE d}

\* ip-whitelist.ts, either mode; the address is the first of x-forwarded-for.
ipWhitelist(c, cfg) ==
  IF c.ip = "" THEN {abort(c, 400)}
  ELSE LET denied == \/ cfg.mode = "whitelist" /\ c.ip \notin cfg.ips
                     \/ cfg.mode = "blacklist" /\ c.ip \in cfg.ips
       IN  {IF denied THEN abort(c, 403) ELSE c}

\* rate-limit/index.ts: no limit known, let through, or refused.
rateLimit(c, cfg) ==
  LET d == respond(c, {"ratelimit"}) IN {c, d, abort(d, 429)}

\* circuit-breaker.ts, before the upstream and after it.
circuitBreaker(c, cfg) == {c, abort(c, 503)}

\* transform/headers.ts: one operation on a set of headers.
HeaderOp(h, o) ==
  CASE o.op \in {"set", "add"} -> h \cup {o.name}
    [] o.op = "remove"         -> h \ {o.name}
    [] o.op = "rename" /\ o.target # "" /\ o.name \in h -> (h \cup {o.target}) \ {o.name}
    [] o.op = "copy" /\ o.target # "" /\ o.name \in h   -> h \cup {o.target}
    [] OTHER                   -> h

applyOps(h, ops) == FoldLeft(HeaderOp, h, ops)

\* transform/query.ts: remove, then rename in turn, then add.
Rename(q, pair) ==
  IF pair.old \in q THEN (q \cup {pair.new}) \ {pair.old} ELSE q

transformQueryParams(q, cfg) ==
  FoldLeft(Rename, q \ cfg.removeQuery, cfg.renameQuery) \cup cfg.addQuery

\* transform/body.ts: only a JSON object within the size limit is rewritten,
\* and only if the headers, as the header operations left them, call it JSON.
transformBody(b, headers, wanted) ==
  IF wanted /\ b = "json" /\ "content-type" \in headers THEN "rewritten" ELSE b

injectStandardHeaders(h) == h \cup {"x-request-id", "x-forwarded-for", "x-gateway"}

transformPlugin(c, cfg, phase) ==
  LET reqHeaders == applyOps(c.reqHeaders, cfg.requestHeaders)
      resHeaders == applyOps(c.resHeaders, cfg.responseHeaders)
  IN  IF phase = "pre_request"
        THEN {[c EXCEPT !.reqHeaders = injectStandardHeaders(reqHeaders),
                        !.query = transformQueryParams(@, cfg),
                        !.reqBody = transformBody(@, reqHeaders, cfg.bodyOps)]}
        ELSE {[c EXCEPT !.resHeaders = resHeaders,
                        !.resBody = transformBody(@, resHeaders, cfg.bodyOps)]}

-----------------------------------------------------------------------------
\* cache.ts: neither method nor client is in the key unless key_by asks, and
\* of the headers only those that vary_headers names and the request has.
buildKey(c, cfg) ==
  <<c.api, c.path,
    IF cfg.keyBy \in {"path_method", "path_method_client"} THEN c.method ELSE "",
    IF cfg.keyBy = "path_method_client" THEN c.client ELSE "",
    cfg.vary \cap c.reqHeaders>>

Cacheable(c, cfg) ==
  /\ c.method \in {"GET", "HEAD"}
  /\ ~(cfg.bypass /\ "no-cache" \in c.reqHeaders)

CacheHit(c, entry) ==
  abort(respond([c EXCEPT !.hit = TRUE, !.status = entry.status, !.resBody = entry.body],
                entry.headers \cup {"x-cache"}),
        entry.status)

\* Redis may fail: then there is neither HIT nor MISS.
CacheLookup(c, entry) ==
  {c, IF entry = NoEntry THEN respond(c, {"x-cache"}) ELSE CacheHit(c, entry)}

\* Mutant of Storable: errors are kept as well.
Storable_AnyStatus(c) == c.resBody # "none"

Storable(c) == c.status \in 200..299 /\ c.resBody # "none"

CacheEntry(c) ==
  [status |-> c.status, headers |-> c.resHeaders, body |-> c.resBody,
   method |-> c.method, path |-> c.path]

-----------------------------------------------------------------------------
\* What PLUGIN_MAP knows, older names of a plugin apart.
KnownTypes == {"auth", "rate_limit", "cors", "ip_whitelist", "transform", "cache",
               "circuit_breaker"}

\* The plugins that are done in one step.  An exception leaves the context
\* as it is: the executor logs it and goes on.
Effect(p, c, phase) ==
  CASE p.type = "cors"            -> cors(c, p.cfg)
    [] p.type = "ip_whitelist"    -> ipWhitelist(c, p.cfg)
    [] p.type = "rate_limit"      -> rateLimit(c, p.cfg)
    [] p.type = "circuit_breaker" -> circuitBreaker(c, p.cfg)
    [] p.type = "transform"       -> transformPlugin(c, p.cfg, phase)
    [] OTHER                      -> {}

AuthResults(m, c, cfg) ==
  CASE m = "jwt"     -> jwtAuth(c, cfg)
    [] m = "basic"   -> basicAuth(c, cfg)
    [] m = "hmac"    -> hmacAuth(c, cfg)
    [] m = "api_key" -> apiKeyAuth(c, cfg)

\* executor.ts evalCondition: an unknown key does not restrict.
evalCondition(cond, c) ==
  CASE cond.key = "header" -> cond.value \in c.reqHeaders
    [] cond.key = "claim"  -> cond.value \in c.claims
    [] cond.key = "method" -> cond.value = c.method
    [] cond.key = "plan"   -> cond.value = c.plan
    [] OTHER               -> TRUE

\* The policies of a phase in the order they run: by order, ties as listed.
\* The n-th is the one that n - 1 others come before.
Selected(policies, phase) ==
  {i \in DOMAIN policies : policies[i].enabled /\ policies[i].phase = phase}

Before(policies, i, j) ==
  \/ policies[i].order < policies[j].order
  \/ policies[i].order = policies[j].order /\ i < j

PhasePolicies(policies, phase) ==
  LET P == Selected(policies, phase)
      nth(n) == CHOOSE i \in P : Cardinality({j \in P : Before(policies, j, i)}) = n - 1
  IN  [n \in 1..Cardinality(P) |-> policies[nth(n)]]
=============================================================================
