--------------------------- MODULE Pipeline_proofs ---------------------------
(***************************************************************************)
(* The policy pipeline for every set of chains, connections and requests:  *)
(* the phase runs every enabled policy once and in order, nothing reaches  *)
(* the upstream past a guarding auth policy, hits repeat good answers      *)
(* without their body, a forwarded request's client gets late headers      *)
(* only, and a revoked token is refused after TokenLag.                    *)
(***************************************************************************)
EXTENDS Pipeline, FunctionTheorems, FiniteSetTheorems, SequenceTheorems, TLAPS

-----------------------------------------------------------------------------
(* The order of a phase.                                                   *)

\* How many of the selected policies run before the i-th of the chain.
Rank(s, P, i) == Cardinality({j \in P : Before(s, j, i)})

\* Before orders the policies of a chain strictly and totally.
LEMMA BeforeOrders ==
  ASSUME NEW s \in Seq(AllPolicies)
  PROVE  /\ \A i \in DOMAIN s : ~Before(s, i, i)
         /\ \A i, j, k \in DOMAIN s : Before(s, i, j) /\ Before(s, j, k) => Before(s, i, k)
         /\ \A i, j \in DOMAIN s : i # j => Before(s, i, j) \/ Before(s, j, i)
<1>1. \A i \in DOMAIN s : i \in Int /\ s[i] \in AllPolicies
  BY LenProperties
<1>2. \A i \in DOMAIN s : s[i].order \in Int
  BY <1>1, ChainsAssumption
<1> QED BY <1>1, <1>2 DEF Before

\* A policy has as many before it as its place says, and no other policy has
\* as many.
LEMMA RankBijective ==
  ASSUME NEW s \in Seq(AllPolicies), NEW P \in SUBSET DOMAIN s
  PROVE  /\ IsFiniteSet(P) /\ Cardinality(P) \in Nat
         /\ \A i \in P : Rank(s, P, i) \in 0..(Cardinality(P) - 1)
         /\ \A i, j \in P : Before(s, i, j) => Rank(s, P, i) < Rank(s, P, j)
         /\ \A n \in 1..Cardinality(P) : \E i \in P : Rank(s, P, i) = n - 1
<1> DEFINE Pre(i) == {j \in P : Before(s, j, i)}
           N == Cardinality(P)
<1>1. IsFiniteSet(P) /\ N \in Nat
  <2>1. DOMAIN s = 1..Len(s) /\ Len(s) \in Nat
    BY LenProperties
  <2>2. IsFiniteSet(DOMAIN s)
    BY <2>1, FS_Interval
  <2> QED BY <2>2, FS_Subset, FS_CardinalityType
<1>2. \A i \in P : IsFiniteSet(Pre(i)) /\ Cardinality(Pre(i)) \in Nat
  <2> SUFFICES ASSUME NEW i \in P PROVE IsFiniteSet(Pre(i)) /\ Cardinality(Pre(i)) \in Nat
    OBVIOUS
  <2>1. Pre(i) \in SUBSET P
    OBVIOUS
  <2> QED BY <1>1, <2>1, FS_Subset, FS_CardinalityType
<1>3. ASSUME NEW i \in P, NEW j \in P, Before(s, i, j)
      PROVE  Cardinality(Pre(i)) < Cardinality(Pre(j))
  <2>1. Pre(i) \in SUBSET Pre(j) /\ i \in Pre(j) /\ i \notin Pre(i)
    BY <1>3, BeforeOrders
  <2>2. IsFiniteSet(Pre(j)) /\ Cardinality(Pre(i)) \in Nat /\ Cardinality(Pre(j)) \in Nat
    BY <1>2
  <2> HIDE DEF Pre
  <2>3. /\ Cardinality(Pre(i)) <= Cardinality(Pre(j))
        /\ Cardinality(Pre(j)) = Cardinality(Pre(i)) => Pre(j) = Pre(i)
    BY <2>1, <2>2, FS_Subset
  <2> QED BY <2>1, <2>2, <2>3
<1>4. ASSUME NEW i \in P PROVE Cardinality(Pre(i)) \in 0..(N - 1)
  <2>1. Pre(i) \in SUBSET P /\ i \notin Pre(i)
    BY BeforeOrders
  <2>2. Cardinality(Pre(i)) \in Nat
    BY <1>2
  <2> HIDE DEF Pre
  <2>3. /\ Cardinality(Pre(i)) <= N
        /\ N = Cardinality(Pre(i)) => P = Pre(i)
    BY <1>1, <2>1, FS_Subset
  <2> QED BY <1>1, <2>1, <2>2, <2>3
<1>5. ASSUME NEW n \in 1..N PROVE \E i \in P : Cardinality(Pre(i)) = n - 1
  <2> SUFFICES ASSUME \A i \in P : Cardinality(Pre(i)) # n - 1 PROVE FALSE
    OBVIOUS
  <2> DEFINE T == (0..(N - 1)) \ {n - 1}
             f == [i \in P |-> Cardinality(Pre(i))]
  <2>1. IsFiniteSet(0..(N - 1)) /\ Cardinality(0..(N - 1)) = N
    <3> HIDE DEF N
    <3>1. 0 \in Int /\ N - 1 \in Int
      BY <1>1
    <3>2. /\ IsFiniteSet(0..(N - 1))
          /\ Cardinality(0..(N - 1)) = IF 0 > N - 1 THEN 0 ELSE N - 1 - 0 + 1
      BY ONLY <3>1, FS_Interval
    <3> QED BY <1>1, <3>2
  <2>2. IsFiniteSet(T) /\ Cardinality(T) = N - 1
    <3> HIDE DEF N
    <3>1. n - 1 \in 0..(N - 1)
      BY <1>1, <1>5
    <3> DEFINE I == 0..(N - 1)
    <3>2. IsFiniteSet(I) /\ Cardinality(I) = N /\ n - 1 \in I
      BY <2>1, <3>1
    <3> HIDE DEF I
    <3>3. IsFiniteSet(I \ {n - 1}) /\ Cardinality(I \ {n - 1}) = N - 1
      BY <3>2, FS_RemoveElement
    <3> QED BY <3>3 DEF I
  <2>3. f \in [P -> T]
    <3> HIDE DEF Pre
    <3> QED BY <1>4
  <2>4. Cardinality(T) < Cardinality(P)
    BY <1>1, <2>2
  <2>5. PICK x \in P, y \in P : x # y /\ f[x] = f[y]
    <3> HIDE DEF f, T, Pre
    <3> QED BY <1>1, <2>2, <2>3, <2>4, FS_PigeonHole
  <2>6. Before(s, x, y) \/ Before(s, y, x)
    BY <2>5, BeforeOrders
  <2>7. Cardinality(Pre(x)) # Cardinality(Pre(y))
    <3> HIDE DEF Pre
    <3> QED BY <1>2, <1>3, <2>6
  <2> QED BY <2>5, <2>7
<1> QED BY <1>1, <1>3, <1>4, <1>5 DEF Rank

\* executor.ts runs each enabled policy of the phase once, in the order of
\* their order columns.
THEOREM PhaseOrder ==
  ASSUME NEW s \in Seq(AllPolicies), NEW phase
  PROVE  LET P == Selected(s, phase)
             run == PhasePolicies(s, phase)
         IN  /\ run \in Seq(AllPolicies)
             /\ \A n \in DOMAIN run : run[n].enabled /\ run[n].phase = phase
             /\ \A m, n \in DOMAIN run : m < n => run[m].order <= run[n].order
             /\ \E place \in Bijection(P, DOMAIN run) : \A i \in P : run[place[i]] = s[i]
<1> DEFINE P == Selected(s, phase)
           run == PhasePolicies(s, phase)
           N == Cardinality(P)
           nth(n) == CHOOSE i \in P : Cardinality({j \in P : Before(s, j, i)}) = n - 1
<1>1. P \in SUBSET DOMAIN s
  BY DEF Selected
<1>2. /\ N \in Nat
      /\ \A i \in P : Rank(s, P, i) \in 0..(N - 1)
      /\ \A i, j \in P : Before(s, i, j) => Rank(s, P, i) < Rank(s, P, j)
      /\ \A n \in 1..N : \E i \in P : Rank(s, P, i) = n - 1
  <2> HIDE DEF P
  <2> QED BY <1>1, RankBijective
<1>3. \A n \in 1..N : nth(n) \in P /\ Rank(s, P, nth(n)) = n - 1
  <2> HIDE DEF P
  <2> QED BY <1>2 DEF Rank
<1>4. run = [n \in 1..N |-> s[nth(n)]]
  BY DEF PhasePolicies
<1>5. \A i \in DOMAIN s : s[i] \in AllPolicies /\ i \in Int /\ s[i].order \in Int
  BY LenProperties, ChainsAssumption
<1> HIDE DEF nth, run, P
<1>6. run \in Seq(AllPolicies) /\ DOMAIN run = 1..N
  <2>1. run \in [1..N -> AllPolicies]
    BY <1>1, <1>3, <1>4, <1>5
  <2> QED BY <1>2, <2>1, SeqDef
<1>7. \A n \in DOMAIN run : run[n].enabled /\ run[n].phase = phase
  BY <1>3, <1>4, <1>6 DEF P, Selected
<1>8. ASSUME NEW m \in DOMAIN run, NEW n \in DOMAIN run, m < n
      PROVE  run[m].order <= run[n].order
  <2>1. /\ nth(m) \in P /\ nth(n) \in P /\ m \in Int /\ n \in Int
        /\ Rank(s, P, nth(m)) = m - 1 /\ Rank(s, P, nth(n)) = n - 1
    BY <1>2, <1>3, <1>6
  <2>2. ~Before(s, nth(n), nth(m))
    BY <1>2, <1>8, <2>1
  <2>3. s[nth(m)].order <= s[nth(n)].order
    BY <1>1, <1>5, <2>1, <2>2 DEF Before
  <2> QED BY <1>4, <1>6, <2>3
<1>9. \E place \in Bijection(P, DOMAIN run) : \A i \in P : run[place[i]] = s[i]
  <2> DEFINE place == [i \in P |-> Rank(s, P, i) + 1]
  <2>1. \A i, j \in P : Rank(s, P, i) = Rank(s, P, j) => i = j
    <3> SUFFICES ASSUME NEW i \in P, NEW j \in P, i # j
                 PROVE  Rank(s, P, i) # Rank(s, P, j)
      OBVIOUS
    <3>1. Before(s, i, j) \/ Before(s, j, i)
      BY <1>1, BeforeOrders
    <3> QED BY <1>2, <3>1
  <2>2. place \in [P -> 1..N]
    BY <1>2
  <2>3. \A i, j \in P : place[i] = place[j] => i = j
    BY <1>2, <2>1
  <2>4. \A n \in 1..N : \E i \in P : place[i] = n
    <3> SUFFICES ASSUME NEW n \in 1..N PROVE \E i \in P : place[i] = n
      OBVIOUS
    <3>1. PICK i \in P : Rank(s, P, i) = n - 1
      BY <1>2
    <3> QED BY <1>2, <3>1
  <2>5. \A i \in P : run[place[i]] = s[i]
    <3> SUFFICES ASSUME NEW i \in P PROVE run[place[i]] = s[i]
      OBVIOUS
    <3>1. place[i] \in 1..N /\ Rank(s, P, i) = place[i] - 1
      BY <1>2
    <3>2. nth(place[i]) = i
      BY <1>3, <2>1, <3>1
    <3> QED BY <1>4, <3>1, <3>2
  <2> HIDE DEF place
  <2>6. place \in Bijection(P, DOMAIN run)
    BY <1>6, <2>2, <2>3, <2>4 DEF Bijection, Injection, Surjection, IsInjective
  <2> QED BY <2>5, <2>6
<1> QED BY <1>6, <1>7, <1>8, <1>9 DEF P, run

\* So the policies of a phase are policies of that phase.
LEMMA PhaseSelects ==
  ASSUME NEW s \in Seq(AllPolicies), NEW phase
  PROVE  /\ PhasePolicies(s, phase) \in Seq(AllPolicies)
         /\ \A n \in DOMAIN PhasePolicies(s, phase) :
              /\ PhasePolicies(s, phase)[n].enabled
              /\ PhasePolicies(s, phase)[n].phase = phase
<1> DEFINE run == PhasePolicies(s, phase)
<1>1. run \in Seq(AllPolicies) /\ \A n \in DOMAIN run : run[n].enabled /\ run[n].phase = phase
  BY PhaseOrder
<1> QED BY <1>1

-----------------------------------------------------------------------------
(* What the plugins leave alone.                                           *)

CtxFields ==
  {"api", "client", "plan", "claims", "method", "path", "cred", "origin", "ip", "reqHeaders",
   "query", "reqBody", "status", "resHeaders", "resBody", "hit", "aborted", "code"}

\* d is c after a plugin that has not found the answer in the cache.
Kept(c, d) ==
  /\ DOMAIN d = CtxFields
  /\ d.cred = c.cred /\ d.status = c.status /\ d.hit = c.hit
  /\ d.api \in {c.api, KeyApi}

\* The helpers of the plugins keep them.
LEMMA HelpersKeep ==
  ASSUME NEW c, DOMAIN c = CtxFields
  PROVE  /\ Kept(c, c)
         /\ \A n : Kept(c, abort(c, n))
         /\ \A x : Kept(c, respond(c, x))
         /\ \A id : Kept(c, applyIdentity(c, id)) /\ applyIdentity(c, id).client = id.client
         /\ \A w : Kept(c, forwardClaims(c, w)) /\ forwardClaims(c, w).client = c.client
         /\ Kept(c, TakeKey(c)) /\ TakeKey(c).client = c.client
  BY DEF Kept, CtxFields, abort, respond, applyIdentity, forwardClaims, TakeKey

\* So does one helper after another.
LEMMA KeptTransitive ==
  ASSUME NEW c, NEW d, NEW e, Kept(c, d), Kept(d, e)
  PROVE  Kept(c, e)
  BY DEF Kept

\* Plugins that end in one step.
LEMMA EffectKeeps ==
  ASSUME NEW p, NEW c, NEW phase, DOMAIN c = CtxFields, NEW d \in Effect(p, c, phase)
  PROVE  Kept(c, d) /\ p.type # "auth"
<1>1. \A x : Kept(c, respond(c, x)) /\ DOMAIN respond(c, x) = CtxFields
  BY HelpersKeep DEF Kept
<1>2. \A x, n : Kept(c, abort(respond(c, x), n))
  BY <1>1, HelpersKeep, KeptTransitive
<1>3. Kept(c, c) /\ \A n : Kept(c, abort(c, n))
  BY HelpersKeep
<1>4. CASE p.type = "cors"
  BY <1>1, <1>2, <1>3, <1>4 DEF Effect, cors
<1>5. CASE p.type = "ip_whitelist"
  <2>1. d \in ipWhitelist(c, p.cfg)
    BY <1>5 DEF Effect
  <2>2. d = c \/ \E n : d = abort(c, n)
    <3>1. CASE c.ip = ""
      <4>1. d = abort(c, 400)
        BY <2>1, <3>1 DEF ipWhitelist
      <4> QED BY <4>1
    <3>2. CASE c.ip # ""
      <4>1. d = abort(c, 403) \/ d = c
        BY <2>1, <3>2 DEF ipWhitelist
      <4> QED BY <4>1
    <3> QED BY <3>1, <3>2
  <2> QED BY <1>3, <1>5, <2>2
<1>6. CASE p.type = "rate_limit"
  BY <1>1, <1>2, <1>3, <1>6 DEF Effect, rateLimit
<1>7. CASE p.type = "circuit_breaker"
  BY <1>3, <1>7 DEF Effect, circuitBreaker
<1>8. CASE p.type = "transform"
  <2>1. d \in transformPlugin(c, p.cfg, phase)
    BY <1>8 DEF Effect
  <2> DEFINE q == applyOps(c.reqHeaders, p.cfg.requestHeaders)
             s == applyOps(c.resHeaders, p.cfg.responseHeaders)
  <2>2. \/ d = [c EXCEPT !.reqHeaders = injectStandardHeaders(q),
                         !.query = transformQueryParams(@, p.cfg),
                         !.reqBody = transformBody(@, q, p.cfg.bodyOps)]
        \/ d = [c EXCEPT !.resHeaders = s,
                         !.resBody = transformBody(@, s, p.cfg.bodyOps)]
    BY <2>1 DEF transformPlugin
  <2> HIDE DEF q, s
  <2> QED BY <1>8, <2>2 DEF Kept, CtxFields
<1>9. \/ p.type = "cors" \/ p.type = "ip_whitelist" \/ p.type = "rate_limit"
      \/ p.type = "circuit_breaker" \/ p.type = "transform"
  BY DEF Effect
<1> QED BY <1>4, <1>5, <1>6, <1>7, <1>8, <1>9

\* What a method of auth may say: it keeps the context, and unless the
\* policy fails open it says yes only to a credential it takes.
Sound(m, c, cfg, res) ==
  /\ Kept(c, res.ctx)
  /\ res.ok \in BOOLEAN
  /\ res.ok /\ ~cfg.failOpen => GoodFor(m, c.cred)

\* The services' failures, by policy.
LEMMA UnavailableSound ==
  ASSUME NEW c, NEW d, NEW cfg, NEW m, cfg.failOpen \in BOOLEAN, Kept(c, d)
  PROVE  /\ Sound(m, c, cfg, Unavailable(d, cfg)) /\ Sound(m, c, cfg, Failed(d))
         /\ Unavailable(d, cfg).ctx = d /\ Failed(d).ctx = d
  BY DEF Sound, Unavailable, Failed, Passed

\* A good answer.
LEMMA PassedSound ==
  ASSUME NEW c, NEW d, NEW cfg, NEW m, Kept(c, d), GoodFor(m, c.cred)
  PROVE  Sound(m, c, cfg, Passed(d))
  BY DEF Sound, Passed

\* The methods that are done in one step.
LEMMA MethodsSound ==
  ASSUME NEW c, DOMAIN c = CtxFields, NEW cfg, cfg.failOpen \in BOOLEAN,
         NEW m \in {"jwt", "basic", "hmac", "api_key"}, NEW res \in AuthResults(m, c, cfg)
  PROVE  Sound(m, c, cfg, res)
<1>1. Kept(c, c)
  BY HelpersKeep
<1>2. \A id : /\ Kept(c, applyIdentity(c, id)) /\ DOMAIN applyIdentity(c, id) = CtxFields
  BY HelpersKeep DEF Kept
<1>3. Sound(m, c, cfg, Failed(c)) /\ Sound(m, c, cfg, Unavailable(c, cfg))
  BY <1>1, UnavailableSound
<1>4. CASE m = "jwt"
  <2>1. res = Failed(c) \/ (c.cred = "token" /\ res =
          Passed(forwardClaims(applyIdentity(c, Identity("token")), cfg.forward)))
    BY <1>4 DEF AuthResults, jwtAuth
  <2>2. Kept(c, forwardClaims(applyIdentity(c, Identity("token")), cfg.forward))
    BY <1>2, HelpersKeep, KeptTransitive
  <2>3. c.cred = "token" => GoodFor(m, c.cred)
    BY <1>4 DEF GoodFor
  <2> QED BY <1>3, <2>1, <2>2, <2>3, PassedSound
<1>5. CASE m = "basic"
  <2>1. \/ res \in {Failed(c), Unavailable(c, cfg)}
        \/ c.cred = "basic" /\ res = Passed(applyIdentity(c, Identity("basic")))
    BY <1>5 DEF AuthResults, basicAuth
  <2>2. c.cred = "basic" => GoodFor(m, c.cred)
    BY <1>5 DEF GoodFor
  <2> QED BY <1>2, <1>3, <2>1, <2>2, PassedSound
<1>6. CASE m = "hmac"
  <2>1. \/ res = Failed(c)
        \/ c.cred = "sig" /\ (res = Passed(c) \/ res = Passed([c EXCEPT !.client = "sig"]))
    BY <1>6 DEF AuthResults, hmacAuth
  <2>2. Kept(c, [c EXCEPT !.client = "sig"])
    BY DEF Kept, CtxFields
  <2>3. c.cred = "sig" => GoodFor(m, c.cred)
    BY <1>6 DEF GoodFor
  <2> QED BY <1>1, <1>3, <2>1, <2>2, <2>3, PassedSound
<1>7. CASE m = "api_key"
  <2> DEFINE d == TakeKey(c)
             e == applyIdentity(d, Identity(d.cred))
  <2>1. Kept(c, d) /\ DOMAIN d = CtxFields /\ d.cred = c.cred
    BY HelpersKeep DEF Kept
  <2>2. Kept(c, e)
    BY <2>1, HelpersKeep, KeptTransitive
  <2>3. \/ res \in {Failed(d), Unavailable(d, cfg)}
        \/ c.cred \in {"key", "queryKey"} /\ res = Passed([e EXCEPT !.api = KeyApi])
    BY <1>7, <2>1 DEF AuthResults, apiKeyAuth
  <2> HIDE DEF d, e
  <2>4. Kept(c, [e EXCEPT !.api = KeyApi])
    BY <2>2 DEF Kept, CtxFields
  <2>5. c.cred \in {"key", "queryKey"} => GoodFor(m, c.cred)
    BY <1>7 DEF GoodFor
  <2> QED BY <2>1, <2>3, <2>4, <2>5, PassedSound, UnavailableSound
<1> QED BY <1>4, <1>5, <1>6, <1>7

\* An introspection, of which only the good token gets a yes.
LEMMA IntrospectionSound ==
  ASSUME NEW c, DOMAIN c = CtxFields, NEW cfg, cfg.failOpen \in BOOLEAN,
         NEW info, info = "yes" => c.cred = "token"
  PROVE  /\ Sound("introspect", c, cfg, applyIntrospectResult(c, cfg, info))
         /\ info # "yes" => applyIntrospectResult(c, cfg, info).ctx = c
<1>1. Kept(c, c)
  BY HelpersKeep
<1>2. Kept(c, forwardClaims(applyIdentity(c, Identity("token")), cfg.forward))
  <2>1. Kept(c, applyIdentity(c, Identity("token")))
    BY HelpersKeep
  <2>2. DOMAIN applyIdentity(c, Identity("token")) = CtxFields
    BY <2>1 DEF Kept
  <2> QED BY <2>1, <2>2, HelpersKeep, KeptTransitive
<1>3. CASE info = "yes" /\ cfg.scopes
  <2>1. GoodFor("introspect", c.cred)
    BY <1>3 DEF GoodFor
  <2> QED BY <1>2, <1>3, <2>1, PassedSound DEF applyIntrospectResult
<1>4. CASE ~(info = "yes" /\ cfg.scopes)
  <2>1. applyIntrospectResult(c, cfg, info) \in {Failed(c), Unavailable(c, cfg)}
    BY <1>4 DEF applyIntrospectResult
  <2> QED BY <1>1, <2>1, UnavailableSound
<1> QED BY <1>3, <1>4

-----------------------------------------------------------------------------
(* The handler.                                                            *)

HFields == {"pc", "ctx", "phase", "todo", "method", "got", "age", "chain", "answer"}

\* The types of a handler's fields.
HTypes(w) ==
  /\ DOMAIN w = HFields /\ DOMAIN w.ctx = CtxFields
  /\ w.pc \in {"idle", "chain", "policies", "introspect", "storing", "upstream"}
  /\ w.phase \in {"pre_request", "post_response"}
  /\ w.method \in Nat \ {0}
  /\ w.todo \in Seq(AllPolicies) /\ w.chain \in Seq(AllPolicies)
  /\ w.pc # "idle" => w.ctx.api \in DOMAIN Chains
  /\ w.age \in Nat /\ w.got \in {"none", "yes", "no"}
  /\ w.pc = "introspect" => w.age <= FetchMax
  /\ w.pc = "storing" => w.age <= StoreMax

\* A handler at an introspection: the policy and the method say so.
AtIntrospection(w) ==
  /\ w.todo # <<>> /\ Head(w.todo).type = "auth"
  /\ w.method <= Len(Head(w.todo).cfg.methods)
  /\ Head(w.todo).cfg.methods[w.method] = "introspect"
  /\ ~w.ctx.aborted

\* Where answers of the authorization server and of the cache can be.
HControl(w) ==
  /\ w.pc \notin {"introspect", "storing"} => w.got = "none" /\ w.age = 0
  /\ w.got = "yes" => w.ctx.cred = "token"
  /\ w.pc \in {"introspect", "storing"} => AtIntrospection(w)
  /\ w.ctx.hit => /\ w.pc = "policies" /\ w.phase = "pre_request"
                  /\ w.ctx.aborted /\ w.ctx.code \in 200..299
  /\ w.phase = "post_response" => w.ctx.status # 0
  /\ w.pc = "upstream" => w.phase = "pre_request"
  /\ w.pc = "idle" => w.todo = <<>>

Vouches(p, cred) == \E n \in DOMAIN p.cfg.methods : GoodFor(p.cfg.methods[n], cred)

\* The guards among the first k - 1 policies accept the credential.
Vouched(w, k) == \A i \in 1..(k - 1) : Guards(w.chain[i]) => Vouches(w.chain[i], w.ctx.cred)

\* todo is what is left of the chain from its k-th policy on.
Left(todo, chain, k) ==
  /\ k \in 1..(Len(chain) + 1)
  /\ Len(todo) = Len(chain) + 1 - k
  /\ \A i \in 1..Len(todo) : todo[i] = chain[k - 1 + i]

\* A handler that goes on has been vouched for; one that found its answer in
\* the cache had been until then.
HVouch(w) ==
  /\ w.pc = "upstream" => Vouched(w, Len(w.chain) + 1)
  /\ w.phase = "pre_request" /\ w.pc \in {"policies", "introspect", "storing"} =>
       \E k \in Nat :
         /\ Left(w.todo, w.chain, k)
         /\ ~w.ctx.aborted => Vouched(w, k)
         /\ w.ctx.hit => \E i \in 1..(k - 1) : w.chain[i].type = "cache" /\ Vouched(w, i)

GoodHit(a) == a.via = "hit" => a.status \in 200..299 /\ a.body \in {"error", "none"}

HandlerOK(w) == HTypes(w) /\ HControl(w) /\ HVouch(w) /\ GoodHit(w.answer)

\* A new context.
LEMMA NewContext ==
  ASSUME NEW a, NEW req
  PROVE  /\ DOMAIN createExecContext(a, req) = CtxFields
         /\ createExecContext(a, req).hit = FALSE
         /\ createExecContext(a, req).aborted = FALSE
         /\ createExecContext(a, req).api = a
         /\ createExecContext(a, req).client = ""
  BY DEF createExecContext, CtxFields

NewCtx == createExecContext("", NoRequest)

\* The fields of a connection between requests.
LEMMA IdleFields ==
  ASSUME NEW a
  PROVE  /\ DOMAIN Idle(a) = HFields /\ Idle(a).pc = "idle" /\ Idle(a).phase = "pre_request"
         /\ Idle(a).todo = <<>> /\ Idle(a).chain = <<>> /\ Idle(a).answer = a
         /\ Idle(a).method = 1 /\ Idle(a).got = "none" /\ Idle(a).age = 0
         /\ Idle(a).ctx = NewCtx
<1> DEFINE w == [pc |-> "idle", ctx |-> NewCtx, phase |-> "pre_request",
                 todo |-> <<>>, method |-> 1, got |-> "none", age |-> 0, chain |-> <<>>,
                 answer |-> a]
<1>1. Idle(a) = w
  BY Zenon DEF Idle, NewCtx
<1>2. /\ DOMAIN w = HFields /\ w.pc = "idle" /\ w.phase = "pre_request" /\ w.todo = <<>>
      /\ w.method = 1 /\ w.got = "none" /\ w.age = 0 /\ w.chain = <<>> /\ w.answer = a
      /\ w.ctx = NewCtx
  BY DEF HFields
<1> HIDE DEF w
<1> QED BY <1>1, <1>2

\* A connection between requests is in order.
LEMMA IdleOK == \A a : GoodHit(a) => HandlerOK(Idle(a))
<1> SUFFICES ASSUME NEW a, GoodHit(a) PROVE HandlerOK(Idle(a))
  OBVIOUS
<1> DEFINE w == Idle(a)
<1>1. /\ DOMAIN w = HFields /\ w.pc = "idle" /\ w.phase = "pre_request" /\ w.todo = <<>>
      /\ w.method = 1 /\ w.got = "none" /\ w.age = 0 /\ w.chain = <<>> /\ w.answer = a
      /\ w.ctx = NewCtx
  BY IdleFields
<1>2. DOMAIN NewCtx = CtxFields /\ NewCtx.hit = FALSE /\ NewCtx.aborted = FALSE
  BY NewContext, Zenon DEF NewCtx
<1>3. <<>> \in Seq(AllPolicies)
  BY EmptySeq
<1> HIDE DEF w
<1>5. HTypes(w)
  BY <1>1, <1>2, <1>3 DEF HTypes
<1>6. HControl(w) /\ HVouch(w)
  BY <1>1, <1>2 DEF HControl, HVouch
<1> QED BY <1>1, <1>5, <1>6 DEF HandlerOK, w

\* A guard's condition always holds, and PLUGIN_MAP knows it.
LEMMA GuardsRun ==
  ASSUME NEW p, Guards(p), NEW c
  PROVE  evalCondition(p.cond, c) /\ p.type \in KnownTypes
  BY DEF Guards, evalCondition, KnownTypes

\* The handler is at a policy.
At(r) ==
  /\ h[r].pc \in {"policies", "introspect", "storing"} /\ h[r].todo # <<>>
  /\ ~h[r].ctx.aborted /\ ~h[r].ctx.hit

\* The policy a handler is at is one of its chain.
LEMMA AtPolicy ==
  ASSUME NEW r, HTypes(h[r]), h[r].todo # <<>>
  PROVE  /\ Policy(r) \in AllPolicies /\ Policy(r) = h[r].todo[1]
         /\ Tail(h[r].todo) \in Seq(AllPolicies)
         /\ Len(h[r].todo) \in Nat \ {0}
         /\ Len(Tail(h[r].todo)) = Len(h[r].todo) - 1
         /\ \A i \in 1..Len(Tail(h[r].todo)) : Tail(h[r].todo)[i] = h[r].todo[i + 1]
<1>1. h[r].todo \in Seq(AllPolicies)
  BY DEF HTypes
<1>2. Len(h[r].todo) \in Nat \ {0}
  BY <1>1, EmptySeq, LenProperties
<1> QED BY <1>1, <1>2, HeadTailProperties, ElementOfSeq DEF Policy

\* Taking a policy off todo.
LEMMA LeftTail ==
  ASSUME NEW todo \in Seq(AllPolicies), NEW chain \in Seq(AllPolicies), NEW k \in Nat,
         todo # <<>>, Left(todo, chain, k)
  PROVE  /\ k \in 1..Len(chain) /\ Head(todo) = chain[k]
         /\ Left(Tail(todo), chain, k + 1)
<1>1. Len(chain) \in Nat /\ Len(todo) \in Nat \ {0}
  BY EmptySeq, LenProperties
<1>2. /\ Head(todo) = todo[1] /\ Len(Tail(todo)) = Len(todo) - 1
      /\ \A i \in 1..Len(Tail(todo)) : Tail(todo)[i] = todo[i + 1]
  BY HeadTailProperties
<1>3. /\ k \in 1..(Len(chain) + 1) /\ Len(todo) = Len(chain) + 1 - k
      /\ \A i \in 1..Len(todo) : todo[i] = chain[k - 1 + i]
  BY DEF Left
<1>4. k \in 1..Len(chain)
  BY <1>1, <1>3
<1>5. todo[1] = chain[k]
  <2>1. 1 \in 1..Len(todo) /\ k - 1 + 1 = k
    BY <1>1
  <2> QED BY <1>3, <2>1
<1>6. ASSUME NEW i \in 1..Len(Tail(todo)) PROVE Tail(todo)[i] = chain[(k + 1) - 1 + i]
  <2>1. i + 1 \in 1..Len(todo) /\ k - 1 + (i + 1) = (k + 1) - 1 + i
    BY <1>1, <1>2
  <2> QED BY <1>2, <1>3, <2>1
<1>7. Len(Tail(todo)) = Len(chain) + 1 - (k + 1)
  BY <1>1, <1>2, <1>3
<1>8. k + 1 \in 1..(Len(chain) + 1)
  BY <1>1, <1>4
<1> QED BY <1>2, <1>4, <1>5, <1>6, <1>7, <1>8 DEF Left

\* On to the next policy: fine if a guard was satisfied, or the request is
\* aborted.
LEMMA ProceedOK ==
  ASSUME NEW r, HandlerOK(h[r]), At(r), NEW d, Kept(h[r].ctx, d),
         h[r].phase = "pre_request" =>
           d.aborted \/ (Guards(Policy(r)) => Vouches(Policy(r), h[r].ctx.cred))
  PROVE  HandlerOK(Proceed(r, d))
<1> DEFINE v == h[r]
           w == Proceed(r, d)
<1>1. HTypes(v) /\ HControl(v) /\ HVouch(v) /\ GoodHit(v.answer)
  BY DEF HandlerOK
<1>2. /\ DOMAIN w = HFields /\ w.pc = "policies" /\ w.ctx = d /\ w.todo = Tail(v.todo)
      /\ w.method = 1 /\ w.got = "none" /\ w.age = 0
      /\ w.phase = v.phase /\ w.chain = v.chain /\ w.answer = v.answer
  BY <1>1 DEF Proceed, HTypes, HFields
<1>3. /\ DOMAIN d = CtxFields /\ d.cred = v.ctx.cred /\ d.status = v.ctx.status
      /\ d.hit = v.ctx.hit /\ d.api \in {v.ctx.api, KeyApi}
  BY DEF Kept
<1>4. /\ Policy(r) = v.todo[1] /\ Tail(v.todo) \in Seq(AllPolicies)
      /\ Len(v.todo) \in Nat \ {0} /\ Len(Tail(v.todo)) = Len(v.todo) - 1
      /\ \A i \in 1..Len(Tail(v.todo)) : Tail(v.todo)[i] = v.todo[i + 1]
  BY <1>1, AtPolicy DEF At
<1>5. v.pc \in {"policies", "introspect", "storing"} /\ ~v.ctx.aborted /\ ~v.ctx.hit
  BY DEF At
<1>6. Len(v.chain) \in Nat
  BY <1>1, LenProperties DEF HTypes
<1> HIDE DEF v, w
<1>7. HTypes(w)
  BY <1>1, <1>2, <1>3, <1>4, <1>5, TimeAssumption, ChainsAssumption DEF HTypes
<1>8. HControl(w)
  BY <1>1, <1>2, <1>3, <1>5 DEF HControl
<1>9. HVouch(w)
  <2> SUFFICES ASSUME v.phase = "pre_request"
               PROVE  \E k \in Nat : /\ Left(w.todo, w.chain, k)
                                     /\ ~w.ctx.aborted => Vouched(w, k)
    BY <1>2, <1>3, <1>5 DEF HVouch
  <2>1. PICK k \in Nat : Left(v.todo, v.chain, k) /\ Vouched(v, k)
    BY <1>1, <1>5 DEF HVouch
  <2>2. /\ k \in 1..Len(v.chain) /\ Policy(r) = v.chain[k]
        /\ Left(w.todo, w.chain, k + 1)
    <3>1. v.todo \in Seq(AllPolicies) /\ v.chain \in Seq(AllPolicies) /\ v.todo # <<>>
      BY <1>1 DEF HTypes, At, v
    <3>2. Head(v.todo) = Policy(r)
      BY DEF Policy, v
    <3> QED BY <1>2, <2>1, <3>1, <3>2, LeftTail
  <2>4. ASSUME ~w.ctx.aborted PROVE Vouched(w, k + 1)
    <3>1. Guards(v.chain[k]) => Vouches(v.chain[k], v.ctx.cred)
      BY <1>2, <2>2, <2>4 DEF v
    <3>2. \A i \in 1..(k + 1 - 1) : i \in 1..(k - 1) \/ i = k
      BY <2>1
    <3> QED BY <1>2, <1>3, <2>1, <3>1, <3>2 DEF Vouched
  <2> QED BY <2>2, <2>4
<1> QED BY <1>1, <1>2, <1>7, <1>8, <1>9 DEF HandlerOK, w

\* The methods of an auth policy.
LEMMA AuthConfig ==
  ASSUME NEW p \in AllPolicies, p.type = "auth"
  PROVE  /\ DOMAIN p.cfg.methods = 1..Len(p.cfg.methods) /\ Len(p.cfg.methods) \in Nat
         /\ p.cfg.anonymous \in BOOLEAN /\ p.cfg.failOpen \in BOOLEAN
<1>1. p.cfg.methods \in Seq(Range(p.cfg.methods))
  BY ChainsAssumption
<1> QED BY <1>1, ChainsAssumption, LenProperties

\* A method of auth has answered: on to the next policy, or to the next
\* method.
LEMMA ConcludeOK ==
  ASSUME NEW r, HandlerOK(h[r]), At(r), Policy(r).type = "auth",
         h[r].method <= Len(Methods(r)), NEW m, Methods(r)[h[r].method] = m,
         NEW res, Sound(m, h[r].ctx, Policy(r).cfg, res)
  PROVE  HandlerOK(Conclude(r, res))
<1>1. HTypes(h[r]) /\ HControl(h[r]) /\ HVouch(h[r]) /\ GoodHit(h[r].answer)
  BY DEF HandlerOK
<1>2. Policy(r) \in AllPolicies
  BY <1>1, AtPolicy DEF At
<1>3. Kept(h[r].ctx, res.ctx) /\ res.ok \in BOOLEAN
  BY DEF Sound
<1>4. CASE res.ok
  <2>1. ASSUME Guards(Policy(r)) PROVE Vouches(Policy(r), h[r].ctx.cred)
    <3>1. GoodFor(m, h[r].ctx.cred)
      BY <1>4, <2>1 DEF Sound, Guards
    <3>2. h[r].method \in DOMAIN Policy(r).cfg.methods
      BY <1>1, <1>2, AuthConfig DEF Methods, HTypes
    <3> QED BY <3>1, <3>2 DEF Vouches, Methods
  <2>2. HandlerOK(Proceed(r, res.ctx))
    BY <1>3, <2>1, ProceedOK
  <2> QED BY <1>4, <2>2 DEF Conclude
<1>5. CASE ~res.ok
  <2> DEFINE v == h[r]
             d == res.ctx
             w == [v EXCEPT !.pc = "policies", !.ctx = d, !.method = @ + 1,
                            !.got = "none", !.age = 0]
  <2>1. Conclude(r, res) = w
    BY <1>5 DEF Conclude
  <2>2. /\ DOMAIN w = HFields /\ w.pc = "policies" /\ w.ctx = d /\ w.todo = v.todo
        /\ w.method = v.method + 1 /\ w.got = "none" /\ w.age = 0
        /\ w.phase = v.phase /\ w.chain = v.chain /\ w.answer = v.answer
    BY <1>1 DEF HTypes, HFields
  <2>3. /\ DOMAIN d = CtxFields /\ d.cred = v.ctx.cred /\ d.status = v.ctx.status
        /\ d.hit = v.ctx.hit /\ d.api \in {v.ctx.api, KeyApi}
    BY <1>3 DEF Kept
  <2>4. v.pc \in {"policies", "introspect", "storing"} /\ ~v.ctx.aborted /\ ~v.ctx.hit
    BY DEF At
  <2>5. HTypes(v) /\ HControl(v) /\ HVouch(v) /\ GoodHit(v.answer)
    BY <1>1
  <2> HIDE DEF v, w, d
  <2>6. HTypes(w)
    <3>1. v.method + 1 \in Nat \ {0}
      BY <2>5 DEF HTypes
    <3> QED BY <2>2, <2>3, <2>4, <2>5, <3>1, TimeAssumption, ChainsAssumption DEF HTypes
  <2>7. HControl(w)
    BY <2>2, <2>3, <2>4, <2>5 DEF HControl
  <2>8. HVouch(w)
    BY <2>2, <2>3, <2>4, <2>5 DEF HVouch, Vouched
  <2> QED BY <2>1, <2>2, <2>5, <2>6, <2>7, <2>8 DEF HandlerOK
<1> QED BY <1>3, <1>4, <1>5

-----------------------------------------------------------------------------
(* The steps of a handler.                                                 *)

Handlers == DOMAIN h = Requests /\ \A r \in Requests : HandlerOK(h[r])

\* Redis holds successful answers only.
StoreInv ==
  \A k \in DOMAIN store :
    /\ DOMAIN store[k] = {"entry", "ttl"}
    /\ store[k].entry.status \in 200..299

\* The new value of r's handler is in order.
StepOK(r) == \E w : h' = [h EXCEPT ![r] = w] /\ HandlerOK(w)

\* Answers that do not come from the cache.
LEMMA AnswerOK ==
  ASSUME NEW status, NEW body, NEW headers, NEW via,
         via = "hit" => status \in 200..299 /\ body \in {"error", "none"}
  PROVE  HandlerOK(Answer(status, body, headers, via))
<1> DEFINE a == [status |-> status, body |-> body, headers |-> headers, via |-> via]
<1>1. GoodHit(a)
  BY DEF GoodHit
<1> HIDE DEF a
<1>2. HandlerOK(Idle(a))
  BY <1>1, IdleOK
<1> QED BY <1>2 DEF Answer, a

\* A request arrives.
LEMMA ArriveStep ==
  ASSUME NEW r, NEW req, Arrive(r, req) \/ NoRoute(r, req) \/ Blocked(r, req)
  PROVE  StepOK(r)
<1>1. CASE NoRoute(r, req) \/ Blocked(r, req)
  <2>1. PICK n : h' = [h EXCEPT ![r] = Answer(n, "error", {}, "gateway")]
    BY <1>1 DEF NoRoute, Blocked, Local, Become
  <2>2. HandlerOK(Answer(n, "error", {}, "gateway"))
    BY AnswerOK
  <2> QED BY <2>1, <2>2 DEF StepOK
<1>2. CASE Arrive(r, req)
  <2> DEFINE c == createExecContext(Route[req.path], req)
             v == Idle(NoAnswer)
             w == [v EXCEPT !.pc = "chain", !.ctx = c]
  <2>1. h' = [h EXCEPT ![r] = w] /\ req.path \in DOMAIN Route
    BY <1>2 DEF Arrive, Local, Become
  <2>2. DOMAIN c = CtxFields /\ c.hit = FALSE /\ c.api = Route[req.path]
    BY NewContext
  <2>3. c.api \in DOMAIN Chains
    BY <2>1, <2>2, ChainsAssumption DEF Range
  <2>4. HandlerOK(v)
    BY IdleOK DEF NoAnswer, GoodHit
  <2>5. v.got = "none" /\ v.age = 0 /\ v.phase = "pre_request"
    BY IdleFields
  <2> HIDE DEF c, v
  <2>6. /\ DOMAIN w = HFields /\ w.pc = "chain" /\ w.ctx = c /\ w.todo = v.todo
        /\ w.method = v.method /\ w.got = v.got /\ w.age = v.age
        /\ w.phase = v.phase /\ w.chain = v.chain /\ w.answer = v.answer
    BY <2>4 DEF HandlerOK, HTypes, HFields
  <2> HIDE DEF w
  <2>7. HTypes(w)
    BY <2>2, <2>3, <2>4, <2>6 DEF HandlerOK, HTypes
  <2>8. HControl(w) /\ HVouch(w)
    BY <2>2, <2>5, <2>6 DEF HControl, HVouch
  <2>9. HandlerOK(w)
    BY <2>4, <2>6, <2>7, <2>8 DEF HandlerOK
  <2> QED BY <2>1, <2>9 DEF StepOK
<1> QED BY <1>1, <1>2

\* A phase begins with what PhasePolicies selects, or with nothing.
LEMMA BeginStep ==
  ASSUME NEW r, HandlerOK(h[r]), BeginPhase(r)
  PROVE  StepOK(r)
<1> DEFINE v == h[r]
<1>1. HTypes(v) /\ HControl(v) /\ GoodHit(v.answer) /\ v.pc = "chain"
  BY DEF HandlerOK, BeginPhase
<1>a. PICK n \in 0..Len(Chains[v.ctx.api]) : \E ps :
        /\ ps = IF n = 0 THEN <<>> ELSE PhasePolicies(Chains[v.ctx.api][n], v.phase)
        /\ h' = [h EXCEPT ![r] = [v EXCEPT !.pc = "policies", !.todo = ps, !.method = 1,
                                           !.chain = IF v.phase = "pre_request"
                                                       THEN ps ELSE @]]
  BY DEF BeginPhase, Local, Become
<1>2. PICK ps :
        /\ n \in 0..Len(Chains[v.ctx.api])
        /\ ps = IF n = 0 THEN <<>> ELSE PhasePolicies(Chains[v.ctx.api][n], v.phase)
        /\ h' = [h EXCEPT ![r] = [v EXCEPT !.pc = "policies", !.todo = ps, !.method = 1,
                                           !.chain = IF v.phase = "pre_request"
                                                       THEN ps ELSE @]]
  BY <1>a
<1>3. ps \in Seq(AllPolicies)
  <2>1. CASE n = 0
    BY <1>2, <2>1, EmptySeq
  <2>2. CASE n # 0
    <3>1. Chains[v.ctx.api] \in Seq(Seq(AllPolicies))
      BY <1>1, ChainsAssumption DEF HTypes
    <3>2. Chains[v.ctx.api][n] \in Seq(AllPolicies)
      BY <1>2, <2>2, <3>1, LenProperties, ElementOfSeq
    <3>3. ps = PhasePolicies(Chains[v.ctx.api][n], v.phase)
      BY <1>2, <2>2
    <3> QED BY <3>2, <3>3, PhaseSelects
  <2> QED BY <2>1, <2>2
<1> DEFINE w == [v EXCEPT !.pc = "policies", !.todo = ps, !.method = 1,
                          !.chain = IF v.phase = "pre_request" THEN ps ELSE @]
<1> HIDE DEF v
<1>4. /\ DOMAIN w = HFields /\ w.pc = "policies" /\ w.ctx = v.ctx /\ w.todo = ps
      /\ w.method = 1 /\ w.got = v.got /\ w.age = v.age /\ w.phase = v.phase
      /\ w.chain = (IF v.phase = "pre_request" THEN ps ELSE v.chain) /\ w.answer = v.answer
  BY <1>1 DEF HTypes, HFields
<1>5. h' = [h EXCEPT ![r] = w]
  BY <1>2
<1> HIDE DEF w
<1>6. HTypes(w)
  BY <1>1, <1>3, <1>4 DEF HTypes
<1>7. HControl(w) /\ ~w.ctx.hit
  BY <1>1, <1>4 DEF HControl
<1>8. HVouch(w)
  <2> SUFFICES ASSUME w.phase = "pre_request"
               PROVE  \E k \in Nat : Left(w.todo, w.chain, k) /\ Vouched(w, k)
    BY <1>4, <1>7 DEF HVouch
  <2>1. Len(ps) \in Nat
    BY <1>3, LenProperties
  <2>2. Left(ps, ps, 1)
    BY <2>1 DEF Left
  <2>3. Vouched(w, 1)
    BY DEF Vouched
  <2> QED BY <1>4, <2>2, <2>3
<1>9. HandlerOK(w)
  BY <1>1, <1>4, <1>6, <1>7, <1>8 DEF HandlerOK
<1> QED BY <1>5, <1>9 DEF StepOK

\* A handler that moves on with a context that a plugin kept.
LEMMA MoveOn ==
  ASSUME NEW r, HandlerOK(h[r]), At(r), NEW d, Kept(h[r].ctx, d),
         Become(r, Proceed(r, d)), ~Guards(Policy(r)) \/ d.aborted
  PROVE  StepOK(r)
<1>1. HandlerOK(Proceed(r, d))
  BY ProceedOK
<1> QED BY <1>1 DEF StepOK, Become

\* Policies that are skipped, and plugins that end in one step.
LEMMA PluginStep ==
  ASSUME NEW r, HandlerOK(h[r]), SkipPolicy(r) \/ RunPlugin(r) \/ RunCacheStore(r)
  PROVE  StepOK(r)
<1>1. DOMAIN h[r].ctx = CtxFields
  BY DEF HandlerOK, HTypes
<1>2. Kept(h[r].ctx, h[r].ctx)
  BY <1>1, HelpersKeep
<1>3. CASE SkipPolicy(r)
  <2>1. At(r) /\ Become(r, Proceed(r, h[r].ctx))
    BY <1>3 DEF SkipPolicy, Running, At, Local
  <2>2. ~Guards(Policy(r))
    BY <1>3, GuardsRun DEF SkipPolicy
  <2> QED BY <1>2, <2>1, <2>2, MoveOn
<1>4. CASE RunPlugin(r)
  <2>1. PICK c \in Effect(Policy(r), h[r].ctx, h[r].phase) : Become(r, Proceed(r, c))
    BY <1>4 DEF RunPlugin, Local
  <2>2. At(r)
    BY <1>4 DEF RunPlugin, Applies, Running, At
  <2>3. Kept(h[r].ctx, c) /\ Policy(r).type # "auth"
    BY <1>1, EffectKeeps
  <2>4. ~Guards(Policy(r))
    BY <2>3 DEF Guards
  <2> QED BY <2>1, <2>2, <2>3, <2>4, MoveOn
<1>5. CASE RunCacheStore(r)
  <2>1. At(r) /\ Become(r, Proceed(r, h[r].ctx)) /\ Policy(r).type = "cache"
    BY <1>5 DEF RunCacheStore, Applies, Running, At
  <2>2. ~Guards(Policy(r))
    BY <2>1 DEF Guards
  <2> QED BY <1>2, <2>1, <2>2, MoveOn
<1> QED BY <1>3, <1>4, <1>5

\* The fields of a hit.
LEMMA HitFields ==
  ASSUME NEW c, DOMAIN c = CtxFields, NEW e
  PROVE  /\ DOMAIN CacheHit(c, e) = CtxFields
         /\ CacheHit(c, e).cred = c.cred /\ CacheHit(c, e).api = c.api
         /\ CacheHit(c, e).hit /\ CacheHit(c, e).aborted
         /\ CacheHit(c, e).status = e.status /\ CacheHit(c, e).code = e.status
<1> DEFINE a == [c EXCEPT !.hit = TRUE, !.status = e.status, !.resBody = e.body]
           b == respond(a, e.headers \cup {"x-cache"})
<1>1. /\ DOMAIN a = CtxFields /\ a.cred = c.cred /\ a.api = c.api
      /\ a.hit = TRUE /\ a.status = e.status
  BY DEF CtxFields
<1> HIDE DEF a
<1>2. /\ DOMAIN b = CtxFields /\ b.cred = c.cred /\ b.api = c.api
      /\ b.hit = TRUE /\ b.status = e.status
  BY <1>1 DEF respond, CtxFields
<1> HIDE DEF b
<1>3. LET d == abort(b, e.status)
      IN  /\ DOMAIN d = CtxFields /\ d.cred = c.cred /\ d.api = c.api
          /\ d.hit = TRUE /\ d.status = e.status /\ d.aborted = TRUE /\ d.code = e.status
  BY <1>2 DEF abort, CtxFields
<1>4. CacheHit(c, e) = abort(b, e.status)
  BY DEF CacheHit, a, b
<1> QED BY <1>3, <1>4

\* The answer of a request is found in the cache: the policies before this
\* one have been satisfied.
LEMMA HitOK ==
  ASSUME NEW r, HandlerOK(h[r]), At(r), Policy(r).type = "cache", h[r].ctx.status = 0,
         NEW e, e.status \in 200..299
  PROVE  HandlerOK(Proceed(r, CacheHit(h[r].ctx, e)))
<1> DEFINE v == h[r]
           d == CacheHit(v.ctx, e)
           w == Proceed(r, d)
<1>1. HTypes(v) /\ HControl(v) /\ HVouch(v) /\ GoodHit(v.answer) /\ v.ctx.status = 0
  BY DEF HandlerOK
<1>2. /\ DOMAIN w = HFields /\ w.pc = "policies" /\ w.ctx = d /\ w.todo = Tail(v.todo)
      /\ w.method = 1 /\ w.got = "none" /\ w.age = 0
      /\ w.phase = v.phase /\ w.chain = v.chain /\ w.answer = v.answer
  BY <1>1 DEF Proceed, HTypes, HFields
<1>3. /\ DOMAIN d = CtxFields /\ d.cred = v.ctx.cred /\ d.status = e.status
      /\ d.hit /\ d.aborted /\ d.code = e.status /\ d.api = v.ctx.api
  BY <1>1, HitFields DEF HTypes
<1>4. Tail(v.todo) \in Seq(AllPolicies)
  BY <1>1, AtPolicy DEF At
<1>5. v.pc \in {"policies", "introspect", "storing"} /\ ~v.ctx.aborted
  BY DEF At
<1> HIDE DEF v, w, d
<1>6. v.phase = "pre_request"
  BY <1>1 DEF HTypes, HControl
<1>7. HTypes(w)
  BY <1>1, <1>2, <1>3, <1>4, <1>5, TimeAssumption DEF HTypes
<1>8. HControl(w)
  BY <1>2, <1>3, <1>6 DEF HControl
<1>9. HVouch(w)
  <2>1. PICK k \in Nat : Left(v.todo, v.chain, k) /\ Vouched(v, k)
    BY <1>1, <1>5, <1>6 DEF HVouch
  <2>2. /\ k \in 1..Len(v.chain) /\ v.chain[k].type = "cache"
        /\ Left(w.todo, w.chain, k + 1)
    <3>1. v.todo \in Seq(AllPolicies) /\ v.chain \in Seq(AllPolicies) /\ v.todo # <<>>
      BY <1>1 DEF HTypes, At, v
    <3>2. Head(v.todo) = Policy(r)
      BY DEF Policy, v
    <3> QED BY <1>2, <2>1, <3>1, <3>2, LeftTail
  <2>3. Vouched(w, k)
    BY <1>2, <1>3, <2>1 DEF Vouched
  <2>4. k + 1 \in Nat /\ k \in 1..((k + 1) - 1)
    BY <2>1, <2>2
  <2> QED BY <1>2, <1>3, <2>2, <2>3, <2>4 DEF HVouch
<1> QED BY <1>1, <1>2, <1>7, <1>8, <1>9 DEF HandlerOK, w, d, v

\* The cache before the upstream.
LEMMA LookupStep ==
  ASSUME NEW r, HandlerOK(h[r]), StoreInv, RunCacheLookup(r)
  PROVE  StepOK(r)
<1> DEFINE c == h[r].ctx
           e == StoreEntry(buildKey(c, Policy(r).cfg))
<1>1. At(r) /\ Policy(r).type = "cache" /\ c.status = 0
  BY DEF RunCacheLookup, Applies, Running, At
<1>2. PICK d : /\ d \in {c} \/ d \in CacheLookup(c, e)
               /\ Become(r, Proceed(r, d))
  BY DEF RunCacheLookup, Local
<1>3. DOMAIN c = CtxFields
  BY DEF HandlerOK, HTypes
<1>4. CASE d = CacheHit(c, e) /\ e # NoEntry
  <2>1. e.status \in 200..299
    BY <1>4 DEF StoreEntry, StoreInv
  <2> HIDE DEF e
  <2>2. HandlerOK(Proceed(r, d))
    BY <1>1, <1>4, <2>1, HitOK
  <2> QED BY <1>2, <2>2 DEF StepOK, Become
<1>5. CASE ~(d = CacheHit(c, e) /\ e # NoEntry)
  <2>1. d = c \/ d = respond(c, {"x-cache"})
    BY <1>2, <1>5 DEF CacheLookup
  <2>2. Kept(c, d)
    BY <1>3, <2>1, HelpersKeep
  <2>3. ~Guards(Policy(r))
    BY <1>1 DEF Guards
  <2> QED BY <1>1, <1>2, <2>2, <2>3, MoveOn
<1> QED BY <1>4, <1>5

\* A method of auth that has been tried.
LEMMA Tried ==
  ASSUME NEW r, HandlerOK(h[r]), NEW m, Trying(r, m)
  PROVE  /\ At(r) /\ Policy(r).type = "auth" /\ h[r].method <= Len(Methods(r))
         /\ Methods(r)[h[r].method] = m
         /\ DOMAIN h[r].ctx = CtxFields
         /\ Policy(r) \in AllPolicies /\ Policy(r).cfg.failOpen \in BOOLEAN
         /\ Policy(r).cfg.anonymous \in BOOLEAN
<1>1. At(r) /\ Policy(r).type = "auth"
  BY DEF Trying, AuthPolicy, Applies, Running, At
<1>2. HTypes(h[r])
  BY DEF HandlerOK
<1>3. Policy(r) \in AllPolicies
  BY <1>1, <1>2, AtPolicy DEF At
<1> QED BY <1>1, <1>2, <1>3, AuthConfig DEF Trying, HTypes

\* So has one whose introspection is under way.
LEMMA Asked ==
  ASSUME NEW r, HandlerOK(h[r]), h[r].pc \in {"introspect", "storing"}
  PROVE  /\ At(r) /\ Policy(r).type = "auth" /\ h[r].method <= Len(Methods(r))
         /\ Methods(r)[h[r].method] = "introspect"
         /\ DOMAIN h[r].ctx = CtxFields
         /\ Policy(r).cfg.failOpen \in BOOLEAN
<1>1. HTypes(h[r]) /\ HControl(h[r])
  BY DEF HandlerOK
<1>2. AtIntrospection(h[r]) /\ ~h[r].ctx.hit
  BY <1>1 DEF HControl
<1>3. At(r) /\ Policy(r).type = "auth"
  BY <1>2 DEF At, AtIntrospection, Policy
<1>4. Policy(r) \in AllPolicies
  BY <1>1, <1>3, AtPolicy DEF At
<1> QED BY <1>1, <1>2, <1>3, <1>4, AuthConfig DEF AtIntrospection, Policy, Methods, HTypes

\* Methods that end in one step, and introspections that end.
LEMMA MethodStep ==
  ASSUME NEW r, HandlerOK(h[r]),
         \/ TryMethod(r) \/ UnknownMethod(r) \/ IntrospectNothing(r) \/ IntrospectCached(r)
         \/ IntrospectStore(r) \/ IntrospectFails(r)
  PROVE  StepOK(r)
<1>0. /\ HTypes(h[r]) /\ HControl(h[r]) /\ DOMAIN h[r].ctx = CtxFields
      /\ Kept(h[r].ctx, h[r].ctx)
  BY HelpersKeep DEF HandlerOK, HTypes
<1>1. ASSUME NEW m, At(r), Policy(r).type = "auth", h[r].method <= Len(Methods(r)),
             Methods(r)[h[r].method] = m,
             NEW res, Sound(m, h[r].ctx, Policy(r).cfg, res), Become(r, Conclude(r, res))
      PROVE  StepOK(r)
  <2>1. HandlerOK(Conclude(r, res))
    BY <1>1, ConcludeOK
  <2> QED BY <1>1, <2>1 DEF StepOK, Become
<1>2. CASE TryMethod(r)
  <2>1. PICK m \in {"jwt", "basic", "hmac", "api_key"} :
          /\ Trying(r, m)
          /\ \E res \in AuthResults(m, h[r].ctx, Policy(r).cfg) : Local(r, Conclude(r, res))
    BY <1>2 DEF TryMethod
  <2>2. PICK res \in AuthResults(m, h[r].ctx, Policy(r).cfg) : Become(r, Conclude(r, res))
    BY <2>1 DEF Local
  <2>3. Policy(r).cfg.failOpen \in BOOLEAN
    BY <2>1, Tried
  <2>4. Sound(m, h[r].ctx, Policy(r).cfg, res)
    BY <1>0, <2>3, MethodsSound
  <2> QED BY <1>1, <2>1, <2>2, <2>4, Tried
<1>7. CASE UnknownMethod(r)
  <2> DEFINE m == Methods(r)[h[r].method]
  <2>1. Trying(r, m) /\ Become(r, Conclude(r, Failed(h[r].ctx)))
    BY <1>7 DEF UnknownMethod, Trying, Local
  <2> HIDE DEF m
  <2>2. Sound(m, h[r].ctx, Policy(r).cfg, Failed(h[r].ctx))
    BY <1>0, <2>1, Tried, UnavailableSound
  <2> QED BY <1>1, <2>1, <2>2, Tried
<1>3. CASE IntrospectNothing(r)
  <2>1. Trying(r, "introspect") /\ Become(r, Conclude(r, Failed(h[r].ctx)))
    BY <1>3 DEF IntrospectNothing, Local
  <2>2. Sound("introspect", h[r].ctx, Policy(r).cfg, Failed(h[r].ctx))
    BY <1>0, <2>1, Tried, UnavailableSound
  <2> QED BY <1>1, <2>1, <2>2, Tried
<1>4. CASE IntrospectCached(r)
  <2>1. /\ Trying(r, "introspect") /\ h[r].ctx.cred = "token"
        /\ Become(r, Conclude(r, applyIntrospectResult(h[r].ctx, Policy(r).cfg, intro.active)))
    BY <1>4 DEF IntrospectCached, Local
  <2>2. Policy(r).cfg.failOpen \in BOOLEAN
    BY <2>1, Tried
  <2>3. Sound("introspect", h[r].ctx, Policy(r).cfg,
              applyIntrospectResult(h[r].ctx, Policy(r).cfg, intro.active))
    BY <1>0, <2>1, <2>2, IntrospectionSound
  <2> QED BY <1>1, <2>1, <2>3, Tried
<1>5. CASE IntrospectStore(r)
  <2>1. /\ h[r].pc = "storing"
        /\ Become(r, Conclude(r, applyIntrospectResult(h[r].ctx, Policy(r).cfg, h[r].got)))
    BY <1>5 DEF IntrospectStore
  <2>2. Policy(r).cfg.failOpen \in BOOLEAN
    BY <2>1, Asked
  <2>3. h[r].got = "yes" => h[r].ctx.cred = "token"
    BY <1>0 DEF HControl
  <2>4. Sound("introspect", h[r].ctx, Policy(r).cfg,
              applyIntrospectResult(h[r].ctx, Policy(r).cfg, h[r].got))
    BY <1>0, <2>2, <2>3, IntrospectionSound
  <2> QED BY <1>1, <2>1, <2>4, Asked
<1>6. CASE IntrospectFails(r)
  <2>1. /\ h[r].pc = "introspect"
        /\ Become(r, Conclude(r, Unavailable(h[r].ctx, Policy(r).cfg)))
    BY <1>6 DEF IntrospectFails, Local
  <2>2. Sound("introspect", h[r].ctx, Policy(r).cfg, Unavailable(h[r].ctx, Policy(r).cfg))
    BY <1>0, <2>1, Asked, UnavailableSound
  <2> QED BY <1>1, <2>1, <2>2, Asked
<1> QED BY <1>2, <1>3, <1>4, <1>5, <1>6, <1>7

\* Every method has failed: without leave for the anonymous, an abort.
LEMMA AuthFailsStep ==
  ASSUME NEW r, HandlerOK(h[r]), AuthFails(r)
  PROVE  StepOK(r)
<1>1. At(r) /\ Policy(r).type = "auth"
  BY DEF AuthFails, AuthPolicy, Applies, Running, At
<1>2. HTypes(h[r]) /\ DOMAIN h[r].ctx = CtxFields
  BY DEF HandlerOK, HTypes
<1>3. Policy(r).cfg.anonymous \in BOOLEAN
  BY <1>1, <1>2, AtPolicy, AuthConfig DEF At
<1>4. CASE Policy(r).cfg.anonymous
  <2>1. Become(r, Proceed(r, h[r].ctx)) /\ Kept(h[r].ctx, h[r].ctx)
    BY <1>2, <1>4, HelpersKeep DEF AuthFails, Local
  <2>2. ~Guards(Policy(r))
    BY <1>4 DEF Guards
  <2> QED BY <1>1, <2>1, <2>2, MoveOn
<1>5. CASE ~Policy(r).cfg.anonymous
  <2>1. Become(r, Proceed(r, abort(h[r].ctx, 401))) /\ Kept(h[r].ctx, abort(h[r].ctx, 401))
    BY <1>2, <1>5, HelpersKeep DEF AuthFails, Local
  <2>2. abort(h[r].ctx, 401).aborted
    BY <1>2 DEF abort, CtxFields
  <2> QED BY <1>1, <2>1, <2>2, MoveOn
<1> QED BY <1>3, <1>4, <1>5

\* An introspection begins, is answered, and its answer taken.
LEMMA AskStep ==
  ASSUME NEW r, HandlerOK(h[r]),
         IntrospectAsk(r) \/ IntrospectAnswers(r) \/ IntrospectTake(r)
  PROVE  StepOK(r)
<1> DEFINE v == h[r]
<1>1. HTypes(v) /\ HControl(v) /\ HVouch(v) /\ GoodHit(v.answer)
  BY DEF HandlerOK
<1>2. CASE IntrospectAsk(r)
  <2> DEFINE w == [v EXCEPT !.pc = "introspect"]
  <2>1. h' = [h EXCEPT ![r] = w]
    BY <1>2 DEF IntrospectAsk, Local, Become
  <2>2. v.pc = "policies" /\ AtIntrospection(v) /\ ~v.ctx.hit
    BY <1>2 DEF IntrospectAsk, Trying, AuthPolicy, Applies, Running, Policy, Methods,
                AtIntrospection
  <2> HIDE DEF v
  <2>3. /\ DOMAIN w = HFields /\ w.pc = "introspect" /\ w.ctx = v.ctx /\ w.todo = v.todo
        /\ w.method = v.method /\ w.got = v.got /\ w.age = v.age
        /\ w.phase = v.phase /\ w.chain = v.chain /\ w.answer = v.answer
    BY <1>1 DEF HTypes, HFields
  <2> HIDE DEF w
  <2>4. HTypes(w)
    <3>1. v.age = 0 /\ FetchMax >= 0
      BY <1>1, <2>2, TimeAssumption DEF HControl
    <3> QED BY <1>1, <2>2, <2>3, <3>1 DEF HTypes
  <2>5. HControl(w)
    BY <1>1, <2>2, <2>3 DEF HControl, AtIntrospection
  <2>6. HVouch(w)
    BY <1>1, <2>2, <2>3 DEF HVouch, Vouched
  <2>7. HandlerOK(w)
    BY <1>1, <2>3, <2>4, <2>5, <2>6 DEF HandlerOK
  <2> QED BY <2>1, <2>7 DEF StepOK
<1>3. CASE IntrospectAnswers(r)
  <2>1. PICK x : /\ x = (IF live /\ v.ctx.cred = "token" THEN "yes" ELSE "no")
                 /\ h' = [h EXCEPT ![r] = [v EXCEPT !.got = x]]
    BY <1>3 DEF IntrospectAnswers, Local, Become
  <2>2. v.pc = "introspect"
    BY <1>3 DEF IntrospectAnswers
  <2> DEFINE w == [v EXCEPT !.got = x]
  <2> HIDE DEF v
  <2>3. /\ DOMAIN w = HFields /\ w.pc = v.pc /\ w.ctx = v.ctx /\ w.todo = v.todo
        /\ w.method = v.method /\ w.got = x /\ w.age = v.age
        /\ w.phase = v.phase /\ w.chain = v.chain /\ w.answer = v.answer
    BY <1>1 DEF HTypes, HFields
  <2>4. h' = [h EXCEPT ![r] = w]
    BY <2>1
  <2> HIDE DEF w
  <2>5. HTypes(w)
    BY <1>1, <2>1, <2>2, <2>3 DEF HTypes
  <2>6. HControl(w)
    BY <1>1, <2>1, <2>2, <2>3 DEF HControl, AtIntrospection
  <2>7. HVouch(w)
    BY <1>1, <2>2, <2>3 DEF HVouch, Vouched
  <2>8. HandlerOK(w)
    BY <1>1, <2>3, <2>5, <2>6, <2>7 DEF HandlerOK
  <2> QED BY <2>4, <2>8 DEF StepOK
<1>4. CASE IntrospectTake(r)
  <2> DEFINE w == [v EXCEPT !.pc = "storing", !.age = 0]
  <2>1. h' = [h EXCEPT ![r] = w] /\ v.pc = "introspect"
    BY <1>4 DEF IntrospectTake, Local, Become
  <2> HIDE DEF v
  <2>2. /\ DOMAIN w = HFields /\ w.pc = "storing" /\ w.ctx = v.ctx /\ w.todo = v.todo
        /\ w.method = v.method /\ w.got = v.got /\ w.age = 0
        /\ w.phase = v.phase /\ w.chain = v.chain /\ w.answer = v.answer
    BY <1>1 DEF HTypes, HFields
  <2> HIDE DEF w
  <2>3. HTypes(w)
    <3>1. StoreMax >= 0
      BY TimeAssumption
    <3> QED BY <1>1, <2>1, <2>2, <3>1 DEF HTypes
  <2>4. HControl(w)
    BY <1>1, <2>1, <2>2 DEF HControl, AtIntrospection
  <2>5. HVouch(w)
    BY <1>1, <2>1, <2>2 DEF HVouch, Vouched
  <2>6. HandlerOK(w)
    BY <1>1, <2>2, <2>3, <2>4, <2>5 DEF HandlerOK
  <2> QED BY <2>1, <2>6 DEF StepOK
<1> QED BY <1>2, <1>3, <1>4

\* The handler answers.
LEMMA EndStep ==
  ASSUME NEW r, HandlerOK(h[r]), Flush(r) \/ ResponseBreaks(r) \/ Finish(r)
  PROVE  StepOK(r)
<1> DEFINE c == h[r].ctx
<1>1. HControl(h[r])
  BY DEF HandlerOK
<1>2. CASE Flush(r)
  <2>1. c.aborted
    BY <1>1, <1>2 DEF Flush, HControl
  <2>2. h' = [h EXCEPT ![r] = flushAbort(c)]
    BY <1>2, <2>1 DEF Flush, Local, Become
  <2>3. c.hit => c.code \in 200..299
    BY <1>1 DEF HControl
  <2>4. HandlerOK(flushAbort(c))
    BY <2>3, AnswerOK DEF flushAbort
  <2> QED BY <2>2, <2>4 DEF StepOK
<1>3. CASE ResponseBreaks(r)
  <2>1. h' = [h EXCEPT ![r] = Answer(500, "error", {}, "gateway")]
    BY <1>3 DEF ResponseBreaks, Local, Become
  <2>2. HandlerOK(Answer(500, "error", {}, "gateway"))
    BY AnswerOK
  <2> QED BY <2>1, <2>2 DEF StepOK
<1>4. CASE Finish(r)
  <2>1. h' = [h EXCEPT ![r] = flushCtxResponse(c)]
    BY <1>4 DEF Finish, Local, Become
  <2>2. ~c.hit
    BY <1>1, <1>4 DEF Finish, HControl
  <2>3. HandlerOK(flushCtxResponse(c))
    BY <2>2, AnswerOK DEF flushCtxResponse
  <2> QED BY <2>1, <2>3 DEF StepOK
<1> QED BY <1>2, <1>3, <1>4

\* Only a request that every guard of its chain has accepted is forwarded.
LEMMA ForwardStep ==
  ASSUME NEW r, HandlerOK(h[r]), Forward(r)
  PROVE  StepOK(r)
<1> DEFINE v == h[r]
           w == [v EXCEPT !.pc = "upstream", !.todo = <<>>]
<1>1. HTypes(v) /\ HControl(v) /\ HVouch(v) /\ GoodHit(v.answer)
  BY DEF HandlerOK
<1>2. h' = [h EXCEPT ![r] = w]
  BY DEF Forward, Local, Become
<1>3. /\ v.pc = "policies" /\ v.phase = "pre_request" /\ v.todo = <<>>
      /\ ~v.ctx.aborted /\ ~v.ctx.hit
  BY DEF Forward, PhaseOver
<1> HIDE DEF v
<1>4. /\ DOMAIN w = HFields /\ w.pc = "upstream" /\ w.ctx = v.ctx /\ w.todo = <<>>
      /\ w.method = v.method /\ w.got = v.got /\ w.age = v.age
      /\ w.phase = v.phase /\ w.chain = v.chain /\ w.answer = v.answer
  BY <1>1 DEF HTypes, HFields
<1> HIDE DEF w
<1>5. HTypes(w)
  BY <1>1, <1>3, <1>4, EmptySeq DEF HTypes
<1>6. HControl(w)
  BY <1>1, <1>3, <1>4 DEF HControl
<1>7. PICK k \in Nat : Left(<<>>, v.chain, k) /\ Vouched(v, k)
  BY <1>1, <1>3 DEF HVouch
<1>8. k = Len(v.chain) + 1
  <2>1. Len(v.chain) \in Nat
    BY <1>1, LenProperties DEF HTypes
  <2>2. Len(<<>>) = Len(v.chain) + 1 - k
    BY <1>7 DEF Left
  <2>3. Len(<<>>) = 0
    BY EmptySeq
  <2> QED BY <2>1, <2>2, <2>3
<1>9. HVouch(w)
  BY <1>3, <1>4, <1>7, <1>8 DEF HVouch, Vouched
<1>10. HandlerOK(w)
  BY <1>1, <1>4, <1>5, <1>6, <1>9 DEF HandlerOK
<1> QED BY <1>2, <1>10 DEF StepOK, v

\* The upstream's answer begins the second phase.
LEMMA RespondStep ==
  ASSUME NEW r, HandlerOK(h[r]), NEW resp \in UpstreamResponses, Respond(r, resp)
  PROVE  StepOK(r)
<1> DEFINE v == h[r]
           c == TakeResponse(v.ctx, resp)
           w == [v EXCEPT !.pc = "chain", !.phase = "post_response", !.ctx = c]
<1>1. HTypes(v) /\ HControl(v) /\ GoodHit(v.answer) /\ v.pc = "upstream"
  BY DEF HandlerOK, Respond
<1>2. h' = [h EXCEPT ![r] = w]
  BY DEF Respond, Local, Become
<1>3. /\ DOMAIN c = CtxFields /\ c.hit = v.ctx.hit /\ c.api = v.ctx.api
      /\ c.status # 0 /\ c.cred = v.ctx.cred
  <2>1. resp.status \in {200, 504}
    BY DEF UpstreamResponses
  <2> QED BY <1>1, <2>1 DEF TakeResponse, HTypes, CtxFields
<1> HIDE DEF v, c
<1>4. /\ DOMAIN w = HFields /\ w.pc = "chain" /\ w.ctx = c /\ w.todo = v.todo
      /\ w.method = v.method /\ w.got = v.got /\ w.age = v.age
      /\ w.phase = "post_response" /\ w.chain = v.chain /\ w.answer = v.answer
  BY <1>1 DEF HTypes, HFields
<1> HIDE DEF w
<1>5. HTypes(w)
  BY <1>1, <1>3, <1>4 DEF HTypes
<1>6. HControl(w)
  BY <1>1, <1>3, <1>4 DEF HControl
<1>7. HVouch(w)
  BY <1>4 DEF HVouch
<1>8. HandlerOK(w)
  BY <1>1, <1>4, <1>5, <1>6, <1>7 DEF HandlerOK
<1> QED BY <1>2, <1>8 DEF StepOK

\* Every step of a handler leaves it in order.
LEMMA HandlerStepOK ==
  ASSUME NEW r, HandlerOK(h[r]), StoreInv, HandlerStep(r) \/ IntrospectAnswers(r)
  PROVE  StepOK(r)
<1>1. CASE BeginPhase(r)
  BY <1>1, BeginStep
<1>2. CASE SkipPolicy(r) \/ RunPlugin(r) \/ RunCacheStore(r)
  BY <1>2, PluginStep
<1>3. CASE RunCacheLookup(r)
  BY <1>3, LookupStep
<1>4. CASE \/ TryMethod(r) \/ UnknownMethod(r) \/ IntrospectNothing(r) \/ IntrospectCached(r)
           \/ IntrospectStore(r) \/ IntrospectFails(r)
  BY <1>4, MethodStep
<1>5. CASE AuthFails(r)
  BY <1>5, AuthFailsStep
<1>6. CASE IntrospectAsk(r) \/ IntrospectAnswers(r) \/ IntrospectTake(r)
  BY <1>6, AskStep
<1>7. CASE Flush(r) \/ ResponseBreaks(r) \/ Finish(r)
  BY <1>7, EndStep
<1>8. CASE Forward(r)
  BY <1>8, ForwardStep
<1>9. CASE \E resp \in UpstreamResponses : Respond(r, resp)
  BY <1>9, RespondStep
<1> QED BY <1>1, <1>2, <1>3, <1>4, <1>5, <1>6, <1>7, <1>8, <1>9 DEF HandlerStep

\* The answers in Redis stay good: the check before SET, and time.
LEMMA StoreStep ==
  ASSUME StoreInv, Next
  PROVE  StoreInv'
<1>1. CASE UNCHANGED store
  BY <1>1 DEF StoreInv
<1>2. ASSUME NEW r \in Requests, RunCacheStore(r) PROVE StoreInv'
  <2> DEFINE c == h[r].ctx
             e == [entry |-> CacheEntry(c), ttl |-> CacheTTL]
  <2>1. CASE store' = store
    BY <2>1 DEF StoreInv
  <2>2. CASE store' # store
    <3>1. PICK k : /\ Storable(c)
                   /\ store' = [x \in DOMAIN store \cup {k} |-> IF x = k THEN e ELSE store[x]]
      BY <1>2, <2>2 DEF RunCacheStore
    <3>2. DOMAIN e = {"entry", "ttl"} /\ e.entry.status \in 200..299
      BY <3>1 DEF Storable, CacheEntry
    <3> HIDE DEF e
    <3>3. ASSUME NEW x \in DOMAIN store'
          PROVE  (x \in DOMAIN store /\ store'[x] = store[x]) \/ store'[x] = e
      BY <3>1
    <3> QED BY <3>2, <3>3 DEF StoreInv
  <2> QED BY <2>1, <2>2
<1>3. CASE Tick
  <2>1. store' = [k \in {x \in DOMAIN store : store[x].ttl > 1} |->
                    [store[k] EXCEPT !.ttl = @ - 1]]
    BY <1>3 DEF Tick
  <2> SUFFICES ASSUME NEW k \in DOMAIN store'
               PROVE  /\ DOMAIN store'[k] = {"entry", "ttl"}
                      /\ store'[k].entry.status \in 200..299
    BY DEF StoreInv
  <2>2. k \in DOMAIN store /\ store'[k] = [store[k] EXCEPT !.ttl = @ - 1]
    BY <2>1
  <2>3. DOMAIN store[k] = {"entry", "ttl"} /\ store[k].entry.status \in 200..299
    BY <2>2 DEF StoreInv
  <2> QED BY <2>2, <2>3
<1>4. \/ UNCHANGED store \/ Tick
      \/ \E r \in Requests : RunCacheStore(r)
  <2>1. ASSUME NEW r, BeginPhase(r) \/ SkipPolicy(r) \/ RunPlugin(r) \/ RunCacheLookup(r)
        PROVE  UNCHANGED store
    BY <2>1 DEF BeginPhase, SkipPolicy, RunPlugin, RunCacheLookup, Local
  <2>2. ASSUME NEW r, TryMethod(r) \/ UnknownMethod(r) \/ IntrospectNothing(r)
                        \/ IntrospectCached(r) \/ IntrospectAsk(r)
        PROVE  UNCHANGED store
    BY <2>2 DEF TryMethod, UnknownMethod, IntrospectNothing, IntrospectCached, IntrospectAsk, Local
  <2>3. ASSUME NEW r, IntrospectAnswers(r) \/ IntrospectTake(r) \/ IntrospectStore(r)
                        \/ IntrospectFails(r) \/ AuthFails(r)
        PROVE  UNCHANGED store
    BY <2>3 DEF IntrospectAnswers, IntrospectTake, IntrospectStore, IntrospectFails, AuthFails,
                Local
  <2>4. ASSUME NEW r, \/ Flush(r) \/ Forward(r) \/ Finish(r) \/ ResponseBreaks(r)
                      \/ \E resp \in UpstreamResponses : Respond(r, resp)
        PROVE  UNCHANGED store
    BY <2>4 DEF Flush, Forward, Finish, ResponseBreaks, Respond, Local
  <2>5. ASSUME NEW r, NEW req, Arrive(r, req) \/ NoRoute(r, req) \/ Blocked(r, req)
        PROVE  UNCHANGED store
    BY <2>5 DEF Arrive, NoRoute, Blocked, Local
  <2>6. CASE RevokeToken
    BY <2>6 DEF RevokeToken
  <2>7. ASSUME NEW r \in Requests, HandlerStep(r)
        PROVE  UNCHANGED store \/ RunCacheStore(r)
    BY <2>1, <2>2, <2>3, <2>4, <2>7 DEF HandlerStep
  <2> QED BY <2>3, <2>5, <2>6, <2>7 DEF Next
<1> QED BY <1>1, <1>2, <1>3, <1>4

\* A tick only makes introspections older.
LEMMA TickHandlers ==
  ASSUME Handlers, Tick
  PROVE  Handlers'
<1>1. /\ h' = [r \in Requests |-> IF Asking(r) THEN [h[r] EXCEPT !.age = @ + 1] ELSE h[r]]
      /\ \A r \in Requests : /\ h[r].pc = "introspect" => h[r].age < FetchMax
                             /\ h[r].pc = "storing" => h[r].age < StoreMax
  BY DEF Tick
<1>2. ASSUME NEW r \in Requests PROVE \A w : w = h'[r] => HandlerOK(w)
  <2> DEFINE v == h[r]
             w == [v EXCEPT !.age = @ + 1]
  <2>1. HTypes(v) /\ HControl(v) /\ HVouch(v) /\ GoodHit(v.answer)
    BY DEF Handlers, HandlerOK
  <2>2. CASE ~Asking(r)
    BY <1>1, <2>2 DEF Handlers
  <2>3. CASE Asking(r)
    <3>1. /\ h'[r] = w /\ v.pc \in {"introspect", "storing"}
          /\ v.pc = "introspect" => v.age < FetchMax
          /\ v.pc = "storing" => v.age < StoreMax
      BY <1>1, <2>3 DEF Asking
    <3> HIDE DEF v
    <3>2. /\ DOMAIN w = HFields /\ w.pc = v.pc /\ w.ctx = v.ctx /\ w.todo = v.todo
          /\ w.method = v.method /\ w.got = v.got /\ w.age = v.age + 1
          /\ w.phase = v.phase /\ w.chain = v.chain /\ w.answer = v.answer
      BY <2>1 DEF HTypes, HFields
    <3> HIDE DEF w
    <3>3. /\ w.age \in Nat
          /\ w.pc = "introspect" => w.age <= FetchMax
          /\ w.pc = "storing" => w.age <= StoreMax
      BY <2>1, <3>1, <3>2, TimeAssumption DEF HTypes
    <3>4. HTypes(w)
      BY <2>1, <3>2, <3>3 DEF HTypes
    <3>5. HControl(w)
      BY <2>1, <3>1, <3>2 DEF HControl, AtIntrospection
    <3>6. HVouch(w)
      BY <2>1, <3>2 DEF HVouch, Vouched
    <3>7. HandlerOK(w)
      BY <2>1, <3>2, <3>4, <3>5, <3>6 DEF HandlerOK
    <3> QED BY <3>1, <3>7
  <2> QED BY <2>2, <2>3
<1> QED BY <1>1, <1>2 DEF Handlers

\* So Handlers and StoreInv are inductive.
LEMMA HandlersInductive == Spec => [](Handlers /\ StoreInv)
<1>1. Init => Handlers /\ StoreInv
  <2> SUFFICES ASSUME Init PROVE Handlers /\ StoreInv
    OBVIOUS
  <2>1. HandlerOK(Idle(NoAnswer))
    BY IdleOK DEF NoAnswer, GoodHit
  <2>2. h = [r \in Requests |-> Idle(NoAnswer)] /\ store = <<>>
    BY DEF Init
  <2>3. Handlers
    BY <2>1, <2>2 DEF Handlers
  <2> QED BY <2>2, <2>3 DEF StoreInv
<1>2. ASSUME Handlers, StoreInv, [Next]_vars PROVE Handlers' /\ StoreInv'
  <2>1. ASSUME NEW r \in Requests, StepOK(r) PROVE Handlers'
    <3>1. PICK w : h' = [h EXCEPT ![r] = w] /\ HandlerOK(w)
      BY <2>1 DEF StepOK
    <3>2. DOMAIN h = Requests /\ \A s \in Requests : HandlerOK(h[s])
      BY <1>2 DEF Handlers
    <3>3. DOMAIN h' = Requests /\ \A s \in Requests : h'[s] \in {w, h[s]}
      BY <3>1, <3>2
    <3> QED BY <3>1, <3>2, <3>3 DEF Handlers
  <2>2. CASE UNCHANGED vars
    BY <1>2, <2>2 DEF vars, Handlers, StoreInv
  <2>3. CASE Next
    <3>1. ASSUME NEW r \in Requests, NEW req,
                 Arrive(r, req) \/ NoRoute(r, req) \/ Blocked(r, req)
          PROVE  Handlers'
      BY <2>1, <3>1, ArriveStep
    <3>2. ASSUME NEW r \in Requests, HandlerStep(r) \/ IntrospectAnswers(r)
          PROVE  Handlers'
      BY <1>2, <2>1, <3>2, HandlerStepOK DEF Handlers
    <3>3. RevokeToken => Handlers'
      BY <1>2 DEF RevokeToken, Handlers
    <3>4. Tick => Handlers'
      BY <1>2, TickHandlers
    <3>5. Handlers'
      BY <2>3, <3>1, <3>2, <3>3, <3>4 DEF Next
    <3> QED BY <1>2, <2>3, <3>5, StoreStep
  <2> QED BY <1>2, <2>2, <2>3
<1> QED BY <1>1, <1>2, PTL DEF Spec

-----------------------------------------------------------------------------
(* The theorems.                                                           *)

\* Nothing reaches the upstream, nor gets an answer from the cache, past an
\* auth policy that stands before it and does not accept the credential.
THEOREM AuthTheorem == Spec => []AuthBeforeUpstream
<1>1. Handlers => AuthBeforeUpstream
  <2> SUFFICES ASSUME Handlers, NEW r \in Requests, NEW i \in DOMAIN h[r].chain,
                      Guards(h[r].chain[i]),
                      \/ h[r].pc = "upstream"
                      \/ h[r].ctx.hit /\ \A j \in 1..(i - 1) : h[r].chain[j].type # "cache"
               PROVE  Vouches(h[r].chain[i], h[r].ctx.cred)
    BY DEF AuthBeforeUpstream, Vouches
  <2> DEFINE v == h[r]
  <2>1. HTypes(v) /\ HControl(v) /\ HVouch(v)
    BY DEF Handlers, HandlerOK
  <2>2. Len(v.chain) \in Nat /\ DOMAIN v.chain = 1..Len(v.chain)
    BY <2>1, LenProperties DEF HTypes
  <2>3. CASE v.pc = "upstream"
    <3>1. Vouched(v, Len(v.chain) + 1)
      BY <2>1, <2>3 DEF HVouch
    <3>2. i \in 1..(Len(v.chain) + 1 - 1)
      BY <2>2
    <3> QED BY <3>1, <3>2 DEF Vouched
  <2>4. CASE v.ctx.hit /\ \A j \in 1..(i - 1) : v.chain[j].type # "cache"
    <3>1. PICK k \in Nat : \E n \in 1..(k - 1) : v.chain[n].type = "cache" /\ Vouched(v, n)
      BY <2>1, <2>4 DEF HVouch, HControl
    <3>2. PICK n \in 1..(k - 1) : v.chain[n].type = "cache" /\ Vouched(v, n)
      BY <3>1
    <3>3. n \notin 1..(i - 1) /\ n # i
      BY <2>4, <3>2 DEF Guards
    <3>4. i \in 1..(n - 1)
      BY <2>2, <3>1, <3>2, <3>3
    <3> QED BY <3>2, <3>4 DEF Vouched
  <2> QED BY <2>3, <2>4
<1> QED BY <1>1, HandlersInductive, PTL

\* Only a success of an upstream is ever repeated from the cache.
THEOREM GoodHitsTheorem == Spec => []HitsAreGood
<1>1. Handlers => HitsAreGood
  BY DEF Handlers, HandlerOK, GoodHit, HitsAreGood
<1> QED BY <1>1, HandlersInductive, PTL

\* And it is repeated with the body of an abort, whatever was cached:
\* every hit is BodyLost.
HitLosesBody ==
  \A r \in Requests : h[r].answer.via = "hit" => BodyLost(r)

THEOREM LostBodyTheorem == Spec => []HitLosesBody
<1>1. Handlers => HitLosesBody
  BY DEF Handlers, HandlerOK, GoodHit, HitLosesBody, BodyLost
<1> QED BY <1>1, HandlersInductive, PTL

-----------------------------------------------------------------------------
(* The header operations of a transform, which the model folds: the fold   *)
(* is a function on sets of indices, so it is shown to exist for 1..k and  *)
(* then for 1..(k + 1), by an induction over a set of naturals.            *)

\* A set of naturals that holds 0 and every successor holds them all: what
\* is missing up to m would inject into what is missing below m.
LEMMA Induction ==
  ASSUME NEW S, 0 \in S, \A n \in Nat : n \in S => n + 1 \in S
  PROVE  Nat \subseteq S
<1> SUFFICES ASSUME NEW m \in Nat, m \notin S  PROVE FALSE
  OBVIOUS
<1> DEFINE Missing == (0..m) \ S
           f == [n \in Missing |-> n - 1]
<1>1. Missing \in SUBSET (0..m) /\ m \in Missing
  OBVIOUS
<1>2. \A n \in Missing : n - 1 \in Missing \ {m}
  <2> SUFFICES ASSUME NEW n \in Missing PROVE n - 1 \in Missing \ {m}
    OBVIOUS
  <2>1. n \in Nat /\ n # 0 /\ n <= m /\ n \notin S
    OBVIOUS
  <2>2. n - 1 \in Nat /\ (n - 1) + 1 = n
    BY <2>1
  <2> QED BY <2>1, <2>2
<1>3. f \in Injection(Missing, Missing \ {m})
  BY <1>2 DEF Injection, IsInjective
<1> HIDE DEF Missing, f
<1>4. IsFiniteSet(Missing)
  <2>1. IsFiniteSet(0..m)
    BY FS_Interval
  <2> QED BY <1>1, <2>1, FS_Subset
<1>5. /\ IsFiniteSet(Missing \ {m})
      /\ Cardinality(Missing \ {m}) = Cardinality(Missing) - 1
      /\ Cardinality(Missing) \in Nat
  BY <1>1, <1>4, FS_RemoveElement, FS_CardinalityType
<1>6. Cardinality(Missing) <= Cardinality(Missing \ {m})
  BY <1>3, <1>5, FS_Injection
<1> QED BY <1>5, <1>6

\* f is what the fold of applyOps computes for each set of indices.
IsFold(f, h0, ops, I) ==
  f = [s \in SUBSET I |-> IF s = {} THEN h0 ELSE HeaderOp(f[s \ {Max(s)}], ops[Max(s)])]

\* applyOps is such a function, at all the indices.
LEMMA FoldsDef ==
  ASSUME NEW h0, NEW ops
  PROVE  applyOps(h0, ops) =
           (CHOOSE f : IsFold(f, h0, ops, DOMAIN ops))[DOMAIN ops]
  BY DEF applyOps, FoldLeft, MapThenFoldSet, IsFold

\* The largest element of a set of indices.
LEMMA MaxIndex ==
  ASSUME NEW n \in Nat, NEW s \in SUBSET (1..n), s # {}
  PROVE  Max(s) \in s /\ \A i \in s : i <= Max(s)
<1> DEFINE Bounded(k) == \A t \in SUBSET (1..k) :
                           t # {} => \E m \in t : \A i \in t : i <= m
           S == {k \in Nat : Bounded(k)}
<1>1. 0 \in S
  <2>1. \A t \in SUBSET (1..0) : t = {}
    OBVIOUS
  <2>2. Bounded(0)
    BY <2>1
  <2> QED BY <2>2
<1>2. ASSUME NEW k \in Nat, k \in S PROVE k + 1 \in S
  <2> SUFFICES ASSUME NEW t \in SUBSET (1..(k + 1)), t # {}
               PROVE  \E m \in t : \A i \in t : i <= m
    OBVIOUS
  <2>1. CASE k + 1 \in t
    BY <2>1
  <2>2. CASE k + 1 \notin t
    <3>1. t \in SUBSET (1..k)
      BY <2>2
    <3> QED BY <1>2, <3>1
  <2> QED BY <2>1, <2>2
<1>3. n \in S
  <2> HIDE DEF S
  <2> QED BY <1>1, <1>2, Induction
<1>4. \E m \in s : \A i \in s : i <= m
  BY <1>3
<1> QED BY <1>4 DEF Max

\* The fold exists.
LEMMA FoldsExists ==
  ASSUME NEW h0, NEW ops, NEW n \in Nat
  PROVE  \E f : IsFold(f, h0, ops, 1..n)
<1> DEFINE S == {k \in Nat : \E f : IsFold(f, h0, ops, 1..k)}
<1>1. 0 \in S
  <2> DEFINE f == [s \in SUBSET (1..0) |-> h0]
  <2>1. \A s \in SUBSET (1..0) : s = {}
    OBVIOUS
  <2>2. IsFold(f, h0, ops, 1..0)
    BY <2>1 DEF IsFold
  <2> QED BY <2>2
<1>2. ASSUME NEW k \in Nat, k \in S PROVE k + 1 \in S
  <2>1. PICK f : IsFold(f, h0, ops, 1..k)
    BY <1>2
  <2> DEFINE g == [s \in SUBSET (1..(k + 1)) |->
                     IF k + 1 \in s THEN HeaderOp(f[s \ {k + 1}], ops[k + 1]) ELSE f[s]]
             value(s) == IF s = {} THEN h0
                         ELSE HeaderOp(g[s \ {Max(s)}], ops[Max(s)])
  <2>2. ASSUME NEW s \in SUBSET (1..(k + 1)) PROVE g[s] = value(s)
    <3>1. CASE k + 1 \in s
      <4>1. Max(s) = k + 1
        <5>1. k + 1 \in Nat /\ s # {}
          BY <3>1
        <5>2. PICK m : m = Max(s) /\ m \in s /\ \A i \in s : i <= m
          BY <5>1, MaxIndex
        <5>3. m \in 1..(k + 1) /\ k + 1 <= m
          BY <3>1, <5>2
        <5> QED BY <5>2, <5>3
      <4>2. /\ s \ {k + 1} \in SUBSET (1..(k + 1)) /\ k + 1 \notin s \ {k + 1}
            /\ s # {}
        BY <3>1
      <4>3. g[s \ {k + 1}] = f[s \ {k + 1}]
        BY <4>2
      <4>4. g[s] = HeaderOp(f[s \ {k + 1}], ops[k + 1])
        BY <3>1
      <4> QED BY <4>1, <4>2, <4>3, <4>4
    <3>2. CASE k + 1 \notin s
      <4>1. s \in SUBSET (1..k)
        BY <3>2
      <4>2. \A m : s \ {m} \in SUBSET (1..k) /\ k + 1 \notin s \ {m}
        BY <3>2, <4>1
      <4>3. /\ s \in SUBSET (1..k) /\ s \ {Max(s)} \in SUBSET (1..k)
            /\ s \ {Max(s)} \in SUBSET (1..(k + 1)) /\ k + 1 \notin s \ {Max(s)}
        <5>1. SUBSET (1..k) \subseteq SUBSET (1..(k + 1))
          OBVIOUS
        <5> QED BY <4>1, <4>2, <5>1
      <4>4. g[s] = f[s] /\ g[s \ {Max(s)}] = f[s \ {Max(s)}]
        BY <3>2, <4>3
      <4>5. f[s] = IF s = {} THEN h0 ELSE HeaderOp(f[s \ {Max(s)}], ops[Max(s)])
        BY <2>1, <4>3 DEF IsFold
      <4> QED BY <4>4, <4>5
    <3> QED BY <3>1, <3>2
  <2>3. g = [s \in SUBSET (1..(k + 1)) |-> g[s]]
    OBVIOUS
  <2>4. IsFold(g, h0, ops, 1..(k + 1))
    <3> HIDE DEF g
    <3> QED BY <2>2, <2>3 DEF IsFold
  <2> QED BY <2>4
<1>3. n \in S
  <2> HIDE DEF S
  <2> QED BY <1>1, <1>2, Induction
<1> QED BY <1>3

\* The response headers that a policy may add to the context.
OpAdds(o) ==
  IF o.op \in {"set", "add"} THEN {o.name}
  ELSE IF o.op \in {"rename", "copy"} THEN {o.target} ELSE {}
Adds(p) ==
  CASE p.type = "cors"       -> {"access-control"}
    [] p.type = "rate_limit" -> {"ratelimit"}
    [] p.type = "transform"  -> UNION {OpAdds(o) : o \in Range(p.cfg.responseHeaders)}
    [] OTHER                 -> {}

\* Header operations add no names but their own.
LEMMA OpsAdd ==
  ASSUME NEW h0, NEW ops, ops \in Seq(Range(ops))
  PROVE  applyOps(h0, ops) \subseteq h0 \cup UNION {OpAdds(o) : o \in Range(ops)}
<1> DEFINE n == Len(ops)
           all == h0 \cup UNION {OpAdds(o) : o \in Range(ops)}
           f == CHOOSE f : IsFold(f, h0, ops, 1..n)
           S == {k \in Nat : \A s \in SUBSET (1..n) : s \subseteq 1..k => f[s] \subseteq all}
<1>1. n \in Nat /\ DOMAIN ops = 1..n
  BY LenProperties
<1>2. IsFold(f, h0, ops, 1..n)
  BY <1>1, FoldsExists
<1>3. applyOps(h0, ops) = f[1..n]
  BY <1>1, FoldsDef
<1> HIDE DEF n, f
<1>4. \A s \in SUBSET (1..n) :
        f[s] = IF s = {} THEN h0 ELSE HeaderOp(f[s \ {Max(s)}], ops[Max(s)])
  BY <1>2 DEF IsFold
<1>5. \A x : \A o \in Range(ops) : HeaderOp(x, o) \subseteq x \cup OpAdds(o)
  BY DEF HeaderOp, OpAdds
<1>6. 0 \in S
  <2>1. \A s : s \subseteq 1..0 => s = {}
    OBVIOUS
  <2> QED BY <1>4, <2>1
<1>7. ASSUME NEW k \in Nat, k \in S PROVE k + 1 \in S
  <2> SUFFICES ASSUME NEW s \in SUBSET (1..n), s \subseteq 1..(k + 1)
               PROVE  f[s] \subseteq all
    OBVIOUS
  <2>1. CASE s = {}
    BY <1>4, <2>1
  <2>2. CASE s # {}
    <3>1. PICK m : m = Max(s) /\ m \in s /\ \A i \in s : i <= m
      BY <1>1, <2>2, MaxIndex
    <3>2. s \ {m} \subseteq 1..k /\ s \ {m} \in SUBSET (1..n)
      <4>1. ASSUME NEW i \in s, i # m PROVE i \in 1..k
        <5>1. i \in 1..(k + 1) /\ m \in 1..(k + 1) /\ i <= m
          BY <3>1
        <5> QED BY <4>1, <5>1
      <4> QED BY <4>1
    <3>3. f[s \ {m}] \subseteq all
      BY <1>7, <3>2
    <3>4. ops[m] \in Range(ops)
      BY <1>1, <3>1 DEF Range
    <3>5. f[s] = HeaderOp(f[s \ {m}], ops[m])
      BY <1>4, <2>2, <3>1
    <3>6. HeaderOp(f[s \ {m}], ops[m]) \subseteq f[s \ {m}] \cup OpAdds(ops[m])
      BY <1>5, <3>4
    <3>7. OpAdds(ops[m]) \subseteq all
      BY <3>4
    <3> QED BY <3>3, <3>5, <3>6, <3>7
  <2> QED BY <2>1, <2>2
<1>8. n \in S
  <2> HIDE DEF S
  <2> QED BY <1>1, <1>6, <1>7, Induction
<1>9. f[1..n] \subseteq all
  BY <1>8
<1> QED BY <1>3, <1>9

-----------------------------------------------------------------------------
(* What reaches a client of the headers.                                   *)

\* The helpers of the plugins, and the response headers.
LEMMA HelpersHeaders ==
  ASSUME NEW c, DOMAIN c = CtxFields
  PROVE  /\ \A n : abort(c, n).resHeaders = c.resHeaders
         /\ \A x : respond(c, x).resHeaders = c.resHeaders \cup x
         /\ \A id : applyIdentity(c, id).resHeaders = c.resHeaders
         /\ \A w : forwardClaims(c, w).resHeaders = c.resHeaders
         /\ TakeKey(c).resHeaders = c.resHeaders
  BY DEF CtxFields, abort, respond, applyIdentity, forwardClaims, TakeKey

\* A plugin of post_response adds no header but its own.
LEMMA EffectAdds ==
  ASSUME NEW p \in AllPolicies, NEW c, DOMAIN c = CtxFields,
         NEW d \in Effect(p, c, "post_response")
  PROVE  d.resHeaders \subseteq c.resHeaders \cup Adds(p)
<1>1. /\ \A n : abort(c, n).resHeaders = c.resHeaders
      /\ \A x : respond(c, x).resHeaders = c.resHeaders \cup x
      /\ \A x, n : abort(respond(c, x), n).resHeaders = c.resHeaders \cup x
  <2>1. \A n : abort(c, n).resHeaders = c.resHeaders
    BY HelpersHeaders
  <2>2. ASSUME NEW x
        PROVE  /\ respond(c, x).resHeaders = c.resHeaders \cup x
               /\ \A n : abort(respond(c, x), n).resHeaders = c.resHeaders \cup x
    <3>1. DOMAIN respond(c, x) = CtxFields
      BY HelpersKeep DEF Kept
    <3>2. respond(c, x).resHeaders = c.resHeaders \cup x
      BY HelpersHeaders
    <3> QED BY <3>1, <3>2, HelpersHeaders
  <2> QED BY <2>1, <2>2
<1>2. CASE p.type = "cors"
  BY <1>1, <1>2 DEF Effect, cors, Adds
<1>3. CASE p.type = "ip_whitelist"
  <2>1. d = c \/ \E n : d = abort(c, n)
    <3>1. d \in ipWhitelist(c, p.cfg)
      BY <1>3 DEF Effect
    <3>2. CASE c.ip = ""
      <4>1. d = abort(c, 400)
        BY <3>1, <3>2 DEF ipWhitelist
      <4> QED BY <4>1
    <3>3. CASE c.ip # ""
      <4>1. d = abort(c, 403) \/ d = c
        BY <3>1, <3>3 DEF ipWhitelist
      <4> QED BY <4>1
    <3> QED BY <3>2, <3>3
  <2> QED BY <1>1, <2>1
<1>4. CASE p.type = "rate_limit"
  BY <1>1, <1>4 DEF Effect, rateLimit, Adds
<1>5. CASE p.type = "circuit_breaker"
  BY <1>1, <1>5 DEF Effect, circuitBreaker
<1>6. CASE p.type = "transform"
  <2> DEFINE ops == p.cfg.responseHeaders
             s == applyOps(c.resHeaders, ops)
  <2>1. d = [c EXCEPT !.resHeaders = s, !.resBody = transformBody(@, s, p.cfg.bodyOps)]
    BY <1>6 DEF Effect, transformPlugin
  <2>2. ops \in Seq(Range(ops))
    BY <1>6, ChainsAssumption
  <2>3. s \subseteq c.resHeaders \cup UNION {OpAdds(o) : o \in Range(ops)}
    BY <2>2, OpsAdd
  <2>4. Adds(p) = UNION {OpAdds(o) : o \in Range(ops)}
    BY <1>6 DEF Adds
  <2> HIDE DEF s, ops
  <2>5. d.resHeaders = s
    BY <2>1 DEF CtxFields
  <2> QED BY <2>3, <2>4, <2>5
<1>7. \/ p.type = "cors" \/ p.type = "ip_whitelist" \/ p.type = "rate_limit"
      \/ p.type = "circuit_breaker" \/ p.type = "transform"
  BY DEF Effect
<1> QED BY <1>2, <1>3, <1>4, <1>5, <1>6, <1>7

\* An authentication adds none.
LEMMA MethodsHeaders ==
  ASSUME NEW c, DOMAIN c = CtxFields, NEW cfg
  PROVE  /\ Failed(c).ctx.resHeaders = c.resHeaders
         /\ Unavailable(c, cfg).ctx.resHeaders = c.resHeaders
         /\ \A m \in {"jwt", "basic", "hmac", "api_key"} : \A res \in AuthResults(m, c, cfg) :
              res.ctx.resHeaders = c.resHeaders
         /\ \A info : applyIntrospectResult(c, cfg, info).ctx.resHeaders = c.resHeaders
<1>1. /\ \A e : Passed(e).ctx = e /\ Failed(e).ctx = e
      /\ \A e : Unavailable(e, cfg).ctx = e
  BY DEF Passed, Failed, Unavailable
<1>2. ASSUME NEW e, DOMAIN e = CtxFields, NEW id, NEW wanted
      PROVE  /\ applyIdentity(e, id).resHeaders = e.resHeaders
             /\ DOMAIN applyIdentity(e, id) = CtxFields
             /\ forwardClaims(applyIdentity(e, id), wanted).resHeaders = e.resHeaders
             /\ [applyIdentity(e, id) EXCEPT !.api = KeyApi].resHeaders = e.resHeaders
  <2>1. DOMAIN applyIdentity(e, id) = CtxFields
    BY <1>2, HelpersKeep DEF Kept
  <2>2. applyIdentity(e, id).resHeaders = e.resHeaders
    BY <1>2, HelpersHeaders
  <2>3. forwardClaims(applyIdentity(e, id), wanted).resHeaders = e.resHeaders
    BY <2>1, <2>2, HelpersHeaders
  <2> QED BY <2>1, <2>2, <2>3 DEF CtxFields
<1>3. DOMAIN TakeKey(c) = CtxFields /\ TakeKey(c).resHeaders = c.resHeaders
  BY HelpersKeep, HelpersHeaders DEF Kept
<1>4. [c EXCEPT !.client = "sig"].resHeaders = c.resHeaders
  BY DEF CtxFields
<1>5. ASSUME NEW res \in AuthResults("jwt", c, cfg) PROVE res.ctx.resHeaders = c.resHeaders
  BY <1>1, <1>2 DEF AuthResults, jwtAuth
<1>6. ASSUME NEW res \in AuthResults("basic", c, cfg) PROVE res.ctx.resHeaders = c.resHeaders
  BY <1>1, <1>2 DEF AuthResults, basicAuth
<1>7. ASSUME NEW res \in AuthResults("hmac", c, cfg) PROVE res.ctx.resHeaders = c.resHeaders
  BY <1>1, <1>4 DEF AuthResults, hmacAuth
<1>8. ASSUME NEW res \in AuthResults("api_key", c, cfg)
      PROVE  res.ctx.resHeaders = c.resHeaders
  <2> DEFINE d == TakeKey(c)
  <2>1. \/ res \in {Failed(d), Unavailable(d, cfg)}
        \/ \E id : res = Passed([applyIdentity(d, id) EXCEPT !.api = KeyApi])
    BY <1>8 DEF AuthResults, apiKeyAuth
  <2>2. DOMAIN d = CtxFields /\ d.resHeaders = c.resHeaders
    BY <1>3
  <2> HIDE DEF d
  <2>3. CASE res \in {Failed(d), Unavailable(d, cfg)}
    BY <1>1, <2>2, <2>3
  <2>4. ASSUME NEW id, res = Passed([applyIdentity(d, id) EXCEPT !.api = KeyApi])
        PROVE  res.ctx.resHeaders = c.resHeaders
    <3> DEFINE e == [applyIdentity(d, id) EXCEPT !.api = KeyApi]
    <3>1. e.resHeaders = d.resHeaders
      BY <1>2, <2>2
    <3>2. res = Passed(e)
      BY <2>4
    <3> HIDE DEF e
    <3> QED BY <1>1, <2>2, <3>1, <3>2
  <2> QED BY <2>1, <2>3, <2>4
<1>9. ASSUME NEW info
      PROVE  applyIntrospectResult(c, cfg, info).ctx.resHeaders = c.resHeaders
  BY <1>1, <1>2 DEF applyIntrospectResult
<1> QED BY <1>1, <1>5, <1>6, <1>7, <1>8, <1>9

LateHeaders ==
  UNION ({resp.headers : resp \in UpstreamResponses}
           \cup {Adds(p) : p \in {q \in AllPolicies : q.enabled /\ q.phase = "post_response"}})

\* After the upstream has answered, the headers are its own and those that
\* enabled policies of post_response add.
LateOK(w) ==
  /\ w.phase = "post_response" =>
       /\ w.ctx.resHeaders \subseteq LateHeaders
       /\ w.pc \in {"policies", "introspect", "storing"} =>
            \A i \in 1..Len(w.todo) : w.todo[i].enabled /\ w.todo[i].phase = "post_response"
  /\ w.answer.via = "upstream" => w.answer.headers \subseteq LateHeaders

LateStepOK(r) == \E w : h' = [h EXCEPT ![r] = w] /\ LateOK(w)

\* What the policy a handler is at adds, it may.
LEMMA PolicyAdds ==
  ASSUME NEW r, HandlerOK(h[r]), LateOK(h[r]), At(r), h[r].phase = "post_response"
  PROVE  Policy(r) \in AllPolicies /\ Adds(Policy(r)) \subseteq LateHeaders
<1>1. /\ Policy(r) \in AllPolicies /\ Policy(r) = h[r].todo[1]
      /\ Len(h[r].todo) \in Nat \ {0}
  BY AtPolicy DEF At, HandlerOK
<1>2. Policy(r).enabled /\ Policy(r).phase = "post_response"
  BY <1>1 DEF LateOK, At
<1> DEFINE late == {q \in AllPolicies : q.enabled /\ q.phase = "post_response"}
<1>3. Policy(r) \in late
  BY <1>1, <1>2
<1> DEFINE X == {Adds(p) : p \in late}
           U == {resp.headers : resp \in UpstreamResponses}
<1>4. LateHeaders = UNION (U \cup X)
  BY DEF LateHeaders
<1>5. Adds(Policy(r)) \in X
  BY <1>3
<1> HIDE DEF late, U, X
<1>6. Adds(Policy(r)) \subseteq UNION (U \cup X)
  BY <1>5
<1> QED BY <1>1, <1>4, <1>6

\* A handler that moves on to the next policy, or to the next method.
LEMMA LateProceed ==
  ASSUME NEW r, HandlerOK(h[r]), LateOK(h[r]), At(r), NEW d,
         h[r].phase = "post_response" => d.resHeaders \subseteq LateHeaders
  PROVE  LateOK(Proceed(r, d))
<1> DEFINE v == h[r]
           w == Proceed(r, d)
<1>1. HTypes(v) /\ LateOK(v)
  BY DEF HandlerOK
<1>2. w.ctx = d /\ w.todo = Tail(v.todo) /\ w.phase = v.phase /\ w.answer = v.answer
  BY <1>1 DEF Proceed, HTypes, HFields
<1>3. /\ Len(v.todo) \in Nat \ {0} /\ Len(Tail(v.todo)) = Len(v.todo) - 1
      /\ \A i \in 1..Len(Tail(v.todo)) : Tail(v.todo)[i] = v.todo[i + 1]
  BY <1>1, AtPolicy DEF At
<1>4. v.pc \in {"policies", "introspect", "storing"}
  BY DEF At
<1> HIDE DEF v, w
<1>5. \A i \in 1..Len(w.todo) : i + 1 \in 1..Len(v.todo) /\ w.todo[i] = v.todo[i + 1]
  BY <1>2, <1>3
<1> QED BY <1>1, <1>2, <1>4, <1>5 DEF LateOK, v, w

\* A handler whose method has answered.
LEMMA LateConclude ==
  ASSUME NEW r, HandlerOK(h[r]), LateOK(h[r]), At(r), NEW res,
         res.ctx.resHeaders = h[r].ctx.resHeaders
  PROVE  LateOK(Conclude(r, res))
<1>1. HTypes(h[r])
  BY DEF HandlerOK
<1>2. CASE res.ok
  <2>1. LateOK(Proceed(r, res.ctx))
    BY LateProceed DEF LateOK
  <2> QED BY <1>2, <2>1 DEF Conclude
<1>3. CASE ~res.ok
  <2> DEFINE v == h[r]
             w == [v EXCEPT !.pc = "policies", !.ctx = res.ctx, !.method = @ + 1,
                            !.got = "none", !.age = 0]
  <2>1. Conclude(r, res) = w
    BY <1>3 DEF Conclude
  <2>2. w.ctx = res.ctx /\ w.todo = v.todo /\ w.phase = v.phase /\ w.answer = v.answer
    BY <1>1 DEF HTypes, HFields
  <2>3. v.pc \in {"policies", "introspect", "storing"}
    BY DEF At
  <2> HIDE DEF w
  <2> QED BY <2>1, <2>2, <2>3 DEF LateOK
<1> QED BY <1>2, <1>3

\* The steps that run a plugin.
LEMMA LatePlugin ==
  ASSUME NEW r, HandlerOK(h[r]), LateOK(h[r]),
         \/ SkipPolicy(r) \/ RunPlugin(r) \/ RunCacheStore(r) \/ RunCacheLookup(r)
         \/ AuthFails(r)
  PROVE  LateStepOK(r)
<1> DEFINE c == h[r].ctx
<1>1. At(r) /\ DOMAIN c = CtxFields /\ HControl(h[r])
  BY DEF SkipPolicy, RunPlugin, RunCacheStore, RunCacheLookup, AuthFails, AuthPolicy, Applies,
         Running, At, HandlerOK, HTypes
<1>2. h[r].phase = "post_response" => c.resHeaders \subseteq LateHeaders /\ c.status # 0
  BY <1>1 DEF LateOK, HControl
<1>3. ASSUME NEW d, Become(r, Proceed(r, d)),
             h[r].phase = "post_response" => d.resHeaders \subseteq LateHeaders
      PROVE  LateStepOK(r)
  <2>1. LateOK(Proceed(r, d))
    BY <1>1, <1>3, LateProceed
  <2> QED BY <1>3, <2>1 DEF LateStepOK, Become
<1>4. CASE SkipPolicy(r) \/ RunCacheStore(r)
  BY <1>2, <1>3, <1>4 DEF SkipPolicy, RunCacheStore, Local
<1>5. CASE RunPlugin(r)
  <2>1. PICK d \in Effect(Policy(r), c, h[r].phase) : Become(r, Proceed(r, d))
    BY <1>5 DEF RunPlugin, Local
  <2>2. ASSUME h[r].phase = "post_response" PROVE d.resHeaders \subseteq LateHeaders
    <3>1. Policy(r) \in AllPolicies /\ Adds(Policy(r)) \subseteq LateHeaders
      BY <1>1, <2>2, PolicyAdds
    <3>2. d.resHeaders \subseteq c.resHeaders \cup Adds(Policy(r))
      BY <1>1, <2>1, <2>2, <3>1, EffectAdds
    <3> QED BY <1>2, <2>2, <3>1, <3>2
  <2> QED BY <1>3, <2>1, <2>2
<1>6. CASE RunCacheLookup(r)
  <2>1. c.status = 0 /\ \E d : Become(r, Proceed(r, d))
    BY <1>6 DEF RunCacheLookup, Local
  <2> QED BY <1>2, <1>3, <2>1
<1>7. CASE AuthFails(r)
  <2>1. \E d : d \in {c, abort(c, 401)} /\ Become(r, Proceed(r, d))
    BY <1>7 DEF AuthFails, Local
  <2>2. abort(c, 401).resHeaders = c.resHeaders
    BY <1>1, HelpersHeaders
  <2> QED BY <1>2, <1>3, <2>1, <2>2
<1> QED BY <1>4, <1>5, <1>6, <1>7

\* The steps of an authentication.
LEMMA LateMethod ==
  ASSUME NEW r, HandlerOK(h[r]), LateOK(h[r]),
         \/ TryMethod(r) \/ UnknownMethod(r) \/ IntrospectNothing(r) \/ IntrospectCached(r)
         \/ IntrospectStore(r) \/ IntrospectFails(r)
  PROVE  LateStepOK(r)
<1> DEFINE c == h[r].ctx
           cfg == Policy(r).cfg
<1>1. At(r) /\ DOMAIN c = CtxFields
  BY Asked DEF TryMethod, UnknownMethod, IntrospectNothing, IntrospectCached, IntrospectStore,
     IntrospectFails, Trying, AuthPolicy, Applies, Running, At, HandlerOK, HTypes
<1>2. PICK res : Become(r, Conclude(r, res)) /\ res.ctx.resHeaders = c.resHeaders
  <2> HIDE DEF c, cfg
  <2>1. /\ Failed(c).ctx.resHeaders = c.resHeaders
        /\ Unavailable(c, cfg).ctx.resHeaders = c.resHeaders
        /\ \A m \in {"jwt", "basic", "hmac", "api_key"} : \A res \in AuthResults(m, c, cfg) :
             res.ctx.resHeaders = c.resHeaders
        /\ \A info : applyIntrospectResult(c, cfg, info).ctx.resHeaders = c.resHeaders
    BY <1>1, MethodsHeaders
  <2>2. CASE TryMethod(r)
    BY <2>1, <2>2 DEF TryMethod, Local, c, cfg
  <2>3. CASE UnknownMethod(r) \/ IntrospectNothing(r)
    BY <2>1, <2>3 DEF UnknownMethod, IntrospectNothing, Local, c
  <2>4. CASE IntrospectCached(r) \/ IntrospectStore(r)
    BY <2>1, <2>4 DEF IntrospectCached, IntrospectStore, Local, c, cfg
  <2>5. CASE IntrospectFails(r)
    BY <2>1, <2>5 DEF IntrospectFails, Local, c, cfg
  <2> QED BY <2>2, <2>3, <2>4, <2>5
<1>3. LateOK(Conclude(r, res))
  BY <1>1, <1>2, LateConclude
<1> QED BY <1>2, <1>3 DEF LateStepOK, Become

\* A phase begins: the policies are those of the phase, and enabled.
LEMMA LateBegin ==
  ASSUME NEW r, HandlerOK(h[r]), LateOK(h[r]), BeginPhase(r)
  PROVE  LateStepOK(r)
<1> DEFINE v == h[r]
<1>1. HTypes(v) /\ v.pc = "chain"
  BY DEF HandlerOK, BeginPhase
<1>2. PICK n \in 0..Len(Chains[v.ctx.api]) : \E ps :
        /\ ps = IF n = 0 THEN <<>> ELSE PhasePolicies(Chains[v.ctx.api][n], v.phase)
        /\ h' = [h EXCEPT ![r] = [v EXCEPT !.pc = "policies", !.todo = ps, !.method = 1,
                                           !.chain = IF v.phase = "pre_request"
                                                       THEN ps ELSE @]]
  BY DEF BeginPhase, Local, Become
<1>3. PICK ps :
        /\ ps = IF n = 0 THEN <<>> ELSE PhasePolicies(Chains[v.ctx.api][n], v.phase)
        /\ h' = [h EXCEPT ![r] = [v EXCEPT !.pc = "policies", !.todo = ps, !.method = 1,
                                           !.chain = IF v.phase = "pre_request"
                                                       THEN ps ELSE @]]
  BY <1>2
<1> DEFINE w == [v EXCEPT !.pc = "policies", !.todo = ps, !.method = 1,
                          !.chain = IF v.phase = "pre_request" THEN ps ELSE @]
<1>4. \A i \in 1..Len(ps) : ps[i].enabled /\ ps[i].phase = v.phase
  <2>1. CASE n = 0
    <3>1. ps = <<>>
      BY <1>3, <2>1
    <3> QED BY <3>1, EmptySeq
  <2>2. CASE n # 0
    <3>1. Chains[v.ctx.api] \in Seq(Seq(AllPolicies))
      BY <1>1, ChainsAssumption DEF HTypes
    <3>2. Chains[v.ctx.api][n] \in Seq(AllPolicies)
      BY <2>2, <3>1, LenProperties, ElementOfSeq
    <3>p. ps = PhasePolicies(Chains[v.ctx.api][n], v.phase)
      BY <1>3, <2>2
    <3>3. /\ ps \in Seq(AllPolicies)
          /\ \A i \in DOMAIN ps : ps[i].enabled /\ ps[i].phase = v.phase
      <4>1. PICK s, f : s = Chains[v.ctx.api][n] /\ f = v.phase
        OBVIOUS
      <4>2. s \in Seq(AllPolicies) /\ ps = PhasePolicies(s, f)
        BY <3>2, <3>p, <4>1
      <4>3. /\ PhasePolicies(s, f) \in Seq(AllPolicies)
            /\ \A i \in DOMAIN PhasePolicies(s, f) :
                 PhasePolicies(s, f)[i].enabled /\ PhasePolicies(s, f)[i].phase = f
        BY <4>2, PhaseSelects
      <4> QED BY <4>1, <4>2, <4>3
    <3> QED BY <3>3, LenProperties
  <2> QED BY <2>1, <2>2
<1> HIDE DEF v
<1>5. w.ctx = v.ctx /\ w.todo = ps /\ w.phase = v.phase /\ w.answer = v.answer
  BY <1>1 DEF HTypes, HFields
<1> HIDE DEF w
<1>6. LateOK(w)
  BY <1>4, <1>5 DEF LateOK, v
<1> QED BY <1>3, <1>6 DEF LateStepOK, w

\* The other steps of a handler.
LEMMA LateOthers ==
  ASSUME NEW r, HandlerOK(h[r]), LateOK(h[r]),
         \/ IntrospectAsk(r) \/ IntrospectAnswers(r) \/ IntrospectTake(r)
         \/ Flush(r) \/ Finish(r) \/ ResponseBreaks(r) \/ Forward(r)
         \/ \E resp \in UpstreamResponses : Respond(r, resp)
  PROVE  LateStepOK(r)
<1> DEFINE v == h[r]
<1>1. HTypes(v) /\ HControl(v) /\ LateOK(v)
  BY DEF HandlerOK
<1>2. ASSUME NEW status, NEW body, NEW headers, NEW via,
             via = "upstream" => headers \subseteq LateHeaders
      PROVE  LateOK(Answer(status, body, headers, via))
  <2> DEFINE a == [status |-> status, body |-> body, headers |-> headers, via |-> via]
  <2>1. Answer(status, body, headers, via) = Idle(a)
    BY DEF Answer
  <2>2. Idle(a).phase = "pre_request" /\ Idle(a).answer = a
    BY IdleFields
  <2>3. a.via = via /\ a.headers = headers
    OBVIOUS
  <2> HIDE DEF a
  <2>4. LateOK(Idle(a))
    BY <1>2, <2>2, <2>3 DEF LateOK
  <2> QED BY <2>1, <2>4
<1>3. CASE IntrospectAsk(r) \/ IntrospectAnswers(r) \/ IntrospectTake(r)
  <2>1. PICK w : /\ h' = [h EXCEPT ![r] = w]
                 /\ \/ w = [v EXCEPT !.pc = "introspect"]
                    \/ w = [v EXCEPT !.pc = "storing", !.age = 0]
                    \/ \E x : w = [v EXCEPT !.got = x]
    BY <1>3 DEF IntrospectAsk, IntrospectAnswers, IntrospectTake, Local, Become
  <2>2. v.pc \in {"policies", "introspect", "storing"}
    BY <1>3 DEF IntrospectAsk, IntrospectAnswers, IntrospectTake, Trying, AuthPolicy, Applies,
                Running
  <2> HIDE DEF v
  <2>3. w.ctx = v.ctx /\ w.todo = v.todo /\ w.phase = v.phase /\ w.answer = v.answer
    BY <1>1, <2>1 DEF HTypes, HFields
  <2>4. LateOK(w)
    BY <1>1, <2>2, <2>3 DEF LateOK
  <2> QED BY <2>1, <2>4 DEF LateStepOK
<1>4. CASE Flush(r)
  <2>1. h' = [h EXCEPT ![r] = flushAbort(v.ctx)]
    BY <1>1, <1>4 DEF Flush, HControl, Local, Become
  <2> DEFINE via == IF v.ctx.hit THEN "hit" ELSE "abort"
             body == IF v.ctx.code = 204 THEN "none" ELSE "error"
  <2>2. h' = [h EXCEPT ![r] = Answer(v.ctx.code, body, v.ctx.resHeaders, via)]
    BY <2>1 DEF flushAbort
  <2>3. via # "upstream"
    OBVIOUS
  <2> HIDE DEF via, body
  <2>4. LateOK(Answer(v.ctx.code, body, v.ctx.resHeaders, via))
    BY <1>2, <2>3
  <2> QED BY <2>2, <2>4 DEF LateStepOK
<1>5. CASE ResponseBreaks(r)
  <2>1. h' = [h EXCEPT ![r] = Answer(500, "error", {}, "gateway")]
    BY <1>5 DEF ResponseBreaks, Local, Become
  <2>2. LateOK(Answer(500, "error", {}, "gateway"))
    BY <1>2
  <2> QED BY <2>1, <2>2 DEF LateStepOK
<1>6. CASE Finish(r)
  <2>1. v.ctx.resHeaders \subseteq LateHeaders
    BY <1>1, <1>6 DEF Finish, LateOK
  <2>2. h' = [h EXCEPT ![r] = flushCtxResponse(v.ctx)]
    BY <1>6 DEF Finish, Local, Become
  <2>3. LateOK(flushCtxResponse(v.ctx))
    BY <1>2, <2>1 DEF flushCtxResponse
  <2> QED BY <2>2, <2>3 DEF LateStepOK
<1>7. CASE Forward(r)
  <2> DEFINE w == [v EXCEPT !.pc = "upstream", !.todo = <<>>]
  <2>1. h' = [h EXCEPT ![r] = w] /\ v.phase = "pre_request"
    BY <1>7 DEF Forward, Local, Become
  <2> HIDE DEF v
  <2>2. w.phase = "pre_request" /\ w.answer = v.answer
    BY <1>1, <2>1 DEF HTypes, HFields
  <2> HIDE DEF w
  <2>3. LateOK(w)
    BY <1>1, <2>2 DEF LateOK
  <2> QED BY <2>1, <2>3 DEF LateStepOK
<1>8. ASSUME NEW resp \in UpstreamResponses, Respond(r, resp) PROVE LateStepOK(r)
  <2> DEFINE c == TakeResponse(v.ctx, resp)
             w == [v EXCEPT !.pc = "chain", !.phase = "post_response", !.ctx = c]
  <2>1. h' = [h EXCEPT ![r] = w]
    BY <1>8 DEF Respond, Local, Become
  <2>2. c.resHeaders = resp.headers
    BY <1>1 DEF TakeResponse, HTypes, CtxFields
  <2>3. resp.headers \subseteq LateHeaders
    BY DEF LateHeaders
  <2> HIDE DEF v, c
  <2>4. w.pc = "chain" /\ w.ctx = c /\ w.answer = v.answer
    BY <1>1 DEF HTypes, HFields
  <2> HIDE DEF w
  <2>5. LateOK(w)
    BY <1>1, <2>2, <2>3, <2>4 DEF LateOK
  <2> QED BY <2>1, <2>5 DEF LateStepOK
<1> QED BY <1>3, <1>4, <1>5, <1>6, <1>7, <1>8

\* A request arrives.
LEMMA LateArrive ==
  ASSUME NEW r, NEW req, Arrive(r, req) \/ NoRoute(r, req) \/ Blocked(r, req)
  PROVE  LateStepOK(r)
<1>1. CASE NoRoute(r, req) \/ Blocked(r, req)
  <2>1. PICK n : h' = [h EXCEPT ![r] = Answer(n, "error", {}, "gateway")]
    BY <1>1 DEF NoRoute, Blocked, Local, Become
  <2> DEFINE a == [status |-> n, body |-> "error", headers |-> {}, via |-> "gateway"]
  <2>2. Idle(a).phase = "pre_request" /\ Idle(a).answer = a
    BY IdleFields
  <2>3. LateOK(Idle(a))
    BY <2>2 DEF LateOK
  <2> QED BY <2>1, <2>3 DEF LateStepOK, Answer
<1>2. CASE Arrive(r, req)
  <2> DEFINE c == createExecContext(Route[req.path], req)
             v == Idle(NoAnswer)
             w == [v EXCEPT !.pc = "chain", !.ctx = c]
  <2>1. h' = [h EXCEPT ![r] = w]
    BY <1>2 DEF Arrive, Local, Become
  <2>2. DOMAIN v = HFields /\ v.phase = "pre_request" /\ v.answer = NoAnswer
    BY IdleFields
  <2> HIDE DEF c, v
  <2>3. w.phase = "pre_request" /\ w.answer = NoAnswer
    BY <2>2 DEF HFields
  <2> HIDE DEF w
  <2>4. LateOK(w)
    BY <2>3 DEF LateOK, NoAnswer
  <2> QED BY <2>1, <2>4 DEF LateStepOK
<1> QED BY <1>1, <1>2

\* The context's headers with which a forwarded request is answered come
\* from the upstream and from enabled policies of post_response, whatever
\* cors and rate_limit have set before: server.ts replaces them.
EarlyHeadersLost ==
  \A r \in Requests :
    h[r].answer.via = "upstream" => h[r].answer.headers \subseteq LateHeaders

THEOREM LateHeadersTheorem == Spec => []EarlyHeadersLost
<1> DEFINE Inv == \A r \in Requests : LateOK(h[r])
<1>1. Init => Inv
  <2>1. Idle(NoAnswer).phase = "pre_request" /\ Idle(NoAnswer).answer = NoAnswer
    BY IdleFields
  <2>2. LateOK(Idle(NoAnswer))
    BY <2>1 DEF LateOK, NoAnswer
  <2> QED BY <2>2 DEF Init
<1>2. ASSUME Handlers, Inv, [Next]_vars PROVE Inv'
  <2>1. ASSUME NEW r \in Requests, LateStepOK(r) PROVE Inv'
    <3>1. PICK w : h' = [h EXCEPT ![r] = w] /\ LateOK(w)
      BY <2>1 DEF LateStepOK
    <3>2. \A s \in Requests : h'[s] \in {w, h[s]}
      BY <1>2, <3>1 DEF Handlers
    <3> QED BY <1>2, <3>1, <3>2
  <2>2. ASSUME NEW r \in Requests, NEW req,
               Arrive(r, req) \/ NoRoute(r, req) \/ Blocked(r, req)
        PROVE  Inv'
    BY <2>1, <2>2, LateArrive
  <2>3. ASSUME NEW r \in Requests, HandlerStep(r) \/ IntrospectAnswers(r) PROVE Inv'
    <3>1. HandlerOK(h[r]) /\ LateOK(h[r])
      BY <1>2 DEF Handlers
    <3>2. LateStepOK(r)
      BY <2>3, <3>1, LatePlugin, LateMethod, LateBegin, LateOthers DEF HandlerStep
    <3> QED BY <2>1, <3>2
  <2>4. UNCHANGED h => Inv'
    BY <1>2
  <2>5. ASSUME Tick PROVE Inv'
    <3> SUFFICES ASSUME NEW r \in Requests PROVE LateOK(h'[r])
      OBVIOUS
    <3>1. HTypes(h[r]) /\ LateOK(h[r])
      BY <1>2 DEF Handlers, HandlerOK
    <3>2. h'[r] = h[r] \/ h'[r] = [h[r] EXCEPT !.age = @ + 1]
      BY <2>5 DEF Tick
    <3> DEFINE w == [h[r] EXCEPT !.age = @ + 1]
    <3>3. /\ w.ctx = h[r].ctx /\ w.todo = h[r].todo /\ w.phase = h[r].phase
          /\ w.answer = h[r].answer /\ w.pc = h[r].pc
      BY <3>1 DEF HTypes, HFields
    <3> HIDE DEF w
    <3>4. LateOK(w)
      BY <3>1, <3>3 DEF LateOK
    <3> QED BY <3>1, <3>2, <3>4 DEF w
  <2> QED BY <1>2, <2>2, <2>3, <2>4, <2>5 DEF Next, vars, RevokeToken
<1>3. Inv => EarlyHeadersLost
  BY DEF LateOK, EarlyHeadersLost
<1> HIDE DEF Inv
<1> QED BY <1>1, <1>2, <1>3, HandlersInductive, PTL DEF Spec

-----------------------------------------------------------------------------
(* A revoked token.                                                        *)

\* No result that says yes outlives TokenLag: one in Redis has ttl left, one
\* under way is at most as old as its fetch, and then as its SET.
TimeInv ==
  /\ live \in BOOLEAN /\ dead \in Nat /\ (live => dead = 0)
  /\ DOMAIN intro = {"active", "ttl"} /\ intro.ttl \in Nat
  /\ intro.active \in {"none", "yes", "no"}
  /\ intro.active # "none" => intro.ttl >= 1
  /\ intro.active = "yes" => intro.ttl <= IntroTTL
  /\ intro.active = "yes" /\ ~live => dead + intro.ttl <= TokenLag

UnderWay(w) ==
  /\ w.pc = "introspect" /\ w.got = "yes" /\ ~live => dead <= w.age
  /\ w.pc = "storing" /\ w.got = "yes" /\ ~live => dead <= FetchMax + w.age

\* The fields of a handler that a plugin has left.
LEMMA NextFields ==
  ASSUME NEW r, HTypes(h[r])
  PROVE  /\ \A d : Proceed(r, d).pc = "policies" /\ Proceed(r, d).ctx = d
         /\ \A res : Conclude(r, res).pc = "policies" /\ Conclude(r, res).ctx = res.ctx
<1>1. \A d : Proceed(r, d).pc = "policies" /\ Proceed(r, d).ctx = d
  BY DEF Proceed, HTypes, HFields
<1>2. ASSUME NEW res PROVE Conclude(r, res).pc = "policies" /\ Conclude(r, res).ctx = res.ctx
  <2>1. CASE res.ok
    BY <1>1, <2>1 DEF Conclude
  <2>2. CASE ~res.ok
    BY <2>2 DEF Conclude, HTypes, HFields
  <2> QED BY <2>1, <2>2
<1> QED BY <1>1, <1>2

\* The fields of a handler that has answered.
LEMMA AnswerFields ==
  ASSUME NEW status, NEW body, NEW headers, NEW via
  PROVE  /\ Answer(status, body, headers, via).pc = "idle"
         /\ Answer(status, body, headers, via).ctx = NewCtx
  BY IdleFields DEF Answer

\* A step of a handler leaves it at an introspection only if it begins one
\* or takes its answer.
LEMMA StepAsking ==
  ASSUME NEW r \in DOMAIN h, HandlerOK(h[r]), HandlerStep(r), ~IntrospectTake(r)
  PROVE  h'[r].pc \in {"introspect", "storing"} => h'[r].got = "none"
<1>1. HTypes(h[r]) /\ HControl(h[r])
  BY DEF HandlerOK
<1>2. ASSUME NEW w, h' = [h EXCEPT ![r] = w] PROVE h'[r] = w
  BY <1>2
<1>3. CASE BeginPhase(r)
  <2>1. PICK ps, ch : h' = [h EXCEPT ![r] = [h[r] EXCEPT !.pc = "policies", !.todo = ps,
                                                   !.method = 1, !.chain = ch]]
    <3>1. \E n \in 0..Len(Chains[h[r].ctx.api]) : \E ps, ch :
            h' = [h EXCEPT ![r] = [h[r] EXCEPT !.pc = "policies", !.todo = ps,
                                               !.method = 1, !.chain = ch]]
      BY <1>3 DEF BeginPhase, Local, Become
    <3> QED BY <3>1
  <2>2. h'[r].pc = "policies"
    BY <1>1, <2>1 DEF HTypes, HFields
  <2> QED BY <2>2
<1>4. CASE SkipPolicy(r) \/ RunPlugin(r) \/ RunCacheStore(r) \/ RunCacheLookup(r) \/ AuthFails(r)
  <2>1. PICK d : h' = [h EXCEPT ![r] = Proceed(r, d)]
    BY <1>4 DEF SkipPolicy, RunPlugin, RunCacheStore, RunCacheLookup, AuthFails, Local, Become
  <2> QED BY <1>1, <2>1, NextFields
<1>5. CASE \/ TryMethod(r) \/ UnknownMethod(r) \/ IntrospectNothing(r) \/ IntrospectCached(r)
           \/ IntrospectStore(r) \/ IntrospectFails(r)
  <2>1. PICK res : h' = [h EXCEPT ![r] = Conclude(r, res)]
    BY <1>5 DEF TryMethod, UnknownMethod, IntrospectNothing, IntrospectCached, IntrospectStore,
                IntrospectFails, Local, Become
  <2> QED BY <1>1, <2>1, NextFields
<1>6. CASE IntrospectAsk(r)
  <2>1. h[r].got = "none" /\ h'[r] = [h[r] EXCEPT !.pc = "introspect"]
    BY <1>1, <1>6 DEF IntrospectAsk, Trying, AuthPolicy, Applies, Running, HControl, Local, Become
  <2> QED BY <1>1, <2>1 DEF HTypes, HFields
<1>7. CASE Flush(r) \/ ResponseBreaks(r) \/ Finish(r)
  <2>1. PICK a, b, c, d : h' = [h EXCEPT ![r] = Answer(a, b, c, d)]
    BY <1>7 DEF Flush, ResponseBreaks, Finish, flushAbort, flushCtxResponse, Local, Become
  <2> QED BY <2>1, AnswerFields
<1>8. CASE Forward(r)
  BY <1>1, <1>8 DEF Forward, Local, Become, HTypes, HFields
<1>9. CASE \E resp \in UpstreamResponses : Respond(r, resp)
  BY <1>1, <1>9 DEF Respond, Local, Become, HTypes, HFields
<1> QED BY <1>3, <1>4, <1>5, <1>6, <1>7, <1>8, <1>9 DEF HandlerStep

\* Results that say yes, in Redis and under way, are young enough.
UnderWays == \A r \in Requests : UnderWay(h[r])

\* A tick ages what is under way and in Redis alike.
LEMMA TimeTick ==
  ASSUME Handlers, TimeInv, UnderWays, Tick
  PROVE  TimeInv' /\ UnderWays'
<1>1. /\ h' = [r \in Requests |-> IF Asking(r) THEN [h[r] EXCEPT !.age = @ + 1] ELSE h[r]]
      /\ dead' = IF live \/ dead > TokenLag THEN dead ELSE dead + 1
      /\ intro' = IF intro.ttl <= 1 THEN Nothing ELSE [intro EXCEPT !.ttl = @ - 1]
      /\ live' = live
  BY DEF Tick
<1>2. TokenLag \in Nat /\ IntroTTL \in Nat
  BY TimeAssumption DEF TokenLag
<1>3. TimeInv'
  <2>1. CASE intro.ttl <= 1
    BY <1>1, <2>1 DEF TimeInv, Nothing
  <2>2. CASE ~(intro.ttl <= 1)
    <3>1. /\ DOMAIN intro' = {"active", "ttl"} /\ intro'.active = intro.active
          /\ intro'.ttl = intro.ttl - 1
      BY <1>1, <2>2 DEF TimeInv
    <3>2. dead' \in Nat /\ dead' <= dead + 1 /\ (live => dead' = 0)
      BY <1>1, <1>2 DEF TimeInv
    <3> QED BY <1>1, <1>2, <2>2, <3>1, <3>2 DEF TimeInv
  <2> QED BY <2>1, <2>2
<1>4. ASSUME NEW r \in Requests PROVE \A w : w = h'[r] => UnderWay(w)'
  <2>1. HTypes(h[r]) /\ UnderWay(h[r])
    BY DEF Handlers, HandlerOK, UnderWays
  <2>2. dead' \in Nat /\ dead' <= dead + 1 /\ dead \in Nat
    BY <1>1, <1>2 DEF TimeInv
  <2>3. CASE Asking(r)
    <3>1. h'[r] = [h[r] EXCEPT !.age = @ + 1]
      BY <1>1, <2>3
    <3>2. /\ h'[r].pc = h[r].pc /\ h'[r].got = h[r].got /\ h'[r].age = h[r].age + 1
          /\ h[r].age \in Nat
      BY <2>1, <3>1 DEF HTypes, HFields
    <3>3. ASSUME h[r].pc = "introspect", h[r].got = "yes", ~live
          PROVE  dead' <= h'[r].age
      <4>1. dead <= h[r].age
        BY <2>1, <3>3 DEF UnderWay
      <4> QED BY <2>2, <3>2, <4>1
    <3>4. ASSUME h[r].pc = "storing", h[r].got = "yes", ~live
          PROVE  dead' <= FetchMax + h'[r].age
      <4>1. dead <= FetchMax + h[r].age
        BY <2>1, <3>4 DEF UnderWay
      <4> QED BY <2>2, <3>2, <4>1, TimeAssumption
    <3> QED BY <1>1, <3>2, <3>3, <3>4 DEF UnderWay
  <2>4. CASE ~Asking(r)
    BY <1>1, <2>4 DEF Asking, UnderWay
  <2> QED BY <2>3, <2>4
<1> QED BY <1>3, <1>4 DEF UnderWays

\* A step of one handler.
LEMMA TimeHandler ==
  ASSUME Handlers, TimeInv, UnderWays, NEW r \in Requests,
         HandlerStep(r) \/ IntrospectAnswers(r)
  PROVE  TimeInv' /\ UnderWays'
<1>1. HandlerOK(h[r]) /\ HTypes(h[r]) /\ HControl(h[r]) /\ r \in DOMAIN h
  BY DEF Handlers, HandlerOK
<1>2. live' = live /\ dead' = dead
  BY DEF HandlerStep, BeginPhase, SkipPolicy, RunPlugin, RunCacheStore,
         RunCacheLookup, TryMethod, UnknownMethod, IntrospectNothing, IntrospectCached,
         IntrospectAsk, IntrospectAnswers, IntrospectTake, IntrospectStore,
         IntrospectFails, AuthFails, Flush, Forward,
         Respond, ResponseBreaks, Finish, Local
<1>3. PICK w : h' = [h EXCEPT ![r] = w]
  BY DEF HandlerStep, BeginPhase, SkipPolicy, RunPlugin, RunCacheStore,
         RunCacheLookup, TryMethod, UnknownMethod, IntrospectNothing, IntrospectCached,
         IntrospectAsk, IntrospectAnswers, IntrospectTake, IntrospectStore,
         IntrospectFails, AuthFails, Flush, Forward,
         Respond, ResponseBreaks, Finish, Local, Become
<1>4. h'[r] = w
  BY <1>1, <1>3
<1>5. UnderWay(w)'
  <2>1. CASE HandlerStep(r) /\ ~IntrospectTake(r)
    <3>1. w.pc \in {"introspect", "storing"} => w.got = "none"
      BY <1>1, <1>4, <2>1, StepAsking
    <3> QED BY <3>1 DEF UnderWay
  <2>3. CASE IntrospectTake(r)
    <3>1. h[r].pc = "introspect" /\ w = [h[r] EXCEPT !.pc = "storing", !.age = 0]
      BY <1>1, <1>4, <2>3 DEF IntrospectTake, Local, Become
    <3>2. w.pc = "storing" /\ w.got = h[r].got /\ w.age = 0
      BY <1>1, <3>1 DEF HTypes, HFields
    <3>3. h[r].got = "yes" /\ ~live => dead <= h[r].age
      BY <3>1 DEF UnderWays, UnderWay
    <3>4. h[r].age \in Nat /\ h[r].age <= FetchMax
      BY <1>1, <3>1 DEF HTypes
    <3>5. h[r].got = "yes" /\ ~live => dead <= FetchMax + 0
      BY <3>3, <3>4, TimeAssumption DEF TimeInv
    <3> QED BY <1>2, <3>2, <3>5 DEF UnderWay
  <2>2. CASE IntrospectAnswers(r)
    <3>1. w = [h[r] EXCEPT !.got = IF live /\ h[r].ctx.cred = "token" THEN "yes" ELSE "no"]
      BY <1>1, <1>4, <2>2 DEF IntrospectAnswers, Local, Become
    <3>2. w.got = "yes" => live
      BY <1>1, <3>1 DEF HTypes, HFields
    <3> QED BY <1>2, <3>2 DEF UnderWay
  <2> QED BY <2>1, <2>2, <2>3
<1>6. UnderWays'
  <2>1. \A s \in Requests : h'[s] \in {w, h[s]}
    BY <1>3 DEF Handlers
  <2>2. \A s \in Requests : \A v : v = h[s] => UnderWay(v)'
    BY <1>2 DEF UnderWays, UnderWay
  <2> QED BY <1>5, <2>1, <2>2 DEF UnderWays
<1>7. TimeInv'
  <2>1. CASE intro' = intro
    BY <1>2, <2>1 DEF TimeInv
  <2>2. CASE intro' # intro
    <3>1. IntrospectStore(r)
      BY <2>2 DEF HandlerStep, BeginPhase, SkipPolicy, RunPlugin, RunCacheStore,
         RunCacheLookup, TryMethod, UnknownMethod, IntrospectNothing, IntrospectCached,
         IntrospectAsk, IntrospectAnswers, IntrospectTake,
         IntrospectFails, AuthFails, Flush, Forward,
         Respond, ResponseBreaks, Finish, Local
    <3>2. /\ h[r].pc = "storing" /\ h[r].got \in {"none", "yes", "no"}
          /\ intro' = [active |-> h[r].got, ttl |-> ResultTTL(h[r].got)]
      BY <1>1, <2>2, <3>1 DEF IntrospectStore, HTypes
    <3>3. intro'.active = h[r].got /\ DOMAIN intro' = {"active", "ttl"}
          /\ intro'.ttl = IF h[r].got = "yes" THEN IntroTTL ELSE 1
      BY <3>2 DEF ResultTTL
    <3>4. UnderWay(h[r]) /\ h[r].age \in Nat /\ h[r].age <= StoreMax
      BY <1>1, <3>2 DEF UnderWays, HTypes
    <3>5. h[r].got = "yes" /\ ~live => dead <= FetchMax + StoreMax
      BY <3>2, <3>4, TimeAssumption DEF UnderWay, TimeInv
    <3> QED BY <1>2, <3>2, <3>3, <3>5, TimeAssumption DEF TimeInv, TokenLag
  <2> QED BY <2>1, <2>2
<1> QED BY <1>6, <1>7

\* TimeInv and UnderWays are inductive.
LEMMA TimeInductive == Spec => [](TimeInv /\ UnderWays)
<1>1. Init => TimeInv /\ UnderWays
  <2> SUFFICES ASSUME Init PROVE TimeInv /\ UnderWays
    OBVIOUS
  <2>1. TimeInv
    BY DEF Init, TimeInv, Nothing
  <2>2. \A r \in Requests : h[r].pc = "idle"
    BY IdleFields DEF Init
  <2> QED BY <2>1, <2>2 DEF UnderWays, UnderWay
<1>2. ASSUME Handlers, TimeInv, UnderWays, [Next]_vars PROVE TimeInv' /\ UnderWays'
  <2>1. CASE UNCHANGED vars
    BY <1>2, <2>1 DEF vars, TimeInv, UnderWays, UnderWay
  <2>2. ASSUME NEW r \in Requests, NEW req,
               Arrive(r, req) \/ NoRoute(r, req) \/ Blocked(r, req)
        PROVE  TimeInv' /\ UnderWays'
    <3>1. UNCHANGED <<live, dead, intro>>
      BY <2>2 DEF Arrive, NoRoute, Blocked, Local
    <3>2. PICK w : h' = [h EXCEPT ![r] = w] /\ w.pc \in {"idle", "chain"}
      <4>1. CASE NoRoute(r, req) \/ Blocked(r, req)
        BY <4>1, AnswerFields DEF NoRoute, Blocked, Local, Become
      <4>2. CASE Arrive(r, req)
        <5> DEFINE c == createExecContext(Route[req.path], req)
                   v == Idle(NoAnswer)
        <5>1. h' = [h EXCEPT ![r] = [v EXCEPT !.pc = "chain", !.ctx = c]]
          BY <4>2 DEF Arrive, Local, Become
        <5>2. DOMAIN v = HFields
          BY IdleFields
        <5> HIDE DEF c, v
        <5>3. [v EXCEPT !.pc = "chain", !.ctx = c].pc = "chain"
          BY <5>2 DEF HFields
        <5> QED BY <5>1, <5>3
      <4> QED BY <2>2, <4>1, <4>2
    <3>3. \A s \in Requests : h'[s] = h[s] \/ h'[s] = w
      BY <1>2, <3>2 DEF Handlers
    <3> QED BY <1>2, <3>1, <3>2, <3>3 DEF TimeInv, UnderWays, UnderWay
  <2>3. ASSUME RevokeToken PROVE TimeInv' /\ UnderWays'
    <3>1. /\ live /\ live' = FALSE /\ dead' = dead /\ intro' = intro /\ h' = h /\ dead = 0
      BY <1>2, <2>3 DEF RevokeToken, TimeInv
    <3>2. TimeInv'
      <4>1. intro.active = "yes" => dead + intro.ttl <= TokenLag
        BY <1>2, <3>1, TimeAssumption DEF TimeInv, TokenLag
      <4> QED BY <1>2, <3>1, <4>1 DEF TimeInv, TokenLag
    <3>3. \A r \in Requests : h[r].age \in Nat
      BY <1>2 DEF Handlers, HandlerOK, HTypes
    <3>4. UnderWays'
      BY <3>1, <3>3, TimeAssumption DEF UnderWays, UnderWay
    <3> QED BY <3>2, <3>4
  <2>4. ASSUME Next PROVE TimeInv' /\ UnderWays'
    BY <1>2, <2>2, <2>3, <2>4, TimeTick, TimeHandler DEF Next
  <2> QED BY <1>2, <2>1, <2>4
<1> QED BY <1>1, <1>2, HandlersInductive, PTL DEF Spec

\* No client, and that it is not the token's.
Nobody == ""

LEMMA NobodyIsNoToken == Nobody # "token" /\ NewCtx.client = Nobody
<1>1. Nobody # "token"
  BY Zenon DEF Nobody
<1>2. NewCtx.client = Nobody
  BY NewContext, Zenon DEF NewCtx, Nobody
<1> QED BY <1>1, <1>2

\* At an introspection, the client becomes the token's by a result that
\* says yes, from Redis or from the authorization server.
LEMMA OnlyByYes ==
  ASSUME NEW r \in DOMAIN h, HandlerOK(h[r]), HandlerStep(r) \/ IntrospectAnswers(r),
         Introspecting(r), h[r].ctx.client = Nobody, h'[r].ctx.client = "token"
  PROVE  \/ IntrospectCached(r) /\ intro.active = "yes"
         \/ IntrospectStore(r) /\ h[r].got = "yes"
<1> DEFINE c == h[r].ctx
<1>1. HTypes(h[r]) /\ HControl(h[r]) /\ DOMAIN c = CtxFields
  BY DEF HandlerOK, HTypes
<1>2. h'[r].ctx.client # c.client /\ h'[r].ctx # NewCtx
  BY NobodyIsNoToken
<1>3. Policy(r).type = "auth" /\ Methods(r)[h[r].method] = "introspect"
  BY DEF Introspecting
<1>4. CASE \/ BeginPhase(r) \/ IntrospectAsk(r) \/ Forward(r)
           \/ IntrospectAnswers(r) \/ IntrospectTake(r)
  <2>1. h'[r].ctx = c
    <3>1. ASSUME NEW w, h' = [h EXCEPT ![r] = w], w.ctx = c PROVE h'[r].ctx = c
      BY <3>1
    <3>2. CASE BeginPhase(r)
      <4>1. \E n \in 0..Len(Chains[h[r].ctx.api]) : \E ps, ch :
              h' = [h EXCEPT ![r] = [h[r] EXCEPT !.pc = "policies", !.todo = ps,
                                                 !.method = 1, !.chain = ch]]
        <5>1. PICK n \in 0..Len(Chains[h[r].ctx.api]) :
                h' = [h EXCEPT ![r] =
                        [h[r] EXCEPT !.pc = "policies",
                                     !.todo = IF n = 0 THEN <<>>
                                              ELSE PhasePolicies(Chains[h[r].ctx.api][n],
                                                                 h[r].phase),
                                     !.method = 1,
                                     !.chain = IF h[r].phase = "pre_request"
                                               THEN IF n = 0 THEN <<>>
                                                    ELSE PhasePolicies(Chains[h[r].ctx.api][n],
                                                                       h[r].phase)
                                               ELSE @]]
          BY <3>2 DEF BeginPhase, Local, Become
        <5> QED BY <5>1
      <4>2. PICK ps, ch : h' = [h EXCEPT ![r] = [h[r] EXCEPT !.pc = "policies", !.todo = ps,
                                                             !.method = 1, !.chain = ch]]
        BY <4>1
      <4> QED BY <1>1, <3>1, <4>2 DEF HTypes, HFields
    <3>3. CASE IntrospectAsk(r)
      BY <1>1, <3>1, <3>3 DEF IntrospectAsk, Local, Become, HTypes, HFields
    <3>4. CASE Forward(r)
      BY <1>1, <3>1, <3>4 DEF Forward, Local, Become, HTypes, HFields
    <3>5. CASE IntrospectAnswers(r)
      BY <1>1, <3>1, <3>5 DEF IntrospectAnswers, Local, Become, HTypes, HFields
    <3>6. CASE IntrospectTake(r)
      BY <1>1, <3>1, <3>6 DEF IntrospectTake, Local, Become, HTypes, HFields
    <3> QED BY <1>4, <3>2, <3>3, <3>4, <3>5, <3>6
  <2> QED BY <1>2, <2>1
<1>5. CASE SkipPolicy(r) \/ RunCacheStore(r)
  <2>1. h' = [h EXCEPT ![r] = Proceed(r, c)]
    BY <1>5 DEF SkipPolicy, RunCacheStore, Local, Become
  <2> QED BY <1>1, <1>2, <2>1, NextFields
<1>6. CASE RunPlugin(r)
  <2>1. PICK d \in Effect(Policy(r), c, h[r].phase) : TRUE
    BY <1>6 DEF RunPlugin
  <2> QED BY <1>1, <1>3, <2>1, EffectKeeps
<1>7. CASE RunCacheLookup(r)
  BY <1>3, <1>7 DEF RunCacheLookup
<1>8. CASE TryMethod(r) \/ UnknownMethod(r)
  BY <1>3, <1>8 DEF TryMethod, UnknownMethod, Trying, AuthMethods
<1>9. CASE IntrospectNothing(r) \/ IntrospectFails(r)
  <2>1. PICK res \in {Failed(c), Unavailable(c, Policy(r).cfg)} :
               h' = [h EXCEPT ![r] = Conclude(r, res)]
    BY <1>9 DEF IntrospectNothing, IntrospectFails, Local, Become
  <2>2. res.ctx = c
    BY DEF Failed, Unavailable, Passed
  <2> QED BY <1>1, <1>2, <2>1, <2>2, NextFields
<1>10. CASE AuthFails(r)
  <2>1. PICK d \in {c, abort(c, 401)} : h' = [h EXCEPT ![r] = Proceed(r, d)]
    BY <1>10 DEF AuthFails, Local, Become
  <2>2. abort(c, 401).client = c.client
    BY <1>1 DEF abort, CtxFields
  <2>3. d.client = c.client
    BY <2>1, <2>2
  <2> QED BY <1>1, <1>2, <2>1, <2>2, NextFields
<1>11. CASE Flush(r) \/ ResponseBreaks(r) \/ Finish(r)
  <2>1. PICK a, b, x, y : h' = [h EXCEPT ![r] = Answer(a, b, x, y)]
    BY <1>11 DEF Flush, ResponseBreaks, Finish, flushAbort, flushCtxResponse, Local, Become
  <2> QED BY <1>2, <2>1, AnswerFields
<1>12. CASE \E resp \in UpstreamResponses : Respond(r, resp)
  <2>1. PICK resp : h'[r] = [h[r] EXCEPT !.pc = "chain", !.phase = "post_response",
                                         !.ctx = TakeResponse(@, resp)]
    BY <1>12 DEF Respond, Local, Become
  <2>2. h'[r].ctx = TakeResponse(c, resp)
    BY <1>1, <2>1 DEF HTypes, HFields
  <2>3. TakeResponse(c, resp).client = c.client
    BY <1>1 DEF TakeResponse, CtxFields
  <2> QED BY <1>2, <2>2, <2>3
<1>13. ASSUME NEW info, info # "yes",
              h' = [h EXCEPT ![r] = Conclude(r, applyIntrospectResult(c, Policy(r).cfg, info))]
       PROVE  FALSE
  <2>1. applyIntrospectResult(c, Policy(r).cfg, info).ctx = c
    BY <1>13 DEF applyIntrospectResult, Failed, Unavailable, Passed
  <2> QED BY <1>1, <1>2, <1>13, <2>1, NextFields
<1>14. CASE IntrospectCached(r)
  <2>1. h' = [h EXCEPT ![r] = Conclude(r, applyIntrospectResult(c, Policy(r).cfg, intro.active))]
    BY <1>14 DEF IntrospectCached, Local, Become
  <2> QED BY <1>13, <1>14, <2>1
<1>15. CASE IntrospectStore(r)
  <2>1. h' = [h EXCEPT ![r] = Conclude(r, applyIntrospectResult(c, Policy(r).cfg, h[r].got))]
    BY <1>15 DEF IntrospectStore, Become
  <2> QED BY <1>13, <1>15, <2>1
<1> QED BY <1>4, <1>5, <1>6, <1>7, <1>8, <1>9, <1>10, <1>11, <1>12, <1>14, <1>15 DEF HandlerStep

\* A step of another handler, or of time, leaves the context alone; a
\* request that arrives has no client.
LEMMA OtherSteps ==
  ASSUME Handlers, NEW r \in Requests, Next, h'[r].ctx.client = "token",
         h[r].ctx.client = Nobody
  PROVE  HandlerStep(r) \/ IntrospectAnswers(r)
<1>1. h'[r].ctx # h[r].ctx
  BY NobodyIsNoToken
<1>2. HTypes(h[r]) /\ DOMAIN h = Requests
  BY DEF Handlers, HandlerOK
<1>3. ASSUME NEW s \in Requests, NEW w, h' = [h EXCEPT ![s] = w] PROVE s = r /\ h'[r] = w
  <2>1. s = r
    BY <1>1, <1>2, <1>3
  <2> QED BY <1>2, <1>3, <2>1
<1>4. ASSUME Tick \/ RevokeToken PROVE FALSE
  <2>1. CASE RevokeToken
    BY <1>1, <2>1 DEF RevokeToken
  <2>2. CASE Tick
    <3>1. h'[r] \in {h[r], [h[r] EXCEPT !.age = @ + 1]}
      BY <2>2 DEF Tick
    <3>2. [h[r] EXCEPT !.age = @ + 1].ctx = h[r].ctx
      BY <1>2 DEF HTypes, HFields
    <3> QED BY <1>1, <3>1, <3>2
  <2> QED BY <1>4, <2>1, <2>2
<1>5. ASSUME NEW s \in Requests, NEW req, Arrive(s, req) \/ NoRoute(s, req) \/ Blocked(s, req)
      PROVE  FALSE
  <2>1. CASE NoRoute(s, req) \/ Blocked(s, req)
    <3>1. PICK a, b, x, y : h' = [h EXCEPT ![s] = Answer(a, b, x, y)]
      BY <2>1 DEF NoRoute, Blocked, Local, Become
    <3>2. h'[r] = Answer(a, b, x, y)
      BY <1>3, <3>1
    <3>3. h'[r].ctx = NewCtx
      BY <3>2, AnswerFields
    <3> QED BY <3>3, NobodyIsNoToken
  <2>2. CASE Arrive(s, req)
    <3> DEFINE c == createExecContext(Route[req.path], req)
               v == Idle(NoAnswer)
               w == [v EXCEPT !.pc = "chain", !.ctx = c]
    <3>1. h' = [h EXCEPT ![s] = w]
      BY <2>2 DEF Arrive, Local, Become
    <3>2. DOMAIN v = HFields
      BY IdleFields
    <3>3. c.client = Nobody
      <4>1. c.client = ""
        BY NewContext
      <4> QED BY <4>1 DEF Nobody
    <3> HIDE DEF c, v
    <3>4. w.ctx = c
      BY <3>2 DEF HFields
    <3> HIDE DEF w
    <3>5. h'[r] = w
      BY <1>3, <3>1
    <3> QED BY <3>3, <3>4, <3>5, NobodyIsNoToken
  <2> QED BY <1>5, <2>1, <2>2
<1>6. ASSUME NEW s \in Requests, HandlerStep(s) \/ IntrospectAnswers(s) PROVE s = r
  <2>1. PICK w : h' = [h EXCEPT ![s] = w]
    BY <1>6 DEF HandlerStep, BeginPhase, SkipPolicy, RunPlugin, RunCacheStore,
         RunCacheLookup, TryMethod, UnknownMethod, IntrospectNothing, IntrospectCached,
         IntrospectAsk, IntrospectAnswers, IntrospectTake, IntrospectStore,
         IntrospectFails, AuthFails, Flush, Forward,
         Respond, ResponseBreaks, Finish, Local, Become
  <2> QED BY <1>3, <2>1
<1> QED BY <1>4, <1>5, <1>6 DEF Next

\* TokenLag ticks after its end, an access token lets nobody in by
\* introspection.
THEOREM RevokedTheorem == Spec => RevokedTokenEnds
<1>1. ASSUME Handlers, TimeInv, UnderWays, [Next]_vars
      PROVE  [\A r \in Requests :
                Introspecting(r) /\ h[r].ctx.client = "" /\ h'[r].ctx.client = "token"
                  => dead < TokenLag]_vars
  <2>1. ASSUME NEW r \in Requests, Next, Introspecting(r), h[r].ctx.client = Nobody,
               h'[r].ctx.client = "token"
        PROVE  dead < TokenLag
    <3>1. r \in DOMAIN h /\ HandlerOK(h[r]) /\ HTypes(h[r]) /\ UnderWay(h[r])
      BY <1>1 DEF Handlers, HandlerOK, UnderWays
    <3>2. HandlerStep(r) \/ IntrospectAnswers(r)
      BY <1>1, <2>1, OtherSteps
    <3>3. \/ IntrospectCached(r) /\ intro.active = "yes"
          \/ IntrospectStore(r) /\ h[r].got = "yes"
      BY <2>1, <3>1, <3>2, OnlyByYes
    <3>4. CASE intro.active = "yes"
      BY <1>1, <3>4, TimeAssumption DEF TimeInv, TokenLag
    <3>5. CASE IntrospectStore(r) /\ h[r].got = "yes"
      <4>1. h[r].pc = "storing" /\ (~live => dead <= FetchMax + h[r].age)
        BY <3>1, <3>5 DEF IntrospectStore, UnderWay
      <4>2. h[r].age \in Nat /\ h[r].age <= StoreMax
        BY <3>1, <4>1 DEF HTypes
      <4> QED BY <1>1, <4>1, <4>2, TimeAssumption DEF TimeInv, TokenLag
    <3> QED BY <3>3, <3>4, <3>5
  <2>2. \A r \in Requests :
          Next /\ Introspecting(r) /\ h[r].ctx.client = Nobody /\ h'[r].ctx.client = "token"
            => dead < TokenLag
    BY <2>1
  <2>3. CASE UNCHANGED vars
    BY <2>3, Zenon
  <2>4. CASE Next
    BY <2>2, <2>4, Zenon DEF Nobody
  <2> QED BY <1>1, <2>3, <2>4, Zenon
<1> QED BY <1>1, HandlersInductive, TimeInductive, PTL DEF Spec, RevokedTokenEnds

=============================================================================
