------------------------------ MODULE ApiKeys ------------------------------
(***************************************************************************)
(* API keys: their creation and revocation in the subscription service,    *)
(* and the path by which the gateway accepts a request that carries one.   *)
(*                                                                         *)
(* The gateway looks for apikey:info:<hash> in Redis and, when it finds no *)
(* entry, calls POST /internal/keys/verify.  The service looks in Redis    *)
(* again, then reads the key row, then the subscription row, answers, and  *)
(* starts a goroutine that writes the Redis entry (HSET, then EXPIRE).     *)
(* Revoking a key, cancelling its subscription or passing its expires_at   *)
(* touches only PostgreSQL: the Redis entry lives until its TTL ends.      *)
(*                                                                         *)
(* Subscription rows move by the actions of module Subscription.           *)
(***************************************************************************)
EXTENDS Subscription, Integers

CONSTANTS
  Keys,         \* API keys (a key, its id and its hash are one)
  Requests,     \* gateway requests in flight at the same time
  Creators,     \* key-creation requests in flight at the same time
  MaxKeys,      \* plans.max_api_keys; zero or less means no limit
  TTL,          \* the five minutes of SetKeyInfo, in ticks of the clock
  FailOpen,     \* the plugin setting fail_open
  TornPipeline, \* the connection may break between HSET and EXPIRE
  NoKey, NoEntry, NoFill, NoSub

KeyStatuses == {"active", "revoked"}
Expiry == {"never", "future", "past"}

\* ttl = 0: the Redis key exists without an expiry.
CacheEntry == [status : KeyStatuses, plan : Plans \cup {NoPlan}, ttl : 0..TTL]
FillJob == [key : Keys, status : KeyStatuses, plan : Plans \cup {NoPlan}]
CreateReq == [pc : {"count", "insert"}, sub : Subs,
              plan : Plans \cup {NoPlan}]

ASSUME TTLAssumption == TTL \in Nat \ {0}
ASSUME FlagAssumption == FailOpen \in BOOLEAN /\ TornPipeline \in BOOLEAN
\* plans is a finite table, so one of its rows has the largest limit.
ASSUME MaxKeysAssumption ==
  /\ MaxKeys \in [Plans -> Int]
  /\ \E top \in Plans : \A pl \in Plans : MaxKeys[pl] <= MaxKeys[top]
ASSUME CreatorsAssumption == IsFiniteSet(Creators)
ASSUME NonesAssumption ==
  /\ NoKey \notin Keys /\ NoSub \notin Subs
  /\ NoEntry \notin CacheEntry /\ NoFill \notin FillJob
  /\ NoReq \notin CreateReq

VARIABLES
  keyStatus,   \* api_keys.status, "absent" when there is no row
  keySub,      \* api_keys.subscription_id
  expiry,      \* api_keys.expires_at, relative to the present
  cache,       \* Redis: apikey:info:<hash>
  creator,     \* key creations between their statements
  gw,          \* the gateway's side of a request
  svc,         \* the service's side: its next statement
  rkey,        \* the key the request carries
  rstatus,     \* the status the service has read from the key row
  fill         \* the goroutine a verification has started

keyVars == <<keyStatus, keySub, expiry, cache, creator>>
reqVars == <<gw, svc, rkey, rstatus, fill>>
vars == <<subVars, keyVars, reqVars>>

TypeOK ==
  /\ SubTypeOK
  /\ keyStatus \in [Keys -> KeyStatuses \cup {"absent"}]
  /\ keySub \in [Keys -> Subs \cup {NoSub}]
  /\ expiry \in [Keys -> Expiry]
  /\ cache \in [Keys -> CacheEntry \cup {NoEntry}]
  /\ creator \in [Creators -> CreateReq \cup {NoReq}]
  /\ gw \in [Requests -> {"idle", "wait", "accept", "deny"}]
  /\ svc \in [Requests -> {"idle", "lookup", "key", "sub"}]
  /\ rkey \in [Requests -> Keys \cup {NoKey}]
  /\ rstatus \in [Requests -> KeyStatuses]
  /\ fill \in [Requests -> FillJob \cup {NoFill}]

Init ==
  /\ SubInit
  /\ keyStatus = [k \in Keys |-> "absent"]
  /\ keySub = [k \in Keys |-> NoSub]
  /\ expiry = [k \in Keys |-> "never"]
  /\ cache = [k \in Keys |-> NoEntry]
  /\ creator = [c \in Creators |-> NoReq]
  /\ gw = [r \in Requests |-> "idle"]
  /\ svc = [r \in Requests |-> "idle"]
  /\ rkey = [r \in Requests |-> NoKey]
  /\ rstatus = [r \in Requests |-> "active"]
  /\ fill = [r \in Requests |-> NoFill]

-----------------------------------------------------------------------------
(* APIKeyService.Create: three statements.                                 *)

ActiveKeys(s) == {k \in Keys : keyStatus[k] = "active" /\ keySub[k] = s}

\* Mutant of SubUsable: GetByID in the place of GetActiveByID.
SubUsable_AnyStatus(s) == status[s] # "absent"

\* GetActiveByID: WHERE id AND status = 'active'.
SubUsable(s) == status[s] = "active"

\* GetActiveByID and the plan; ErrSubscriptionNotActive ends the request.
CreateReadSub(c, s) ==
  /\ creator[c] = NoReq
  /\ SubUsable(s)
  /\ creator' = [creator EXCEPT ![c] =
                   [pc |-> "count", sub |-> s, plan |-> plan[s]]]
  /\ UNCHANGED <<subVars, reqVars, keyStatus, keySub, expiry, cache>>

\* Mutant of BelowKeyLimit: off by one.
BelowKeyLimit_OffByOne(s, pl) ==
  MaxKeys[pl] <= 0 \/ Cardinality(ActiveKeys(s)) <= MaxKeys[pl]

BelowKeyLimit(s, pl) ==
  MaxKeys[pl] <= 0 \/ Cardinality(ActiveKeys(s)) < MaxKeys[pl]

\* CountActiveBySubscription; ErrMaxKeysReached ends the request.
CreateCount(c) ==
  /\ creator[c] # NoReq /\ creator[c].pc = "count"
  /\ creator' = [creator EXCEPT ![c] =
                   IF BelowKeyLimit(creator[c].sub, creator[c].plan)
                     THEN [creator[c] EXCEPT !.pc = "insert"]
                     ELSE NoReq]
  /\ UNCHANGED <<subVars, reqVars, keyStatus, keySub, expiry, cache>>

\* keyRepo.Create, with a fresh key and any well-formed expires_at.
CreateInsert(c, k, e) ==
  /\ creator[c] # NoReq /\ creator[c].pc = "insert"
  /\ keyStatus[k] = "absent"
  /\ keyStatus' = [keyStatus EXCEPT ![k] = "active"]
  /\ keySub' = [keySub EXCEPT ![k] = creator[c].sub]
  /\ expiry' = [expiry EXCEPT ![k] = e]
  /\ creator' = [creator EXCEPT ![c] = NoReq]
  /\ UNCHANGED <<subVars, reqVars, cache>>

\* An expires_at that does not parse, or a statement that fails.
CreateFails(c) ==
  /\ creator[c] # NoReq
  /\ creator' = [creator EXCEPT ![c] = NoReq]
  /\ UNCHANGED <<subVars, reqVars, keyStatus, keySub, expiry, cache>>

\* RevokeByID: UPDATE ... WHERE id AND status = 'active'; Redis is left alone.
RevokeByID(k) ==
  /\ keyStatus[k] = "active"
  /\ keyStatus' = [keyStatus EXCEPT ![k] = "revoked"]
  /\ UNCHANGED <<subVars, reqVars, keySub, expiry, cache, creator>>

\* time.Now() passes expires_at.
PassExpiry(k) ==
  /\ expiry[k] = "future"
  /\ expiry' = [expiry EXCEPT ![k] = "past"]
  /\ UNCHANGED <<subVars, reqVars, keyStatus, keySub, cache, creator>>

-----------------------------------------------------------------------------
(* The gateway (apiKeyAuth).                                               *)

\* What a cache entry says of the request that found it.
CacheVerdict(e) == IF e.status = "active" THEN "accept" ELSE "deny"

\* hgetall: a hit decides; a miss, or a Redis error, leads to the service.
GatewayHit(r, k) ==
  /\ gw[r] = "idle" /\ svc[r] = "idle" /\ fill[r] = NoFill
  /\ cache[k] # NoEntry
  /\ gw' = [gw EXCEPT ![r] = CacheVerdict(cache[k])]
  /\ rkey' = [rkey EXCEPT ![r] = k]
  /\ UNCHANGED <<subVars, keyVars, svc, rstatus, fill>>

GatewayMiss(r, k) ==
  /\ gw[r] = "idle" /\ svc[r] = "idle" /\ fill[r] = NoFill
  /\ gw' = [gw EXCEPT ![r] = "wait"]
  /\ svc' = [svc EXCEPT ![r] = "lookup"]
  /\ rkey' = [rkey EXCEPT ![r] = k]
  /\ UNCHANGED <<subVars, keyVars, rstatus, fill>>

OnFailure == IF FailOpen THEN "accept" ELSE "deny"

\* AbortSignal.timeout(3000): the gateway decides, the service goes on.
GatewayTimeout(r) ==
  /\ gw[r] = "wait"
  /\ gw' = [gw EXCEPT ![r] = OnFailure]
  /\ UNCHANGED <<subVars, keyVars, svc, rkey, rstatus, fill>>

GatewayDone(r) ==
  /\ gw[r] \in {"accept", "deny"}
  /\ gw' = [gw EXCEPT ![r] = "idle"]
  /\ UNCHANGED <<subVars, keyVars, svc, rkey, rstatus, fill>>

-----------------------------------------------------------------------------
(* The service (APIKeyService.Verify).                                     *)

\* The answer reaches the gateway only if it still waits.
Answer(r, verdict) ==
  /\ gw' = IF gw[r] = "wait" THEN [gw EXCEPT ![r] = verdict] ELSE gw
  /\ svc' = [svc EXCEPT ![r] = "idle"]

\* GetKeyInfo finds an entry: PostgreSQL is not read.
VerifyHit(r) ==
  /\ svc[r] = "lookup" /\ cache[rkey[r]] # NoEntry
  /\ Answer(r, CacheVerdict(cache[rkey[r]]))
  /\ UNCHANGED <<subVars, keyVars, rkey, rstatus, fill>>

VerifyMiss(r) ==
  /\ svc[r] = "lookup"
  /\ svc' = [svc EXCEPT ![r] = "key"]
  /\ UNCHANGED <<subVars, keyVars, gw, rkey, rstatus, fill>>

\* Mutant of KeyUsable: a revoked key passes.
KeyUsable_Revoked(k) == keyStatus[k] # "absent" /\ expiry[k] # "past"

\* GetByHash, then the checks for revocation and expiry.
KeyUsable(k) == keyStatus[k] = "active" /\ expiry[k] # "past"

VerifyKey(r) ==
  /\ svc[r] = "key"
  /\ IF KeyUsable(rkey[r])
       THEN /\ svc' = [svc EXCEPT ![r] = "sub"]
            /\ rstatus' = [rstatus EXCEPT ![r] = keyStatus[rkey[r]]]
            /\ UNCHANGED gw
       ELSE Answer(r, "deny") /\ UNCHANGED rstatus
  /\ UNCHANGED <<subVars, keyVars, rkey, fill>>

\* SubUsable and the plan; success starts the goroutine that fills Redis.
VerifySub(r) ==
  LET s == keySub[rkey[r]] IN
  /\ svc[r] = "sub"
  /\ IF SubUsable(s)
       THEN /\ Answer(r, "accept")
            /\ fill' = [fill EXCEPT ![r] = [key |-> rkey[r],
                          status |-> rstatus[r], plan |-> plan[s]]]
       ELSE Answer(r, "deny") /\ UNCHANGED fill
  /\ UNCHANGED <<subVars, keyVars, rkey, rstatus>>

\* A database error, or the request context cancelled by the timeout: a 500,
\* except that every error of GetActiveByID is answered 403.
VerifyError(r) ==
  /\ svc[r] \in {"key", "sub"}
  /\ \/ Answer(r, OnFailure)
     \/ svc[r] = "sub" /\ Answer(r, "deny")
  /\ UNCHANGED <<subVars, keyVars, rkey, rstatus, fill>>

\* SetKeyInfo: HSET and EXPIRE.
FillCache(r) ==
  LET f == fill[r] IN
  /\ f # NoFill
  /\ cache' = [cache EXCEPT ![f.key] =
                 [status |-> f.status, plan |-> f.plan, ttl |-> TTL]]
  /\ fill' = [fill EXCEPT ![r] = NoFill]
  /\ UNCHANGED <<subVars, keyStatus, keySub, expiry, creator,
                 gw, svc, rkey, rstatus>>

\* HSET alone: a new entry has no expiry, an old one keeps its own.
FillTorn(r) ==
  LET f == fill[r] IN
  /\ TornPipeline
  /\ f # NoFill
  /\ cache' = [cache EXCEPT ![f.key] =
                 [status |-> f.status, plan |-> f.plan,
                  ttl |-> IF cache[f.key] = NoEntry THEN 0
                                                   ELSE cache[f.key].ttl]]
  /\ fill' = [fill EXCEPT ![r] = NoFill]
  /\ UNCHANGED <<subVars, keyStatus, keySub, expiry, creator,
                 gw, svc, rkey, rstatus>>

\* The error of SetKeyInfo is dropped.
FillFails(r) ==
  /\ fill[r] # NoFill
  /\ fill' = [fill EXCEPT ![r] = NoFill]
  /\ UNCHANGED <<subVars, keyVars, gw, svc, rkey, rstatus>>

\* Mutant of Aged: the last tick does not end the entry.
Aged_KeepsLast(e) ==
  IF e # NoEntry /\ e.ttl > 1 THEN [e EXCEPT !.ttl = e.ttl - 1] ELSE e

\* One tick of the TTLs that Redis counts down.
Aged(e) ==
  CASE e = NoEntry -> NoEntry
    [] e # NoEntry /\ e.ttl = 0 -> e
    [] e # NoEntry /\ e.ttl = 1 -> NoEntry
    [] e # NoEntry /\ e.ttl > 1 -> [e EXCEPT !.ttl = e.ttl - 1]

Tick ==
  /\ \E k \in Keys : cache[k] # NoEntry
  /\ cache' = [k \in Keys |-> Aged(cache[k])]
  /\ UNCHANGED <<subVars, reqVars, keyStatus, keySub, expiry, creator>>

-----------------------------------------------------------------------------
SubStep == SubNext /\ UNCHANGED <<keyVars, reqVars>>

CreateStep(c) ==
  \/ \E s \in Subs : CreateReadSub(c, s)
  \/ CreateCount(c)
  \/ \E k \in Keys, e \in Expiry : CreateInsert(c, k, e)
  \/ CreateFails(c)

GatewayStep(r) ==
  \/ \E k \in Keys : GatewayHit(r, k) \/ GatewayMiss(r, k)
  \/ GatewayTimeout(r)
  \/ GatewayDone(r)

VerifyStep(r) ==
  \/ VerifyHit(r)
  \/ VerifyMiss(r)
  \/ VerifyKey(r)
  \/ VerifySub(r)
  \/ VerifyError(r)

FillStep(r) == FillCache(r) \/ FillTorn(r) \/ FillFails(r)

Next ==
  \/ SubStep
  \/ \E c \in Creators : CreateStep(c)
  \/ \E k \in Keys : RevokeByID(k) \/ PassExpiry(k)
  \/ \E r \in Requests : GatewayStep(r) \/ VerifyStep(r) \/ FillStep(r)
  \/ Tick

Spec == Init /\ [][Next]_vars

\* Handlers and goroutines run to their end, and time passes.
Fairness ==
  /\ \A r \in Requests : WF_vars(VerifyStep(r)) /\ WF_vars(FillStep(r))
  /\ WF_vars(Tick)

LiveSpec == Spec /\ Fairness

-----------------------------------------------------------------------------
\* Nothing is left that could still vouch for the key k: no Redis entry, no
\* goroutine about to write one, and no way for a new verification to pass.
Dead(k) ==
  /\ cache[k] = NoEntry
  /\ \A r \in Requests : fill[r] # NoFill => fill[r].key # k
  /\ \/ keySub[k] # NoSub /\ Settled(keySub[k])
     \/ /\ keyStatus[k] = "revoked" \/ expiry[k] = "past"
        /\ keyStatus[k] # "absent"
        /\ \A r \in Requests : svc[r] = "sub" => rkey[r] # k

Accepts(r, k) == gw[r] # "accept" /\ gw'[r] = "accept" /\ rkey'[r] = k

(***************************************************************************)
(* A key that is revoked, expired, or whose subscription is cancelled for  *)
(* good, and that has left Redis and the verifications in flight, never    *)
(* comes back: no request, no goroutine and no administrator can bring it  *)
(* back, and (unless the plugin fails open) no request is accepted on it.  *)
(***************************************************************************)
DeadKeysStayDead ==
  [][\A k \in Keys : Dead(k) =>
       /\ Dead(k)'
       /\ \A r \in Requests : Accepts(r, k) => FailOpen]_vars

\* A Redis entry that will not expire: its EXPIRE was lost.
Torn(k) == cache[k] # NoEntry /\ cache[k].ttl = 0

(***************************************************************************)
(* A revocation takes hold: whatever is cached or in flight when a key is  *)
(* revoked, the key ends up dead, unless a broken pipeline has left its    *)
(* Redis entry without an expiry.                                          *)
(***************************************************************************)
RevocationTakesHold ==
  \A k \in Keys : keyStatus[k] = "revoked" ~> (Dead(k) \/ Torn(k))

(***************************************************************************)
(* A Redis entry, and a goroutine about to write one, only ever vouch for  *)
(* a key row that exists, with status active and a plan of a real row.     *)
(***************************************************************************)
CacheHasProvenance ==
  /\ \A k \in Keys : cache[k] # NoEntry =>
        /\ keyStatus[k] # "absent" /\ status[keySub[k]] # "absent"
        /\ cache[k].status = "active" /\ cache[k].plan \in Plans
  /\ \A r \in Requests : fill[r] # NoFill =>
        /\ keyStatus[fill[r].key] # "absent"
        /\ fill[r].status = "active" /\ fill[r].plan \in Plans

\* A key row belongs to an existing subscription; a key creation has read one.
KeyRowsConsistent ==
  /\ \A k \in Keys : IF keyStatus[k] = "absent"
                       THEN keySub[k] = NoSub
                       ELSE keySub[k] \in Subs /\ status[keySub[k]] # "absent"
  /\ \A c \in Creators : creator[c] # NoReq =>
        status[creator[c].sub] # "absent" /\ creator[c].plan \in Plans

\* What a verification in flight knows: its key, and what it has read of it.
VerifyConsistent ==
  \A r \in Requests :
     /\ svc[r] # "idle" => rkey[r] \in Keys
     /\ svc[r] = "sub" => keyStatus[rkey[r]] # "absent" /\ rstatus[r] = "active"

(***************************************************************************)
(* The inductive invariant of creation, verification and caching.          *)
(***************************************************************************)
KeyInv ==
  /\ TypeOK /\ SubInv
  /\ KeyRowsConsistent
  /\ VerifyConsistent
  /\ CacheHasProvenance

Inserting(s) ==
  {c \in Creators : creator[c] # NoReq /\ creator[c].pc = "insert"
                                       /\ creator[c].sub = s}

LargestLimit == CHOOSE m \in {MaxKeys[pl] : pl \in Plans} :
                  \A pl \in Plans : MaxKeys[pl] <= m

(***************************************************************************)
(* Concurrent creations can pass the limit of the plan, because the count  *)
(* and the INSERT are two statements, but only by as many keys as there    *)
(* are other creations in flight.                                          *)
(***************************************************************************)
OvershootBounded ==
  (\A pl \in Plans : MaxKeys[pl] > 0) =>
    \A s \in Subs :
      Cardinality(ActiveKeys(s)) + Cardinality(Inserting(s))
        <= LargestLimit + Cardinality(Creators) - 1
=============================================================================
