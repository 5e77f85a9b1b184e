----------------------------- MODULE ChainCache -----------------------------
(***************************************************************************)
(* How a published policy chain gets from the policy engine's database to  *)
(* a request: the engine's Redis cache (store/redis_cache.go), filled by   *)
(* whoever misses it, and the chainCache of the gateway (getPolicyChain in *)
(* executor.ts).  One API; its chain is the number of its latest version,  *)
(* 0 when there is none.                                                   *)
(*                                                                         *)
(* getPolicyChain sends no X-Internal-Token, and InternalAuth of the       *)
(* engine answers 401 without it: then Refuse is all that ever happens.    *)
(* The other steps are those of a deployment that adds the token on the    *)
(* way.                                                                    *)
(*                                                                         *)
(* Time is counted in ticks.  A call is given up after FetchMax, and the   *)
(* context of the engine's handler is cancelled with it.                   *)
(***************************************************************************)
EXTENDS Naturals

CONSTANTS
  Calls,       \* concurrent calls of getPolicyChain in one gateway
  MaxVersion,  \* bound on publications
  RedisTTL,    \* chainCacheTTL of the engine
  ChainTTL,    \* CHAIN_TTL_MS of the gateway
  FetchMax     \* AbortSignal.timeout of the gateway

ASSUME ChainAssumption ==
  /\ MaxVersion \in Nat /\ FetchMax \in Nat
  /\ RedisTTL \in Nat \ {0} /\ ChainTTL \in Nat \ {0}

VARIABLES
  db,       \* latest version in policy_chain_versions
  retired,  \* version -> ticks since a later one replaced it
  saver,    \* "saved": a publication has written its version, not yet invalidated
  key,      \* chain:<api> in the engine's Redis, 0 when absent
  ttl,      \* its ticks to live
  cached,   \* chain in chainCache, 0 when absent
  cachedAge,\* ticks since its fetchedAt
  pc,       \* where a call is
  kept,     \* what was cached when it began
  got,      \* the version the engine will answer with
  age,      \* ticks since it began
  how,      \* history: how the last result of a call came about
  lag       \* history: how long that version had been replaced

callVars == <<pc, kept, got, age, how, lag>>
vars == <<db, retired, saver, key, ttl, cached, cachedAge, callVars>>

\* More than the age of any version a request is given without a failure.
MaxLag == FetchMax + FetchMax + RedisTTL + ChainTTL

Init ==
  /\ db = 0
  /\ retired = [v \in 1..MaxVersion |-> 0]
  /\ saver = "idle"
  /\ key = 0 /\ ttl = 0
  /\ cached = 0 /\ cachedAge = 0
  /\ pc = [c \in Calls |-> "idle"]
  /\ kept = [c \in Calls |-> 0]
  /\ got = [c \in Calls |-> 0]
  /\ age = [c \in Calls |-> 0]
  /\ how = [c \in Calls |-> "none"]
  /\ lag = [c \in Calls |-> 0]

-----------------------------------------------------------------------------
\* SaveAndPublish: the version is written, then the key is deleted.
SaveVersion ==
  /\ saver = "idle" /\ db < MaxVersion
  /\ db' = db + 1
  /\ saver' = "saved"
  /\ UNCHANGED <<retired, key, ttl, cached, cachedAge, callVars>>

\* An error of Redis is only reported: the version stays saved.
Invalidate(ok) ==
  /\ saver = "saved"
  /\ saver' = "idle"
  /\ IF ok THEN key' = 0 /\ ttl' = 0 ELSE UNCHANGED <<key, ttl>>
  /\ UNCHANGED <<db, retired, cached, cachedAge, callVars>>

-----------------------------------------------------------------------------
Lag(v) == IF v = 0 THEN 0 ELSE retired[v]

\* getPolicyChain returns version v to its caller.
Return(c, h, v) ==
  /\ pc' = [pc EXCEPT ![c] = "idle"]
  /\ kept' = [kept EXCEPT ![c] = 0]
  /\ got' = [got EXCEPT ![c] = 0]
  /\ age' = [age EXCEPT ![c] = 0]
  /\ how' = [how EXCEPT ![c] = h]
  /\ lag' = [lag EXCEPT ![c] = Lag(v)]

Fresh == cached # 0 /\ cachedAge < ChainTTL

UseCached(c) ==
  /\ pc[c] = "idle" /\ Fresh
  /\ Return(c, "fresh", cached)
  /\ UNCHANGED <<db, retired, saver, key, ttl, cached, cachedAge>>

\* What is cached now is what an error will fall back on.
FetchStart(c) ==
  /\ pc[c] = "idle" /\ ~Fresh
  /\ pc' = [pc EXCEPT ![c] = "fetch"]
  /\ kept' = [kept EXCEPT ![c] = cached]
  /\ how' = [how EXCEPT ![c] = "none"]
  /\ lag' = [lag EXCEPT ![c] = 0]
  /\ UNCHANGED <<db, retired, saver, key, ttl, cached, cachedAge, got, age>>

\* GetByAPIID of the engine: Redis has it ...
EngineHit(c) ==
  /\ pc[c] = "fetch" /\ ttl > 0
  /\ pc' = [pc EXCEPT ![c] = "answered"]
  /\ got' = [got EXCEPT ![c] = key]
  /\ UNCHANGED <<db, retired, saver, key, ttl, cached, cachedAge, kept, age, how, lag>>

\* ... or has not, or does not answer.  The database is read ...
EngineRead(c) ==
  /\ pc[c] = "fetch" /\ db > 0
  /\ pc' = [pc EXCEPT ![c] = "fill"]
  /\ got' = [got EXCEPT ![c] = db]
  /\ UNCHANGED <<db, retired, saver, key, ttl, cached, cachedAge, kept, age, how, lag>>

\* Set, or an error that is ignored.
Fill(c) == \/ key' = got[c] /\ ttl' = RedisTTL
           \/ UNCHANGED <<key, ttl>>

\* ... and Redis filled, whatever has been published since.
EngineFill(c) ==
  /\ pc[c] = "fill"
  /\ Fill(c)
  /\ pc' = [pc EXCEPT ![c] = "answered"]
  /\ UNCHANGED <<db, retired, saver, cached, cachedAge, kept, got, age, how, lag>>

\* Mutant of Fetched: what is there already is not replaced.
Fetched_FirstOnly(c) ==
  /\ pc[c] = "answered"
  /\ IF cached = 0 THEN cached' = got[c] /\ cachedAge' = 0
                   ELSE UNCHANGED <<cached, cachedAge>>
  /\ Return(c, "fetched", got[c])
  /\ UNCHANGED <<db, retired, saver, key, ttl>>

Fetched(c) ==
  /\ pc[c] = "answered"
  /\ cached' = got[c] /\ cachedAge' = 0
  /\ Return(c, "fetched", got[c])
  /\ UNCHANGED <<db, retired, saver, key, ttl>>

\* Any status that is not ok (401, 404, 500): no chain, whatever is cached.
Refuse(c) ==
  /\ pc[c] = "fetch"
  /\ Return(c, "refused", 0)
  /\ UNCHANGED <<db, retired, saver, key, ttl, cached, cachedAge>>

\* Mutant of FetchFails: the old chain counts as fetched.
FetchFails_Rearms(c) ==
  /\ pc[c] # "idle"
  /\ Return(c, "stale", kept[c])
  /\ cached' = kept[c] /\ cachedAge' = 0
  /\ UNCHANGED <<db, retired, saver, key, ttl>>

\* Network error or time-out: the chain cached at the start, however old.
\* The engine may just have filled Redis.
FetchFails(c) ==
  /\ pc[c] # "idle"
  /\ Return(c, "stale", kept[c])
  /\ IF pc[c] = "fill" THEN Fill(c) ELSE UNCHANGED <<key, ttl>>
  /\ UNCHANGED <<db, retired, saver, cached, cachedAge>>

-----------------------------------------------------------------------------
Older(n, max) == IF n < max THEN n + 1 ELSE n

\* Ages past the point where they matter are not counted.
Tick ==
  /\ \A c \in Calls : pc[c] # "idle" => age[c] < FetchMax
  /\ age' = [c \in Calls |-> IF pc[c] = "idle" THEN age[c] ELSE age[c] + 1]
  /\ retired' = [v \in 1..MaxVersion |-> IF v < db THEN Older(retired[v], MaxLag)
                                                   ELSE retired[v]]
  /\ ttl' = IF ttl <= 1 THEN 0 ELSE ttl - 1
  /\ key' = IF ttl <= 1 THEN 0 ELSE key
  /\ cachedAge' = Older(cachedAge, ChainTTL)
  /\ UNCHANGED <<db, saver, cached, pc, kept, got, how, lag>>

Next ==
  \/ SaveVersion
  \/ \E ok \in BOOLEAN : Invalidate(ok)
  \/ \E c \in Calls :
       \/ UseCached(c) \/ FetchStart(c)
       \/ EngineHit(c) \/ EngineRead(c) \/ EngineFill(c)
       \/ Fetched(c) \/ Refuse(c) \/ FetchFails(c)
  \/ Tick

Spec == Init /\ [][Next]_vars

\* Time passes, and calls are given up in time.
LiveSpec == Spec /\ WF_vars(Tick) /\ \A c \in Calls : WF_vars(FetchFails(c))

-----------------------------------------------------------------------------
\* Without a failed fetch no request runs under a version that was replaced
\* MaxLag - 1 ticks ago or more: the engine may fill Redis with what it read
\* before the publication (redis_cache.go:92), and the gateway keeps what it
\* got for ChainTTL (executor.ts:43).
LagBounded ==
  \A c \in Calls : how[c] \in {"fresh", "fetched"} => lag[c] + 2 <= MaxLag

\* Once publications have stopped, and as long as fetches succeed again and
\* again, the gateway comes to hold the latest version and keeps it: no slow
\* answer, late fill of Redis or fallback brings an older one back for good.
Converges ==
  \A v \in 1..MaxVersion :
    <>[](db = v) /\ []<><<\E c \in Calls : Fetched(c)>>_vars => <>[](cached = v)
=============================================================================
