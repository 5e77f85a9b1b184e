------------------------- MODULE ChainCache_proofs -------------------------
(***************************************************************************)
(* How old a chain may be, for any number of concurrent calls, of          *)
(* publications and for any time-outs.  The bound is inductive only with   *)
(* ChainInv, which says for every place that holds a version how long it   *)
(* may have been replaced, in terms of the clock of that place.            *)
(***************************************************************************)
EXTENDS ChainCache, TLAPS

\* The types of the variables.
ChainTypeOK ==
  /\ db \in 0..MaxVersion
  /\ retired \in [1..MaxVersion -> 0..MaxLag]
  /\ saver \in {"idle", "saved"}
  /\ key \in 0..MaxVersion /\ ttl \in 0..RedisTTL
  /\ cached \in 0..MaxVersion /\ cachedAge \in 0..ChainTTL
  /\ pc \in [Calls -> {"idle", "fetch", "fill", "answered"}]
  /\ kept \in [Calls -> 0..MaxVersion]
  /\ got \in [Calls -> 0..MaxVersion]
  /\ age \in [Calls -> 0..FetchMax]
  /\ how \in [Calls -> {"none", "fresh", "fetched", "refused", "stale"}]
  /\ lag \in [Calls -> 0..MaxLag]

\* How long the versions held on the way may have been replaced.
KeyLag == ttl > 0 => key \in 1..db /\ Lag(key) + ttl <= FetchMax + RedisTTL

CachedLag ==
  cached # 0 => \/ cachedAge = ChainTTL
                \/ Lag(cached) + 1 <= FetchMax + FetchMax + RedisTTL + cachedAge

CallLag(c) ==
  /\ pc[c] = "idle" => age[c] = 0
  /\ pc[c] = "fill" => got[c] \in 1..db /\ Lag(got[c]) <= age[c]
  /\ pc[c] = "answered" =>
       got[c] \in 1..db /\ Lag(got[c]) + 1 <= FetchMax + RedisTTL + age[c]

\* Types, and for each place that holds a version a bound on how long it has
\* been replaced, in terms of the clock of that place.
ChainInv ==
  /\ ChainTypeOK
  /\ \A v \in 1..MaxVersion : v >= db => retired[v] = 0
  /\ KeyLag
  /\ cached <= db
  /\ CachedLag
  /\ \A c \in Calls : CallLag(c)

IInv == ChainInv /\ LagBounded

\* The same by the variables it speaks of: the versions and the two caches...
CacheOK ==
  /\ db \in 0..MaxVersion
  /\ retired \in [1..MaxVersion -> 0..MaxLag]
  /\ saver \in {"idle", "saved"}
  /\ key \in 0..MaxVersion /\ ttl \in 0..RedisTTL
  /\ cached \in 0..MaxVersion /\ cachedAge \in 0..ChainTTL
  /\ \A v \in 1..MaxVersion : v >= db => retired[v] = 0
  /\ KeyLag
  /\ cached <= db
  /\ CachedLag

\* ... and the calls.
CallTypes ==
  /\ pc \in [Calls -> {"idle", "fetch", "fill", "answered"}]
  /\ kept \in [Calls -> 0..MaxVersion]
  /\ got \in [Calls -> 0..MaxVersion]
  /\ age \in [Calls -> 0..FetchMax]
  /\ how \in [Calls -> {"none", "fresh", "fetched", "refused", "stale"}]
  /\ lag \in [Calls -> 0..MaxLag]

CallsOK == CallTypes /\ LagBounded /\ \A c \in Calls : CallLag(c)

LEMMA Parts == IInv <=> CacheOK /\ CallsOK
<1>1. IInv => CacheOK /\ CallsOK
  BY DEF IInv, ChainInv, ChainTypeOK, CacheOK, CallsOK, CallTypes
<1>2. CacheOK /\ CallsOK => ChainTypeOK
  BY DEF ChainTypeOK, CacheOK, CallsOK, CallTypes
<1>3. CacheOK /\ CallsOK => IInv
  BY <1>2 DEF IInv, ChainInv, CacheOK, CallsOK
<1> QED BY <1>1, <1>3

LEMMA PartsAfter == CacheOK' /\ CallsOK' => IInv'
<1>1. CacheOK' /\ CallsOK' => ChainTypeOK'
  BY DEF ChainTypeOK, CacheOK, CallsOK, CallTypes
<1> QED BY <1>1 DEF IInv, ChainInv, CacheOK, CallsOK

LEMMA MaxLagType == MaxLag \in Nat /\ MaxLag = FetchMax + FetchMax + RedisTTL + ChainTTL
BY ChainAssumption DEF MaxLag

\* The times a step adds up are numbers.
LEMMA LagTypes ==
  ASSUME CacheOK
  PROVE  /\ MaxVersion \in Nat /\ FetchMax \in Nat /\ MaxLag \in Nat
         /\ RedisTTL \in Nat /\ ChainTTL \in Nat /\ db \in Nat /\ db <= MaxVersion
         /\ cached \in Nat /\ key \in Nat /\ ttl \in Nat /\ cachedAge \in Nat
         /\ \A v \in 0..MaxVersion : Lag(v) \in Nat /\ Lag(v) <= MaxLag
<1>1. /\ MaxVersion \in Nat /\ FetchMax \in Nat /\ MaxLag \in Nat
      /\ RedisTTL \in Nat /\ ChainTTL \in Nat
  BY ChainAssumption, MaxLagType
<1>2. /\ db \in Nat /\ db <= MaxVersion
      /\ cached \in Nat /\ key \in Nat /\ ttl \in Nat /\ cachedAge \in Nat
  BY <1>1 DEF CacheOK
<1>3. ASSUME NEW v \in 0..MaxVersion PROVE Lag(v) \in Nat /\ Lag(v) <= MaxLag
  <2>1. retired \in [1..MaxVersion -> 0..MaxLag]
    BY DEF CacheOK
  <2> QED BY <1>1, <2>1 DEF Lag
<1> QED BY <1>1, <1>2, <1>3

LEMMA InitInv == Init => IInv
<1> SUFFICES ASSUME Init PROVE IInv
  OBVIOUS
<1>1. ChainTypeOK
  BY ChainAssumption, MaxLagType DEF Init, ChainTypeOK
<1>2. KeyLag /\ CachedLag /\ cached <= db
  BY DEF Init, KeyLag, CachedLag
<1>3. \A v \in 1..MaxVersion : v >= db => retired[v] = 0
  BY DEF Init
<1>4. LagBounded /\ \A c \in Calls : CallLag(c)
  BY DEF Init, CallLag, LagBounded
<1> QED BY <1>1, <1>2, <1>3, <1>4 DEF IInv, ChainInv

-----------------------------------------------------------------------------
\* Steps of a call leave the versions and the caches alone, and the other way.
LEMMA CacheKept ==
  ASSUME CacheOK, UNCHANGED <<db, retired, saver, key, ttl, cached, cachedAge>>
  PROVE  CacheOK'
<1>1. KeyLag' /\ CachedLag'
  BY DEF CacheOK, KeyLag, CachedLag, Lag
<1>2. MaxLag' = MaxLag
  BY DEF MaxLag
<1> QED BY <1>1, <1>2 DEF CacheOK

LEMMA CallsKept ==
  ASSUME CallsOK, UNCHANGED <<db, retired, callVars>>
  PROVE  CallsOK'
<1>1. CallTypes' /\ LagBounded'
  BY DEF CallsOK, CallTypes, LagBounded, callVars, MaxLag
<1>2. ASSUME NEW c \in Calls PROVE CallLag(c)'
  BY DEF CallsOK, CallLag, callVars, Lag
<1> QED BY <1>1, <1>2 DEF CallsOK

\* The cached chain keeps its age and its bound when only Redis changes.
LEMMA KeyChanges ==
  ASSUME CacheOK, UNCHANGED <<db, retired, saver, cached, cachedAge>>,
         key' \in 0..MaxVersion, ttl' \in 0..RedisTTL, KeyLag'
  PROVE  CacheOK'
<1>1. CachedLag'
  BY DEF CacheOK, CachedLag, Lag
<1>2. MaxLag' = MaxLag
  BY DEF MaxLag
<1> QED BY <1>1, <1>2 DEF CacheOK

\* What returning does to the call that returns and to the others.
LEMMA ReturnStep ==
  ASSUME CacheOK, CallsOK, NEW c \in Calls, NEW v \in 0..MaxVersion,
         NEW h \in {"fresh", "fetched", "refused", "stale"},
         h \in {"fresh", "fetched"} => Lag(v) + 2 <= MaxLag,
         Return(c, h, v), db' = db, retired' = retired
  PROVE  CallsOK'
<1>1. Lag(v) \in 0..MaxLag /\ MaxLag \in Nat /\ MaxLag' = MaxLag
  BY LagTypes DEF MaxLag
<1>2. CallTypes /\ LagBounded /\ \A d \in Calls : CallLag(d)
  BY DEF CallsOK
<1>3. CallTypes'
  BY <1>1, <1>2, LagTypes DEF Return, CallTypes
<1>4. ASSUME NEW d \in Calls PROVE CallLag(d)'
  <2>1. CASE d = c
    <3>1. pc'[d] = "idle" /\ age'[d] = 0
      BY <1>2, <2>1 DEF Return, CallTypes
    <3> QED BY <3>1 DEF CallLag
  <2>2. CASE d # c
    <3>1. pc'[d] = pc[d] /\ got'[d] = got[d] /\ age'[d] = age[d]
      BY <1>2, <2>2 DEF Return, CallTypes
    <3>2. CallLag(d)
      BY <1>2
    <3> QED BY <3>1, <3>2 DEF CallLag, Lag
  <2> QED BY <2>1, <2>2
<1>5. ASSUME NEW d \in Calls, how'[d] \in {"fresh", "fetched"} PROVE lag'[d] + 2 <= MaxLag
  <2>1. CASE d = c
    <3>1. how'[d] = h /\ lag'[d] = Lag(v)
      BY <1>2, <2>1 DEF Return, CallTypes
    <3> QED BY <1>5, <3>1
  <2>2. CASE d # c
    <3>1. how'[d] = how[d] /\ lag'[d] = lag[d]
      BY <1>2, <2>2 DEF Return, CallTypes
    <3> QED BY <1>2, <1>5, <3>1 DEF LagBounded
  <2> QED BY <2>1, <2>2
<1> QED BY <1>1, <1>3, <1>4, <1>5 DEF CallsOK, LagBounded

\* The engine's part of a call: the call waits for another reply.
LEMMA EngineStep ==
  ASSUME CallsOK, NEW c \in Calls, NEW l \in {"fill", "answered"}, NEW v \in 1..MaxVersion,
         pc' = [pc EXCEPT ![c] = l], got' = [got EXCEPT ![c] = v], age[c] \in Nat,
         UNCHANGED <<db, retired, kept, age, how, lag>>, v \in 1..db,
         l = "fill" => Lag(v) <= age[c],
         l = "answered" => Lag(v) + 1 <= FetchMax + RedisTTL + age[c]
  PROVE  CallsOK'
<1>1. CallTypes /\ LagBounded /\ \A d \in Calls : CallLag(d)
  BY DEF CallsOK
<1>2. CallTypes'
  <2>1. v \in 0..MaxVersion
    BY ChainAssumption
  <2> QED BY <1>1, <2>1 DEF CallTypes, MaxLag
<1>3. LagBounded'
  BY <1>1 DEF LagBounded, MaxLag
<1>4. ASSUME NEW d \in Calls PROVE CallLag(d)'
  <2>1. CASE d = c
    <3>1. pc'[d] = l /\ got'[d] = v /\ age'[d] = age[c] /\ db' = db
      BY <1>1, <2>1 DEF CallTypes
    <3>2. Lag(got[d])' = Lag(v)
      BY <3>1 DEF Lag
    <3> QED BY <3>1, <3>2 DEF CallLag
  <2>2. CASE d # c
    <3>1. pc'[d] = pc[d] /\ got'[d] = got[d] /\ age'[d] = age[d] /\ db' = db
      BY <1>1, <2>2 DEF CallTypes
    <3>2. Lag(got[d])' = Lag(got[d])
      BY <3>1 DEF Lag
    <3> QED BY <1>1, <3>1, <3>2 DEF CallLag
  <2> QED BY <2>1, <2>2
<1> QED BY <1>2, <1>3, <1>4 DEF CallsOK

\* What the engine has read or answered may be put into Redis.
LEMMA FillStep ==
  ASSUME CacheOK, CallsOK, NEW c \in Calls, pc[c] = "fill", Fill(c),
         UNCHANGED <<db, retired, saver, cached, cachedAge>>
  PROVE  CacheOK'
<1>1. CASE UNCHANGED <<key, ttl>>
  BY <1>1, CacheKept
<1>2. CASE key' = got[c] /\ ttl' = RedisTTL
  <2>1. got[c] \in 1..db /\ Lag(got[c]) <= age[c]
    BY DEF CallsOK, CallLag
  <2>2. age[c] \in Nat /\ age[c] <= FetchMax /\ got[c] \in 0..MaxVersion
    BY ChainAssumption DEF CallsOK, CallTypes
  <2>3. Lag(got[c]) \in Nat /\ FetchMax \in Nat /\ RedisTTL \in Nat
    BY <2>2, LagTypes
  <2>4. Lag(got[c]) + RedisTTL <= FetchMax + RedisTTL
    BY <2>1, <2>2, <2>3
  <2>5. Lag(key)' = Lag(got[c]) /\ db' = db
    BY <1>2 DEF Lag
  <2>6. KeyLag'
    BY <1>2, <2>1, <2>4, <2>5 DEF KeyLag
  <2>7. ttl' \in 0..RedisTTL
    BY <1>2, <2>3
  <2> QED BY <1>2, <2>2, <2>6, <2>7, KeyChanges
<1> QED BY <1>1, <1>2 DEF Fill

-----------------------------------------------------------------------------
\* The steps, each with what it does to the caches and to the calls.
LEMMA SaveStep ==
  ASSUME CacheOK, CallsOK, SaveVersion
  PROVE  CacheOK' /\ CallsOK'
<1>1. /\ db' = db + 1 /\ db' \in 0..MaxVersion /\ db \in Nat /\ saver' = "saved"
      /\ UNCHANGED <<retired, key, ttl, cached, cachedAge, callVars>>
  BY LagTypes DEF SaveVersion
<1>2. \A v : Lag(v)' = Lag(v)
  BY <1>1 DEF Lag
<1>3. KeyLag'
  <2>1. ttl > 0 => key \in 1..db' /\ Lag(key) + ttl <= FetchMax + RedisTTL
    BY <1>1 DEF CacheOK, KeyLag
  <2> QED BY <1>1, <1>2, <2>1 DEF KeyLag
<1>4. CachedLag'
  BY <1>1, <1>2 DEF CacheOK, CachedLag
<1>5. cached' <= db' /\ \A v \in 1..MaxVersion : v >= db' => retired'[v] = 0
  BY <1>1, LagTypes DEF CacheOK
<1>6. CacheOK'
  BY <1>1, <1>3, <1>4, <1>5 DEF CacheOK, MaxLag
<1>7. ASSUME NEW c \in Calls PROVE CallLag(c)'
  <2>1. got[c] \in 1..db => got[c] \in 1..db'
    BY <1>1
  <2>2. Lag(got[c])' = Lag(got[c]) /\ UNCHANGED <<pc, got, age>>
    BY <1>1, <1>2 DEF callVars, Lag
  <2>3. CallLag(c)
    BY DEF CallsOK
  <2> QED BY <2>1, <2>2, <2>3 DEF CallLag
<1>8. CallTypes' /\ LagBounded'
  BY <1>1 DEF CallsOK, CallTypes, LagBounded, callVars, MaxLag
<1> QED BY <1>6, <1>7, <1>8 DEF CallsOK

LEMMA InvalidateStep ==
  ASSUME CacheOK, CallsOK, NEW ok \in BOOLEAN, Invalidate(ok)
  PROVE  CacheOK' /\ CallsOK'
<1>1. /\ saver' \in {"idle", "saved"}
      /\ UNCHANGED <<db, retired, cached, cachedAge, callVars>>
  BY DEF Invalidate
<1>2. (key' = 0 /\ ttl' = 0) \/ UNCHANGED <<key, ttl>>
  BY DEF Invalidate
<1>3. KeyLag' /\ key' \in 0..MaxVersion /\ ttl' \in 0..RedisTTL
  <2>1. CASE key' = 0 /\ ttl' = 0
    BY <2>1, ChainAssumption DEF KeyLag
  <2>2. CASE UNCHANGED <<key, ttl>>
    BY <1>1, <2>2 DEF CacheOK, KeyLag, Lag
  <2> QED BY <1>2, <2>1, <2>2
<1>4. CachedLag'
  BY <1>1 DEF CacheOK, CachedLag, Lag
<1> QED BY <1>1, <1>3, <1>4, CallsKept DEF CacheOK, MaxLag

LEMMA UseCachedStep ==
  ASSUME CacheOK, CallsOK, NEW c \in Calls, UseCached(c)
  PROVE  CacheOK' /\ CallsOK'
<1>1. /\ cached # 0 /\ cachedAge < ChainTTL /\ Return(c, "fresh", cached)
      /\ UNCHANGED <<db, retired, saver, key, ttl, cached, cachedAge>>
  BY DEF UseCached, Fresh
<1>2. cached \in 0..MaxVersion /\ Lag(cached) \in Nat
  BY LagTypes DEF CacheOK
<1>3. Lag(cached) + 1 <= FetchMax + FetchMax + RedisTTL + cachedAge
  <2>1. cachedAge # ChainTTL
    BY <1>1, LagTypes
  <2> QED BY <1>1, <2>1 DEF CacheOK, CachedLag
<1>4. Lag(cached) + 2 <= MaxLag
  BY <1>1, <1>2, <1>3, LagTypes, MaxLagType
<1> QED BY <1>1, <1>2, <1>4, CacheKept, ReturnStep

LEMMA FetchStartStep ==
  ASSUME CacheOK, CallsOK, NEW c \in Calls, FetchStart(c)
  PROVE  CacheOK' /\ CallsOK'
<1>1. /\ pc' = [pc EXCEPT ![c] = "fetch"] /\ kept' = [kept EXCEPT ![c] = cached]
      /\ how' = [how EXCEPT ![c] = "none"] /\ lag' = [lag EXCEPT ![c] = 0]
      /\ UNCHANGED <<db, retired, saver, key, ttl, cached, cachedAge, got, age>>
  BY DEF FetchStart
<1>2. CallTypes /\ LagBounded /\ cached \in 0..MaxVersion /\ 0 \in 0..MaxLag
  BY MaxLagType DEF CallsOK, CacheOK
<1>3. CallTypes'
  BY <1>1, <1>2 DEF CallTypes, MaxLag
<1>4. LagBounded'
  BY <1>1, <1>2 DEF CallTypes, LagBounded, MaxLag
<1>5. ASSUME NEW d \in Calls PROVE CallLag(d)'
  <2>1. pc'[d] = "fetch" \/ pc'[d] = pc[d]
    BY <1>1, <1>2 DEF CallTypes
  <2>2. CallLag(d)
    BY DEF CallsOK
  <2> QED BY <1>1, <2>1, <2>2 DEF CallLag, Lag
<1> QED BY <1>1, <1>3, <1>4, <1>5, CacheKept DEF CallsOK

LEMMA EngineHitStep ==
  ASSUME CacheOK, CallsOK, NEW c \in Calls, EngineHit(c)
  PROVE  CacheOK' /\ CallsOK'
<1>1. /\ ttl > 0 /\ pc' = [pc EXCEPT ![c] = "answered"] /\ got' = [got EXCEPT ![c] = key]
      /\ UNCHANGED <<db, retired, saver, key, ttl, cached, cachedAge, kept, age, how, lag>>
  BY DEF EngineHit
<1>2. key \in 1..db /\ Lag(key) + ttl <= FetchMax + RedisTTL
  BY <1>1 DEF CacheOK, KeyLag
<1>3. age[c] \in Nat
  BY ChainAssumption DEF CallsOK, CallTypes
<1>4. key \in 1..MaxVersion /\ Lag(key) \in Nat
  BY <1>2, LagTypes
<1>5. Lag(key) + 1 <= FetchMax + RedisTTL + age[c]
  BY <1>1, <1>2, <1>3, <1>4, LagTypes
<1>6. CallsOK'
  BY <1>1, <1>2, <1>3, <1>4, <1>5, EngineStep
<1> QED BY <1>1, <1>6, CacheKept

LEMMA EngineReadStep ==
  ASSUME CacheOK, CallsOK, NEW c \in Calls, EngineRead(c)
  PROVE  CacheOK' /\ CallsOK'
<1>1. /\ db > 0 /\ pc' = [pc EXCEPT ![c] = "fill"] /\ got' = [got EXCEPT ![c] = db]
      /\ UNCHANGED <<db, retired, saver, key, ttl, cached, cachedAge, kept, age, how, lag>>
  BY DEF EngineRead
<1>2. db \in 1..db /\ db \in 1..MaxVersion
  BY <1>1, LagTypes
<1>3. Lag(db) = 0
  BY <1>2 DEF CacheOK, Lag
<1>4. age[c] \in Nat
  BY ChainAssumption DEF CallsOK, CallTypes
<1>5. Lag(db) <= age[c]
  BY <1>3, <1>4
<1>6. CallsOK'
  BY <1>1, <1>2, <1>4, <1>5, EngineStep
<1> QED BY <1>1, <1>6, CacheKept

LEMMA EngineFillStep ==
  ASSUME CacheOK, CallsOK, NEW c \in Calls, EngineFill(c)
  PROVE  CacheOK' /\ CallsOK'
<1>1. /\ pc[c] = "fill" /\ Fill(c) /\ pc' = [pc EXCEPT ![c] = "answered"]
      /\ UNCHANGED <<db, retired, saver, cached, cachedAge, kept, got, age, how, lag>>
  BY DEF EngineFill
<1>2. got[c] \in 1..db /\ Lag(got[c]) <= age[c]
  BY <1>1 DEF CallsOK, CallLag
<1>3. got[c] \in 0..MaxVersion /\ age[c] \in Nat
  BY ChainAssumption DEF CallsOK, CallTypes
<1>4. got[c] \in 1..MaxVersion /\ Lag(got[c]) \in Nat
  BY <1>2, <1>3, LagTypes
<1>5. Lag(got[c]) + 1 <= FetchMax + RedisTTL + age[c]
  BY <1>2, <1>3, <1>4, ChainAssumption
<1>6. got' = [got EXCEPT ![c] = got[c]]
  BY <1>1 DEF CallsOK, CallTypes
<1>7. CallsOK'
  BY <1>1, <1>2, <1>3, <1>4, <1>5, <1>6, EngineStep
<1> QED BY <1>1, <1>7, FillStep

LEMMA FetchedStep ==
  ASSUME CacheOK, CallsOK, NEW c \in Calls, Fetched(c)
  PROVE  CacheOK' /\ CallsOK'
<1>1. /\ pc[c] = "answered" /\ cached' = got[c] /\ cachedAge' = 0
      /\ Return(c, "fetched", got[c])
      /\ UNCHANGED <<db, retired, saver, key, ttl>>
  BY DEF Fetched
<1>2. got[c] \in 1..db /\ Lag(got[c]) + 1 <= FetchMax + RedisTTL + age[c]
  BY <1>1 DEF CallsOK, CallLag
<1>3. got[c] \in 0..MaxVersion /\ age[c] \in Nat /\ age[c] <= FetchMax
  BY ChainAssumption DEF CallsOK, CallTypes
<1>4. Lag(got[c]) \in Nat
  BY <1>3, LagTypes
<1>5. Lag(got[c]) + 1 <= FetchMax + FetchMax + RedisTTL
  BY <1>2, <1>3, <1>4, LagTypes
<1>6. Lag(got[c]) + 2 <= MaxLag
  BY <1>4, <1>5, ChainAssumption, MaxLagType
<1>7. CallsOK'
  BY <1>1, <1>3, <1>6, ReturnStep
<1>8. CachedLag'
  <2>1. Lag(cached)' = Lag(got[c])
    BY <1>1 DEF Lag
  <2>2. Lag(got[c]) + 1 <= FetchMax + FetchMax + RedisTTL + 0
    BY <1>4, <1>5, LagTypes
  <2> QED BY <1>1, <2>1, <2>2 DEF CachedLag
<1>9. KeyLag' /\ cached' <= db' /\ cachedAge' \in 0..ChainTTL
  <2>1. KeyLag'
    BY <1>1 DEF CacheOK, KeyLag, Lag
  <2>2. cached' <= db'
    BY <1>1, <1>2, LagTypes
  <2>3. cachedAge' \in 0..ChainTTL
    BY <1>1, LagTypes
  <2> QED BY <2>1, <2>2, <2>3
<1>10. CacheOK'
  BY <1>1, <1>3, <1>8, <1>9 DEF CacheOK, MaxLag
<1> QED BY <1>7, <1>10

LEMMA FailureStep ==
  ASSUME CacheOK, CallsOK, NEW c \in Calls, Refuse(c) \/ FetchFails(c)
  PROVE  CacheOK' /\ CallsOK'
<1>1. CASE Refuse(c)
  <2>1. 0 \in 0..MaxVersion
    BY ChainAssumption
  <2>2. CallsOK'
    BY <1>1, <2>1, ReturnStep DEF Refuse
  <2> QED BY <1>1, <2>2, CacheKept DEF Refuse
<1>2. CASE FetchFails(c)
  <2>1. kept[c] \in 0..MaxVersion
    BY DEF CallsOK, CallTypes
  <2>2. CallsOK'
    BY <1>2, <2>1, ReturnStep DEF FetchFails
  <2>3. CASE pc[c] = "fill"
    BY <1>2, <2>2, <2>3, FillStep DEF FetchFails
  <2>4. CASE pc[c] # "fill"
    BY <1>2, <2>2, <2>4, CacheKept DEF FetchFails
  <2> QED BY <2>3, <2>4
<1> QED BY <1>1, <1>2

\* A tick makes a version at most one older, and every clock one older too.
LEMMA TickStep ==
  ASSUME CacheOK, CallsOK, Tick
  PROVE  CacheOK' /\ CallsOK'
<1>1. UNCHANGED <<db, saver, cached, pc, kept, got, how, lag>>
  BY DEF Tick
<1>2. /\ MaxVersion \in Nat /\ FetchMax \in Nat /\ MaxLag \in Nat
      /\ RedisTTL \in Nat /\ ChainTTL \in Nat /\ db \in Nat
      /\ ttl \in Nat /\ cachedAge \in Nat
  BY LagTypes
<1>3. /\ retired' \in [1..MaxVersion -> 0..MaxLag]
      /\ \A v \in 1..MaxVersion :
           retired'[v] <= retired[v] + 1 /\ (v >= db => retired'[v] = retired[v])
  <2>1. retired \in [1..MaxVersion -> 0..MaxLag]
    BY DEF CacheOK
  <2>2. retired' = [v \in 1..MaxVersion |->
                      IF v < db THEN Older(retired[v], MaxLag) ELSE retired[v]]
    BY DEF Tick
  <2>3. \A n \in 0..MaxLag : Older(n, MaxLag) \in 0..MaxLag /\ Older(n, MaxLag) <= n + 1
    BY <1>2 DEF Older
  <2>4. \A n \in 0..MaxLag : n <= n + 1
    BY <1>2
  <2>5. ASSUME NEW v \in 1..MaxVersion
        PROVE  /\ retired'[v] \in 0..MaxLag /\ retired'[v] <= retired[v] + 1
               /\ v >= db => retired'[v] = retired[v]
    <3>1. retired[v] \in 0..MaxLag
      BY <2>1
    <3>2. CASE v < db
      <4>1. ~(v >= db)
        BY <1>2, <3>2
      <4>2. retired'[v] = Older(retired[v], MaxLag)
        BY <2>2, <3>2
      <4> QED BY <2>3, <3>1, <4>1, <4>2
    <3>3. CASE ~(v < db)
      BY <2>2, <2>4, <3>1, <3>3
    <3> QED BY <3>2, <3>3
  <2> QED BY <2>2, <2>5
<1>4. ASSUME NEW v \in 0..MaxVersion
      PROVE  Lag(v) \in Nat /\ Lag(v)' \in Nat /\ Lag(v)' <= Lag(v) + 1
  <2>1. CASE v = 0
    BY <2>1 DEF Lag
  <2>2. CASE v # 0
    <3>1. v \in 1..MaxVersion
      BY <1>2, <2>2
    <3>2. Lag(v) = retired[v] /\ Lag(v)' = retired'[v]
      BY <2>2 DEF Lag
    <3>3. retired[v] \in 0..MaxLag /\ retired'[v] \in 0..MaxLag
      BY <1>3, <3>1 DEF CacheOK
    <3> QED BY <1>2, <1>3, <3>1, <3>2, <3>3
  <2> QED BY <2>1, <2>2
<1>5. /\ \A v \in 1..MaxVersion : v >= db => retired'[v] = 0
      /\ key' \in 0..MaxVersion /\ ttl' \in 0..RedisTTL /\ cachedAge' \in 0..ChainTTL
  <2>1. \A v \in 1..MaxVersion : v >= db => retired[v] = 0
    BY DEF CacheOK
  <2>2. key' \in 0..MaxVersion /\ ttl' \in 0..RedisTTL
    BY <1>2 DEF Tick, CacheOK
  <2>3. cachedAge' \in 0..ChainTTL
    BY <1>2 DEF Tick, CacheOK, Older
  <2> QED BY <1>3, <2>1, <2>2, <2>3
<1>6. KeyLag'
  <2> SUFFICES ASSUME ttl' > 0
               PROVE  key' \in 1..db /\ Lag(key)' + ttl' <= FetchMax + RedisTTL
    BY <1>1 DEF KeyLag
  <2>1. ttl > 1 /\ ttl' = ttl - 1 /\ key' = key
    BY <1>2 DEF Tick
  <2>2. key \in 1..db /\ Lag(key) + ttl <= FetchMax + RedisTTL
    BY <1>2, <2>1 DEF CacheOK, KeyLag
  <2>3. Lag(key)' = (IF key = 0 THEN 0 ELSE retired'[key])
    BY <2>1 DEF Lag
  <2>4. Lag(key) \in Nat /\ Lag(key)' \in Nat /\ Lag(key)' <= Lag(key) + 1
    BY <1>4, <2>1 DEF CacheOK, Lag
  <2> QED BY <1>2, <2>1, <2>2, <2>4
<1>7. CachedLag'
  <2> SUFFICES ASSUME cached # 0, cachedAge' # ChainTTL
               PROVE  Lag(cached)' + 1 <= FetchMax + FetchMax + RedisTTL + cachedAge'
    BY <1>1 DEF CachedLag
  <2>1. cachedAge' = cachedAge + 1 /\ cachedAge # ChainTTL
    BY <1>2 DEF Tick, Older, CacheOK
  <2>2. Lag(cached) + 1 <= FetchMax + FetchMax + RedisTTL + cachedAge
    BY <2>1 DEF CacheOK, CachedLag
  <2>3. Lag(cached) \in Nat /\ Lag(cached)' \in Nat /\ Lag(cached)' <= Lag(cached) + 1
    BY <1>1, <1>4 DEF CacheOK, Lag
  <2> QED BY <1>2, <2>1, <2>2, <2>3
<1>8. CacheOK'
  BY <1>1, <1>3, <1>5, <1>6, <1>7 DEF CacheOK, MaxLag
<1>9. ASSUME NEW c \in Calls
      PROVE  /\ age[c] \in Nat /\ age'[c] \in 0..FetchMax
             /\ pc[c] # "idle" => age'[c] = age[c] + 1
             /\ pc[c] = "idle" => age'[c] = age[c]
  <2>1. age[c] \in 0..FetchMax
    BY DEF CallsOK, CallTypes
  <2>2. pc[c] # "idle" => age[c] < FetchMax /\ age'[c] = age[c] + 1
    BY DEF Tick
  <2>3. pc[c] = "idle" => age'[c] = age[c]
    BY DEF Tick
  <2> QED BY <1>2, <2>1, <2>2, <2>3
<1>10. CallTypes' /\ LagBounded'
  <2>1. age' \in [Calls -> 0..FetchMax]
    BY <1>9 DEF Tick
  <2> QED BY <1>1, <2>1 DEF CallsOK, CallTypes, LagBounded, MaxLag
<1>11. ASSUME NEW c \in Calls PROVE CallLag(c)'
  <2>1. pc'[c] = pc[c] /\ got'[c] = got[c] /\ db' = db /\ CallLag(c)
    BY <1>1 DEF CallsOK
  <2>2. Lag(got[c]) \in Nat /\ Lag(got[c])' \in Nat /\ Lag(got[c])' <= Lag(got[c]) + 1
    <3>1. got[c] \in 0..MaxVersion
      BY DEF CallsOK, CallTypes
    <3> QED BY <1>1, <1>4, <3>1 DEF Lag
  <2>3. age[c] \in Nat
    BY <1>9
  <2>4. pc[c] = "idle" => age'[c] = 0
    BY <1>9, <2>1 DEF CallLag
  <2>5. pc[c] = "fill" => got[c] \in 1..db /\ Lag(got[c])' <= age'[c]
    BY <1>9, <2>1, <2>2, <2>3 DEF CallLag
  <2>6. pc[c] = "answered" =>
          got[c] \in 1..db /\ Lag(got[c])' + 1 <= FetchMax + RedisTTL + age'[c]
    BY <1>2, <1>9, <2>1, <2>2, <2>3 DEF CallLag
  <2> QED BY <2>1, <2>4, <2>5, <2>6 DEF CallLag
<1> QED BY <1>8, <1>10, <1>11 DEF CallsOK

LEMMA NextInv == IInv /\ [Next]_vars => IInv'
<1> SUFFICES ASSUME CacheOK, CallsOK, [Next]_vars PROVE CacheOK' /\ CallsOK'
  BY Parts, PartsAfter
<1>1. CASE SaveVersion
  BY <1>1, SaveStep
<1>2. CASE \E ok \in BOOLEAN : Invalidate(ok)
  BY <1>2, InvalidateStep
<1>3. CASE \E c \in Calls : UseCached(c) \/ FetchStart(c)
  BY <1>3, UseCachedStep, FetchStartStep
<1>4. CASE \E c \in Calls : EngineHit(c) \/ EngineRead(c) \/ EngineFill(c)
  BY <1>4, EngineHitStep, EngineReadStep, EngineFillStep
<1>5. CASE \E c \in Calls : Fetched(c) \/ Refuse(c) \/ FetchFails(c)
  BY <1>5, FetchedStep, FailureStep
<1>6. CASE Tick
  BY <1>6, TickStep
<1>7. CASE UNCHANGED vars
  BY <1>7, CacheKept, CallsKept DEF vars
<1> QED BY <1>1, <1>2, <1>3, <1>4, <1>5, <1>6, <1>7 DEF Next

\* Every place that holds a version of the chain holds one that was saved,
\* and not for longer than its own clock allows.
THEOREM ChainsOnTheWay == Spec => []ChainInv
<1>1. IInv => ChainInv
  BY DEF IInv
<1> QED BY InitInv, NextInv, <1>1, PTL DEF Spec

\* No request runs under a version replaced MaxLag - 1 ticks ago unless its
\* own fetch has failed.
THEOREM LagTheorem == Spec => []LagBounded
<1>1. IInv => LagBounded
  BY DEF IInv
<1> QED BY InitInv, NextInv, <1>1, PTL DEF Spec
=============================================================================
