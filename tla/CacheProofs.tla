----------------------------- MODULE CacheProofs -----------------------------
(***************************************************************************)
(* The stampede guard and what an invalidation settles, for any keys,      *)
(* callers and lifetimes.                                                  *)
(***************************************************************************)
EXTENDS CacheService, TLAPS

LEMMA InitIInv == Init => IInv
  BY NoCallerAssumption, TTLAssumption, VersionAssumption
     DEF Init, IInv, TypeOK, Registered, WaitsAreLive, Entry, NoEntry, Call,
         NoCall, Fetching, FetchStages

\* A step that changes entries, versions and the dirty set only.
LEMMA EntriesStep ==
  ASSUME IInv, TypeOK', UNCHANGED <<activeFetches, call>>
  PROVE  IInv'
  BY DEF IInv, Registered, WaitsAreLive, Fetching

\* A caller joins the registered fetch, or registers its own.
LEMMA GetStep ==
  ASSUME IInv, NEW r \in Callers, NEW k \in Keys, Join(r, k) \/ StartFetch(r, k)
  PROVE  IInv'
<1> USE DEF IInv, Fetching, FetchStages
<1>1. call[r].at = "idle" /\ cache' \in [Keys -> Entry]
  BY TTLAssumption, VersionAssumption
     DEF Join, StartFetch, Miss, TypeOK, Entry, NoEntry
<1>2. \A s \in Callers : activeFetches[k] = s => s # r
  BY <1>1, NoCallerAssumption DEF WaitsAreLive
<1>3. CASE Join(r, k)
  <2> DEFINE new == [at |-> "joined", key |-> k, value |-> 0, of |-> activeFetches[k]]
  <2>1. /\ call' = [call EXCEPT ![r] = new] /\ activeFetches[k] \in Callers
        /\ activeFetches[k] # r /\ activeFetches[k] # None
        /\ UNCHANGED <<source, dirty, activeFetches>>
    BY <1>2, <1>3 DEF Join, TypeOK
  <2>2. new \in Call
    BY <2>1, VersionAssumption DEF Call
  <2>3. TypeOK'
    BY <1>1, <2>1, <2>2 DEF TypeOK
  <2>4. Registered'
    BY <1>1, <1>2, <2>1 DEF Registered, TypeOK
  <2>5. WaitsAreLive'
    BY <1>1, <1>2, <2>1 DEF WaitsAreLive, TypeOK
  <2> QED BY <2>3, <2>4, <2>5
<1>4. CASE StartFetch(r, k)
  <2> DEFINE new == [at |-> "reading", key |-> k, value |-> 0, of |-> None]
  <2>1. /\ call' = [call EXCEPT ![r] = new] /\ activeFetches[k] = None
        /\ activeFetches' = [activeFetches EXCEPT ![k] = r]
        /\ UNCHANGED <<source, dirty>>
    BY <1>4 DEF StartFetch
  <2>2. new \in Call
    BY VersionAssumption DEF Call
  <2>3. TypeOK'
    BY <1>1, <2>1, <2>2 DEF TypeOK
  <2>4. Registered'
    <3>1. \A s \in Callers : Fetching(s) => call[s].key # k
      BY <2>1, NoCallerAssumption DEF Registered
    <3> QED BY <1>1, <2>1, <3>1 DEF Registered, TypeOK
  <2>5. WaitsAreLive'
    <3>1. \A s \in Callers : call[s].at = "joined" => call[s].of \in Callers \ {r}
      BY <1>1 DEF Registered, WaitsAreLive, TypeOK, Call
    <3>2. \A j \in Keys : activeFetches[j] # None => activeFetches[j] \in Callers \ {r}
      BY <1>1 DEF WaitsAreLive, TypeOK
    <3>3. \A s \in Callers \ {r} : call'[s] = call[s]
      BY <2>1 DEF TypeOK
    <3>4. call'[r].at = "reading" /\ call'[r].key = k
      BY <2>1 DEF TypeOK
    <3>5. ASSUME NEW j \in Keys, activeFetches'[j] # None
          PROVE  (Fetching(activeFetches[j]) /\ call[activeFetches[j]].key = j)'
      <4>1. CASE j = k
        BY <2>1, <3>4, <4>1 DEF TypeOK
      <4>2. CASE j # k
        BY <2>1, <3>2, <3>3, <3>5, <4>2 DEF WaitsAreLive, TypeOK
      <4> QED BY <4>1, <4>2
    <3>6. ASSUME NEW s \in Callers, call'[s].at = "joined"
          PROVE  (Fetching(call[s].of) /\ call[call[s].of].key = call[s].key)'
      <4>1. s # r
        BY <3>4, <3>6
      <4> QED BY <3>1, <3>3, <3>6, <4>1 DEF WaitsAreLive
    <3> QED BY <3>5, <3>6 DEF WaitsAreLive
  <2> QED BY <2>3, <2>4, <2>5
<1> QED BY <1>3, <1>4

\* A fetch moves to its next stage.
LEMMA StageStep ==
  ASSUME IInv, NEW r \in Callers, NEW stage \in FetchStages, NEW v \in 0..MaxVersion,
         Fetching(r), call' = [call EXCEPT ![r].at = stage, ![r].value = v],
         cache' \in [Keys -> Entry], UNCHANGED <<source, dirty, activeFetches>>
  PROVE  IInv'
<1> USE DEF IInv
<1>1. call[r] \in Call /\ call \in [Callers -> Call]
  BY DEF TypeOK
<1>2. /\ call'[r].at = stage /\ call'[r].value = v
      /\ call'[r].key = call[r].key /\ call'[r].of = call[r].of
      /\ call'[r] \in Call
      /\ \A s \in Callers \ {r} : call'[s] = call[s]
      /\ call' \in [Callers -> Call]
  <2>1. call'[r] = [call[r] EXCEPT !.at = stage, !.value = v]
    BY <1>1
  <2>2. call'[r] \in Call
    BY <1>1, <2>1 DEF Call
  <2>3. call' = [call EXCEPT ![r] = call'[r]]
    BY <1>1
  <2> QED BY <1>1, <2>1, <2>2, <2>3 DEF Call
<1>3. \A s \in Callers : Fetching(s)' = Fetching(s)
  BY <1>2 DEF Fetching
<1>4. stage # "joined" /\ stage # "idle" /\ call[r].at # "joined" /\ call[r].at # "idle"
  BY DEF Fetching, FetchStages
<1>5. TypeOK'
  BY <1>2, <1>4 DEF TypeOK
<1>6. Registered'
  BY <1>2, <1>3, <1>4 DEF Registered
<1>7. WaitsAreLive'
  <2>1. \A j \in Keys : activeFetches[j] # None => activeFetches[j] \in Callers
    BY DEF TypeOK
  <2>2. \A s \in Callers : call[s].at = "joined" => call[s].of \in Callers
    BY DEF TypeOK, Registered, Call
  <2>3. \A s \in Callers : /\ call'[s].key = call[s].key /\ call'[s].of = call[s].of
                           /\ call'[s].at = "joined" => call[s].at = "joined"
    BY <1>2, <1>4
  <2>4. \A s \in Callers : call[s].at \in FetchStages => call'[s].at \in FetchStages
    BY <1>2
  <2>5. ASSUME NEW j \in Keys, activeFetches'[j] # None
        PROVE  (Fetching(activeFetches[j]) /\ call[activeFetches[j]].key = j)'
    <3>1. PICK o \in Callers : o = activeFetches[j]
      BY <2>1, <2>5
    <3>2. call[o].at \in FetchStages /\ call[o].key = j
      BY <2>5, <3>1 DEF WaitsAreLive, Fetching
    <3>3. call'[o].at \in FetchStages /\ call'[o].key = j
      BY <2>3, <2>4, <3>2
    <3> QED BY <3>1, <3>3 DEF Fetching
  <2>6. ASSUME NEW s \in Callers, call'[s].at = "joined"
        PROVE  (Fetching(call[s].of) /\ call[call[s].of].key = call[s].key)'
    <3>1. PICK o \in Callers : o = call[s].of
      BY <2>2, <2>3, <2>6
    <3>2. call[o].at \in FetchStages /\ call[o].key = call[s].key
      BY <2>3, <2>6, <3>1 DEF WaitsAreLive, Fetching
    <3>3. call'[o].at \in FetchStages /\ call'[o].key = call'[s].key /\ call'[s].of = o
      BY <2>3, <2>4, <3>1, <3>2
    <3> QED BY <3>3 DEF Fetching
  <2> QED BY <2>5, <2>6 DEF WaitsAreLive
<1> QED BY <1>5, <1>6, <1>7

LEMMA FetchStep ==
  ASSUME IInv, NEW r \in Callers, Read(r) \/ ReadFails(r) \/ Store(r)
  PROVE  IInv'
<1>1. call[r] \in Call /\ cache \in [Keys -> Entry] /\ source \in [Keys -> 0..MaxVersion]
  BY DEF IInv, TypeOK
<1>2. call[r].value \in 0..MaxVersion
  BY <1>1 DEF Call
<1>3. Fetching(r) /\ call[r].key \in Keys
  BY DEF Read, ReadFails, Store, Fetching, FetchStages, IInv, TypeOK
<1>4. CASE Read(r)
  <2>1. source[call[r].key] \in 0..MaxVersion
    BY <1>1, <1>3
  <2>2. "fetched" \in FetchStages
    BY DEF FetchStages
  <2> QED BY <1>1, <1>3, <1>4, <2>1, <2>2, StageStep DEF Read
<1>5. ASSUME NEW stage \in FetchStages, call' = [call EXCEPT ![r].at = stage]
      PROVE  call' = [call EXCEPT ![r].at = stage, ![r].value = call[r].value]
  <2>1. [call[r] EXCEPT !.at = stage, !.value = call[r].value] = [call[r] EXCEPT !.at = stage]
    BY <1>1 DEF Call
  <2> QED BY <1>5, <2>1
<1>6. CASE ReadFails(r)
  <2>1. "failed" \in FetchStages /\ call' = [call EXCEPT ![r].at = "failed"]
        /\ UNCHANGED <<source, dirty, cache, activeFetches>>
    BY <1>6 DEF ReadFails, FetchStages
  <2> QED BY <1>1, <1>2, <1>3, <1>5, <2>1, StageStep
<1>7. CASE Store(r)
  <2>1. "stored" \in FetchStages /\ call' = [call EXCEPT ![r].at = "stored"]
        /\ UNCHANGED <<source, dirty, activeFetches>>
    BY <1>7 DEF Store, FetchStages
  <2>2. TTL(call[r].value) \in 0..PositiveTTL
    BY TTLAssumption DEF TTL
  <2>3. cache' \in [Keys -> Entry]
    BY <1>1, <1>2, <1>7, <2>2 DEF Store, Entry
  <2> QED BY <1>2, <1>3, <1>5, <2>1, <2>3, StageStep
<1> QED BY <1>4, <1>6, <1>7

\* Settling a fetch unregisters it and answers everyone who joined it.
LEMMA SettleStep ==
  ASSUME IInv, NEW r \in Callers, Settle(r)
  PROVE  IInv'
<1> USE DEF IInv, Fetching, FetchStages
<1>1. /\ call[r].at \in {"stored", "failed"} /\ call[r].key \in Keys
      /\ activeFetches' = [activeFetches EXCEPT ![call[r].key] = None]
      /\ call' = [c \in Callers |-> IF c = r \/ call[c].of = r THEN NoCall ELSE call[c]]
      /\ UNCHANGED <<source, dirty, cache>>
  BY DEF Settle, TypeOK
<1>2. NoCall \in Call
  BY VersionAssumption DEF NoCall, Call
<1>3. TypeOK'
  BY <1>1, <1>2 DEF TypeOK, NoCall
<1>4. \A s \in Callers \ {r} : Fetching(s) => call'[s] = call[s] /\ call[s].key # call[r].key
  BY <1>1, NoCallerAssumption DEF Registered
<1>5. Registered'
  BY <1>1, <1>4, NoCallerAssumption DEF Registered, TypeOK, NoCall
<1>6. WaitsAreLive'
  <2>1. ASSUME NEW k \in Keys, activeFetches'[k] # None
        PROVE  (Fetching(activeFetches[k]) /\ call[activeFetches[k]].key = k)'
    <3>1. k # call[r].key /\ activeFetches'[k] = activeFetches[k]
      BY <1>1, <2>1 DEF TypeOK
    <3>2. activeFetches[k] \in Callers \ {r}
      BY <2>1, <3>1 DEF TypeOK, WaitsAreLive
    <3> QED BY <1>1, <1>4, <2>1, <3>1, <3>2 DEF WaitsAreLive
  <2>2. ASSUME NEW s \in Callers, call'[s].at = "joined"
        PROVE  (Fetching(call[s].of) /\ call[call[s].of].key = call[s].key)'
    <3>1. call'[s] = call[s] /\ call[s].of # r
      BY <1>1, <2>2 DEF NoCall
    <3>2. call[s].of \in Callers \ {r}
      BY <2>2, <3>1 DEF WaitsAreLive, Registered, TypeOK, Call
    <3> QED BY <1>1, <1>4, <2>2, <3>1, <3>2 DEF WaitsAreLive
  <2> QED BY <2>1, <2>2 DEF WaitsAreLive
<1> QED BY <1>3, <1>5, <1>6

\* Every step preserves the inductive invariant.
LEMMA NextIInv == IInv /\ [Next]_vars => IInv'
<1> SUFFICES ASSUME IInv, [Next]_vars PROVE IInv'
  OBVIOUS
<1>1. ASSUME NEW r \in Callers, NEW k \in Keys, Join(r, k) \/ StartFetch(r, k)
      PROVE  IInv'
  BY <1>1, GetStep
<1>2. ASSUME NEW r \in Callers, Read(r) \/ ReadFails(r) \/ Store(r) PROVE IInv'
  BY <1>2, FetchStep
<1>3. ASSUME NEW r \in Callers, Settle(r) PROVE IInv'
  BY <1>3, SettleStep
<1>4. ASSUME NEW k \in Keys, Change(k) PROVE IInv'
  <2>1. TypeOK'
    BY <1>4, VersionAssumption DEF Change, IInv, TypeOK
  <2> QED BY <1>4, <2>1, EntriesStep DEF Change
<1>5. ASSUME NEW k \in Keys, invalidate(k) PROVE IInv'
  <2>1. TypeOK'
    BY <1>5, VersionAssumption, TTLAssumption DEF invalidate, IInv, TypeOK, Entry, NoEntry
  <2> QED BY <1>5, <2>1, EntriesStep DEF invalidate
<1>6. CASE Tick
  <2>1. \A k \in Keys : cache'[k] \in Entry
    BY <1>6, TTLAssumption DEF Tick, IInv, TypeOK, Entry
  <2>2. TypeOK'
    BY <1>6, <2>1 DEF Tick, IInv, TypeOK
  <2> QED BY <1>6, <2>2, EntriesStep DEF Tick
<1>7. CASE UNCHANGED vars
  BY <1>7, EntriesStep DEF vars, IInv, TypeOK
<1> QED BY <1>1, <1>2, <1>3, <1>4, <1>5, <1>6, <1>7 DEF Next

THEOREM InvariantHolds == Spec => []IInv
  BY InitIInv, NextIInv, PTL DEF Spec

\* The cache's entries, registered fetches and calls stay well formed.
THEOREM TypeCorrect == Spec => []TypeOK
<1>1. IInv => TypeOK
  BY DEF IInv
<1> QED BY <1>1, InvariantHolds, PTL

\* One fetch per key at most, however many callers, failures, expirations and
\* invalidations there are.
THEOREM StampedeGuard == Spec => []SingleFetch
<1>1. IInv => SingleFetch
  BY DEF IInv, Registered, SingleFetch
<1> QED BY <1>1, InvariantHolds, PTL

\* Whoever waits, waits for a fetch that is under way.
THEOREM NobodyWaitsInVain == Spec => []WaitsAreLive
<1>1. IInv => WaitsAreLive
  BY DEF IInv
<1> QED BY <1>1, InvariantHolds, PTL

-----------------------------------------------------------------------------
\* A step after which the entry of a key is the one before, has ended or is gone,
\* and no fetch has read what it had not read before.
LEMMA NothingOlder ==
  ASSUME NEW k \in Keys, UpToDate(k), UNCHANGED source, dirty' \subseteq dirty,
         \/ cache'[k] = cache[k] \/ cache'[k].ttl = 0
         \/ cache'[k].ttl > 0 /\ cache[k].ttl > 0 /\ cache'[k].value = cache[k].value,
         \A r \in Callers : call'[r].at = "fetched" => call'[r] = call[r]
  PROVE  UpToDate(k)'
<1>1. k \notin dirty'
  BY DEF UpToDate
<1>2. ~OldRead(k)'
  BY DEF UpToDate, OldRead
<1>3. ~Outdated(k)'
  BY DEF UpToDate, Outdated
<1> QED BY <1>1, <1>2, <1>3 DEF UpToDate

\* What is up to date stays so until the source changes.
LEMMA StaysUpToDate ==
  ASSUME IInv, [Next]_vars, NEW k \in Keys, UpToDate(k), source'[k] = source[k]
  PROVE  UpToDate(k)'
<1>1. /\ cache \in [Keys -> Entry] /\ source \in [Keys -> 0..MaxVersion]
      /\ call \in [Callers -> Call]
      /\ \A r \in Callers : call[r].at # "idle" => call[r].key \in Keys
  BY DEF IInv, TypeOK
<1>2. ASSUME NEW r \in Callers, NEW j \in Keys, Join(r, j) \/ StartFetch(r, j)
      PROVE  UpToDate(k)'
  <2>1. \A s \in Callers : call'[s].at = "fetched" => call'[s] = call[s]
    BY <1>1, <1>2 DEF Join, StartFetch
  <2>2. cache'[k] = cache[k] \/ cache'[k].ttl = 0
    BY <1>1, <1>2 DEF Join, StartFetch, Miss, NoEntry
  <2> QED BY <1>2, <2>1, <2>2, NothingOlder DEF Join, StartFetch
<1>3. ASSUME NEW r \in Callers, Read(r) PROVE UpToDate(k)'
  <2>1. call'[r].value = source[call[r].key] /\ call'[r].key = call[r].key
    BY <1>1, <1>3 DEF Read, Call
  <2>2. \A s \in Callers \ {r} : call'[s] = call[s]
    BY <1>1, <1>3 DEF Read
  <2>3. ~OldRead(k)'
    BY <1>3, <2>1, <2>2 DEF Read, UpToDate, OldRead
  <2> QED BY <1>3, <2>3 DEF Read, UpToDate, Outdated
<1>4. ASSUME NEW r \in Callers, ReadFails(r) PROVE UpToDate(k)'
  <2>1. \A s \in Callers : call'[s].at = "fetched" => call'[s] = call[s]
    BY <1>1, <1>4 DEF ReadFails, Call
  <2> QED BY <1>4, <2>1, NothingOlder DEF ReadFails
<1>5. ASSUME NEW r \in Callers, Store(r) PROVE UpToDate(k)'
  <2> DEFINE j == call[r].key
  <2>1. \A s \in Callers : call'[s].at = "fetched" => call'[s] = call[s]
    BY <1>1, <1>5 DEF Store, Call
  <2>2. CASE j # k
    <3>1. cache'[k] = cache[k]
      BY <1>1, <1>5, <2>2 DEF Store
    <3> QED BY <1>5, <2>1, <3>1, NothingOlder DEF Store
  <2>3. CASE j = k
    <3>1. call[r].value = source[k]
      BY <1>5, <2>3 DEF Store, UpToDate, OldRead
    <3>2. cache'[k].value = source[k]
      BY <1>1, <1>5, <2>3, <3>1 DEF Store
    <3>3. ~OldRead(k)'
      BY <1>5, <2>1 DEF Store, UpToDate, OldRead
    <3> QED BY <1>5, <3>2, <3>3 DEF Store, UpToDate, Outdated
  <2> QED BY <2>2, <2>3
<1>6. ASSUME NEW r \in Callers, Settle(r) PROVE UpToDate(k)'
  <2>1. \A s \in Callers : call'[s].at = "fetched" => call'[s] = call[s]
    BY <1>6 DEF Settle, NoCall
  <2> QED BY <1>6, <2>1, NothingOlder DEF Settle
<1>7. ASSUME NEW j \in Keys, Change(j) PROVE UpToDate(k)'
  <2>1. j # k /\ j \in Keys
    BY <1>1, <1>7, VersionAssumption DEF Change
  <2> QED BY <1>1, <1>7, <2>1 DEF Change, UpToDate, OldRead, Outdated
<1>8. ASSUME NEW j \in Keys, invalidate(j) PROVE UpToDate(k)'
  <2>1. cache'[k] = cache[k] \/ cache'[k].ttl = 0
    BY <1>1, <1>8 DEF invalidate, NoEntry
  <2> QED BY <1>8, <2>1, NothingOlder DEF invalidate
<1>9. CASE Tick
  <2>1. cache'[k].value = cache[k].value /\ (cache'[k].ttl > 0 => cache[k].ttl > 0)
    BY <1>1, <1>9, TTLAssumption DEF Tick, Entry
  <2>2. ~Outdated(k)' /\ ~OldRead(k)'
    BY <1>9, <2>1 DEF Tick, UpToDate, Outdated, OldRead
  <2> QED BY <1>9, <2>2 DEF Tick, UpToDate
<1>10. CASE UNCHANGED vars
  BY <1>10, NothingOlder DEF vars
<1> QED
  BY <1>2, <1>3, <1>4, <1>5, <1>6, <1>7, <1>8, <1>9, <1>10 DEF Next

\* A key leaves the dirty set by an invalidation only, which drops its entry.
LEMMA InvalidationCleans ==
  ASSUME IInv, [Next]_vars, NEW k \in Keys, k \in dirty, k \notin dirty', ~OldRead(k)
  PROVE  UpToDate(k)'
<1>1. invalidate(k)
  BY DEF Next, vars, Join, StartFetch, Read, ReadFails, Store, Settle, Change,
         invalidate, Tick
<1>2. cache'[k].ttl = 0
  BY <1>1 DEF invalidate, NoEntry, IInv, TypeOK
<1> QED BY <1>1, <1>2 DEF invalidate, UpToDate, OldRead, Outdated

\* However many callers overlap it, an invalidation that no fetch with an old
\* version overlaps leaves the key up to date until the source changes
\* (cache.service.ts:18-43).
THEOREM InvalidatedForGood == Spec => InvalidationSettles
<1>1. IInv /\ [Next]_vars =>
        [\A k \in Keys :
           /\ k \in dirty /\ k \notin dirty' /\ ~OldRead(k) => UpToDate(k)'
           /\ UpToDate(k) /\ source'[k] = source[k] => UpToDate(k)']_vars
  BY StaysUpToDate, InvalidationCleans
<1> QED BY <1>1, InvariantHolds, PTL DEF Spec, InvalidationSettles
=============================================================================
