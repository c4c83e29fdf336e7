---------------------------- MODULE CacheService ----------------------------
(***************************************************************************)
(* The read-through cache of src/shared/cache.service.ts: two maps, the    *)
(* cached entries and the fetches under way, and a get() whose fetch is a  *)
(* promise.                                                                *)
(*                                                                         *)
(* get() runs without interruption up to its first suspension: it drops an *)
(* expired entry, joins the fetch that is under way, or starts one.  The   *)
(* fetch then proceeds on its own: the source is read (or fails), the      *)
(* .then callback stores the value, the .finally callback takes the fetch  *)
(* out of the map and settles everyone who waits for it.  Whoever changes  *)
(* the source calls invalidate() afterwards.                               *)
(*                                                                         *)
(* The source is abstracted to a version per key, 0 while the key does not *)
(* exist; an entry's age to the ticks it has left.                         *)
(***************************************************************************)
EXTENDS Integers

CONSTANTS
    Keys,
    Callers,        \* concurrent callers of get()
    MaxVersion,     \* bound of the changes of a source
    PositiveTTL,    \* lifetime of a cached value              (5 minutes)
    NegativeTTL,    \* lifetime of a cached null or undefined  (30 seconds)
    None

ASSUME TTLAssumption ==
    /\ PositiveTTL \in Nat /\ NegativeTTL \in Nat
    /\ NegativeTTL <= PositiveTTL
ASSUME VersionAssumption == MaxVersion \in Nat
ASSUME NoCallerAssumption == None \notin Callers

VARIABLES
    source,         \* source[k]: the version a fetcher of k would read now
    dirty,          \* keys changed whose invalidate() has not been called yet
    cache,          \* the entries
    activeFetches,  \* activeFetches[k]: the caller whose fetch is registered
    call            \* call[r]: the progress of r's get()

vars == <<source, dirty, cache, activeFetches, call>>

Entry == [value : 0..MaxVersion, ttl : 0..PositiveTTL]
NoEntry == [value |-> 0, ttl |-> 0]     \* nothing cached, or an expired null

\* A caller that fetches passes through reading, fetched and stored, or
\* failed; one that joined waits for the fetch of another.
FetchStages == {"reading", "fetched", "stored", "failed"}
Call == [at : {"idle", "joined"} \cup FetchStages,
         key : Keys \cup {None}, value : 0..MaxVersion,
         of : Callers \cup {None}]

NoCall == [at |-> "idle", key |-> None, value |-> 0, of |-> None]

Init ==
    /\ source = [k \in Keys |-> 0]
    /\ dirty = {}
    /\ cache = [k \in Keys |-> NoEntry]
    /\ activeFetches = [k \in Keys |-> None]
    /\ call = [r \in Callers |-> NoCall]

Fetching(r) == call[r].at \in FetchStages

-----------------------------------------------------------------------------
(* get: a live entry is returned and nothing changes; otherwise the entry  *)
(* goes, if there is one.                                                  *)

Miss(r, k) ==
    /\ call[r].at = "idle"
    /\ cache[k].ttl = 0
    /\ cache' = [cache EXCEPT ![k] = NoEntry]

Join(r, k) ==
    /\ Miss(r, k)
    /\ activeFetches[k] # None
    /\ call' = [call EXCEPT ![r] = [at |-> "joined", key |-> k, value |-> 0,
                                    of |-> activeFetches[k]]]
    /\ UNCHANGED <<source, dirty, activeFetches>>

StartFetch(r, k) ==
    /\ Miss(r, k)
    /\ activeFetches[k] = None
    /\ activeFetches' = [activeFetches EXCEPT ![k] = r]
    /\ call' = [call EXCEPT ![r] = [at |-> "reading", key |-> k, value |-> 0,
                                    of |-> None]]
    /\ UNCHANGED <<source, dirty>>

\* The fetcher reads the source.
Read(r) ==
    /\ call[r].at = "reading"
    /\ call' = [call EXCEPT ![r].at = "fetched",
                            ![r].value = source[call[r].key]]
    /\ UNCHANGED <<source, dirty, cache, activeFetches>>

\* Wrong on purpose, for ReadFails: the error goes on as a value.
ReadFailsAsValue(r) ==
    /\ call[r].at = "reading"
    /\ call' = [call EXCEPT ![r].at = "fetched", ![r].value = None]
    /\ UNCHANGED <<source, dirty, cache, activeFetches>>

\* The fetcher rejects: .then is skipped.
ReadFails(r) ==
    /\ call[r].at = "reading"
    /\ call' = [call EXCEPT ![r].at = "failed"]
    /\ UNCHANGED <<source, dirty, cache, activeFetches>>

\* .then: a missing value is kept for a shorter time.
TTL(value) == IF value = 0 THEN NegativeTTL ELSE PositiveTTL

Store(r) ==
    /\ call[r].at = "fetched"
    /\ cache' = [cache EXCEPT ![call[r].key] =
                    [value |-> call[r].value, ttl |-> TTL(call[r].value)]]
    /\ call' = [call EXCEPT ![r].at = "stored"]
    /\ UNCHANGED <<source, dirty, activeFetches>>

\* Wrong on purpose, for Settle: a failed fetch stays registered.
SettleKeepsFailed(r) ==
    /\ call[r].at \in {"stored", "failed"}
    /\ activeFetches' = IF call[r].at = "failed" THEN activeFetches
                        ELSE [activeFetches EXCEPT ![call[r].key] = None]
    /\ call' = [c \in Callers |-> IF c = r \/ call[c].of = r THEN NoCall
                                                             ELSE call[c]]
    /\ UNCHANGED <<source, dirty, cache>>

\* Wrong on purpose, for Settle: a rejection settles nobody.
SettleStoredOnly(r) ==
    /\ call[r].at = "stored"
    /\ activeFetches' = [activeFetches EXCEPT ![call[r].key] = None]
    /\ call' = [c \in Callers |-> IF c = r \/ call[c].of = r THEN NoCall
                                                             ELSE call[c]]
    /\ UNCHANGED <<source, dirty, cache>>

\* .finally, after a value and after an error: the fetch is unregistered, and
\* the promise every joined caller holds is settled.
Settle(r) ==
    /\ call[r].at \in {"stored", "failed"}
    /\ activeFetches' = [activeFetches EXCEPT ![call[r].key] = None]
    /\ call' = [c \in Callers |-> IF c = r \/ call[c].of = r THEN NoCall
                                                             ELSE call[c]]
    /\ UNCHANGED <<source, dirty, cache>>

-----------------------------------------------------------------------------
(* The writer: the source changes, then invalidate() is called.            *)

Change(k) ==
    /\ source[k] < MaxVersion
    /\ source' = [source EXCEPT ![k] = @ + 1]
    /\ dirty' = dirty \cup {k}
    /\ UNCHANGED <<cache, activeFetches, call>>

\* Wrong on purpose, for invalidate: an expired entry goes, a live one stays.
InvalidateExpired(k) ==
    /\ k \in dirty
    /\ cache' = IF cache[k].ttl = 0 THEN [cache EXCEPT ![k] = NoEntry] ELSE cache
    /\ dirty' = dirty \ {k}
    /\ UNCHANGED <<source, activeFetches, call>>

\* Wrong on purpose, for invalidate: the fetch under way is forgotten.
InvalidateFetchToo(k) ==
    /\ k \in dirty
    /\ cache' = [cache EXCEPT ![k] = NoEntry]
    /\ activeFetches' = [activeFetches EXCEPT ![k] = None]
    /\ dirty' = dirty \ {k}
    /\ UNCHANGED <<source, call>>

\* Only the entry goes: a fetch under way stays registered and will store.
invalidate(k) ==
    /\ k \in dirty
    /\ cache' = [cache EXCEPT ![k] = NoEntry]
    /\ dirty' = dirty \ {k}
    /\ UNCHANGED <<source, activeFetches, call>>

-----------------------------------------------------------------------------
\* Wrong on purpose, for Tick: only a missing value expires.
TickNullsOnly ==
    /\ \E k \in Keys : cache[k].ttl > 0
    /\ cache' = [k \in Keys |-> IF cache[k].ttl > 0 /\ cache[k].value = 0
                                THEN [cache[k] EXCEPT !.ttl = @ - 1]
                                ELSE cache[k]]
    /\ UNCHANGED <<source, dirty, activeFetches, call>>

\* Time passes for every entry.
Tick ==
    /\ \E k \in Keys : cache[k].ttl > 0
    /\ cache' = [k \in Keys |-> IF cache[k].ttl > 0
                                THEN [cache[k] EXCEPT !.ttl = @ - 1]
                                ELSE cache[k]]
    /\ UNCHANGED <<source, dirty, activeFetches, call>>

Next ==
    \/ \E r \in Callers, k \in Keys : Join(r, k)
    \/ \E r \in Callers, k \in Keys : StartFetch(r, k)
    \/ \E r \in Callers : Read(r)
    \/ \E r \in Callers : ReadFails(r)
    \/ \E r \in Callers : Store(r)
    \/ \E r \in Callers : Settle(r)
    \/ \E k \in Keys : Change(k)
    \/ \E k \in Keys : invalidate(k)
    \/ Tick

Spec == Init /\ [][Next]_vars

\* A fetcher settles one way or the other, the event loop runs the callbacks
\* of a settled promise, a writer that has changed the source goes on to call
\* invalidate, and time passes.
Fairness ==
    /\ \A r \in Callers : /\ WF_vars(Read(r) \/ ReadFails(r))
                          /\ WF_vars(Store(r))
                          /\ WF_vars(Settle(r))
    /\ \A k \in Keys : WF_vars(invalidate(k))
    /\ WF_vars(Tick)

FairSpec == Spec /\ Fairness

-----------------------------------------------------------------------------
\* Type invariant: entries, registered fetches and calls are well formed.
TypeOK ==
    /\ source \in [Keys -> 0..MaxVersion]
    /\ dirty \subseteq Keys
    /\ cache \in [Keys -> Entry]
    /\ activeFetches \in [Keys -> Callers \cup {None}]
    /\ call \in [Callers -> Call]
    /\ \A r \in Callers : call[r].at # "idle" => call[r].key \in Keys

\* The stampede guard: however many callers miss a key together, and whatever
\* is invalidated, expires or fails meanwhile, one fetch of the key is under
\* way at most (cache.service.ts:18-38).
SingleFetch ==
    \A r, s \in Callers :
       Fetching(r) /\ Fetching(s) /\ call[r].key = call[s].key => r = s

\* Nobody waits for a fetch that is over: the map holds exactly the fetches
\* under way, and a caller that joined holds the promise of one of them, of
\* the key it asked for.  A rejected fetch is therefore not served again.
WaitsAreLive ==
    /\ \A k \in Keys : activeFetches[k] # None =>
          Fetching(activeFetches[k]) /\ call[activeFetches[k]].key = k
    /\ \A r \in Callers : call[r].at = "joined" =>
          Fetching(call[r].of) /\ call[call[r].of].key = call[r].key

\* Outdated(k): get() answers k from the cache with a version that is not the
\* source's.
Outdated(k) == cache[k].ttl > 0 /\ cache[k].value # source[k]

\* OldRead(k): a fetch of k has read a version that has been replaced since.
OldRead(k) ==
    \E r \in Callers :
       call[r].at = "fetched" /\ call[r].key = k /\ call[r].value # source[k]

UpToDate(k) == k \notin dirty /\ ~OldRead(k) /\ ~Outdated(k)

\* An invalidation settles its key, unless a fetch under way has read the old
\* version: that fetch stores after the invalidation what nobody removes again
\* (cache.service.ts:30 and 42).  From then on no caller that joins, fetches,
\* fails or stores makes the cache answer with an old version, until the source
\* changes again.
InvalidationSettles ==
    [][\A k \in Keys :
         /\ k \in dirty /\ k \notin dirty' /\ ~OldRead(k) => UpToDate(k)'
         /\ UpToDate(k) /\ source'[k] = source[k] => UpToDate(k)']_vars

\* Behind SingleFetch: a caller that fetches is the one registered for its key,
\* and only a caller that joined holds somebody's promise.
Registered ==
    \A r \in Callers :
       /\ Fetching(r) => activeFetches[call[r].key] = r
       /\ call[r].at = "joined" <=> call[r].of # None

IInv == TypeOK /\ Registered /\ WaitsAreLive

\* An outdated entry does not survive: it is invalidated, replaced or expires,
\* even when a fetch that had read the old version stores after invalidate.
OutdatedIsTransient ==
    \A k \in Keys : Outdated(k) ~> ~Outdated(k)

\* Every get() is answered, with a value or an error.
GetsAnswered ==
    \A r \in Callers : call[r].at # "idle" ~> call[r].at = "idle"
=============================================================================
