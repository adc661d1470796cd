------------------------- MODULE CachedTimerService -------------------------
(***************************************************************************)
(* TimerService behind cachedTrackingStore, the decorator the backend      *)
(* always wires: the answer of GetCurrentTimeEntry is kept in Redis for    *)
(* currentTimerTTL (CacheAside), concurrent misses share one lookup        *)
(* (singleflight, one backend process), and every store write that         *)
(* succeeds deletes the key in a Redis call of its own.                    *)
(***************************************************************************)
EXTENDS TimerService

CONSTANTS
  Pollers,  \* requests that only poll the current entry
  Empty     \* Redis has no value under the user's key

ASSUME PollersAreRequests == Pollers \subseteq Requests
ASSUME EmptyIsNoAnswer == Empty \notin Optional(Current)

VARIABLES
  cache,  \* the value under timer:<user>; None is an answer with found = false
  call,   \* where a handler is in CacheAside
  purge   \* a handler has written the store and not yet deleted the key

cachedVars == <<vars, cache, call, purge>>

CachedInit ==
  /\ Init
  /\ cache = Empty
  /\ call = [r \in Requests |-> "none"]
  /\ purge = [r \in Requests |-> FALSE]

\* Mutant: the key is deleted in the background.
FreeWhileDeleting(r) == call[r] = "none"

\* The handler is between its calls of the cached store.
Free(r) == call[r] = "none" /\ ~purge[r]

CacheUnchanged == UNCHANGED <<cache, call, purge>>
-----------------------------------------------------------------------------
CachedArrive(r) ==
  /\ Free(r)
  /\ IF r \in Pollers THEN BeginCurrent(r) ELSE Arrive(r)
  /\ CacheUnchanged

\* The calls the decorator passes through, and the handler's own decisions.
Uncached(r) ==
  /\ Free(r)
  /\ Check(r) \/ Resolve(r)
  /\ CacheUnchanged

CacheHit(r) ==
  /\ Free(r)
  /\ req[r].pc = "lookup"
  /\ cache # Empty
  /\ req' = [req EXCEPT ![r].pc = "resolve", ![r].seen = cache]
  /\ TablesUnchanged
  /\ CacheUnchanged

\* A Redis error counts as a miss, so the value does not matter.
CacheMiss(r) ==
  /\ Free(r)
  /\ req[r].pc = "lookup"
  /\ call' = [call EXCEPT ![r] = IF \E leader \in Requests : call[leader] = "fetch" THEN "join" ELSE "fetch"]
  /\ UNCHANGED <<vars, cache, purge>>

\* The leader of a flight runs the store's lookup.
Fetch(r) ==
  /\ call[r] = "fetch"
  /\ GetCurrent(r)
  /\ CacheUnchanged

\* Everyone who joined the flight gets the leader's answer.
Land(r) ==
  /\ call[r] = "fetch"
  /\ req[r].pc = "resolve"
  /\ call' = [s \in Requests |-> IF s = r \/ call[s] = "join" THEN "fill" ELSE call[s]]
  /\ req' = [s \in Requests |->
               IF call[s] = "join" THEN [req[s] EXCEPT !.pc = "resolve", !.seen = req[r].seen] ELSE req[s]]
  /\ TablesUnchanged
  /\ UNCHANGED <<cache, purge>>

\* Mutant: those who joined a failed flight are not told.
AbandonFlight(r) ==
  /\ call[r] = "fetch"
  /\ call' = [call EXCEPT ![r] = "none"]
  /\ Finish(r)
  /\ TablesUnchanged
  /\ UNCHANGED <<cache, purge>>

\* A store error, or the end of the leader's request, fails all of them.
FetchFails(r) ==
  /\ call[r] = "fetch"
  /\ call' = [s \in Requests |-> IF s = r \/ call[s] = "join" THEN "none" ELSE call[s]]
  /\ req' = [s \in Requests |-> IF s = r \/ call[s] = "join" THEN IdleRequest ELSE req[s]]
  /\ TablesUnchanged
  /\ UNCHANGED <<cache, purge>>

\* Each caller stores the answer it got, whatever was written since.
Fill(r) ==
  /\ call[r] = "fill"
  /\ cache' = req[r].seen
  /\ call' = [call EXCEPT ![r] = "none"]
  /\ UNCHANGED <<vars, purge>>

FillFails(r) ==
  /\ call[r] = "fill"
  /\ call' = [call EXCEPT ![r] = "none"]
  /\ UNCHANGED <<vars, cache, purge>>

\* Mutant: the write of an entry does not delete the key.
CachedWriteKeepingKey(r) ==
  /\ Free(r)
  /\ Write(r)
  /\ purge' = [purge EXCEPT ![r] = req[r].pc # "insert"]
  /\ UNCHANGED <<cache, call>>

CachedWrite(r) ==
  /\ Free(r)
  /\ Write(r)
  /\ purge' = [purge EXCEPT ![r] = TRUE]
  /\ UNCHANGED <<cache, call>>

Purge(r) ==
  /\ purge[r]
  /\ cache' = Empty
  /\ purge' = [purge EXCEPT ![r] = FALSE]
  /\ UNCHANGED <<vars, call>>

\* The error of Del is dropped; a crash or a client that left has its effect.
PurgeFails(r) ==
  /\ purge[r]
  /\ purge' = [purge EXCEPT ![r] = FALSE]
  /\ UNCHANGED <<vars, cache, call>>

CachedAbort(r) ==
  /\ Free(r)
  /\ Abort(r)
  /\ CacheUnchanged

\* Mutant: only the answer that nothing runs expires.
ExpireNothingRuns ==
  /\ cache = None
  /\ cache' = Empty
  /\ UNCHANGED <<vars, call, purge>>

\* currentTimerTTL has passed, or Redis evicts the key.
Expire ==
  /\ cache # Empty
  /\ cache' = Empty
  /\ UNCHANGED <<vars, call, purge>>
-----------------------------------------------------------------------------
CachedLookup(r) ==
  CacheHit(r) \/ CacheMiss(r) \/ Fetch(r) \/ Land(r) \/ FetchFails(r) \/ Fill(r) \/ FillFails(r)

CachedHandle(r) ==
  CachedArrive(r) \/ Uncached(r) \/ CachedLookup(r) \/ CachedWrite(r) \/ Purge(r) \/ CachedAbort(r)

\* Every Del of a handler gets through before the handler goes on or ends.
ReliableNext == (\E r \in Requests : CachedHandle(r)) \/ Expire

CachedNext == ReliableNext \/ \E r \in Requests : PurgeFails(r)

ReliableSpec == CachedInit /\ [][ReliableNext]_cachedVars
CachedSpec == CachedInit /\ [][CachedNext]_cachedVars

\* The TTL runs out whatever the backend does.
ExpiringSpec == CachedSpec /\ WF_cachedVars(Expire)
-----------------------------------------------------------------------------
(***************************************************************************)
(* Properties.                                                             *)
(***************************************************************************)

\* The cache holds an answer, and a handler inside CacheAside is at the step
\* of the lookup its call says.
CacheTypeOK ==
  /\ TypeOK
  /\ cache \in Optional(Current) \cup {Empty}
  /\ call \in [Requests -> {"none", "fetch", "join", "fill"}]
  /\ purge \in [Requests -> BOOLEAN]
  /\ \A r \in Requests :
       /\ call[r] = "fetch" => req[r].pc \in {"lookup", "fallback", "repair", "resolve"}
       /\ call[r] = "join" => req[r].pc = "lookup"
       /\ call[r] = "fill" => req[r].pc = "resolve"
       /\ purge[r] => call[r] = "none"

\* An answer GetCurrentTimeEntry could give now.
TrueAnswer(answer) ==
  IF answer = None THEN CurrentAnswers = {}
  ELSE answer.id \in CurrentAnswers /\ answer = AsCurrent(answer.id)

\* With one request at a time and no lost Del the cache is invisible: what it
\* holds is what the store would answer, except while a key waits to be
\* deleted.
CacheIsTrue == cache = Empty \/ TrueAnswer(cache) \/ \E r \in Requests : purge[r]

\* Whoever waits for a shared lookup waits for one that is under way.
JoinersHaveALeader ==
  \A r \in Requests : call[r] = "join" => \E leader \in Requests : call[leader] = "fetch"

\* The flights are sound, with any number of pollers and any call failing.
CacheInv == CacheTypeOK /\ JoinersHaveALeader

\* Stale fills and lost deletions do not outlive the TTL: once no request
\* writes, the cached answer ends up true and stays true.
CacheBecomesTrue ==
  <>[](\A r \in Requests : req[r].op \in {"none", "current"} /\ ~purge[r])
    => <>[](cache = Empty \/ TrueAnswer(cache))
=============================================================================
