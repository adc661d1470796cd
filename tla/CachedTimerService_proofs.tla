--------------------- MODULE CachedTimerService_proofs ----------------------
(***************************************************************************)
(* What the cached store keeps of what TimerService guarantees: for every  *)
(* set of requests and pollers, whatever call fails, and for a user whose  *)
(* requests arrive one at a time, when no deletion of the key is lost.     *)
(***************************************************************************)
EXTENDS CachedTimerService, TimerService_proofs

LEMMA PassedAnswerIsTyped ==
  ASSUME NEW q \in Request, LocalsOK(q), CopyOK(q), q.pc = "lookup", NEW answer \in Optional(Current)
  PROVE  LET p == [q EXCEPT !.pc = "resolve", !.seen = answer]
         IN  /\ p \in Request /\ LocalsOK(p) /\ CopyOK(p)
             /\ p.pc = "resolve" /\ p.seen = answer /\ p.op = q.op /\ p.id = q.id
             /\ p.row = q.row /\ p.new = q.new /\ p.edit = q.edit
  <1> DEFINE p == [q EXCEPT !.pc = "resolve", !.seen = answer]
  <1>1. p \in Request
    BY DEF Request, Labels
  <1>2. /\ p.pc = "resolve" /\ p.seen = answer /\ p.op = q.op /\ p.id = q.id
        /\ p.row = q.row /\ p.new = q.new /\ p.edit = q.edit
    BY DEF Request
  <1> HIDE DEF p
  <1>3. LocalsOK(p) /\ CopyOK(p)
    BY <1>2 DEF LocalsOK, CopyOK
  <1> QED BY <1>1, <1>2, <1>3 DEF p

\* The handlers that get an answer from the cache, or from the leader of the
\* flight they joined.
LEMMA AnsweredTyped ==
  ASSUME TypeOK, NEW answered \in SUBSET Requests, \A s \in answered : req[s].pc = "lookup",
         NEW answer \in Optional(Current), TablesUnchanged,
         req' = [s \in Requests |->
                   IF s \in answered THEN [req[s] EXCEPT !.pc = "resolve", !.seen = answer] ELSE req[s]]
  PROVE  TypeOK'
  <1>1. ASSUME NEW s \in Requests PROVE req'[s] \in Request /\ LocalsOK(req'[s]) /\ CopyOK(req'[s])
    <2>1. req[s] \in Request /\ LocalsOK(req[s]) /\ CopyOK(req[s])
      BY DEF TypeOK
    <2>2. CASE s \in answered
      BY <2>1, <2>2, PassedAnswerIsTyped
    <2>3. CASE s \notin answered
      BY <2>1, <2>3
    <2> QED BY <2>2, <2>3
  <1>2. req' \in [Requests -> Request]
    <2>1. DOMAIN req' = Requests /\ req' = [s \in Requests |-> req'[s]]
      OBVIOUS
    <2> QED BY <1>1, <2>1
  <1>3. \A s \in Requests : CopyOK(req[s])'
    BY <1>1 DEF CopyOK, Used, TablesUnchanged
  <1> QED BY <1>1, <1>2, <1>3 DEF TypeOK, TablesUnchanged

\* Handlers that end together.
LEMMA EndedTyped ==
  ASSUME TypeOK, NEW ended \in SUBSET Requests, TablesUnchanged,
         req' = [s \in Requests |-> IF s \in ended THEN IdleRequest ELSE req[s]]
  PROVE  TypeOK'
  <1>1. \A s \in Requests : req[s] \in Request /\ LocalsOK(req[s]) /\ CopyOK(req[s])
    BY DEF TypeOK
  <1>2. req' \in [Requests -> Request] /\ \A s \in Requests : LocalsOK(req'[s]) /\ CopyOK(req'[s])
    BY <1>1, IdleRequestIsTyped
  <1>3. \A s \in Requests : CopyOK(req[s])'
    BY <1>2 DEF CopyOK, Used, TablesUnchanged
  <1> QED BY <1>2, <1>3 DEF TypeOK, TablesUnchanged
-----------------------------------------------------------------------------
(***************************************************************************)
(* Which steps are steps of TimerService.                                  *)
(***************************************************************************)

\* The steps that are not: an answer from the cache, and the two ends of a flight.
Flown(r) == CacheHit(r) \/ Land(r) \/ FetchFails(r)

LEMMA CachedStepIsNext ==
  ASSUME [CachedNext]_cachedVars
  PROVE  [Next]_vars \/ \E r \in Requests : Flown(r)
  <1>1. ASSUME NEW r \in Requests, CachedHandle(r) PROVE [Next]_vars \/ Flown(r)
    <2>1. CASE CachedArrive(r)
      BY <2>1 DEF CachedArrive, Arrive, Handle, Next
    <2>2. CASE Uncached(r)
      BY <2>2 DEF Uncached, Step, Handle, Next
    <2>3. CASE Fetch(r)
      BY <2>3 DEF Fetch, Step, Handle, Next
    <2>4. CASE CachedWrite(r)
      BY <2>4 DEF CachedWrite, Step, Handle, Next
    <2>5. CASE CachedAbort(r)
      BY <2>5 DEF CachedAbort, Handle, Next
    <2>6. CASE CacheMiss(r) \/ Fill(r) \/ FillFails(r) \/ Purge(r)
      BY <2>6 DEF CacheMiss, Fill, FillFails, Purge, vars
    <2> QED BY <1>1, <2>1, <2>2, <2>3, <2>4, <2>5, <2>6 DEF CachedHandle, CachedLookup, Flown
  <1>2. CASE Expire \/ \E r \in Requests : PurgeFails(r)
    BY <1>2 DEF Expire, PurgeFails, vars
  <1>3. CASE UNCHANGED cachedVars
    BY <1>3 DEF cachedVars
  <1> QED BY <1>1, <1>2, <1>3 DEF CachedNext, ReliableNext

LEMMA FlownTyped ==
  ASSUME CacheTypeOK, NEW r \in Requests, Flown(r)
  PROVE  TypeOK' /\ TablesUnchanged
  <1>0. TypeOK /\ TablesUnchanged
    BY DEF CacheTypeOK, Flown, CacheHit, Land, FetchFails
  <1>1. CASE CacheHit(r)
    <2> DEFINE answered == {r}
    <2>1. cache \in Optional(Current) /\ \A s \in answered : req[s].pc = "lookup"
      BY <1>1 DEF CacheHit, CacheTypeOK
    <2>2. req' = [s \in Requests |->
                    IF s \in answered THEN [req[s] EXCEPT !.pc = "resolve", !.seen = cache] ELSE req[s]]
      BY <1>0, <1>1 DEF CacheHit, TypeOK
    <2> HIDE DEF answered
    <2>3. answered \in SUBSET Requests
      BY DEF answered
    <2> QED BY <1>0, <2>1, <2>2, <2>3, AnsweredTyped
  <1>2. CASE Land(r)
    <2> DEFINE joined == {s \in Requests : call[s] = "join"}
    <2>1. req[r].seen \in Optional(Current) /\ \A s \in joined : req[s].pc = "lookup"
      BY <1>0 DEF TypeOK, Request, CacheTypeOK
    <2>2. req' = [s \in Requests |->
                    IF s \in joined THEN [req[s] EXCEPT !.pc = "resolve", !.seen = req[r].seen] ELSE req[s]]
      BY <1>2 DEF Land
    <2>3. joined \in SUBSET Requests
      OBVIOUS
    <2> HIDE DEF joined
    <2> QED BY <1>0, <2>1, <2>2, <2>3, AnsweredTyped
  <1>3. CASE FetchFails(r)
    <2> DEFINE ended == {s \in Requests : s = r \/ call[s] = "join"}
    <2>1. req' = [s \in Requests |-> IF s \in ended THEN IdleRequest ELSE req[s]]
      BY <1>3 DEF FetchFails
    <2>2. ended \in SUBSET Requests
      OBVIOUS
    <2> HIDE DEF ended
    <2> QED BY <1>0, <2>1, <2>2, EndedTyped
  <1> QED BY <1>0, <1>1, <1>2, <1>3 DEF Flown
-----------------------------------------------------------------------------
(***************************************************************************)
(* The flights.                                                            *)
(***************************************************************************)

\* A handler's step moves no other handler.
LEMMA HandleIsLocal ==
  ASSUME TypeOK, NEW r \in Requests, Handle(r), NEW s \in Requests \ {r}
  PROVE  req'[s] = req[s]
  <1>1. CASE Arrive(r)
    BY <1>1 DEF TypeOK, Arrive, BeginCreate, BeginUpdate, BeginStop, BeginDelete, BeginCurrent
  <1>2. CASE Check(r)
    BY <1>2 DEF TypeOK, Check, ReadForStop, ReadEntry, EntryNotFound, RejectLocked, ApplyEdit, RejectEdit,
                AllowDelete, Goto, Finish
  <1>3. CASE GetCurrent(r)
    BY <1>3 DEF TypeOK, GetCurrent, LookupPointer, FallbackFinds, FallbackEmpty, RepairPointer, Goto
  <1>4. CASE Resolve(r)
    BY <1>4 DEF TypeOK, Resolve, AutoStop, NothingToStop, KeepRunning, RejectConflict, ReturnCurrent, Finish
  <1>5. CASE Write(r)
    BY <1>5 DEF TypeOK, Write, WriteEntry, MarkDeleted, ClearPointer, InsertEntry, PointRunning, Goto, Finish
  <1>6. CASE Abort(r)
    BY <1>6 DEF TypeOK, Abort, Finish
  <1> QED BY <1>1, <1>2, <1>3, <1>4, <1>5, <1>6 DEF Handle, Step

\* The lookup goes on within the flight.
LEMMA FetchGoesOn ==
  ASSUME TypeOK, NEW r \in Requests, GetCurrent(r)
  PROVE  req'[r].pc \in {"fallback", "repair", "resolve"}
  <1>1. req \in [Requests -> Request] /\ req[r] \in Request
    BY DEF TypeOK
  <1>2. CASE LookupPointer(r)
    BY <1>1, <1>2 DEF LookupPointer, Goto, Request
  <1>3. CASE FallbackFinds(r)
    BY <1>1, <1>3 DEF FallbackFinds, Request
  <1>4. CASE FallbackEmpty(r) \/ RepairPointer(r)
    BY <1>1, <1>4 DEF FallbackEmpty, RepairPointer, Goto, Request
  <1> QED BY <1>2, <1>3, <1>4 DEF GetCurrent

\* What a handler's label says of its call, and its call of the key it owes.
AtItsCall(s) ==
  /\ call[s] = "fetch" => req[s].pc \in {"lookup", "fallback", "repair", "resolve"}
  /\ call[s] = "join" => req[s].pc = "lookup"
  /\ call[s] = "fill" => req[s].pc = "resolve"
  /\ purge[s] => call[s] = "none"

CallTypes ==
  /\ cache \in Optional(Current) \cup {Empty}
  /\ call \in [Requests -> {"none", "fetch", "join", "fill"}]
  /\ purge \in [Requests -> BOOLEAN]

LEMMA CacheTypeParts == CacheTypeOK <=> TypeOK /\ CallTypes /\ \A s \in Requests : AtItsCall(s)
  BY DEF CacheTypeOK, CallTypes, AtItsCall

\* A step of TimerService by a handler outside CacheAside.
LEMMA OutsideKeepsCalls ==
  ASSUME CacheInv, NEW r \in Requests, Handle(r), call[r] = "none",
         UNCHANGED <<cache, call>>, purge' \in [Requests -> BOOLEAN],
         \A s \in Requests \ {r} : purge'[s] = purge[s]
  PROVE  CacheInv'
  <1>1. TypeOK /\ CallTypes /\ \A s \in Requests : AtItsCall(s)
    BY CacheTypeParts DEF CacheInv
  <1>2. TypeOK'
    BY <1>1, NextTyped DEF Next
  <1>3. \A s \in Requests : AtItsCall(s)'
    BY <1>1, HandleIsLocal DEF AtItsCall
  <1>4. CallTypes' /\ JoinersHaveALeader'
    BY <1>1 DEF CallTypes, CacheInv, JoinersHaveALeader
  <1> QED BY <1>2, <1>3, <1>4 DEF CacheInv, CacheTypeOK, CallTypes, AtItsCall

\* A step of the cache that leaves the handlers where they are.
LEMMA CallStepKeepsCalls ==
  ASSUME CacheInv, UNCHANGED vars, CallTypes', \A s \in Requests : AtItsCall(s)', JoinersHaveALeader'
  PROVE  CacheInv'
  <1>1. TypeOK'
    BY NextTyped DEF CacheInv, CacheTypeOK
  <1> QED BY <1>1 DEF CacheInv, CacheTypeOK, CallTypes, AtItsCall

LEMMA FlownKeepsCalls ==
  ASSUME CacheInv, NEW r \in Requests, Flown(r)
  PROVE  CacheInv'
  <1>1. TypeOK /\ CallTypes /\ (\A s \in Requests : AtItsCall(s)) /\ JoinersHaveALeader
    BY CacheTypeParts DEF CacheInv
  <1>2. TypeOK'
    BY FlownTyped DEF CacheInv
  <1>3. \A s \in Requests : req[s] \in Request
    BY <1>1 DEF TypeOK
  <1>4. CASE CacheHit(r)
    <2>1. call[r] = "none" /\ UNCHANGED <<cache, call, purge>> /\ \A s \in Requests \ {r} : req'[s] = req[s]
      BY <1>1, <1>4 DEF CacheHit, Free, CacheUnchanged, TypeOK
    <2>2. CallTypes' /\ JoinersHaveALeader' /\ \A s \in Requests : AtItsCall(s)'
      BY <1>1, <2>1 DEF CallTypes, JoinersHaveALeader, AtItsCall
    <2> QED BY <1>2, <2>2 DEF CacheInv, CacheTypeOK, CallTypes, AtItsCall
  <1>5. CASE Land(r)
    <2>1. UNCHANGED <<cache, purge>>
      BY <1>5 DEF Land
    <2>2. \A s \in Requests : call'[s] = IF s = r \/ call[s] = "join" THEN "fill" ELSE call[s]
      BY <1>5 DEF Land
    <2>3. \A s \in Requests : req'[s] = IF call[s] = "join" THEN [req[s] EXCEPT !.pc = "resolve", !.seen = req[r].seen] ELSE req[s]
      BY <1>5 DEF Land
    <2>4. \A s \in Requests : req'[s].pc = IF call[s] = "join" THEN "resolve" ELSE req[s].pc
      BY <1>3, <2>3 DEF Request
    <2>5. req[r].pc = "resolve" /\ call[r] = "fetch"
      BY <1>5 DEF Land
    <2>6. call' \in [Requests -> {"none", "fetch", "join", "fill"}]
      BY <1>1, <1>5 DEF Land, CallTypes
    <2>7. CallTypes' /\ JoinersHaveALeader'
      BY <1>1, <2>1, <2>2, <2>6 DEF CallTypes, JoinersHaveALeader
    <2>8. \A s \in Requests : AtItsCall(s)'
      BY <1>1, <2>1, <2>2, <2>4, <2>5 DEF AtItsCall
    <2> QED BY <1>2, <2>7, <2>8 DEF CacheInv, CacheTypeOK, CallTypes, AtItsCall
  <1>6. CASE FetchFails(r)
    <2>1. UNCHANGED <<cache, purge>> /\ call[r] = "fetch"
      BY <1>6 DEF FetchFails
    <2>2. \A s \in Requests : call'[s] = IF s = r \/ call[s] = "join" THEN "none" ELSE call[s]
      BY <1>6 DEF FetchFails
    <2>3. \A s \in Requests : s = r \/ call[s] = "join" \/ req'[s] = req[s]
      BY <1>6 DEF FetchFails
    <2>4. call' \in [Requests -> {"none", "fetch", "join", "fill"}]
      BY <1>1, <1>6 DEF FetchFails, CallTypes
    <2>5. CallTypes' /\ JoinersHaveALeader'
      BY <1>1, <2>1, <2>2, <2>4 DEF CallTypes, JoinersHaveALeader
    <2>6. \A s \in Requests : AtItsCall(s)'
      BY <1>1, <2>1, <2>2, <2>3 DEF AtItsCall
    <2> QED BY <1>2, <2>5, <2>6 DEF CacheInv, CacheTypeOK, CallTypes, AtItsCall
  <1> QED BY <1>4, <1>5, <1>6 DEF Flown

LEMMA FetchKeepsCalls ==
  ASSUME CacheInv, NEW r \in Requests, Fetch(r)
  PROVE  CacheInv'
  <1>1. TypeOK /\ CallTypes /\ (\A s \in Requests : AtItsCall(s)) /\ JoinersHaveALeader
    BY CacheTypeParts DEF CacheInv
  <1>2. Handle(r) /\ GetCurrent(r) /\ call[r] = "fetch" /\ UNCHANGED <<cache, call, purge>>
    BY DEF Fetch, Handle, Step, CacheUnchanged
  <1>3. TypeOK'
    BY <1>1, <1>2, NextTyped DEF Next
  <1>4. \A s \in Requests : AtItsCall(s)'
    <2>1. ASSUME NEW s \in Requests, s # r PROVE AtItsCall(s)'
      BY <1>1, <1>2, <2>1, HandleIsLocal DEF AtItsCall
    <2>2. AtItsCall(r)'
      BY <1>1, <1>2, FetchGoesOn DEF AtItsCall
    <2> QED BY <2>1, <2>2
  <1>5. CallTypes' /\ JoinersHaveALeader'
    BY <1>1, <1>2 DEF CallTypes, JoinersHaveALeader
  <1> QED BY <1>3, <1>4, <1>5 DEF CacheInv, CacheTypeOK, CallTypes, AtItsCall

LEMMA CacheStepsKeepCalls ==
  ASSUME CacheInv,
         \/ \E r \in Requests : CacheMiss(r) \/ Fill(r) \/ FillFails(r) \/ Purge(r) \/ PurgeFails(r)
         \/ Expire \/ UNCHANGED cachedVars
  PROVE  CacheInv'
  <1>1. TypeOK /\ CallTypes /\ (\A s \in Requests : AtItsCall(s)) /\ JoinersHaveALeader
    BY CacheTypeParts DEF CacheInv
  <1>2. UNCHANGED vars /\ UNCHANGED req
    BY DEF CacheMiss, Fill, FillFails, Purge, PurgeFails, Expire, cachedVars, vars
  <1>3. ASSUME NEW r \in Requests, CacheMiss(r) PROVE CacheInv'
    <2>1. /\ call[r] = "none" /\ ~purge[r] /\ req[r].pc = "lookup" /\ UNCHANGED <<cache, purge>>
          /\ call' = [call EXCEPT ![r] = IF \E leader \in Requests : call[leader] = "fetch" THEN "join" ELSE "fetch"]
      BY <1>3 DEF CacheMiss, Free
    <2>2. /\ \A s \in Requests \ {r} : call'[s] = call[s]
          /\ call'[r] = IF \E leader \in Requests : call[leader] = "fetch" THEN "join" ELSE "fetch"
      BY <1>1, <2>1 DEF CallTypes
    <2>3. CallTypes'
      BY <1>1, <2>1 DEF CallTypes
    <2>4. JoinersHaveALeader'
      BY <1>1, <2>1, <2>2 DEF JoinersHaveALeader
    <2>5. \A s \in Requests : AtItsCall(s)'
      BY <1>1, <1>2, <2>1, <2>2 DEF AtItsCall
    <2> QED BY <1>2, <2>3, <2>4, <2>5, CallStepKeepsCalls
  <1>4. ASSUME NEW r \in Requests, Fill(r) \/ FillFails(r) PROVE CacheInv'
    <2>1. /\ call[r] = "fill" /\ cache' \in {cache, req[r].seen} /\ UNCHANGED purge
          /\ call' = [call EXCEPT ![r] = "none"]
      BY <1>4 DEF Fill, FillFails
    <2>2. \A s \in Requests : call'[s] = IF s = r THEN "none" ELSE call[s]
      BY <1>1, <2>1 DEF CallTypes
    <2>3. req[r].seen \in Optional(Current)
      BY <1>1 DEF TypeOK, Request
    <2>4. CallTypes'
      BY <1>1, <2>1, <2>3 DEF CallTypes
    <2>5. JoinersHaveALeader' /\ \A s \in Requests : AtItsCall(s)'
      BY <1>1, <1>2, <2>1, <2>2 DEF JoinersHaveALeader, AtItsCall
    <2> QED BY <1>2, <2>4, <2>5, CallStepKeepsCalls
  <1>5. ASSUME NEW r \in Requests, Purge(r) \/ PurgeFails(r) PROVE CacheInv'
    <2>1. cache' \in {cache, Empty} /\ UNCHANGED call /\ purge' = [purge EXCEPT ![r] = FALSE]
      BY <1>5 DEF Purge, PurgeFails
    <2>2. CallTypes' /\ \A s \in Requests : purge'[s] => purge[s]
      BY <1>1, <2>1 DEF CallTypes
    <2>3. JoinersHaveALeader' /\ \A s \in Requests : AtItsCall(s)'
      BY <1>1, <1>2, <2>1, <2>2 DEF JoinersHaveALeader, AtItsCall
    <2> QED BY <1>2, <2>2, <2>3, CallStepKeepsCalls
  <1>6. CASE Expire \/ UNCHANGED cachedVars
    <2>1. cache' \in {cache, Empty} /\ UNCHANGED <<call, purge>>
      BY <1>6 DEF Expire, cachedVars
    <2>2. CallTypes' /\ JoinersHaveALeader' /\ \A s \in Requests : AtItsCall(s)'
      BY <1>1, <1>2, <2>1 DEF CallTypes, JoinersHaveALeader, AtItsCall
    <2> QED BY <1>2, <2>2, CallStepKeepsCalls
  <1> QED BY <1>3, <1>4, <1>5, <1>6

LEMMA StepsKeepCalls == CacheInv /\ [CachedNext]_cachedVars => CacheInv'
  <1> SUFFICES ASSUME CacheInv, [CachedNext]_cachedVars PROVE CacheInv'
    OBVIOUS
  <1>1. TypeOK /\ CallTypes
    BY CacheTypeParts DEF CacheInv
  <1>2. ASSUME NEW r \in Requests, CachedArrive(r) \/ Uncached(r) \/ CachedWrite(r) \/ CachedAbort(r)
        PROVE  CacheInv'
    <2>1. Handle(r) /\ call[r] = "none" /\ UNCHANGED <<cache, call>>
      <3>1. CASE CachedArrive(r)
        BY <3>1 DEF CachedArrive, CacheUnchanged, Free, Arrive, Handle
      <3>2. CASE Uncached(r) \/ CachedWrite(r) \/ CachedAbort(r)
        BY <3>2 DEF Uncached, CachedWrite, CachedAbort, CacheUnchanged, Free, Step, Handle
      <3> QED BY <1>2, <3>1, <3>2
    <2>2. purge' = purge \/ purge' = [purge EXCEPT ![r] = TRUE]
      BY <1>2 DEF CachedArrive, Uncached, CachedWrite, CachedAbort, CacheUnchanged
    <2>3. purge' \in [Requests -> BOOLEAN] /\ \A s \in Requests \ {r} : purge'[s] = purge[s]
      BY <1>1, <2>2 DEF CallTypes
    <2> QED BY <2>1, <2>3, OutsideKeepsCalls
  <1>3. ASSUME NEW r \in Requests, CachedHandle(r) PROVE CacheInv'
    BY <1>2, <1>3, FlownKeepsCalls, FetchKeepsCalls, CacheStepsKeepCalls DEF CachedHandle, CachedLookup, Flown
  <1> QED BY <1>3, CacheStepsKeepCalls DEF CachedNext, ReliableNext

LEMMA CallsInitially == CachedInit => CacheInv
  <1>1. CachedInit => TypeOK
    BY InitIsTyped DEF CachedInit
  <1> QED BY <1>1 DEF CachedInit, CacheInv, CacheTypeOK, JoinersHaveALeader

\* For any number of pollers, and with any Redis call, lookup or handler
\* failing: whoever joined a lookup waits for one that is under way, so that
\* the end of the leader, in whatever way, reaches them all.
THEOREM FlightsAreSound == CachedSpec => []CacheInv
  BY CallsInitially, StepsKeepCalls, PTL DEF CachedSpec
-----------------------------------------------------------------------------
(***************************************************************************)
(* What the cache cannot disturb: an answer is only ever compared with     *)
(* rows, never written to them.                                            *)
(***************************************************************************)

LEMMA FlownSound ==
  ASSUME CacheInv, RowsSound, NEW r \in Requests, Flown(r)
  PROVE  RowsSound'
  <1>1. TypeOK /\ UNCHANGED entries
    BY FlownTyped DEF CacheInv, CacheTypeOK, TablesUnchanged
  <1>2. \A s \in Requests : req[s] \in Request
    BY <1>1 DEF TypeOK
  <1>3. \A s \in Requests : \A answer : LET p == [req[s] EXCEPT !.pc = "resolve", !.seen = answer] IN
          p.row = req[s].row /\ p.new = req[s].new /\ p.edit = req[s].edit
    BY <1>2 DEF Request
  <1>4. ASSUME NEW s \in Requests
        PROVE  \/ req'[s].row = req[s].row /\ req'[s].new = req[s].new /\ req'[s].edit = req[s].edit
               \/ req'[s].row = None /\ req'[s].new = None /\ req'[s].edit.start = None
    <2>1. CASE CacheHit(r)
      BY <1>1, <1>3, <2>1 DEF CacheHit, TypeOK
    <2>2. CASE Land(r)
      BY <1>3, <2>2 DEF Land
    <2>3. CASE FetchFails(r)
      BY <2>3 DEF FetchFails, IdleRequest, NoEdit
    <2> QED BY <2>1, <2>2, <2>3 DEF Flown
  <1> QED BY <1>1, <1>4 DEF RowsSound, Used

LEMMA CachedSound == CacheInv /\ RowsSound /\ [CachedNext]_cachedVars => RowsSound'
  BY CachedStepIsNext, FlownSound, NextSound DEF CacheInv, CacheTypeOK

\* Behind the cache, too, every stored row is running or stopped in both of its
\* encodings, also when handlers stop or refuse by an answer that is stale.
THEOREM CachedRowsAreWellFormed == CachedSpec => []RowsWellFormed
  <1>1. CachedInit => CacheInv /\ RowsSound
    BY CallsInitially, InitIsSound DEF CachedInit
  <1>2. CacheInv /\ RowsSound /\ [CachedNext]_cachedVars => CacheInv' /\ RowsSound'
    BY StepsKeepCalls, CachedSound
  <1>3. RowsSound => RowsWellFormed
    BY DEF RowsSound, RowsWellFormed, SoundRow
  <1> QED BY <1>1, <1>2, <1>3, PTL DEF CachedSpec

\* Behind the cache, too, a soft-deleted entry stays deleted.
THEOREM CachedDeletionIsFinal == CachedSpec => DeletedStaysDeleted
  <1> DEFINE Kept == \A id \in EntryIds : Used(id) /\ entries[id].deleted => Used(id)' /\ entries'[id].deleted
  <1>1. CacheInv /\ [CachedNext]_cachedVars => [Kept]_vars
    <2> SUFFICES ASSUME CacheInv, [CachedNext]_cachedVars PROVE Kept
      OBVIOUS
    <2>1. TypeOK
      BY DEF CacheInv, CacheTypeOK
    <2>2. CASE [Next]_vars
      BY <2>1, <2>2, StepKeepsDeleted
    <2>3. CASE \E r \in Requests : Flown(r)
      BY <2>3, FlownTyped DEF CacheInv, TablesUnchanged, Used
    <2> QED BY <2>2, <2>3, CachedStepIsNext
  <1>2. CachedSpec => []CacheInv
    BY FlightsAreSound
  <1> QED BY <1>1, <1>2, PTL DEF CachedSpec, DeletedStaysDeleted
-----------------------------------------------------------------------------
(***************************************************************************)
(* One request at a time, and no lost deletion of the key.                 *)
(***************************************************************************)

\* An answer a handler has is the one the store would give: it is this that a
\* handler stores in the cache.
SeenIsTrue ==
  \A r \in Requests :
    req[r].pc \in {"repair", "resolve"} /\ req[r].seen # None => req[r].seen = AsCurrent(req[r].seen.id)

AloneInv == CacheInv /\ SerialInv /\ SeenIsTrue /\ CacheIsTrue

\* What the tables answer depends on nothing else.
LEMMA AnswersStay ==
  ASSUME TablesUnchanged
  PROVE  CurrentAnswers' = CurrentAnswers /\ UNCHANGED entries
  BY DEF TablesUnchanged, CurrentAnswers, NegativeDuration, Live, Used

\* The repair of the pointer changes no answer.
LEMMA RepairKeepsAnswers ==
  ASSUME PositiveTimes, TypeOK, SerialInv, TypeOK', RowsSound', NEW r \in Requests, RepairPointer(r)
  PROVE  CurrentAnswers' = CurrentAnswers
  <1>1. UNCHANGED entries /\ pointer' \in {pointer, req[r].seen.id} /\ Running(req[r].seen.id)
    BY DEF RepairPointer, SerialInv, KnowsCurrent
  <1>2. req[r].seen.id \in EntryIds
    BY DEF RepairPointer, TypeOK, Request, LocalsOK, Current, Optional
  <1>3. CurrentAnswers = {req[r].seen.id}
    BY <1>1, <1>2 DEF SerialInv, RunningEntryIsCurrent
  <1>4. \A id \in EntryIds : NegativeDuration(id)' <=> NegativeDuration(id)
    BY <1>1 DEF NegativeDuration, Live, Used
  <1>5. CASE pointer' = pointer
    BY <1>1, <1>4, <1>5 DEF CurrentAnswers, Live, Used
  <1>6. CASE pointer' = req[r].seen.id
    <2>1. pointer' # None /\ Live(pointer)'
      BY <1>1, <1>2, <1>6, NoneIsNoId DEF Running, Live, Used
    <2>2. CurrentAnswers' = {req[r].seen.id}
      BY <1>6, <2>1 DEF CurrentAnswers
    <2> QED BY <1>3, <2>2
  <1> QED BY <1>1, <1>5, <1>6

\* The answer of a handler that has one, in the words of the cache.
LEMMA SeenIsAnAnswer ==
  ASSUME SerialInv, SeenIsTrue, NEW r \in Requests, req[r].pc = "resolve"
  PROVE  TrueAnswer(req[r].seen)
  BY DEF SerialInv, SeenIsTrue, KnowsCurrent, TrueAnswer

\* A handler finds what it looks up.
LEMMA GetCurrentIsTrue ==
  ASSUME PositiveTimes, TypeOK, SerialInv, TypeOK', RowsSound', SeenIsTrue, Serial,
         NEW r \in Requests, GetCurrent(r)
  PROVE  SeenIsTrue' /\ CurrentAnswers' = CurrentAnswers /\ UNCHANGED entries
  <1>1. req \in [Requests -> Request] /\ req[r] \in Request
    BY DEF TypeOK
  <1>2. CurrentAnswers' = CurrentAnswers /\ UNCHANGED entries
    BY AnswersStay, RepairKeepsAnswers
    DEF GetCurrent, LookupPointer, FallbackFinds, FallbackEmpty, RepairPointer, TablesUnchanged
  <1>3. req[r].seen = None \/ req[r].pc = "repair"
    BY DEF GetCurrent, LookupPointer, FallbackFinds, FallbackEmpty, RepairPointer, SerialInv, KnowsCurrent
  <1>4. \/ req'[r].seen = req[r].seen
        \/ \E id : req'[r].seen = AsCurrent(id) /\ req'[r].seen.id = id
    <2>1. \A id : AsCurrent(id).id = id
      BY DEF AsCurrent
    <2>2. CASE LookupPointer(r)
      <3>1. req'[r].seen = req[r].seen \/ req'[r].seen = AsCurrent(pointer)
        BY <1>1, <2>2 DEF LookupPointer, Goto, Request
      <3> QED BY <2>1, <3>1
    <2>3. CASE FallbackFinds(r)
      <3>1. PICK id : req'[r].seen = AsCurrent(id)
        BY <1>1, <2>3 DEF FallbackFinds, Request
      <3> QED BY <2>1, <3>1
    <2>4. CASE FallbackEmpty(r) \/ RepairPointer(r)
      BY <1>1, <2>4 DEF FallbackEmpty, RepairPointer, Goto, Request
    <2> QED BY <2>2, <2>3, <2>4 DEF GetCurrent
  <1>5. req'[r].seen # None => req'[r].seen = AsCurrent(req'[r].seen.id)
    BY <1>3, <1>4 DEF SeenIsTrue
  <1>6. SeenIsTrue'
    <2>1. \A s \in Requests : s = r
      BY DEF Serial
    <2> QED BY <1>2, <1>5, <2>1 DEF SeenIsTrue, AsCurrent
  <1> QED BY <1>2, <1>6

\* The other steps of the handler begin no lookup they do not end.
LEMMA OtherStepsAreTrue ==
  ASSUME TypeOK, SeenIsTrue, Serial, NEW r \in Requests,
         Arrive(r) \/ Check(r) \/ Resolve(r) \/ Write(r) \/ Abort(r)
  PROVE  SeenIsTrue'
  <1>1. req \in [Requests -> Request] /\ req[r] \in Request
    BY DEF TypeOK
  <1>2. req'[r].pc \notin {"repair", "resolve"}
    <2>1. CASE Arrive(r)
      <3>1. CASE BeginCreate(r)
        <4>1. \E pc \in {"lookup", "insert"} : \E row :
                req'[r] = [IdleRequest EXCEPT !.op = "create", !.pc = pc, !.new = row]
          BY <1>1, <3>1 DEF BeginCreate
        <4> QED BY <4>1 DEF IdleRequest
      <3>2. CASE BeginUpdate(r)
        BY <1>1, <3>2 DEF BeginUpdate, IdleRequest
      <3>3. CASE BeginStop(r)
        BY <1>1, <3>3 DEF BeginStop, IdleRequest
      <3>4. CASE BeginDelete(r)
        BY <1>1, <3>4 DEF BeginDelete, IdleRequest
      <3>5. CASE BeginCurrent(r)
        BY <1>1, <3>5 DEF BeginCurrent, IdleRequest
      <3> QED BY <2>1, <3>1, <3>2, <3>3, <3>4, <3>5 DEF Arrive
    <2>2. CASE Check(r)
      <3>1. CASE ReadForStop(r)
        BY <1>1, <3>1 DEF ReadForStop, Request
      <3>2. CASE ReadEntry(r)
        BY <1>1, <3>2 DEF ReadEntry, Request
      <3>3. CASE EntryNotFound(r) \/ RejectLocked(r) \/ RejectEdit(r)
        BY <1>1, <3>3 DEF EntryNotFound, RejectLocked, RejectEdit, Finish, IdleRequest
      <3>4. CASE ApplyEdit(r)
        <4>1. \E pc \in {"lookup", "write"} : \E row :
                req'[r] = [req[r] EXCEPT !.pc = pc, !.row = row, !.edit = NoEdit]
          BY <1>1, <3>4 DEF ApplyEdit
        <4> QED BY <1>1, <4>1 DEF Request
      <3>5. CASE AllowDelete(r)
        BY <1>1, <3>5 DEF AllowDelete, Goto, Request
      <3> QED BY <2>2, <3>1, <3>2, <3>3, <3>4, <3>5 DEF Check
    <2>3. CASE Resolve(r)
      <3>1. CASE AutoStop(r)
        <4>1. \E edit : req'[r] = [req[r] EXCEPT !.pc = "get", !.ws = req[r].seen.ws, !.id = req[r].seen.id,
                                                   !.edit = edit, !.row = None, !.seen = None]
          BY <1>1, <3>1 DEF AutoStop
        <4> QED BY <1>1, <4>1 DEF Request
      <3>2. CASE NothingToStop(r)
        BY <1>1, <3>2 DEF NothingToStop, Request
      <3>3. CASE KeepRunning(r)
        BY <1>1, <3>3 DEF KeepRunning, Request
      <3>4. CASE RejectConflict(r) \/ ReturnCurrent(r)
        BY <1>1, <3>4 DEF RejectConflict, ReturnCurrent, Finish, IdleRequest
      <3> QED BY <2>3, <3>1, <3>2, <3>3, <3>4 DEF Resolve
    <2>4. CASE Write(r)
      <3>1. CASE WriteEntry(r)
        BY <1>1, <3>1 DEF WriteEntry, Goto, Request
      <3>2. CASE MarkDeleted(r)
        BY <1>1, <3>2 DEF MarkDeleted, Goto, Finish, IdleRequest, Request
      <3>3. CASE ClearPointer(r)
        BY <1>1, <3>3 DEF ClearPointer, Finish, IdleRequest, Request
      <3>4. CASE InsertEntry(r)
        BY <1>1, <3>4 DEF InsertEntry, Finish, IdleRequest, Request
      <3>5. CASE PointRunning(r)
        BY <1>1, <3>5 DEF PointRunning, Finish, IdleRequest
      <3> QED BY <2>4, <3>1, <3>2, <3>3, <3>4, <3>5 DEF Write
    <2>5. CASE Abort(r)
      BY <1>1, <2>5 DEF Abort, Finish, IdleRequest
    <2> QED BY <2>1, <2>2, <2>3, <2>4, <2>5
  <1> QED BY <1>2 DEF SeenIsTrue, Serial

\* A handler alone leads its own flight.
LEMMA NobodyJoins ==
  ASSUME Serial, CacheInv, NEW r \in Requests
  PROVE  call[r] # "join"
  BY DEF Serial, CacheInv, JoinersHaveALeader

LEMMA TrueCacheStays ==
  ASSUME Serial, CacheIsTrue, UNCHANGED <<entries, cache, purge>>, CurrentAnswers' = CurrentAnswers
  PROVE  CacheIsTrue'
  BY DEF CacheIsTrue, TrueAnswer, AsCurrent

\* A hit is what the lookup would have found: the one request reads the key
\* only when it has deleted it after its last write.
LEMMA HitKeepsAlone ==
  ASSUME Serial, PositiveTimes, AloneInv, NEW r \in Requests, CacheHit(r)
  PROVE  SerialInv' /\ SeenIsTrue' /\ CacheIsTrue'
  <1> DEFINE old == req[r]
             q == [old EXCEPT !.pc = "resolve", !.seen = cache]
  <1>1. TypeOK /\ CacheInv /\ SerialInv /\ SeenIsTrue /\ CacheIsTrue /\ RowsSound'
    BY FlownSound DEF AloneInv, CacheInv, CacheTypeOK, SerialInv, Flown
  <1>2. old \in Request /\ LocalsOK(old) /\ CopyOK(old) /\ Knows(old) /\ old.pc = "lookup" /\ req'[r] = q
        /\ TablesUnchanged /\ UNCHANGED <<cache, purge>> /\ cache # Empty /\ ~purge[r]
    BY <1>1 DEF CacheHit, Free, CacheUnchanged, TypeOK, SerialInv, Knows
  <1>3. TrueAnswer(cache) /\ cache \in Optional(Current)
    BY <1>1, <1>2 DEF CacheIsTrue, Serial, CacheInv, CacheTypeOK
  <1>4. q.pc = "resolve" /\ q.seen = cache /\ q.op = old.op /\ q.id = old.id /\ q.row = old.row
    BY <1>2, <1>3, PassedAnswerIsTyped
  <1> HIDE DEF q
  <1>5. CurrentAnswers = IF q.seen = None THEN {} ELSE {q.seen.id}
    <2>1. CASE cache = None
      BY <1>3, <1>4, <2>1 DEF TrueAnswer
    <2>2. CASE cache # None
      <3>1. cache.id \in CurrentAnswers
        BY <1>3, <2>2 DEF TrueAnswer
      <3>2. \A i, j \in CurrentAnswers : i = j
        <4>1. CurrentAnswers = IF pointer # None /\ Live(pointer) THEN {pointer}
                               ELSE {id \in EntryIds : Running(id)}
          BY <1>1, AnswersAreRunning DEF SerialInv
        <4>2. \A i, j \in EntryIds : Running(i) /\ Running(j) => i = j
          BY <1>1, CurrentIsUnique DEF SerialInv, AtMostOneRunning
        <4> QED BY <4>1, <4>2
      <3> QED BY <1>4, <2>2, <3>1, <3>2
    <2> QED BY <2>1, <2>2
  <1>6. Knows(q)
    BY <1>2, <1>4, <1>5 DEF Knows, KnowsEntry, KnowsCurrent, StopsBeforeStarting
  <1>7. SerialInv'
    BY <1>1, <1>2, <1>6, OneHandlerKnows
  <1>8. SeenIsTrue'
    <2>1. q.seen # None => q.seen = AsCurrent(q.seen.id)
      BY <1>3, <1>4 DEF TrueAnswer
    <2>2. req'[r].seen # None => req'[r].seen = [id |-> req'[r].seen.id, ws |-> entries'[req'[r].seen.id].ws,
                                                 start |-> entries'[req'[r].seen.id].start]
      BY <1>2, <2>1 DEF AsCurrent, TablesUnchanged
    <2> QED BY <2>2 DEF SeenIsTrue, Serial, AsCurrent
  <1>9. CacheIsTrue'
    BY <1>1, <1>2, AnswersStay, TrueCacheStays
  <1> QED BY <1>7, <1>8, <1>9

\* The steps of the decorator that move no handler of TimerService.
LEMMA StillKeepsAlone ==
  ASSUME Serial, PositiveTimes, AloneInv, UNCHANGED vars,
         \/ UNCHANGED <<cache, purge>>
         \/ cache' = Empty
         \/ (\E r \in Requests : Fill(r)) /\ UNCHANGED purge
  PROVE  SerialInv' /\ SeenIsTrue' /\ CacheIsTrue'
  <1>1. SerialInv' /\ SeenIsTrue'
    BY NextSerial DEF AloneInv, CacheInv, CacheTypeOK, SeenIsTrue, AsCurrent, vars
  <1>2. CurrentAnswers' = CurrentAnswers /\ UNCHANGED <<entries, req>>
    BY AnswersStay DEF vars, TablesUnchanged
  <1>3. CASE UNCHANGED <<cache, purge>>
    BY <1>1, <1>2, <1>3, TrueCacheStays DEF AloneInv
  <1>4. CASE cache' = Empty
    BY <1>1, <1>4 DEF CacheIsTrue
  <1>5. ASSUME NEW r \in Requests, Fill(r) PROVE CacheIsTrue'
    <2>1. req[r].pc = "resolve" /\ cache' = req[r].seen
      BY <1>5 DEF Fill, AloneInv, CacheInv, CacheTypeOK
    <2>2. TrueAnswer(req[r].seen)
      BY <2>1, SeenIsAnAnswer DEF AloneInv
    <2> QED BY <1>2, <2>1, <2>2 DEF CacheIsTrue, TrueAnswer, AsCurrent
  <1> QED BY <1>1, <1>3, <1>4, <1>5

LEMMA StepsKeepAlone ==
  ASSUME Serial, PositiveTimes PROVE AloneInv /\ [ReliableNext]_cachedVars => AloneInv'
  <1> SUFFICES ASSUME AloneInv, [ReliableNext]_cachedVars PROVE AloneInv'
    OBVIOUS
  <1>1. CacheInv'
    BY StepsKeepCalls DEF AloneInv, CachedNext
  <1>2. TypeOK /\ TypeOK' /\ RowsSound' /\ SeenIsTrue /\ CacheIsTrue /\ SerialInv
    BY <1>1, CachedSound DEF AloneInv, CacheInv, CacheTypeOK, SerialInv, CachedNext
  <1>3. ASSUME NEW r \in Requests, CachedArrive(r) \/ Uncached(r) \/ CachedAbort(r)
        PROVE  SerialInv' /\ SeenIsTrue' /\ CacheIsTrue'
    <2>1. (Arrive(r) \/ Check(r) \/ Resolve(r) \/ Abort(r)) /\ UNCHANGED <<cache, purge>> /\ TablesUnchanged
      <3>1. Arrive(r) \/ Check(r) \/ Resolve(r) \/ Abort(r)
        BY <1>3 DEF CachedArrive, Uncached, CachedAbort, Arrive
      <3>2. TablesUnchanged
        BY <3>1 DEF Arrive, BeginCreate, BeginUpdate, BeginStop, BeginDelete, BeginCurrent,
          Check, ReadForStop, ReadEntry, EntryNotFound, RejectLocked, ApplyEdit, RejectEdit, AllowDelete,
          Resolve, AutoStop, NothingToStop, KeepRunning, RejectConflict, ReturnCurrent, Abort
      <3> QED BY <1>3, <3>1, <3>2 DEF CachedArrive, Uncached, CachedAbort, CacheUnchanged
    <2>2. SerialInv'
      BY <1>2, <2>1, NextSerial DEF Next, Handle, Step
    <2> QED BY <1>2, <2>1, <2>2, OtherStepsAreTrue, AnswersStay, TrueCacheStays
  <1>4. ASSUME NEW r \in Requests, Fetch(r)
        PROVE  SerialInv' /\ SeenIsTrue' /\ CacheIsTrue'
    <2>1. GetCurrent(r) /\ UNCHANGED <<cache, purge>>
      BY <1>4 DEF Fetch, CacheUnchanged
    <2>2. SerialInv'
      BY <1>2, <2>1, NextSerial DEF Next, Handle, Step
    <2> QED BY <1>2, <2>1, <2>2, GetCurrentIsTrue, TrueCacheStays
  <1>5. ASSUME NEW r \in Requests, CachedWrite(r)
        PROVE  SerialInv' /\ SeenIsTrue' /\ CacheIsTrue'
    <2>1. Write(r) /\ purge'[r]
      BY <1>5 DEF CachedWrite, AloneInv, CacheInv, CacheTypeOK
    <2>2. SerialInv'
      BY <1>2, <2>1, NextSerial DEF Next, Handle, Step
    <2> QED BY <1>2, <2>1, <2>2, OtherStepsAreTrue DEF CacheIsTrue
  <1>6. ASSUME NEW r \in Requests, Land(r)
        PROVE  SerialInv' /\ SeenIsTrue' /\ CacheIsTrue'
    <2>1. req' = req
      <3>1. \A s \in Requests : call[s] # "join"
        BY NobodyJoins DEF AloneInv
      <3>2. req' = [s \in Requests |-> req[s]]
        BY <1>6, <3>1 DEF Land
      <3> QED BY <1>2, <3>2 DEF TypeOK
    <2> QED BY <1>6, <2>1, StillKeepsAlone DEF Land, vars, TablesUnchanged
  <1>7. ASSUME NEW r \in Requests, FetchFails(r)
        PROVE  SerialInv' /\ SeenIsTrue' /\ CacheIsTrue'
    <2>1. req' = [s \in Requests |-> IF s = r THEN IdleRequest ELSE req[s]]
      <3>1. \A s \in Requests : s = r
        BY DEF Serial
      <3> QED BY <1>7, <3>1 DEF FetchFails
    <2>2. req[r].pc # "idle" /\ UNCHANGED <<cache, purge>> /\ TablesUnchanged
      BY <1>7 DEF FetchFails, AloneInv, CacheInv, CacheTypeOK
    <2>3. req' = [req EXCEPT ![r] = IdleRequest]
      BY <1>2, <2>1 DEF TypeOK
    <2>4. Abort(r)
      BY <2>2, <2>3 DEF Abort, Finish
    <2>5. SerialInv'
      BY <1>2, <2>4, NextSerial DEF Next, Handle
    <2> QED BY <1>2, <2>2, <2>4, <2>5, OtherStepsAreTrue, AnswersStay, TrueCacheStays
  <1>8. ASSUME NEW r \in Requests, CacheMiss(r) \/ Fill(r) \/ FillFails(r) \/ Purge(r)
        PROVE  SerialInv' /\ SeenIsTrue' /\ CacheIsTrue'
    BY <1>8, StillKeepsAlone DEF CacheMiss, Fill, FillFails, Purge
  <1>9. CASE Expire \/ UNCHANGED cachedVars
    <2>1. SerialInv' /\ SeenIsTrue' /\ CacheIsTrue'
      BY <1>9, StillKeepsAlone DEF Expire, cachedVars
    <2> QED BY <1>1, <2>1 DEF AloneInv
  <1>10. ASSUME NEW r \in Requests, CachedHandle(r) PROVE SerialInv' /\ SeenIsTrue' /\ CacheIsTrue'
    BY <1>3, <1>4, <1>5, <1>6, <1>7, <1>8, <1>10, HitKeepsAlone DEF CachedHandle, CachedLookup
  <1> QED BY <1>1, <1>9, <1>10 DEF ReliableNext, AloneInv

LEMMA AloneInitially == ASSUME Serial PROVE CachedInit => AloneInv
  BY CallsInitially, InitIsSerial DEF CachedInit, Init, AloneInv, SeenIsTrue, CacheIsTrue, IdleRequest

LEMMA AloneInvariant == ASSUME Serial, PositiveTimes PROVE ReliableSpec => []AloneInv
  BY AloneInitially, StepsKeepAlone, PTL DEF ReliableSpec

\* A user whose requests arrive one at a time, whose entries start after the
\* epoch and of whose deletions of the key none is lost, reads from the cache
\* what the store would answer, whatever call of the store or of Redis fails
\* and whenever the key expires.
THEOREM CacheIsInvisible == ASSUME Serial, PositiveTimes PROVE ReliableSpec => []CacheIsTrue
  <1>1. AloneInv => CacheIsTrue
    BY DEF AloneInv
  <1> QED BY <1>1, AloneInvariant, PTL

\* For such a user the entries move exactly as RunningTimer allows: the start
\* of a timer, and an update of one that runs, decide by a cached answer as they
\* would by the store's.
THEOREM CachedImplementsRunningTimer ==
  ASSUME Serial, PositiveTimes PROVE ReliableSpec => ImplementsRunningTimer
  <1>1. CachedInit => Timer!Init
    BY DEF CachedInit, Init, Timer!Init, Phase, Used
  <1>2. AloneInv /\ [ReliableNext]_cachedVars => [Timer!Next]_PhaseMap
    <2> SUFFICES ASSUME AloneInv, [ReliableNext]_cachedVars PROVE [Timer!Next]_PhaseMap
      OBVIOUS
    <2>1. TypeOK /\ SerialInv /\ CacheTypeOK
      BY DEF AloneInv, CacheInv, CacheTypeOK
    <2>2. CASE [Next]_vars
      BY <2>1, <2>2, StepMovesPhase
    <2>3. CASE \E r \in Requests : Flown(r)
      BY <2>1, <2>3, FlownTyped DEF TablesUnchanged, PhaseMap, Phase, Used
    <2> QED BY <2>2, <2>3, CachedStepIsNext DEF CachedNext
  <1> QED BY <1>1, <1>2, AloneInvariant, PTL DEF ReliableSpec, ImplementsRunningTimer, Timer!Spec, PhaseMap
=============================================================================
