----------------------------- MODULE PageCache ------------------------------
(***************************************************************************)
(* The time entries a page shows: the query cache (the current entry and   *)
(* one list of entries), its polls, and the optimistic mutations of        *)
(* web-shell-time-entries.ts.  One user on one device; the server carries  *)
(* out a request in one step.  TanStack Query, the network and the server  *)
(* are external, modelled as the file uses them.                           *)
(***************************************************************************)
EXTENDS Integers

CONSTANTS
  MaxCalls, \* bound: calls of a mutation
  Texts,    \* what an update can change
  Kinds,    \* the mutations of this instance
  Unknown,  \* undefined: not loaded
  Nothing   \* null: no entry runs

Calls == 1..MaxCalls            \* a call is also the id of the row it makes
First == 0                      \* the entry that runs in the beginning, if any
Temporary(c) == -c              \* the id -Date.now() of an optimistic entry
Timer == 0                      \* begins the fetches no call begins
Queries == {"list", "current"}
AllKinds == {"start", "create", "stop", "update", "delete"}

ASSUME PageAssumption == Kinds \subseteq AllKinds /\ MaxCalls \in Nat /\ Texts # {}

VARIABLES
  rows,     \* the user's rows on the server
  list,     \* data of ["time-entries", ...], a set
  current,  \* data of ["current-time-entry"]
  fetch,    \* of each query: the fetch in flight
  call,     \* the calls of mutations, with their context
  raced     \* history: "no", "poll" or "yes", the worst race that has happened

pageVars == <<rows, list, current, fetch, call, raced>>

Entry == [id : -MaxCalls..MaxCalls, run : BOOLEAN, text : Texts]

\* undefined and null are neither entries nor lists.
ASSUME NoData ==
  /\ Unknown # Nothing
  /\ Unknown \notin Entry /\ Nothing \notin Entry
  /\ \A es \in SUBSET Entry : Unknown # es

IdleFetch == [at |-> "idle", by |-> Timer, answer |-> Unknown]
Begun(who) == [at |-> "sent", by |-> who, answer |-> Unknown]
NewText == CHOOSE t \in Texts : TRUE
NoCall == [kind |-> "none", target |-> First, text |-> NewText,
           phase |-> "new", wasCurrent |-> Unknown, wasList |-> Unknown, data |-> Nothing]

Unanswered == {c \in Calls : call[c].phase \in {"sent", "accepted"}}
Pending == {c \in Calls : call[c].phase \in {"sent", "accepted", "lists", "current"}}
Running == {e \in rows : e.run}
ServerCurrent == IF Running = {} THEN Nothing ELSE CHOOSE e \in Running : TRUE

PageInit ==
  /\ rows \in {{}, {[id |-> First, run |-> TRUE, text |-> NewText]}}
  /\ list = Unknown /\ current = Unknown
  /\ fetch = [q \in Queries |-> IdleFetch]
  /\ call = [c \in Calls |-> NoCall]
  /\ raced = "no"
-----------------------------------------------------------------------------
(***************************************************************************)
(* Queries: refetched every 30 seconds, and by invalidateQueries.          *)
(***************************************************************************)

\* Mutant: the lists have no refetchInterval.
PollCurrent(q) == q = "current" \/ list = Unknown

Polled(q) == TRUE

Poll(q) ==
  /\ Polled(q)
  /\ fetch[q].at = "idle"
  /\ fetch' = [fetch EXCEPT ![q] = Begun(Timer)]
  /\ raced' = IF Unanswered # {} /\ raced = "no" THEN "poll" ELSE raced
  /\ UNCHANGED <<rows, list, current, call>>

Read(q) ==
  /\ fetch[q].at = "sent"
  /\ fetch' = [fetch EXCEPT ![q].at = "read",
                            ![q].answer = IF q = "list" THEN rows ELSE ServerCurrent]
  /\ UNCHANGED <<rows, list, current, call, raced>>

FetchDone(q) ==
  /\ fetch[q].at = "read"
  /\ fetch' = [fetch EXCEPT ![q] = IdleFetch]
  /\ IF q = "list"
     THEN list' = fetch[q].answer /\ UNCHANGED current
     ELSE current' = fetch[q].answer /\ UNCHANGED list
  /\ UNCHANGED <<rows, call, raced>>

\* retry: false.  The data stay as they are.
FetchFails(q) ==
  /\ fetch[q].at = "sent"
  /\ fetch' = [fetch EXCEPT ![q] = IdleFetch]
  /\ raced' = IF fetch[q].by # Timer THEN "yes" ELSE raced
  /\ UNCHANGED <<rows, list, current, call>>
-----------------------------------------------------------------------------
(***************************************************************************)
(* onMutate.                                                               *)
(***************************************************************************)

Stopped(es, i) == {[e EXCEPT !.run = e.run /\ e.id # i] : e \in es}
Patched(e, i, text) == IF e.id = i THEN [e EXCEPT !.text = text] ELSE e

Optimistic(c, kind, text) == [id |-> Temporary(c), run |-> kind = "start", text |-> text]

\* Mutant: a start leaves the lists to the refetch.
ListUntouched(c, kind, i, text) == list

\* setQueriesData.  A start stops the entry that current shows.
ListAfter(c, kind, i, text) ==
  CASE kind = "start" ->
         IF current \in {Unknown, Nothing} \/ list = Unknown THEN list ELSE Stopped(list, current.id)
    [] kind = "create" ->
         (IF list = Unknown THEN {} ELSE list) \union {Optimistic(c, kind, text)}
    [] kind = "stop" -> IF list = Unknown THEN list ELSE Stopped(list, i)
    [] kind = "update" -> IF list = Unknown THEN list ELSE {Patched(e, i, text) : e \in list}
    [] kind = "delete" -> IF list = Unknown THEN list ELSE {e \in list : e.id # i}

CurrentAfter(c, kind, i, text) ==
  CASE kind = "start" -> Optimistic(c, kind, text)
    [] kind = "create" -> current
    [] kind = "stop" -> Nothing
    [] kind = "update" ->
         IF current \in {Unknown, Nothing} THEN current ELSE Patched(current, i, text)
    [] kind = "delete" ->
         IF current \in {Unknown, Nothing} \/ current.id # i THEN current ELSE Nothing

\* cancelQueries: the answers of fetches in flight are dropped.
Cancelled(kind) ==
  [q \in Queries |-> IF kind = "create" /\ q = "current" THEN fetch[q] ELSE IdleFetch]

Shown ==
  (IF list = Unknown THEN {} ELSE list) \union (IF current \in {Unknown, Nothing} THEN {} ELSE {current})

\* What a mutation may be called with.
Targets(kind) ==
  CASE kind \in {"start", "create"} -> {First}
    [] kind = "stop" -> {e.id : e \in {x \in Shown : x.run}}
    [] kind \in {"update", "delete"} -> {e.id : e \in Shown}

Mutate(c, kind, i, text) ==
  /\ call[c].phase = "new" /\ \A d \in Calls : call[d].phase = "new" => c <= d
  /\ call' = [call EXCEPT ![c] =
       [kind |-> kind, target |-> i, text |-> text, phase |-> "sent", data |-> Nothing,
        wasCurrent |-> IF kind = "create" THEN Unknown ELSE current, wasList |-> list]]
  /\ list' = ListAfter(c, kind, i, text)
  /\ current' = CurrentAfter(c, kind, i, text)
  /\ fetch' = Cancelled(kind)
  /\ raced' = IF Pending # {} \/ Unknown \in {list, current} THEN "yes" ELSE raced
  /\ UNCHANGED rows
-----------------------------------------------------------------------------
(***************************************************************************)
(* The server, and the answer's way back.                                  *)
(***************************************************************************)

RowsAfter(c) ==
  LET m == call[c] IN
  CASE m.kind = "start" ->
         {[e EXCEPT !.run = FALSE] : e \in rows} \union {[id |-> c, run |-> TRUE, text |-> m.text]}
    [] m.kind = "create" -> rows \union {[id |-> c, run |-> FALSE, text |-> m.text]}
    [] m.kind = "stop" -> Stopped(rows, m.target)
    [] m.kind = "update" -> {Patched(e, m.target, m.text) : e \in rows}
    [] m.kind = "delete" -> {e \in rows : e.id # m.target}

RowOf(c, rs) == {e \in rs : e.id = IF call[c].kind = "start" THEN c ELSE call[c].target}

Accept(c) ==
  /\ call[c].phase \in {"sent", "lost"}
  /\ call[c].kind \notin {"start", "create"} => \E e \in rows : e.id = call[c].target
  /\ call[c].kind = "stop" => \E e \in Running : e.id = call[c].target
  /\ rows' = RowsAfter(c)
  /\ IF call[c].phase = "lost"
     THEN call' = [call EXCEPT ![c] = [NoCall EXCEPT !.phase = "over"]]
     ELSE call' = [call EXCEPT ![c].phase = "accepted",
                               ![c].data = IF call[c].kind \in {"start", "update"}
                                           THEN CHOOSE e \in RowOf(c, rows') : TRUE
                                           ELSE Nothing]
  /\ UNCHANGED <<list, current, fetch, raced>>

\* Mutant: only the current entry is rolled back.
KeepList(c) == list

RestoredList(c) == IF call[c].wasList = Unknown THEN list ELSE call[c].wasList
RestoredCurrent(c) == IF call[c].wasCurrent = Unknown THEN current ELSE call[c].wasCurrent

\* The server refuses; onError, online.
Refuse(c) ==
  /\ call[c].phase = "sent"
  /\ list' = RestoredList(c)
  /\ current' = RestoredCurrent(c)
  /\ call' = [call EXCEPT ![c] = [NoCall EXCEPT !.phase = "over"]]
  /\ UNCHANGED <<rows, fetch, raced>>

\* The request or its answer is lost: onError rolls back, or returns when the
\* browser is offline.  The server may still carry out a request it has got.
Lose(c, online) ==
  /\ call[c].phase \in {"sent", "accepted"}
  /\ list' = IF online THEN RestoredList(c) ELSE list
  /\ current' = IF online THEN RestoredCurrent(c) ELSE current
  /\ call' = [call EXCEPT ![c] =
       IF call[c].phase = "sent"
       THEN [call[c] EXCEPT !.phase = "lost", !.wasList = Unknown, !.wasCurrent = Unknown]
       ELSE [NoCall EXCEPT !.phase = "over"]]
  /\ raced' = "yes"
  /\ UNCHANGED <<rows, fetch>>
-----------------------------------------------------------------------------
(***************************************************************************)
(* onSuccess: the answer, then refetches that it waits for one by one.     *)
(***************************************************************************)

\* Mutant: the answer is prepended whatever the list holds.
Prepended(e) == IF list = Unknown THEN list ELSE list \union {e}

Inserted(e) ==
  IF list = Unknown \/ \E x \in list : x.id = e.id THEN list ELSE list \union {e}

Succeed(c) ==
  LET e == call[c].data IN
  /\ call[c].phase = "accepted"
  /\ call[c].kind # "update"
  /\ list' = IF call[c].kind = "start" THEN Inserted(e) ELSE list
  /\ current' = IF call[c].kind = "start" THEN e ELSE current
  /\ fetch' = [fetch EXCEPT !["list"] = Begun(c)]
  /\ call' = [call EXCEPT ![c] = [NoCall EXCEPT !.phase = "lists"]]
  /\ UNCHANGED <<rows, raced>>

\* An update puts the answer in place and refetches nothing of this.
SucceedUpdate(c) ==
  LET e == call[c].data IN
  /\ call[c].phase = "accepted"
  /\ call[c].kind = "update"
  /\ list' = IF list = Unknown THEN list ELSE {IF x.id = e.id THEN e ELSE x : x \in list}
  /\ current' = IF current \in {Unknown, Nothing} \/ current.id # e.id THEN current ELSE e
  /\ call' = [call EXCEPT ![c] = [NoCall EXCEPT !.phase = "over"]]
  /\ raced' = IF \E q \in Queries : fetch[q].at # "idle" THEN "yes" ELSE raced
  /\ UNCHANGED <<rows, fetch>>

Awaits(c, q) == fetch[q].at # "idle" /\ fetch[q].by = c

RefetchCurrent(c) ==
  /\ call[c].phase = "lists"
  /\ ~Awaits(c, "list")
  /\ fetch' = [fetch EXCEPT !["current"] = Begun(c)]
  /\ call' = [call EXCEPT ![c].phase = "current"]
  /\ UNCHANGED <<rows, list, current, raced>>

End(c) ==
  /\ call[c].phase = "current"
  /\ ~Awaits(c, "current")
  /\ call' = [call EXCEPT ![c].phase = "over"]
  /\ UNCHANGED <<rows, list, current, fetch, raced>>
-----------------------------------------------------------------------------
CallStep(c) ==
  \/ Accept(c) \/ Refuse(c)
  \/ \E online \in BOOLEAN : Lose(c, online)
  \/ Succeed(c) \/ SucceedUpdate(c) \/ RefetchCurrent(c) \/ End(c)

PageNext ==
  \/ \E q \in Queries : Poll(q) \/ Read(q) \/ FetchDone(q) \/ FetchFails(q)
  \/ \E c \in Calls, kind \in Kinds :
       \E i \in Targets(kind), text \in (IF kind = "update" THEN Texts ELSE {NewText}) :
         Mutate(c, kind, i, text)
  \/ \E c \in Calls : CallStep(c)

PageSafety == PageInit /\ [][PageNext]_pageVars

\* A mounted page polls; not every fetch fails; a call that is sent settles
\* and its callbacks run.
PageSpec ==
  /\ PageSafety
  /\ \A q \in Queries : WF_pageVars(Poll(q)) /\ SF_pageVars(Read(q)) /\ SF_pageVars(FetchDone(q))
  /\ \A c \in Calls : WF_pageVars(c \in Pending /\ CallStep(c))
-----------------------------------------------------------------------------
\* The types; and a list has one entry of an id, or the page draws it twice.
PageTypeOK ==
  /\ rows \in SUBSET Entry
  /\ list \in {Unknown} \union SUBSET Entry
  /\ list # Unknown => \A d, e \in list : d.id = e.id => d = e
  /\ current \in {Unknown, Nothing} \union Entry
  /\ \A q \in Queries : fetch[q].at \in {"idle", "sent", "read"} /\ fetch[q].by \in {Timer} \union Calls
  /\ \A c \in Calls :
       call[c].phase \in {"new", "sent", "accepted", "lost", "lists", "current", "over"}
  /\ raced \in {"no", "poll", "yes"}

CacheTrue == list \in {Unknown, rows} /\ current \in {Unknown, ServerCurrent}
Quiet == Pending = {} /\ \A q \in Queries : fetch[q].at = "idle"

\* When no call and no fetch is under way, the page shows what the server has,
\* without waiting for the next poll: after a success, and after a refusal.
\* raced names the exceptions: calls that overlap, a call before the queries
\* have loaded, a lost request or refetch, and an update that succeeds while a
\* poll is in flight.
QuietIsTrue == Quiet /\ raced # "yes" => CacheTrue

RunningBlocks == {e.id : e \in {x \in Shown : x.run}}

\* The page never shows two running entries, unless a poll is begun while a
\* call waits for its answer.
OneRunningBlock == raced = "no" => \A i, j \in RunningBlocks : i = j

\* Polls repair whatever a race has left behind.
PollsRepair == <>[]CacheTrue
=============================================================================
