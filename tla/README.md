# A TLA+ model of OpenTickly

OpenTickly is a self-hosted time tracker: a Go backend over PostgreSQL and
Redis, a React client with an offline service worker, and a few satellites
(landing site, update worker). This directory models the parts whose behaviour
depends on interleaving, failure and order.

## Inventory

**Time entries and the running timer** (`tracking/application`,
`tracking/infra/postgres/store_time_entries.go`, the handlers in
`handler_time_entries.go`). State: the rows of `tracking_time_entries`, one row per
user of `tracking_running_timers` (the *pointer* to the running entry), the
`report_locked_at` of each workspace. Operations: create (stops the current
entry first), update (PUT, PATCH), stop, delete, and the lookup of the current
entry, which reads the pointer, falls back to negative durations and repairs
the pointer. Hard: a handler is a sequence of SQL statements without a
transaction; two devices of one user interleave; any statement may fail. It is
correct when a user has at most one running entry, that entry is the current
one, a stopped or deleted entry never comes back, locked entries do not change
and both encodings of "running" (no stop, negative duration) agree.

**The current-timer cache** (`bootstrap/cache.go`, `platform/redis_client.go`).
State: one Redis key per user, lookups in flight. A read goes through
`CacheAside` (hit; miss, one shared lookup, fill), a write deletes the key in a
call of its own whose error is dropped. It interacts with the timer service
twice: polls fill it, and a create decides on the cached answer whether there
is something to stop. It is correct when what it holds is what the store would
answer, or becomes so within the TTL.

**Session home** (`bootstrap/route_handlers_session_shell.go`,
`route_handlers_invites.go`). State: the user's home, default workspace and
memberships, the organizations. `ensureHome` repairs the home or provisions an
organization on each session bootstrap, under a mutex but without a transaction,
and decides on the list of workspaces it read at the start and on a user that was
read before the lock. It is correct when a person ends up in a workspace of
theirs and gets one organization, whatever fails between its creation and its
memberships.

**Membership** (`membership/application`, `membership/infra/postgres`). State: one
row per person and workspace with its state, its user and its invite token.
Operations: invite, invite again, resend, claim, disable, restore, remove, edit. A
change reads the row, applies the aggregate's transition and saves the whole row
except the user; a claim is one transaction. It is correct when nobody is a member
who did not accept, and every change is one the row may take.

**Identity** (`identity/application`). State: the account (pending, active,
deactivated, its password), the verification link, the reset tokens, the
sessions, the job a deactivation records for a running timer. Operations: signup
(which may take over a pending row nobody confirmed), verification and its
resend, login and logout, edits, request and use of a reset link, deactivation.
All are read-decide-write handlers over single rows, a save writes the whole
row, and a deactivation undoes itself by saving the copy it read.

**Webhooks** (subscriptions, their limit and validation) and **governance**
(timesheets and their reviews, audit log) have the same shape.

**Web client.** `useAutosaveForm` (autosave of a form with one save in flight),
`entity-writes` (a promise chain per entity, kept in a map from entity to last
promise), `useBulkAction` (one mutation per selected row; a ref guards it
against a second click), the optimistic mutations of `web-shell-time-entries.ts`
over the query cache (snapshot, cancel, patch; roll back, or insert the answer and
refetch), and `sw.ts` (a mutation whose fetch fails is queued and replayed in
order by a background sync). A mutation goes through the chain of its entity and
through the service worker; they talk to the backend by HTTP only. The hard
parts are answers that are lost or arrive out of order, a page that is left, a
worker that the browser stops.

**Importing, catalog, tenant, billing, reports, files, reference data,
telemetry, instance administration, SAML, HTTP wiring, landing, update worker,
shared packages**: one-row writes, read-only aggregation, I/O or generated
code; see `PROJECT.json` for the reason each is left out or planned.

Every backend handler that decides on what it reads and writes later shares one
hazard: nothing but single SQL statements is atomic. The properties that make each
planned component correct are listed with its hazards in `PROJECT.json`.

## Modules

| module | models | code |
|---|---|---|
| `TimeEntryRange` | start, stop and duration of an entry | `normalizeTimeEntryRange`, the merge in `UpdateTimeEntry` |
| `RunningTimer` | the promise to one user: start, record, stop, delete | abstract |
| `TimerService` | the handlers over the tables, statement by statement | `tracking/application`, `store_time_entries.go`, `handler_time_entries.go` |
| `CachedTimerService` | the same behind the Redis cache | `bootstrap/cache.go`, `platform/redis_client.go` |
| `AutosaveForm` | the autosave hook | `useAutosaveForm.ts` |
| `SerialWrites` | the promise of the write queue: writes of one entity one after the other | abstract |
| `EntityWrites` | the chain of promises per entity | `entity-writes.ts` |
| `OfflineQueue` | the queue of failed mutations and its replay | `sw.ts` |
| `ClientWrites` | `EntityWrites` over `OfflineQueue`: an operation is a request | both |
| `BulkAction` | the hook of bulk actions and the selection of a page | `useBulkAction.ts`, `ClientsPage.tsx`, `ClientsBulkBar.tsx` |
| `BulkWrites` | `BulkAction` over `EntityWrites`: each id of a batch is a write | both |
| `PageCache` | current entry and list in the query cache, polls, five mutations | `web-shell-time-entries.ts` |
| `AccountLife` | the promise about one account: pending, active, closed | abstract |
| `Account` | the handlers of one account, statement by statement | `identity/application` |
| `MemberLife` | the promise about one membership row | abstract |
| `Membership` | the rows of one person and the handlers that change them | `membership/application`, `membership/infra/postgres` |
| `SessionHome` | session bootstrap, signup and claim over `Membership` | `route_handlers_session_shell.go`, `route_handlers_invites.go` |
| `MC...` | small instances for TLC | |
| `..._proofs` | the theorems | |

**`TimerService`.** A request is a program counter (`pc`) with the locals of the
Go handler; the labels are the points between two SQL statements. `entries`,
`pointer` and `lockAt` are the tables. An action is one statement with the
decision that follows it, so every interleaving that PostgreSQL's autocommit
allows is a behaviour, and `Abort` ends a handler at any label: a failing
statement, a cancelled request and a crash all leave exactly the statements made
so far. The create runs `lookup` (its current entry), then `get`, `lock`,
`write`, `clear` for the auto-stop, then `insert`, `point`; the stop is a read
followed by the update it calls; the update's copy of the row, taken at `get`, is
what `write` puts back. `repair` is the store writing the pointer inside a
read.

Data that no property tells apart is left out: the description, project, tags and
billable flag are the empty edit (it still rewrites the row); a bulk PATCH is a
sequence of updates, each of which ends before the next begins. One user is
enough, since every statement filters on `user_id`.

**`CachedTimerService`** extends it. `call` is a request's place in `CacheAside`
(lookup as leader, waiting for a leader, about to store the answer), `purge` says
that a write has committed and its key is still to be deleted. The module reuses
the handlers' actions and decides only when they may run; `singleflight` works
within one process, which is how the backend is deployed.

**`AutosaveForm`.** A whole form is one value. The actions are the callbacks and
effects of the hook; the render caused by an action is part of it. The form
library, the query cache and the server are external and modelled as the hook
uses them: `isDirty` compares with the last reset, a save may be applied and its
answer lost, other clients write too.

**`EntityWrites`.** A write is a call of `writeEntity`. `tail` is the map of the
query client, `previous` the promise a call was chained to, `phase` the state of
the promise it returned; each action is one synchronous call or one promise
callback, and callbacks of different promises come in any order. `earlier`
remembers what was unsettled when the call was made: it is the abstract `ahead`
of `SerialWrites`.

**`OfflineQueue` and `ClientWrites`.** `flight` is the fetch of a request, `queued`
the persistent queue, `hand` what `onSync` has shifted off it. A fetch or a replay
can fail before or after the server has seen it; the browser may stop the
worker, which loses `hand`, and drop what is older than the retention time. Both
are histories (`lost`), so the properties say that nothing else is lost from the
queue. A request the server had not seen when its page or the worker gave up on it
is still on the way: `late` counts such copies, and `HandleLate` may carry one out at
any time or never. `applied` is the order in which the server carried requests out.

**`BulkAction` and `BulkWrites`.** `selection`, `running` and the outcome of each id
of each batch; `Leave` unmounts the page while a batch goes on. In `BulkWrites` the
calls of a batch are made before the next event (`AllCalled`), since they are
microtasks of one click; their order among themselves is free.

**`PageCache`.** `list` and `current` are the data of two queries, `fetch` the
request each has in flight, `call` a mutation with the snapshot its `onMutate`
took. The server is one set of rows that a request changes at once: the races
inside the server are the business of `TimerService`. `raced` is a history of the
situations in which the page may be wrong until the next poll.

**`Account`.** As in `TimerService`, a handler is a label and the copy of the user it
read, with one statement, mail or lookup between two labels. Every save is of
the whole row. Passwords are model values, a new one is one nobody has used, and a
session or link remembers the password of the row it was made for. Whether
mails are required, whether a mail fails and how old a link is are choices.
`overlapped`, `crashed` and `misread` are histories that name the exceptions of the
properties.

**`Membership` and `SessionHome`.** The rows are those of one person: in a workspace
that is shared and in the organizations provisioned for them. A manager's
request is a read and a write (`request`); a claim is one transaction. `boot` is a
session bootstrap of a device: it waits for the mutex, lists, and then goes
through the statements of `ensureHome` and `ensureDefaultWorkspace`. `disturbed`
marks the bootstraps since whose begin others have written; `Restores`,
`Accepts`, `Selected` and `DefaultKept` are the decisions of the code as operators.

## Runs

| run | instance | what it shows |
|---|---|---|
| `SerialTimer` | 1 request at a time, 3 entries, 2 workspaces | any history of one device, with a failure at any statement and a moving report lock: one running entry at most, it is the current one, nothing stopped runs again, and `TimerService` implements `RunningTimer` |
| `ConcurrentTimer` | 2 requests, 2 entries | what survives any interleaving: rows are consistently running or stopped, deletion is final |
| `Polling` | 1 request, 2 entries, all durations | a lock nobody moves protects entries; polls restore a lost pointer |
| `CachedAlone` | cache, 1 request, no lost deletion | the cache is invisible and the refinement carries over |
| `CachedPolls` | cache, a writer and 2 pollers, lost deletions | nobody waits for a lookup that is gone; a false answer does not outlive the TTL |
| `Autosave` | 3 contents | what a dirty form holds is never silently dropped, and settles |
| `ClientWrites` | 2 writes of one entity, 2 failing replays, 1 stop of the worker, 1 expiry | the replay keeps order and loses only what the browser drops; a write is carried out after a newer one only if the page was told that it failed, however late requests arrive; the queue empties |
| `BulkWrites` | 2 batches over 2 clients | no id is in two batches of a page at a time; the end of a batch leaves selected what it has not carried out; every batch ends; the chain implements `SerialWrites`, with its liveness |
| `PageCache` | 2 calls of any kind, 2 texts, with or without a running entry | after a success or a refusal the page agrees with the server without a poll; one running entry is shown; polls repair the rest |
| `Accounts` | 2 handlers, 2 passwords, 3 reset links | alone, the handlers implement `AccountLife` wherever they fail; a link confirms the credentials it was mailed for; a reset leaves no old session; the limit of reset links |
| `Homes` | 2 devices, 1 manager, 2 invites, 3 organizations, 1 failure | members have accepted; an undisturbed bootstrap leaves a reachable home; nobody with a workspace gets another; ownerless organizations come from failures |

Local conditions are kept inside the type invariants because the proofs rest on
them. Each property has a mutant in its module, a plausible slip in that code,
under which its run fails.

One run ends in a counterexample, a statement of the repository that the code does
not keep. `TwoStarts`: "at most one running timer" (`regressions_test.go:105`). Two
creates both look up before either inserts. No constraint forbids the second
row.

What is true of one actor and false of two shows where each boundary lies:

- `AtMostOneRunning`, `StoppedStaysStopped` and `LockedEntriesImmutable` hold for one
  request, the last one under a lock nobody moves. An update that read a running entry writes its
  copy back after another device's stop, against
  `regressions_test.go:23-25`; a lock that is set between a handler's check and
  its write does not stop the write, against `service.go:95-96`.
- The 400 for a null stop advises a negative duration
  (`handler_time_entries.go:394`), but the range rules let the stop win and the
  entry stays stopped (`NormalizeRange`).
- `CacheIsTrue` needs one request at a time: a poll looks, a create writes and
  deletes the key, the poll stores "nothing runs", and the next create has
  nothing to stop. `CacheBecomesTrue` bounds this by the TTL.
- `DirtyInputIsSubmitted` speaks of dirty forms. A save that is acknowledged under
  newer edits leaves the defaults old; when the save of the newer edits fails, an
  edit back to the defaults looks clean and is neither sent nor reported, against
  `continuous-operations.md:9-10`. `ReliableInputIsNeverLost` shows that a failed
  save is needed.
- `QueueInv` is about order and loss only. A request whose answer was lost is sent
  again, and one whose connection broke may arrive after all; either may overwrite an
  edit made in between. `OnlyFailedWritesAreOvertaken` says that this happens to failed
  writes only: `writeEntity` releases the next write on a rejection, and nothing tells
  the server that the page has moved on.
- `LinkMatchesCredentials` excepts `misread`: a failed lookup of the link counts as
  no link (`registration.go:183-186`), so the row is taken over under a live link,
  which the comment at 163-171 rules out for a successful lookup.
- `BulkInv` is about the clients page, which holds the hook itself. On the projects
  page the bar holds it (`ProjectsBulkBar.tsx:26`) and is unmounted when the
  selection becomes empty (`ProjectsPage.tsx:454-468`); deselecting and
  selecting rows during a batch gives a fresh hook that can submit the same
  ids again, against `continuous-operations.md:24-26`.
- `ProvisionsOnlyTheHomeless` looks at the moment of provisioning. A signup by an
  invite bootstraps its session before it claims the invite
  (`route_handlers_invites.go:78-101`), so it provisions a personal organization
  and makes it the home; the claim's home insert then finds one. The comments at
  `store.go:455-458` and `service.go:341-343` expect the shared workspace.
- `Listed` has the workspaces whose row has a user and is not removed. An invite of
  an existing account sets the user at once, so a workspace that was not yet
  accepted, or whose membership is disabled, may become the home;
  `HomeIsReachable` says that the home is listed, not that it was accepted.

### Bounds

- Requests: two in flight show every race of a pair of statements; the passing
  `ConcurrentTimer` needs nothing more, its properties are proved for any number.
- Entries: three allow a running, a stopped and a deleted one together with a
  pointer on any of them; two are enough for a race. Ids are not reused, so they
  bound the number of creates. Two workspaces give two locks.
- Times: 1 and 2. They allow equal, ordered and reversed start and stop and a lock
  before and after a start. Durations are -1 (running), 0 and 1; runs that do
  not depend on the length take only -1.
- `CachedPolls` uses one time: the cache does not look at
  it. The pollers are symmetric but the run checks liveness, so no symmetry is
  used there or in `Polling` and `Autosave`.
- Three contents of a form: what it was, what is being saved, what is typed now.
- `ClientWrites`: two writes of one entity are enough for an overtaking; two
  failures let a replay fail twice (`MaxFailures`), so up to four copies of a
  request travel; one stop (`MaxStops`) and one expiry (`MaxExpired`) can each come at
  any step.
- `BulkWrites`: two batches, so two writes of each entity. The comparison in the
  release callback matters only to a third; it is covered by the proof, which is
  for any number.
- `PageCache`: two calls (`MaxCalls`) are enough for a snapshot to hold another
  call's optimistic entry. Rows beside the running one would be treated alike.
- `Accounts`: the second handler can come between any two statements of the first.
  `ResetLimit` is 1 and `MaxResets` 3, so the limit can be passed by one overlap and
  again in the next hour. No wider overlap is checked.
- `Homes`: `MaxWorkspaces` 3 is the shared workspace and two provisioned ones, which
  a race of two devices needs. `MaxTokens` 2 allows a resend and a re-invite after a
  removal, `MaxFailures` 1 a failure at any statement. `Administered` restricts
  managers to the shared workspace: nobody else's requests touch a personal
  organization.

**Starts are after the epoch.** A running entry stores -(start) as its duration,
and the fallback query looks for a negative one. An entry that starts at or before
1970-01-01 is not found by it, so `RunningEntryIsCurrent` fails there after a
failure between insert and pointer. The runs use positive times and the serial
theorems assume them (`PositiveTimes`); the hazard is listed.

### Fairness

- `PollingFairness`: every open web client polls the current entry, so a poll is
  begun again and again (`BeginCurrent`, weak). A poll may fail at each statement,
  so its steps are strongly fair: not every retry fails at the same place. The
  property is about histories that end in polls only.
- `ExpiringSpec`: only `Expire` is fair, because Redis drops the key after the TTL.
  No handler is assumed to make progress: deletions may be lost forever.
- `FairSpec` of the form: a `setTimeout` fires and a request settles one way or
  the other. Nothing is assumed about the user or the server. An edit restarts the
  debounce; a user who types forever never fires it and the property allows that.

- `ClientSpec`, `BulkWritesSpec`: promise callbacks run, and a request is answered or
  fails. The worker's steps happen in time, and a background sync is tried again.
  Nothing is assumed about the user, nor that a replay succeeds: the failures are
  bounded.
- `PageSpec`: a mounted page polls (`refetchInterval`), a call that was sent settles
  and its callbacks run. A poll may fail again and again, so reading and
  finishing are strongly fair.
- `Account` and `SessionHome` state no liveness: their handlers may fail or stop
  anywhere and are not retried.

Deadlock is checked in the runs of the timer, the cache, the form and the page. In
`ClientWrites`, `BulkWrites`, `Accounts` and `Homes` it is not: there the user, or
everybody, may be done for good.

## Proofs

- `TimerService_proofs`: for any number of requests, entries, workspaces and any
  times, with failures anywhere: `TypeCorrect`, `RowsAreWellFormed`,
  `DeletionIsFinal`. `RowsWellFormed` is not inductive, since a handler writes back
  its copy: `RowsSound` adds that every copy and every row about to be inserted is
  well formed. `TypeOK` says which locals a label has filled (`LocalsOK`) and that
  a copy is of an existing entry (`CopyOK`); without that a write could be typed
  wrongly.
  The same module goes on, assuming that there is one request handler
  (`Serial`) and that times are positive (`PositiveTimes`): `SerialOneTimer`,
  `SerialCurrentIsRunning`, `SerialStoppedStaysStopped` and
  `SerialImplementsRunningTimer`. The inductive invariant is `SerialInv`:
  `RunningEntryIsCurrent` makes the lookup and the rows agree between requests,
  `KnowsEntry` and `KnowsCurrent` say that what a handler remembers is still
  true, and `StopsBeforeStarting` that a create reaches its insert only with
  nothing running. Two starts, and an update across a stop, are the two ways in
  which a second request breaks it. The refinement follows step by step: `InsertEntry` is
  `Start` or `Record`, `WriteEntry` is `Stop` or a stutter, `MarkDeleted` is
  `Delete`, everything else stutters.
  `LockedEntriesStay` (`LockedEntriesImmutable`) assumes `Serial` and a report lock
  nobody moves (`SteadyLockSpec`), but nothing about times. Its inductive invariant is
  `LockInv`: a handler at the check holds the row as it stands, and from the check to
  its write the row in the table passes the lock. A second request that moves the
  start of the entry in between breaks it, and so does an administrator.
- `CachedTimerService_proofs`: for any requests and pollers and whatever call fails,
  `FlightsAreSound` (`CacheInv`), and `CachedRowsAreWellFormed` and
  `CachedDeletionIsFinal`: a stale answer never makes the service store what it
  would not store without the cache. The proofs reuse those of `TimerService`:
  an answer that came out of the cache is typed like one of the store, and every
  other step is the service's own. With `Serial`, `PositiveTimes` and no lost
  deletion of the key (`ReliableSpec`), `CacheIsInvisible` (`CacheIsTrue`) and
  `CachedImplementsRunningTimer`. The inductive invariant is `AloneInv`: `CacheIsTrue`
  says what a hit answers, and `SeenIsTrue` that an answer on its way into the
  cache is still the store's: nobody else writes between the lookup and the fill.
- `AutosaveForm_proofs`: `FormTypeCorrect`, `DirtyInputIsNeverLost` for any
  contents and failures, and `ReliableInputIsNeverLost`: without failed saves
  the stronger `InputIsSubmitted` holds, with `IdleDefaultsAreSaved` as the
  missing half of the induction.
- `EntityWrites_proofs`: for any writes and entities, whatever fails:
  `ChainIsSound`, `WritesAreSerial` (`OneWriteAtATime`) and
  `WritesImplementSerialWrites`, the safety of `SerialWrites`. The inductive invariant
  `ChainInv` says that the map, and the promise a call was chained to, lead to
  every unsettled write that was called before (`TailCoversUnsettled`,
  `PreviousCoversEarlier`): without it, waiting for one promise would not be
  waiting for all of them. Of bulk actions: `BulkIsSound` (`BulkInv`) and
  `BatchEndsKeepTheChoice` (`EndKeepsChoice`), for any ids and batches. They need
  `BatchesFollowRunning`: a batch of this page that has not ended is the one the
  hook is busy with, and the selection is still what was submitted to it.
- `ClientWrites_proofs`: for any requests, whatever fetches, replays and workers
  fail and however late a request arrives: `QueueIsSound` (`QueueInv`), `ClientIsWrites`
  and `OnlyFailedAreOvertaken` (`OnlyFailedWritesAreOvertaken`). The queue needs that a request in hand whose replay
  went through was delivered (`HandDelivered`). The client is `EntityWrites` step by
  step, so `ChainInv` holds of it; the order at the server needs how far a fetch is
  in each phase of its promise (`FlightOfPhase`), that what is late or queued is of a
  request that failed, or is about to (`LateWasGivenUp`, `PushedFailed`), and that only
  what has begun reached the server (`AppliedWasBegun`).
- `SessionHome_proofs`: for any number of managers, devices, workspaces, invites and
  failures. `MembersHaveEntered` (`MembersEntered`) rests on `EnteredInv`: a copy of a
  row that a manager's request holds makes a member only of somebody who entered, or
  is of a workspace that is gone (`CopiesEntered`, `GoneHaveNoRow`). `HomeTypeCorrect`
  (`HomeTypeOK`) needs that the listed workspaces, numbers, have a first one.
  `HomeStaysReachable` (`HomeIsReachable`) and `OnlyTheHomelessAreProvisioned`
  (`ProvisionsOnlyTheHomeless`) rest on `HomeInv`: one bootstrap at a time holds the
  mutex, a write by somebody else disturbs every bootstrap under way, and what an
  undisturbed one has read is still true (`Knows`): either the default it was called
  with is the user's, or the bootstrap before it has saved one that is listed.
  `MembershipsLive` (`AloneMembersLive`), the refinement of `MemberLife` by the row of
  each workspace, rests on `LifeInv`: while requests have not overlapped, at most one
  manager's request is under way and the copy it is about to save fits the row
  (`SavesAreFresh`). The owner that a bootstrap adds enters an empty workspace: it is
  still nobody's (`OwnersAreDue`), and what nobody has entered has no row and no request
  about it (`UnenteredAreEmpty`).
- `PageCache_proofs`: for any number of calls, any texts and any kinds of mutations,
  whatever is lost: `PageTypeCorrect` (`PageTypeOK`), `QuietPageIsTrue` (`QuietIsTrue`)
  and `OneBlockRuns` (`OneRunningBlock`), assuming `PageAssumption` and that the marks
  for no data are no data (`NoData`). That a list has one entry of an id needs, in
  `PageInv`, that what a fetch has read and what a rollback would bring back have one
  too, among the ids made so far (`AnswersFit`, `ContextsFit`). `QuietIsTrue` says nothing
  while a call is under way; `CalmInv` says what is true then: calls come one by one,
  and `PhaseFits` gives, for each phase of the one call, how the page and the answers in
  flight differ from the server: a rollback restores what the server has, the answer of
  an update put in place gives what it has, and a query that is not yet right is about
  to be refetched. `NoRaceInv` adds that no fetch is in flight that could bring back a
  running entry while a start, stop or deletion waits for its answer (`CallShows`), and
  that otherwise what the page shows running runs at the server (`ShowsRunning`).
  `OrphansComeFromFailures` (`OrphansAreFailures`) counts: with one bootstrap making
  a workspace at a time, those nobody is making any more (`Abandoned`) are at most
  as many as the failures, and no row goes back to none (`RowsStay`).
- `Account_proofs`: for any number of handlers, passwords and links.
  `AccountTypeCorrect` (`AccountTypeOK`) rests on `TypeInv`: which labels carry a
  new password and which the one of a saved row (`CopyFits`). `LinksMatchCredentials`,
  `ResetsRevokeSessions`, `ClosedTimersHaveJobs` and the refinement of `AccountLife`,
  `HandlersAloneLive` (`AloneItLives`), are about handlers that do not overlap and rest on
  `AccountIInv`: what the handler under way has read is still the row
  (`Agrees`, label by label), a retired password is not the current one, and only a
  handler that knows of it leaves a closed account with a timer and no job
  (`ClosingFits`). `ResetsStayLimited` (`ResetsAreLimited`) needs no such condition:
  `LimitInv` counts the handlers about to save a link as if they had. It assumes that
  there are finitely many handlers (`AccountAssumption`).

Only model-checked: the liveness properties (`PollsRestorePointer`,
`CacheBecomesTrue`, `DirtyInputSettles`, `QueueEmpties`, `BatchesEnd`, `PollsRepair` and
the fairness of `SerialWrites`, whose safety is proved), which are out of the prover's
reach. Every invariant and every other action property that a run checks is a theorem.

## Not modelled

Search, lists and suggestions of time entries only read. The CSV import inserts
rows beside the service, in one transaction and without pointer or cache; a row of it
without an end, or with a duration of its own, need not be well formed, so the
properties of rows are about those the service writes (the hazard is listed). The decorators that cache users and
other objects are instances of the same `CacheAside` and not modelled separately.
A save of a form that reported failure may still reach the server later; the
model lets a save be applied only until it settles. A report of a stopped entry
as current, after a failure between the write and the clearing of the pointer,
is possible and allowed: the properties say that a running entry is found, not
that what is found runs.

Client: the three-second network timeout of the service worker has no effect
on mutations, which have no cached answer to fall back to. Browsers without
background sync (they replay when the worker starts), the counter of the offline
banner and other devices of the user are left out of the client modules.
TanStack Query and Workbox are external, modelled as the code uses them. An
operation's wait for its invalidated queries is part of its answer. Bulk edits of
time entries (`web-shell-time-entry-bulk.ts`) are not modelled, nor are the
pages: they render.

Identity: single sign-on, change of the address, push services, the
administrator's disabling and restoring of users, and deleted users. `Deactivate` asks
for an active account: its caller is signed in. A second closing that was
authenticated before the first one saved would save the closed account again; it is
not modelled. Session home: a person's own profile save may write
`default_workspace_id`, unchecked or from the row it read; `HomeIsReachable` is about
what bootstraps and memberships do to it. Membership:
organization invitations, members added by SAML, workspaces created or deleted
within an organization. `DeleteOrganization` reads the home and deletes in one step.

Webhooks, governance, importing, catalog, tenant and billing, reports, files,
instance administration: `PROJECT.json` gives the reason for each component that has
no module. Most of the TypeScript by size is generated contracts and rendering,
which have no state of their own; the modules cover the part of the code in which
order and failure matter.

## Plan

Next, each with its abstract specification or invariant first:

1. `WebhookLimit` and `TimesheetReview`: the limit of enabled subscriptions under
   concurrent creates and updates; reviews that two reviewers append to the timesheet
   they read; which transitions a status may take.
2. `ImportJob`: the import, its status and a failure between them; the rows it
   inserts beside the service, composed with `TimerService`.
3. The projects page and the bulk edits of time entries over `BulkAction`.
4. Rounding and recurring periods as operators against a reference definition.

Proofs to add: the invariants of each of these modules with the module. For the present
ones every safety property is proved; what may still be proved is that fewer assumptions
do, such as the immutability of locked entries for requests that overlap but do not move
the start of an entry.
