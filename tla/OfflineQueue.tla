---------------------------- MODULE OfflineQueue ----------------------------
(***************************************************************************)
(* The service worker's handling of mutations: it passes a request on to   *)
(* the network and queues it when the fetch fails; a background sync       *)
(* replays the queue, oldest first.  The queue is kept in IndexedDB and    *)
(* survives the worker, the request in hand does not.  A request given up  *)
(* by its sender may still reach the server, at any time.  Workbox, the    *)
(* browser's sync events, the network and the server are external,         *)
(* modelled as sw.ts uses them.                                            *)
(***************************************************************************)
EXTENDS Naturals, Sequences

CONSTANTS
  Requests,
  MaxFailures,  \* bound: replays that fail
  MaxStops,     \* bound: times the browser stops the worker
  MaxExpired    \* bound: requests that outlive the retention time

ASSUME OfflineBounds == MaxFailures \in Nat /\ MaxStops \in Nat /\ MaxExpired \in Nat

VARIABLES
  flight,      \* of each request of a page: how far its fetch has come
  late,        \* of each request: copies on the way that nobody waits for
  queued,      \* the queue "offline-mutations"
  hand,        \* the request onSync has shifted, or nothing
  handHandled, \* the server has processed it
  syncing,     \* onSync runs
  registered,  \* a sync event is due
  applied,     \* history: what the server carried out, in order
  pushed,      \* history: what was queued, in order
  finished,    \* history: what left the queue for good, in order
  delivered,   \* history: requests a replay of which reached the server
  lost,        \* history: requests the queue gave up (a late copy may still arrive)
  failures, stops, expired  \* counts for the bounds

replayVars == <<hand, handHandled, syncing>>
boundVars == <<failures, stops, expired>>
historyVars == <<applied, pushed, finished, delivered, lost>>
offlineVars == <<flight, late, queued, replayVars, registered, historyVars, boundVars>>

OfflineInit ==
  /\ flight = [r \in Requests |-> "new"]
  /\ late = [r \in Requests |-> 0]
  /\ queued = <<>> /\ hand = <<>>
  /\ handHandled = FALSE /\ syncing = FALSE /\ registered = FALSE
  /\ applied = <<>> /\ pushed = <<>> /\ finished = <<>>
  /\ delivered = {} /\ lost = {}
  /\ failures = 0 /\ stops = 0 /\ expired = 0

InFlight == {"sent", "accepted", "refused"}

\* The senders stop waiting for a copy of each of these requests.
GiveUp(rs) == late' = [r \in Requests |-> late[r] + IF r \in rs THEN 1 ELSE 0]

\* The request in hand, if the server has not processed it.
Unhandled == IF hand # <<>> /\ ~handHandled THEN {hand[1]} ELSE {}

\* The server carries out what it accepts.
Apply(r, verdict) == applied' = IF verdict = "accepted" THEN Append(applied, r) ELSE applied

\* A page sends a mutation; mutationMatcher routes it to the network.
Fetch(r) ==
  /\ flight[r] = "new"
  /\ flight' = [flight EXCEPT ![r] = "sent"]
  /\ UNCHANGED <<late, queued, replayVars, registered, historyVars, boundVars>>

\* The server carries the request out, or refuses it with an error status.
Handle(r, verdict) ==
  /\ flight[r] = "sent"
  /\ flight' = [flight EXCEPT ![r] = verdict]
  /\ Apply(r, verdict)
  /\ UNCHANGED <<late, queued, replayVars, registered, pushed, finished, delivered, lost, boundVars>>

\* It does so with a copy of a request that failed for its sender.
HandleLate(r, verdict) ==
  /\ late[r] > 0
  /\ late' = [late EXCEPT ![r] = @ - 1]
  /\ Apply(r, verdict)
  /\ UNCHANGED <<flight, queued, replayVars, registered, pushed, finished, delivered, lost, boundVars>>

\* The answer reaches the page, whatever its status.
Answer(r) ==
  /\ flight[r] \in {"accepted", "refused"}
  /\ flight' = [flight EXCEPT ![r] = "answered"]
  /\ UNCHANGED <<late, queued, replayVars, registered, historyVars, boundVars>>

\* The fetch throws, before or after the server has seen the request: the
\* plugin queues it and the error goes on to the page.
FetchFails(r) ==
  /\ flight[r] \in InFlight
  /\ flight' = [flight EXCEPT ![r] = "failed"]
  /\ GiveUp(IF flight[r] = "sent" THEN {r} ELSE {})
  /\ queued' = Append(queued, r)
  /\ pushed' = Append(pushed, r)
  /\ registered' = TRUE
  /\ UNCHANGED <<replayVars, applied, finished, delivered, lost, boundVars>>

\* The page gets the error of a fetch whose worker was stopped.
FetchCut(r) ==
  /\ flight[r] = "cut"
  /\ flight' = [flight EXCEPT ![r] = "failed"]
  /\ UNCHANGED <<late, queued, replayVars, registered, historyVars, boundVars>>

SyncStarts ==
  /\ registered /\ ~syncing
  /\ syncing' = TRUE
  /\ registered' = FALSE
  /\ UNCHANGED <<flight, late, queued, hand, handHandled, historyVars, boundVars>>

Shift ==
  /\ syncing /\ hand = <<>> /\ queued # <<>>
  /\ hand' = <<Head(queued)>>
  /\ queued' = Tail(queued)
  /\ handHandled' = FALSE
  /\ UNCHANGED <<flight, late, syncing, registered, historyVars, boundVars>>

\* shiftRequest drops a request that has waited for longer than maxRetentionTime.
Expire ==
  /\ syncing /\ hand = <<>> /\ queued # <<>>
  /\ expired < MaxExpired
  /\ expired' = expired + 1
  /\ queued' = Tail(queued)
  /\ finished' = Append(finished, Head(queued))
  /\ lost' = lost \union {Head(queued)}
  /\ UNCHANGED <<flight, late, replayVars, registered, applied, pushed, delivered, failures, stops>>

ReplayHandled(verdict) ==
  /\ hand # <<>> /\ ~handHandled
  /\ handHandled' = TRUE
  /\ delivered' = delivered \union {hand[1]}
  /\ Apply(hand[1], verdict)
  /\ UNCHANGED <<flight, late, queued, hand, syncing, registered, pushed, finished, lost, boundVars>>

\* Mutant: an error status puts the request back, as a failed fetch does.
ReplayDoneIfAccepted ==
  /\ hand # <<>> /\ handHandled
  /\ hand' = <<>>
  /\ handHandled' = FALSE
  /\ IF \E i \in DOMAIN applied : applied[i] = hand[1]
     THEN finished' = finished \o hand /\ UNCHANGED <<queued, syncing, registered>>
     ELSE /\ queued' = hand \o queued
          /\ syncing' = FALSE /\ registered' = TRUE
          /\ UNCHANGED finished
  /\ UNCHANGED <<flight, late, applied, pushed, delivered, lost, boundVars>>

\* The fetch resolves, with whatever status, and the loop goes on.
ReplayDone ==
  /\ hand # <<>> /\ handHandled
  /\ hand' = <<>>
  /\ handHandled' = FALSE
  /\ finished' = finished \o hand
  /\ UNCHANGED <<flight, late, queued, syncing, registered, applied, pushed, delivered, lost, boundVars>>

\* Mutant: the request is put back at the end.
ReplayFailsToTheEnd ==
  /\ hand # <<>>
  /\ failures < MaxFailures
  /\ failures' = failures + 1
  /\ queued' = queued \o hand
  /\ hand' = <<>> /\ handHandled' = FALSE /\ syncing' = FALSE
  /\ registered' = TRUE
  /\ GiveUp(Unhandled)
  /\ UNCHANGED <<flight, historyVars, stops, expired>>

\* The fetch throws, before or after the server has seen the request:
\* unshiftRequest puts it back and onSync throws, so the browser tries again.
ReplayFails ==
  /\ hand # <<>>
  /\ failures < MaxFailures
  /\ failures' = failures + 1
  /\ queued' = hand \o queued
  /\ hand' = <<>> /\ handHandled' = FALSE /\ syncing' = FALSE
  /\ registered' = TRUE
  /\ GiveUp(Unhandled)
  /\ UNCHANGED <<flight, historyVars, stops, expired>>

\* The loop finds the queue empty; the pages are told.
SyncEnds ==
  /\ syncing /\ hand = <<>> /\ queued = <<>>
  /\ syncing' = FALSE
  /\ UNCHANGED <<flight, late, queued, hand, handHandled, registered, historyVars, boundVars>>

\* The browser stops the worker: fetches in flight are cut off unqueued, a sync
\* is due again, but the request in hand was in memory only.
WorkerStops ==
  /\ stops < MaxStops
  /\ stops' = stops + 1
  /\ flight' = [r \in Requests |-> IF flight[r] \in InFlight THEN "cut" ELSE flight[r]]
  /\ GiveUp({r \in Requests : flight[r] = "sent"} \union Unhandled)
  /\ registered' = (registered \/ syncing)
  /\ finished' = finished \o hand
  /\ lost' = lost \union Unhandled
  /\ hand' = <<>> /\ handHandled' = FALSE /\ syncing' = FALSE
  /\ UNCHANGED <<queued, applied, pushed, delivered, failures, expired>>

WorkerStep ==
  \/ SyncStarts \/ Shift \/ Expire
  \/ \E verdict \in {"accepted", "refused"} : ReplayHandled(verdict)
  \/ ReplayDone \/ ReplayFails \/ SyncEnds

\* The steps of the browser, the worker and the server that happen in time.
WorkerFairness ==
  /\ WF_offlineVars(SyncStarts) /\ WF_offlineVars(Shift) /\ WF_offlineVars(SyncEnds)
  /\ WF_offlineVars(\E verdict \in {"accepted", "refused"} : ReplayHandled(verdict))
  /\ WF_offlineVars(ReplayDone)
-----------------------------------------------------------------------------
\* A request waits only while a sync runs or is due.
SyncIsDue == queued # <<>> => syncing \/ registered

\* The types, and what the worker's fields say of each other: a request is in
\* hand only during a sync, and none is left waiting with no sync due.
OfflineTypeOK ==
  /\ flight \in [Requests -> {"new", "cut", "answered", "failed"} \union InFlight]
  /\ queued \in Seq(Requests) /\ pushed \in Seq(Requests) /\ finished \in Seq(Requests)
  /\ hand \in {<<>>} \union {<<r>> : r \in Requests}
  /\ handHandled \in BOOLEAN /\ syncing \in BOOLEAN /\ registered \in BOOLEAN
  /\ late \in [Requests -> Nat]
  /\ applied \in Seq(Requests)
  /\ delivered \subseteq Requests /\ lost \subseteq Requests
  /\ failures \in Nat /\ stops \in Nat /\ expired \in Nat
  /\ hand # <<>> => syncing
  /\ handHandled => hand # <<>>
  /\ SyncIsDue

\* The replay keeps the order of the queue, whatever fails in between, and no
\* request is forgotten: what was queued is what left the queue, then what is
\* in hand, then what waits.
QueueKeepsOrder == pushed = finished \o hand \o queued

\* A request leaves the queue because the server got it, or it expired, or the
\* worker was stopped with it in hand: never because a replay failed.
LeavesDelivered ==
  \A i \in DOMAIN finished : finished[i] \in delivered \union lost

\* The queue is sound under failing fetches and replays, stops of the worker and
\* expiry.
QueueInv == OfflineTypeOK /\ QueueKeepsOrder /\ LeavesDelivered

\* Once the failures end, everything queued is replayed.
QueueEmpties == []<>(queued = <<>> /\ hand = <<>>)
=============================================================================
