---------------------------- MODULE ClientWrites ----------------------------
(***************************************************************************)
(* The queue of writes of a page on top of the service worker: the         *)
(* operation of a write is one request, and it settles as its fetch does.  *)
(***************************************************************************)
EXTENDS EntityWrites, OfflineQueue

ASSUME EveryWriteIsARequest == Requests = Writes

clientVars == <<writeVars, offlineVars>>

ClientInit == WritesInit /\ OfflineInit

\* The operation of a mutation hook: its request.
StartRequest(w) == StartOperation(w) /\ Fetch(w)

\* The answer settles the promise by its status.
GetAnswer(w) ==
  /\ Settle(w, IF flight[w] = "accepted" THEN "resolved" ELSE "rejected")
  /\ Answer(w)

GetError(w) == Settle(w, "rejected") /\ (FetchFails(w) \/ FetchCut(w))

ClientNext ==
  \/ \E w \in Writes :
       \/ (WriteEntity(w) \/ Release(w)) /\ UNCHANGED offlineVars
       \/ StartRequest(w)
       \/ \E verdict \in {"accepted", "refused"} :
            (Handle(w, verdict) \/ HandleLate(w, verdict)) /\ UNCHANGED writeVars
       \/ GetAnswer(w)
       \/ GetError(w)
  \/ (WorkerStep \/ WorkerStops) /\ UNCHANGED writeVars

ClientSafety == ClientInit /\ [][ClientNext]_clientVars

\* Promise callbacks run, a request is answered or fails, and the worker's
\* steps happen in time; nothing is assumed about the user.
ClientSpec ==
  /\ ClientSafety
  /\ \A w \in Writes :
       /\ WF_clientVars(StartRequest(w))
       /\ WF_clientVars(Release(w) /\ UNCHANGED offlineVars)
       /\ WF_clientVars(GetAnswer(w) \/ GetError(w))
  /\ WorkerFairness
-----------------------------------------------------------------------------
\* applied[j] came later although it was called earlier than applied[i].
Overtaken(i, j) == i < j /\ applied[j] \in earlier[applied[i]]

\* The server carries the writes of an entity out in the order in which the user
\* asked for them, except for one whose failure the page was told: it may arrive
\* late, or by its replay, after newer writes.  A write the page saw succeed, or
\* still waits for, is never overtaken.
OnlyFailedWritesAreOvertaken ==
  \A i, j \in DOMAIN applied : Overtaken(i, j) => phase[applied[j]] = "rejected"
=============================================================================
