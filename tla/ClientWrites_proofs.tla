------------------------ MODULE ClientWrites_proofs -------------------------
(***************************************************************************)
(* What the offline queue of the service worker guarantees, and what the   *)
(* page's queue of writes guarantees on top of it, for every set of        *)
(* requests and every bound.                                               *)
(***************************************************************************)
EXTENDS ClientWrites, EntityWrites_proofs, SequenceTheorems

(***************************************************************************)
(* Sequences.                                                              *)
(***************************************************************************)

LEMMA HeadThenTail ==
  ASSUME NEW S, NEW s \in Seq(S), s # <<>>
  PROVE  /\ Head(s) \in S /\ Tail(s) \in Seq(S)
         /\ <<Head(s)>> \in Seq(S) /\ s = <<Head(s)>> \o Tail(s)
  <1>1. Head(s) \in S /\ Tail(s) \in Seq(S) /\ <<Head(s)>> \in Seq(S)
    BY HeadTailProperties
  <1>2. Len(s) \in Nat \ {0} /\ Len(Tail(s)) = Len(s) - 1 /\ Head(s) = s[1]
    BY EmptySeq, HeadTailProperties
  <1>3. \A i \in 1..Len(Tail(s)) : Tail(s)[i] = s[i + 1]
    BY HeadTailProperties
  <1> DEFINE t == <<Head(s)>> \o Tail(s)
  <1>4. t \in Seq(S) /\ Len(t) = Len(s)
    BY <1>1, <1>2, ConcatProperties
  <1>5. \A i \in 1..Len(s) : s[i] = t[i]
    BY <1>1, <1>2, <1>3, ConcatProperties
  <1> HIDE DEF t
  <1>6. s = t
    BY <1>4, <1>5, SeqEqual
  <1>7. QED
    BY <1>1, <1>6 DEF t

LEMMA ConcatKeeps ==
  ASSUME NEW S, NEW s \in Seq(S), NEW t \in Seq(S), NEW P,
         \A i \in DOMAIN s : s[i] \in P, \A i \in DOMAIN t : t[i] \in P
  PROVE  \A i \in DOMAIN (s \o t) : (s \o t)[i] \in P
  <1>1. s \o t \in Seq(S) /\ Len(s \o t) = Len(s) + Len(t) /\ Len(s) \in Nat /\ Len(t) \in Nat
    BY ConcatProperties, LenProperties
  <1>2. DOMAIN (s \o t) = 1..(Len(s) + Len(t)) /\ DOMAIN s = 1..Len(s) /\ DOMAIN t = 1..Len(t)
    BY <1>1, LenProperties
  <1>3. \A i \in 1..(Len(s) + Len(t)) : (s \o t)[i] = IF i <= Len(s) THEN s[i] ELSE t[i - Len(s)]
    BY ConcatProperties
  <1>4. \A i \in 1..(Len(s) + Len(t)) : i <= Len(s) => i \in 1..Len(s)
    BY <1>1
  <1>5. \A i \in 1..(Len(s) + Len(t)) : ~(i <= Len(s)) => i - Len(s) \in 1..Len(t)
    BY <1>1
  <1>6. QED
    BY <1>2, <1>3, <1>4, <1>5

LEMMA AppendElements ==
  ASSUME NEW S, NEW s \in Seq(S), NEW e \in S
  PROVE  /\ DOMAIN Append(s, e) = 1..(Len(s) + 1)
         /\ \A i \in DOMAIN Append(s, e) :
              \/ i \in DOMAIN s /\ Append(s, e)[i] = s[i]
              \/ i = Len(s) + 1 /\ Append(s, e)[i] = e
  <1> DEFINE t == Append(s, e)
  <1>1. /\ t \in Seq(S) /\ Len(t) = Len(s) + 1
        /\ \A i \in 1..Len(s) : t[i] = s[i]
        /\ t[Len(s) + 1] = e
    BY AppendProperties
  <1> HIDE DEF t
  <1>2. Len(s) \in Nat /\ DOMAIN s = 1..Len(s) /\ DOMAIN t = 1..(Len(s) + 1)
    BY <1>1, LenProperties
  <1>3. \A i \in 1..(Len(s) + 1) : i \in 1..Len(s) \/ i = Len(s) + 1
    BY <1>2
  <1>4. QED
    BY <1>1, <1>2, <1>3 DEF t
-----------------------------------------------------------------------------
(***************************************************************************)
(* The offline queue.                                                      *)
(***************************************************************************)
OfflineStep ==
  \/ \E r \in Requests :
       \/ Fetch(r) \/ Answer(r) \/ FetchFails(r) \/ FetchCut(r)
       \/ \E verdict \in {"accepted", "refused"} : Handle(r, verdict) \/ HandleLate(r, verdict)
  \/ WorkerStep \/ WorkerStops

\* The server has got what a handled replay holds.
HandDelivered == handHandled => hand[1] \in delivered

OfflineInv == QueueInv /\ HandDelivered

LEMMA OfflineHoldsInitially == OfflineInit => OfflineInv
  <1> SUFFICES ASSUME OfflineInit PROVE OfflineInv
    OBVIOUS
  <1> USE DEF OfflineInit
  <1>1. OfflineTypeOK
    BY EmptySeq DEF OfflineTypeOK, SyncIsDue
  <1>2. QueueKeepsOrder
    BY EmptySeq, ConcatEmptySeq DEF QueueKeepsOrder
  <1>3. LeavesDelivered /\ HandDelivered
    BY EmptySeq DEF LeavesDelivered, HandDelivered
  <1>4. QED
    BY <1>1, <1>2, <1>3 DEF OfflineInv, QueueInv

\* Steps that leave the queue and what has left it alone.
LEMMA QueueUntouched ==
  ASSUME OfflineInv, UNCHANGED <<pushed, finished, hand, queued>>, OfflineTypeOK',
         delivered \subseteq delivered', lost \subseteq lost', HandDelivered'
  PROVE  OfflineInv'
  BY DEF OfflineInv, QueueInv, QueueKeepsOrder, LeavesDelivered

LEMMA GiveUpTypes ==
  ASSUME NEW rs, late \in [Requests -> Nat], GiveUp(rs)
  PROVE  late' \in [Requests -> Nat]
  BY DEF GiveUp

LEMMA ApplyTypes ==
  ASSUME NEW r \in Requests, NEW verdict, applied \in Seq(Requests), Apply(r, verdict)
  PROVE  applied' \in Seq(Requests)
  BY AppendProperties DEF Apply

LEMMA PageKeepsQueue ==
  ASSUME OfflineInv, NEW r \in Requests,
         \/ Fetch(r) \/ Answer(r) \/ FetchCut(r)
         \/ \E verdict \in {"accepted", "refused"} : Handle(r, verdict) \/ HandleLate(r, verdict)
  PROVE  OfflineInv'
  <1> USE DEF Fetch, Answer, FetchCut, Handle, HandleLate, replayVars, historyVars, boundVars
  <1>1. UNCHANGED <<pushed, finished, hand, queued, handHandled, syncing, registered, delivered, lost,
                    failures, stops, expired>>
    OBVIOUS
  <1>2. applied' \in Seq(Requests)
    BY ApplyTypes DEF OfflineInv, QueueInv, OfflineTypeOK
  <1>3. flight' \in [Requests -> {"new", "cut", "answered", "failed"} \union InFlight]
    BY DEF OfflineInv, QueueInv, OfflineTypeOK, InFlight
  <1>4. late' \in [Requests -> Nat]
    BY DEF OfflineInv, QueueInv, OfflineTypeOK
  <1>5. OfflineTypeOK'
    BY <1>1, <1>2, <1>3, <1>4 DEF OfflineInv, QueueInv, OfflineTypeOK, SyncIsDue
  <1>6. QED
    BY <1>1, <1>5, QueueUntouched DEF OfflineInv, HandDelivered

LEMMA HandIsASequence ==
  ASSUME OfflineInv
  PROVE  hand \in Seq(Requests)
  <1>1. hand \in {<<>>} \union {<<q>> : q \in Requests}
    BY DEF OfflineInv, QueueInv, OfflineTypeOK
  <1>2. CASE hand = <<>>
    BY <1>2, EmptySeq
  <1>3. CASE \E q \in Requests : hand = <<q>>
    BY <1>3
  <1>4. QED
    BY <1>1, <1>2, <1>3

\* A fetch that failed is queued behind what waits.
LEMMA PushKeepsQueue ==
  ASSUME OfflineInv, NEW r \in Requests, FetchFails(r)
  PROVE  OfflineInv'
  <1> USE DEF OfflineInv, QueueInv, OfflineTypeOK, FetchFails
  <1>1. UNCHANGED <<hand, handHandled, syncing, applied, finished, delivered, lost, failures, stops, expired>>
    BY DEF replayVars, boundVars
  <1>2. /\ queued' = queued \o <<r>> /\ queued' \in Seq(Requests)
        /\ pushed' = pushed \o <<r>> /\ pushed' \in Seq(Requests) /\ <<r>> \in Seq(Requests)
    BY AppendProperties, AppendIsConcat
  <1>3. hand \in Seq(Requests) /\ finished \in Seq(Requests) /\ queued \in Seq(Requests)
    BY HandIsASequence
  <1>4. pushed' = finished \o hand \o queued'
    <2>1. finished \o hand \in Seq(Requests)
      BY <1>3, ConcatProperties
    <2>2. pushed = (finished \o hand) \o queued
      BY DEF QueueKeepsOrder
    <2> HIDE DEF OfflineInv, QueueInv, OfflineTypeOK, FetchFails
    <2>3. QED
      BY <1>2, <1>3, <2>1, <2>2, ConcatAssociative
  <1>5. /\ flight' \in [Requests -> {"new", "cut", "answered", "failed"} \union InFlight]
        /\ late' \in [Requests -> Nat]
    BY GiveUpTypes
  <1>6. OfflineTypeOK'
    BY <1>1, <1>2, <1>5 DEF SyncIsDue
  <1>7. QED
    BY <1>1, <1>4, <1>6 DEF QueueKeepsOrder, LeavesDelivered, HandDelivered

LEMMA RequestsAssociate ==
  ASSUME NEW s \in Seq(Requests), NEW t \in Seq(Requests), NEW u \in Seq(Requests)
  PROVE  s \o (t \o u) = (s \o t) \o u
  BY ConcatAssociative

\* The oldest request is taken out, into the hand or for good.
LEMMA ShiftKeepsQueue ==
  ASSUME OfflineInv, Shift \/ Expire
  PROVE  OfflineInv'
  <1> USE DEF OfflineInv, QueueInv, OfflineTypeOK
  <1>1. queued # <<>> /\ hand = <<>> /\ syncing /\ queued' = Tail(queued)
    BY DEF Shift, Expire
  <1>2. /\ Head(queued) \in Requests /\ queued' \in Seq(Requests)
        /\ <<Head(queued)>> \in Seq(Requests) /\ queued = <<Head(queued)>> \o queued'
    BY <1>1, HeadThenTail
  <1>3. pushed = finished \o (<<Head(queued)>> \o queued')
    BY <1>1, <1>2, ConcatEmptySeq DEF QueueKeepsOrder
  <1>4. pushed = (finished \o <<Head(queued)>>) \o queued'
    BY <1>2, <1>3, RequestsAssociate
  <1>5. CASE Shift
    <2>1. UNCHANGED <<flight, late, syncing, registered, applied, pushed, finished, delivered, lost, failures, stops, expired>>
      BY <1>5 DEF Shift, historyVars, boundVars
    <2>2. hand' = <<Head(queued)>> /\ handHandled' = FALSE
      BY <1>5 DEF Shift
    <2>3. OfflineTypeOK'
      BY <1>1, <1>2, <2>1, <2>2 DEF SyncIsDue
    <2>4. QueueKeepsOrder'
      BY <1>4, <2>1, <2>2 DEF QueueKeepsOrder
    <2>5. LeavesDelivered' /\ HandDelivered'
      BY <2>1, <2>2 DEF LeavesDelivered, HandDelivered
    <2>6. QED
      BY <2>3, <2>4, <2>5
  <1>6. CASE Expire
    <2>1. UNCHANGED <<flight, late, hand, handHandled, syncing, registered, applied, pushed, delivered, failures, stops>>
      BY <1>6 DEF Expire, replayVars
    <2>2. /\ expired' = expired + 1 /\ lost' = lost \union {Head(queued)}
          /\ finished' = finished \o <<Head(queued)>> /\ finished' \in Seq(Requests)
      BY <1>2, <1>6, AppendIsConcat, AppendProperties DEF Expire
    <2>3. OfflineTypeOK'
      BY <1>1, <1>2, <2>1, <2>2 DEF SyncIsDue
    <2>4. pushed' = finished' \o hand' \o queued'
      BY <1>1, <1>4, <2>1, <2>2, ConcatEmptySeq
    <2>5. LeavesDelivered'
      <3> DEFINE P == delivered \union lost'
      <3>1. \A i \in DOMAIN finished : finished[i] \in P
        BY <2>2 DEF LeavesDelivered
      <3>2. \A i \in DOMAIN <<Head(queued)>> : <<Head(queued)>>[i] \in P
        BY <2>2
      <3>3. \A i \in DOMAIN finished' : finished'[i] \in P
        <4> HIDE DEF P
        <4>1. QED
          BY <1>2, <2>2, <3>1, <3>2, ConcatKeeps
      <3>4. QED
        BY <2>1, <3>3 DEF LeavesDelivered
    <2>6. QED
      BY <2>1, <2>3, <2>4, <2>5 DEF QueueKeepsOrder, HandDelivered
  <1>7. QED
    BY <1>5, <1>6

LEMMA ReplayKeepsQueue ==
  ASSUME OfflineInv, NEW verdict \in {"accepted", "refused"}, ReplayHandled(verdict)
  PROVE  OfflineInv'
  <1> USE DEF OfflineInv, QueueInv, OfflineTypeOK, ReplayHandled
  <1>1. UNCHANGED <<flight, late, queued, hand, syncing, registered, pushed, finished, lost, failures, stops, expired>>
    BY DEF boundVars
  <1>2. handHandled' = TRUE /\ delivered' = delivered \union {hand[1]} /\ hand # <<>>
    OBVIOUS
  <1>3. hand[1] \in Requests
    BY <1>2
  <1>4. applied' \in Seq(Requests)
    BY <1>3, ApplyTypes
  <1>5. OfflineTypeOK'
    BY <1>1, <1>2, <1>3, <1>4 DEF SyncIsDue
  <1>6. QED
    BY <1>1, <1>2, <1>5, QueueUntouched DEF HandDelivered

\* What is in hand leaves the queue: it was delivered, or is lost with the worker.
LEMMA DropKeepsQueue ==
  ASSUME OfflineInv, ReplayDone \/ WorkerStops
  PROVE  OfflineInv'
  <1> USE DEF OfflineInv, QueueInv, OfflineTypeOK
  <1>1. /\ finished' = finished \o hand /\ hand' = <<>> /\ handHandled' = FALSE
        /\ UNCHANGED <<queued, applied, pushed, delivered, failures, expired>>
    BY DEF ReplayDone, WorkerStops, boundVars
  <1>2. hand \in Seq(Requests) /\ finished' \in Seq(Requests)
    BY <1>1, HandIsASequence, ConcatProperties
  <1>3. /\ flight' \in [Requests -> {"new", "cut", "answered", "failed"} \union InFlight]
        /\ late' \in [Requests -> Nat]
        /\ stops' \in Nat /\ syncing' \in BOOLEAN /\ registered' \in BOOLEAN
        /\ queued # <<>> => syncing' \/ registered'
    <2>1. CASE ReplayDone
      BY <2>1 DEF ReplayDone, boundVars, SyncIsDue
    <2>2. CASE WorkerStops
      <3>1. /\ flight' = [q \in Requests |-> IF flight[q] \in InFlight THEN "cut" ELSE flight[q]]
            /\ stops' = stops + 1 /\ syncing' = FALSE /\ registered' = (registered \/ syncing)
        BY <2>2 DEF WorkerStops
      <3>2. flight' \in [Requests -> {"new", "cut", "answered", "failed"} \union InFlight]
        BY <3>1
      <3>3. registered' \in BOOLEAN /\ (queued # <<>> => registered')
        BY <3>1, Zenon DEF SyncIsDue
      <3>4. stops' \in Nat
        BY <3>1
      <3>5. syncing' \in BOOLEAN
        BY <3>1
      <3>6. late' \in [Requests -> Nat]
        BY <2>2, GiveUpTypes DEF WorkerStops
      <3> HIDE DEF OfflineInv, QueueInv, OfflineTypeOK
      <3>7. QED
        BY <3>2, <3>3, <3>4, <3>5, <3>6
    <2>3. QED
      BY <2>1, <2>2
  <1>4. lost' \subseteq Requests /\ lost \subseteq lost' /\ (hand # <<>> => hand[1] \in delivered \union lost')
    BY DEF ReplayDone, WorkerStops, HandDelivered, Unhandled
  <1>5. OfflineTypeOK'
    BY <1>1, <1>2, <1>3, <1>4 DEF SyncIsDue
  <1>6. pushed' = finished' \o hand' \o queued'
    BY <1>1, <1>2, ConcatEmptySeq DEF QueueKeepsOrder
  <1>7. LeavesDelivered'
    <2> DEFINE P == delivered \union lost'
    <2>1. \A i \in DOMAIN finished : finished[i] \in P
      BY <1>4 DEF LeavesDelivered
    <2>2. \A i \in DOMAIN hand : hand[i] \in P
      BY <1>4
    <2>3. \A i \in DOMAIN finished' : finished'[i] \in P
      <3> HIDE DEF P
      <3>1. QED
        BY <1>1, <1>2, <2>1, <2>2, ConcatKeeps
    <2>4. QED
      BY <1>1, <2>3 DEF LeavesDelivered
  <1>8. QED
    BY <1>1, <1>5, <1>6, <1>7 DEF QueueKeepsOrder, HandDelivered

\* A replay that failed puts the request back in front.
LEMMA UnshiftKeepsQueue ==
  ASSUME OfflineInv, ReplayFails
  PROVE  OfflineInv'
  <1> USE DEF OfflineInv, QueueInv, OfflineTypeOK, ReplayFails
  <1>1. UNCHANGED <<flight, applied, pushed, finished, delivered, lost, stops, expired>>
    BY DEF historyVars
  <1>2. /\ queued' = hand \o queued /\ hand' = <<>> /\ handHandled' = FALSE /\ syncing' = FALSE
        /\ registered' = TRUE /\ failures' = failures + 1
    OBVIOUS
  <1>3. /\ hand \in Seq(Requests) /\ finished \in Seq(Requests) /\ queued \in Seq(Requests)
        /\ queued' \in Seq(Requests)
    BY <1>2, HandIsASequence, ConcatProperties
  <1>4. pushed = finished \o hand' \o queued'
    <2>1. pushed = (finished \o hand) \o queued
      BY DEF QueueKeepsOrder
    <2>2. pushed = finished \o queued'
      <3> HIDE DEF OfflineInv, QueueInv, OfflineTypeOK, ReplayFails
      <3>1. QED
        BY <1>2, <1>3, <2>1, ConcatAssociative
    <2>3. QED
      BY <1>2, <1>3, <2>2, ConcatEmptySeq
  <1>5. OfflineTypeOK'
    <2>1. failures' \in Nat
      OBVIOUS
    <2>2. late' \in [Requests -> Nat]
      BY GiveUpTypes
    <2>3. QED
      BY <1>1, <1>2, <1>3, <2>1, <2>2 DEF SyncIsDue
  <1>6. QED
    BY <1>1, <1>2, <1>4, <1>5 DEF QueueKeepsOrder, LeavesDelivered, HandDelivered

LEMMA StepKeepsQueue ==
  ASSUME OfflineInv, OfflineStep \/ UNCHANGED offlineVars
  PROVE  OfflineInv'
  <1>1. CASE SyncStarts \/ SyncEnds \/ UNCHANGED offlineVars
    <2>1. /\ UNCHANGED <<flight, late, queued, hand, handHandled, applied, pushed, finished, delivered, lost,
                         failures, stops, expired>>
          /\ syncing' \in BOOLEAN /\ registered' \in BOOLEAN
          /\ queued # <<>> => syncing' \/ registered'
          /\ hand # <<>> => syncing'
      BY <1>1 DEF SyncStarts, SyncEnds, offlineVars, replayVars, historyVars, boundVars, OfflineInv, QueueInv,
                  OfflineTypeOK, SyncIsDue
    <2>2. OfflineTypeOK'
      BY <2>1 DEF OfflineInv, QueueInv, OfflineTypeOK, SyncIsDue
    <2>3. QED
      BY <2>1, <2>2, QueueUntouched DEF OfflineInv, HandDelivered
  <1>2. QED
    BY <1>1, PageKeepsQueue, PushKeepsQueue, ShiftKeepsQueue, ReplayKeepsQueue, DropKeepsQueue, UnshiftKeepsQueue
    DEF OfflineStep, WorkerStep
-----------------------------------------------------------------------------
(***************************************************************************)
(* The page on top of it.                                                  *)
(***************************************************************************)

\* A step of the client is a step, or a stutter, of each part.
LEMMA ClientSteps ==
  ASSUME [ClientNext]_clientVars
  PROVE  [WritesNext]_writeVars /\ (OfflineStep \/ UNCHANGED offlineVars)
  <1>1. CASE UNCHANGED clientVars
    BY <1>1 DEF clientVars
  <1>2. ASSUME NEW w \in Writes,
               \/ (WriteEntity(w) \/ Release(w)) /\ UNCHANGED offlineVars
               \/ StartRequest(w)
               \/ \E verdict \in {"accepted", "refused"} :
                    (Handle(w, verdict) \/ HandleLate(w, verdict)) /\ UNCHANGED writeVars
               \/ GetAnswer(w)
               \/ GetError(w)
        PROVE  [WritesNext]_writeVars /\ (OfflineStep \/ UNCHANGED offlineVars)
    BY <1>2, EveryWriteIsARequest
    DEF WritesNext, OfflineStep, StartRequest, GetAnswer, GetError, Settled
  <1>3. CASE (WorkerStep \/ WorkerStops) /\ UNCHANGED writeVars
    BY <1>3 DEF OfflineStep
  <1>4. QED
    BY <1>1, <1>2, <1>3 DEF ClientNext

\* Whatever fetches, replays and workers fail: the replay keeps the order of
\* the queue, no request is forgotten, none leaves the queue because a replay
\* failed, and none waits without a sync that is due.
THEOREM QueueIsSound == ClientSafety => []QueueInv
  <1>1. ClientInit => OfflineInv
    BY OfflineHoldsInitially DEF ClientInit
  <1>2. OfflineInv /\ [ClientNext]_clientVars => OfflineInv'
    BY ClientSteps, StepKeepsQueue
  <1>3. OfflineInv => QueueInv
    BY DEF OfflineInv
  <1>4. QED
    BY <1>1, <1>2, <1>3, PTL DEF ClientSafety

\* The page over the service worker is still the queue of writes of the page:
\* whatever the service worker does to a request, the writes of an entity are
\* made one after the other.
THEOREM ClientIsWrites == ClientSafety => WritesSpec
  <1>1. ClientInit => WritesInit
    BY DEF ClientInit
  <1>2. [ClientNext]_clientVars => [WritesNext]_writeVars
    BY ClientSteps
  <1>3. QED
    BY <1>1, <1>2, PTL DEF ClientSafety, WritesSpec

\* How far the fetch of a write has come says in which phase its promise is.
FlightOfPhase ==
  \A w \in Writes :
    /\ flight[w] = "new" => phase[w] \in {"idle", "waiting"}
    /\ flight[w] \in InFlight \union {"cut"} => phase[w] = "running"
    /\ flight[w] = "answered" => phase[w] \in Settled
    /\ flight[w] = "failed" => phase[w] = "rejected"

\* A copy that nobody waits for is of a request that failed, or that the page
\* is about to be told of.
LateWasGivenUp == \A w \in Writes : late[w] > 0 => flight[w] \in {"cut", "failed"}

\* Only failed requests are queued.
PushedFailed == \A i \in DOMAIN pushed : flight[pushed[i]] = "failed"

\* What reached the server was begun.
AppliedWasBegun == \A i \in DOMAIN applied : phase[applied[i]] \in {"running"} \union Settled

ClientInv ==
  /\ OfflineInv /\ ChainInv
  /\ FlightOfPhase /\ LateWasGivenUp /\ PushedFailed
  /\ AppliedWasBegun /\ OnlyFailedWritesAreOvertaken

LEMMA ClientTypes ==
  ASSUME ClientInv
  PROVE  /\ flight \in [Writes -> {"new", "cut", "answered", "failed"} \union InFlight]
         /\ late \in [Writes -> Nat]
         /\ applied \in Seq(Writes) /\ pushed \in Seq(Writes)
         /\ \A i \in DOMAIN applied : applied[i] \in Writes
         /\ \A i \in DOMAIN pushed : pushed[i] \in Writes
         /\ WritesTypeOK
  <1>1. /\ flight \in [Writes -> {"new", "cut", "answered", "failed"} \union InFlight]
        /\ late \in [Writes -> Nat]
        /\ applied \in Seq(Writes) /\ pushed \in Seq(Writes) /\ WritesTypeOK
    BY EveryWriteIsARequest DEF ClientInv, OfflineInv, QueueInv, OfflineTypeOK, ChainInv
  <1>2. QED
    BY <1>1, ElementOfSeq, LenProperties

\* So the request in hand is a failed one.
LEMMA HandFailed ==
  ASSUME ClientInv, hand # <<>>
  PROVE  hand[1] \in Writes /\ flight[hand[1]] = "failed"
  <1>1. /\ hand \in {<<q>> : q \in Writes}
        /\ queued \in Seq(Writes) /\ finished \in Seq(Writes) /\ pushed = (finished \o hand) \o queued
    BY EveryWriteIsARequest DEF ClientInv, OfflineInv, QueueInv, OfflineTypeOK, QueueKeepsOrder
  <1>2. PICK q \in Writes : hand = <<q>>
    BY <1>1
  <1>3. <<q>> \in Seq(Writes) /\ Len(<<q>>) = 1 /\ <<q>>[1] = q
    OBVIOUS
  <1> DEFINE gone == finished \o <<q>>
             n == Len(finished) + 1
  <1>4. Len(finished) \in Nat /\ Len(queued) \in Nat /\ n \in 1..n /\ ~(n <= Len(finished)) /\ n - Len(finished) = 1
    BY <1>1, LenProperties
  <1>5. gone \in Seq(Writes) /\ Len(gone) = n /\ gone[n] = q
    BY <1>1, <1>3, <1>4, ConcatProperties
  <1> HIDE DEF gone
  <1>6. pushed = gone \o queued
    BY <1>1, <1>2 DEF gone
  <1>7. n \in 1..(n + Len(queued)) /\ n <= Len(gone)
    BY <1>4, <1>5
  <1> HIDE DEF n
  <1>8. Len(pushed) = n + Len(queued) /\ pushed \in Seq(Writes) /\ pushed[n] = gone[n]
    <2>1. queued \in Seq(Writes)
      BY <1>1
    <2>2. Len(gone \o queued) = Len(gone) + Len(queued) /\ gone \o queued \in Seq(Writes)
      BY <1>5, <2>1, ConcatProperties
    <2>3. (gone \o queued)[n] = gone[n]
      BY <1>5, <1>7, <2>1, ConcatProperties
    <2>4. QED
      BY <1>5, <1>6, <2>2, <2>3
  <1>9. n \in DOMAIN pushed
    BY <1>7, <1>8, LenProperties
  <1>10. QED
    BY <1>2, <1>3, <1>5, <1>8, <1>9 DEF ClientInv, PushedFailed

\* A promise goes forward, and what a write had to wait for is fixed once it begins.
LEMMA PhasesGoForward ==
  ASSUME ClientInv, [ClientNext]_clientVars, NEW w \in Writes,
         phase[w] \in {"running"} \union Settled
  PROVE  /\ phase'[w] \in {"running"} \union Settled /\ earlier'[w] = earlier[w]
         /\ phase[w] \in Settled => phase'[w] = phase[w]
  <1>1. [WritesNext]_writeVars /\ WritesTypeOK
    BY ClientSteps, ClientTypes
  <1>2. CASE UNCHANGED writeVars
    BY <1>2 DEF writeVars
  <1>3. ASSUME NEW v \in Writes,
               \/ WriteEntity(v) \/ StartOperation(v) \/ Release(v)
               \/ \E outcome \in Settled : Settle(v, outcome)
        PROVE  /\ phase'[w] \in {"running"} \union Settled /\ earlier'[w] = earlier[w]
               /\ phase[w] \in Settled => phase'[w] = phase[w]
    BY <1>1, <1>3 DEF WriteEntity, StartOperation, Release, Settle, WritesTypeOK, Settled
  <1>4. QED
    BY <1>1, <1>2, <1>3 DEF WritesNext

\* Requests: what a step does to the fetch of a write, its phase and its copies.
LEMMA StepKeepsFlight ==
  ASSUME ClientInv, [ClientNext]_clientVars
  PROVE  /\ FlightOfPhase' /\ LateWasGivenUp'
         /\ \A w \in Writes : flight[w] = "failed" => flight'[w] = "failed"
  <1> USE EveryWriteIsARequest
  <1> DEFINE Goal == /\ FlightOfPhase' /\ LateWasGivenUp'
                     /\ \A w \in Writes : flight[w] = "failed" => flight'[w] = "failed"
  <1>1. /\ WritesTypeOK /\ FlightOfPhase /\ LateWasGivenUp
        /\ flight \in [Writes -> {"new", "cut", "answered", "failed"} \union InFlight]
        /\ late \in [Writes -> Nat]
    BY ClientTypes DEF ClientInv
  <1> USE DEF WritesTypeOK, FlightOfPhase, LateWasGivenUp, Settled, InFlight
  <1>2. CASE UNCHANGED clientVars
    BY <1>1, <1>2 DEF clientVars, writeVars, offlineVars
  <1>3. ASSUME NEW w \in Writes, (WriteEntity(w) \/ Release(w)) /\ UNCHANGED offlineVars PROVE Goal
    BY <1>1, <1>3 DEF WriteEntity, Release, offlineVars
  <1>4. ASSUME NEW w \in Writes, StartRequest(w) PROVE Goal
    BY <1>1, <1>4 DEF StartRequest, StartOperation, Fetch
  <1>5. ASSUME NEW w \in Writes, NEW verdict \in {"accepted", "refused"}, Handle(w, verdict), UNCHANGED writeVars
        PROVE  Goal
    BY <1>1, <1>5 DEF Handle, writeVars
  <1>6. ASSUME NEW w \in Writes, NEW verdict \in {"accepted", "refused"}, HandleLate(w, verdict), UNCHANGED writeVars
        PROVE  Goal
    BY <1>1, <1>6 DEF HandleLate, writeVars
  <1>7. ASSUME NEW w \in Writes, GetAnswer(w) PROVE Goal
    BY <1>1, <1>7 DEF GetAnswer, Settle, Answer
  <1>8. ASSUME NEW w \in Writes, GetError(w) PROVE Goal
    <2>1. phase' = [phase EXCEPT ![w] = "rejected"] /\ flight' = [flight EXCEPT ![w] = "failed"]
      BY <1>8 DEF GetError, Settle, FetchFails, FetchCut
    <2>2. \A v \in Writes \ {w} : late'[v] = late[v]
      BY <1>1, <1>8 DEF GetError, FetchFails, FetchCut, GiveUp
    <2>3. QED
      BY <1>1, <2>1, <2>2
  <1>9. CASE WorkerStep /\ UNCHANGED writeVars
    <2>1. flight' = flight /\ phase' = phase
      BY <1>9 DEF WorkerStep, SyncStarts, Shift, Expire, ReplayHandled, ReplayDone, ReplayFails, SyncEnds, writeVars
    <2>2. \A w \in Writes : late'[w] # late[w] => hand # <<>> /\ w = hand[1]
      <3>1. CASE ReplayFails
        BY <1>1, <3>1 DEF ReplayFails, GiveUp, Unhandled
      <3>2. CASE ~ReplayFails
        BY <1>9, <3>2 DEF WorkerStep, SyncStarts, Shift, Expire, ReplayHandled, ReplayDone, SyncEnds
      <3>3. QED
        BY <3>1, <3>2
    <2>3. \A w \in Writes : late'[w] # late[w] => flight[w] = "failed"
      BY <2>2, HandFailed
    <2>4. QED
      BY <1>1, <2>1, <2>3
  <1>10. CASE WorkerStops /\ UNCHANGED writeVars
    <2>1. flight' = [r \in Writes |-> IF flight[r] \in InFlight THEN "cut" ELSE flight[r]] /\ phase' = phase
      BY <1>10 DEF WorkerStops, writeVars
    <2>2. \A w \in Writes : late'[w] # late[w] => flight[w] = "sent" \/ (hand # <<>> /\ w = hand[1])
      BY <1>1, <1>10 DEF WorkerStops, GiveUp, Unhandled
    <2>3. \A w \in Writes : late'[w] # late[w] => flight[w] \in {"sent", "failed"}
      BY <2>2, HandFailed
    <2>4. QED
      BY <1>1, <2>1, <2>3
  <1>11. QED
    BY <1>2, <1>3, <1>4, <1>5, <1>6, <1>7, <1>8, <1>9, <1>10 DEF ClientNext

\* Only a fetch that fails is queued, and a failed one stays failed.
LEMMA StepKeepsPushed ==
  ASSUME ClientInv, [ClientNext]_clientVars
  PROVE  PushedFailed'
  <1>1. \A w \in Writes : flight[w] = "failed" => flight'[w] = "failed"
    BY StepKeepsFlight
  <1>2. pushed \in Seq(Writes) /\ (\A i \in DOMAIN pushed : pushed[i] \in Writes)
    BY ClientTypes
  <1>3. ASSUME NEW w \in Writes, FetchFails(w) PROVE PushedFailed'
    <2>1. pushed' = Append(pushed, w) /\ flight' = [flight EXCEPT ![w] = "failed"]
      BY <1>3 DEF FetchFails
    <2>2. flight'[w] = "failed"
      BY <2>1, ClientTypes
    <2>3. \A i \in DOMAIN pushed' : (i \in DOMAIN pushed /\ pushed'[i] = pushed[i]) \/ pushed'[i] = w
      BY <1>2, <2>1, AppendElements
    <2>4. QED
      BY <1>1, <1>2, <2>2, <2>3 DEF ClientInv, PushedFailed
  <1>4. ASSUME pushed' = pushed PROVE PushedFailed'
    BY <1>1, <1>2, <1>4 DEF ClientInv, PushedFailed
  <1>5. pushed' = pushed \/ \E w \in Writes : FetchFails(w)
    <2>1. CASE UNCHANGED clientVars
      BY <2>1 DEF clientVars, offlineVars, historyVars
    <2>2. ASSUME NEW w \in Writes,
                 \/ (WriteEntity(w) \/ Release(w)) /\ UNCHANGED offlineVars
                 \/ StartRequest(w) \/ GetAnswer(w) \/ GetError(w)
                 \/ \E verdict \in {"accepted", "refused"} : Handle(w, verdict) \/ HandleLate(w, verdict)
          PROVE  pushed' = pushed \/ FetchFails(w)
      BY <2>2 DEF StartRequest, GetAnswer, GetError, Fetch, Answer, FetchCut, Handle, HandleLate, offlineVars, historyVars
    <2>3. CASE WorkerStep \/ WorkerStops
      BY <2>3 DEF WorkerStep, SyncStarts, Shift, Expire, ReplayHandled, ReplayDone, ReplayFails, SyncEnds, WorkerStops,
                  historyVars
    <2>4. QED
      BY <2>1, <2>2, <2>3 DEF ClientNext
  <1>6. QED
    BY <1>3, <1>4, <1>5

\* A step carries out nothing, or one request that a page sent.
LEMMA StepAppliesOne ==
  ASSUME ClientInv, [ClientNext]_clientVars
  PROVE  \/ applied' = applied
         \/ \E w \in Writes : applied' = Append(applied, w) /\ flight[w] \notin {"new", "answered"} /\ phase' = phase
  <1>1. ASSUME NEW w \in Writes, NEW verdict \in {"accepted", "refused"}, Handle(w, verdict), UNCHANGED writeVars
        PROVE  applied' = applied \/ (applied' = Append(applied, w) /\ flight[w] \notin {"new", "answered"} /\ phase' = phase)
    BY <1>1 DEF Handle, Apply, writeVars
  <1>2. ASSUME NEW w \in Writes, NEW verdict \in {"accepted", "refused"}, HandleLate(w, verdict), UNCHANGED writeVars
        PROVE  applied' = applied \/ (applied' = Append(applied, w) /\ flight[w] \notin {"new", "answered"} /\ phase' = phase)
    BY <1>2 DEF HandleLate, Apply, writeVars, ClientInv, LateWasGivenUp
  <1>3. ASSUME NEW verdict \in {"accepted", "refused"}, ReplayHandled(verdict), UNCHANGED writeVars
        PROVE  \/ applied' = applied
               \/ \E w \in Writes : applied' = Append(applied, w) /\ flight[w] \notin {"new", "answered"} /\ phase' = phase
    BY <1>3, HandFailed DEF ReplayHandled, Apply, writeVars
  <1>4. ASSUME NEW w \in Writes,
               \/ (WriteEntity(w) \/ Release(w)) /\ UNCHANGED offlineVars
               \/ StartRequest(w) \/ GetAnswer(w) \/ GetError(w)
        PROVE  applied' = applied
    BY <1>4 DEF StartRequest, GetAnswer, GetError, Fetch, Answer, FetchFails, FetchCut, offlineVars, historyVars
  <1>5. CASE UNCHANGED clientVars
    BY <1>5 DEF clientVars, offlineVars, historyVars
  <1>6. CASE SyncStarts \/ Shift \/ Expire \/ ReplayDone \/ ReplayFails \/ SyncEnds \/ WorkerStops
    BY <1>6 DEF SyncStarts, Shift, Expire, ReplayDone, ReplayFails, SyncEnds, WorkerStops, historyVars
  <1>7. QED
    BY <1>1, <1>2, <1>3, <1>4, <1>5, <1>6 DEF ClientNext, WorkerStep

\* A write that is carried out after one that waited for it had ended by then,
\* so it is not the running one: it had failed.
LEMMA StepKeepsOrder ==
  ASSUME ClientInv, [ClientNext]_clientVars
  PROVE  AppliedWasBegun' /\ OnlyFailedWritesAreOvertaken'
  <1>1. /\ applied \in Seq(Writes) /\ (\A i \in DOMAIN applied : applied[i] \in Writes)
        /\ AppliedWasBegun /\ OnlyFailedWritesAreOvertaken /\ FlightOfPhase
        /\ flight \in [Writes -> {"new", "cut", "answered", "failed"} \union InFlight]
    BY ClientTypes DEF ClientInv
  <1>2. \A i \in DOMAIN applied :
          /\ phase'[applied[i]] \in {"running"} \union Settled
          /\ earlier'[applied[i]] = earlier[applied[i]]
          /\ phase[applied[i]] \in Settled => phase'[applied[i]] = phase[applied[i]]
    BY <1>1, PhasesGoForward DEF AppliedWasBegun
  <1>3. \A i, j \in DOMAIN applied :
          i < j /\ applied[j] \in earlier'[applied[i]] => phase'[applied[j]] = "rejected"
    BY <1>1, <1>2 DEF OnlyFailedWritesAreOvertaken, Overtaken, Settled
  <1>4. CASE applied' = applied
    BY <1>1, <1>2, <1>3, <1>4 DEF AppliedWasBegun, OnlyFailedWritesAreOvertaken, Overtaken
  <1>5. ASSUME NEW w \in Writes, applied' = Append(applied, w), flight[w] \notin {"new", "answered"}, phase' = phase
        PROVE  AppliedWasBegun' /\ OnlyFailedWritesAreOvertaken'
    <2>1. phase[w] \in {"running"} \union Settled
      BY <1>1, <1>5 DEF FlightOfPhase, Settled, InFlight
    <2>2. /\ DOMAIN applied' = 1..(Len(applied) + 1) /\ DOMAIN applied = 1..Len(applied) /\ Len(applied) \in Nat
          /\ \A i \in DOMAIN applied' :
               \/ i \in DOMAIN applied /\ applied'[i] = applied[i]
               \/ i = Len(applied) + 1 /\ applied'[i] = w
      BY <1>1, <1>5, AppendElements, LenProperties
    <2>3. AppliedWasBegun'
      BY <1>2, <1>5, <2>1, <2>2 DEF AppliedWasBegun
    <2>4. OnlyFailedWritesAreOvertaken'
      <3>1. SUFFICES ASSUME NEW i \in DOMAIN applied', NEW j \in DOMAIN applied',
                            i < j, applied'[j] \in earlier'[applied'[i]]
                     PROVE  phase'[applied'[j]] = "rejected"
        BY DEF OnlyFailedWritesAreOvertaken, Overtaken
      <3>2. i \in DOMAIN applied /\ applied'[i] = applied[i]
        BY <2>2, <3>1
      <3>3. CASE j \in DOMAIN applied /\ applied'[j] = applied[j]
        BY <1>3, <3>1, <3>2, <3>3
      <3>4. CASE applied'[j] = w
        <4>1. w \in earlier[applied[i]] /\ applied[i] \in Writes /\ phase[applied[i]] \in {"running"} \union Settled
          BY <1>1, <1>2, <3>1, <3>2, <3>4 DEF AppliedWasBegun
        <4>2. phase[w] \in Settled
          BY <4>1 DEF ClientInv, ChainInv, BegunInOrder
        <4>3. QED
          BY <1>1, <1>5, <3>4, <4>2 DEF FlightOfPhase, Settled, InFlight
      <3>5. QED
        BY <2>2, <3>3, <3>4
    <2>5. QED
      BY <2>3, <2>4
  <1>6. QED
    BY <1>4, <1>5, StepAppliesOne

\* The service worker and the queue of writes together: whatever fetches,
\* replays and workers fail, and however late a request reaches the server, a
\* write of an entity is carried out after a newer one only if the page was told
\* that it failed.
THEOREM OnlyFailedAreOvertaken == ClientSafety => []OnlyFailedWritesAreOvertaken
  <1>1. ClientInit => ClientInv
    <2>1. ASSUME ClientInit
          PROVE  /\ FlightOfPhase /\ LateWasGivenUp /\ PushedFailed
                 /\ AppliedWasBegun /\ OnlyFailedWritesAreOvertaken
      BY <2>1, EveryWriteIsARequest, EmptySeq
      DEF ClientInit, WritesInit, OfflineInit, FlightOfPhase, LateWasGivenUp, PushedFailed, AppliedWasBegun,
          OnlyFailedWritesAreOvertaken, Settled, InFlight
    <2>2. QED
      BY <2>1, ChainHoldsInitially, OfflineHoldsInitially DEF ClientInit, ClientInv
  <1>2. ClientInv /\ [ClientNext]_clientVars => ClientInv'
    <2>1. ASSUME ClientInv, [ClientNext]_clientVars PROVE OfflineInv' /\ ChainInv'
      BY <2>1, ClientSteps, StepKeepsQueue, StepKeepsChain DEF ClientInv
    <2>2. QED
      BY <2>1, StepKeepsFlight, StepKeepsPushed, StepKeepsOrder DEF ClientInv
  <1>3. ClientInv => OnlyFailedWritesAreOvertaken
    BY DEF ClientInv
  <1>4. QED
    BY <1>1, <1>2, <1>3, PTL DEF ClientSafety
=============================================================================
