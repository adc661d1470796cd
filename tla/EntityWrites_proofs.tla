------------------------ MODULE EntityWrites_proofs ------------------------
(***************************************************************************)
(* What the queue of writes guarantees for every set of writes and         *)
(* entities, and the hook of bulk actions for every set of ids and batches.*)
(***************************************************************************)
EXTENDS EntityWrites, BulkAction, TLAPS

LEMMA ChainHoldsInitially == WritesInit => ChainInv
  BY KeysAssumption
  DEF WritesInit, ChainInv, WritesTypeOK, TailCoversUnsettled, PreviousCoversEarlier,
      BegunInOrder, CallsAreOrdered, EarlierOfOneEntity, Unsettled, Settled

\* A call is chained behind everything unsettled of its entity.
LEMMA CallKeepsChain ==
  ASSUME ChainInv, NEW w \in Writes, WriteEntity(w)
  PROVE  ChainInv'
  <1> USE KeysAssumption DEF ChainInv, WritesTypeOK, WriteEntity, Settled
  <1>1. WritesTypeOK'
    BY DEF Unsettled
  <1>2. TailCoversUnsettled'
    <2> DEFINE k == KeyOf[w]
    <2>1. k \in Keys /\ tail'[k] = w /\ earlier'[w] = Unsettled(k) /\ w # NoWrite
      OBVIOUS
    <2>2. Unsettled(k)' = Unsettled(k) \union {w}
      BY DEF Unsettled
    <2>3. \A q \in Keys \ {k} : tail'[q] = tail[q] /\ Unsettled(q)' = Unsettled(q)
      BY DEF Unsettled
    <2>4. \A v \in Writes : phase[v] # "idle" => phase'[v] = phase[v] /\ earlier'[v] = earlier[v]
      OBVIOUS
    <2>5. phase'[w] # "idle" /\ w \in Writes /\ NoWrite \notin Writes
      OBVIOUS
    <2>6. ASSUME NEW q \in Keys \ {k}, tail[q] # NoWrite
          PROVE  phase'[tail[q]] = phase[tail[q]] /\ earlier'[tail[q]] = earlier[tail[q]]
      <3>1. tail[q] \in Writes /\ phase[tail[q]] # "idle"
        BY <2>6 DEF TailCoversUnsettled
      <3>2. QED
        BY <2>4, <3>1
    <2>7. QED
      BY <2>1, <2>2, <2>3, <2>5, <2>6 DEF TailCoversUnsettled
  <1>3. PreviousCoversEarlier'
    <2> DEFINE Covers(v) ==
          phase[v] # "idle" =>
            IF previous[v] = NoWrite
            THEN \A u \in earlier[v] : phase[u] \in Settled
            ELSE /\ phase[previous[v]] # "idle"
                 /\ \A u \in earlier[v] :
                      u = previous[v] \/ u \in earlier[previous[v]] \/ phase[u] \in Settled
    <2>1. \A v \in Writes \ {w} : phase'[v] = phase[v] /\ earlier'[v] = earlier[v] /\ previous'[v] = previous[v]
      OBVIOUS
    <2>2. \A v \in Writes : phase[v] # "idle" => v # w
      OBVIOUS
    <2>3. ASSUME NEW v \in Writes \ {w} PROVE Covers(v)'
      <3>1. CASE phase[v] = "idle"
        BY <2>1, <3>1
      <3>2. CASE phase[v] # "idle"
        <4>1. \A u \in earlier[v] : u \in Writes \ {w}
          BY <2>2 DEF EarlierOfOneEntity
        <4>2. CASE previous[v] = NoWrite
          BY <2>1, <3>2, <4>1, <4>2 DEF PreviousCoversEarlier
        <4>3. CASE previous[v] # NoWrite
          <5>1. previous[v] \in Writes \ {w}
            BY <2>2, <3>2, <4>3 DEF PreviousCoversEarlier
          <5>2. QED
            BY <2>1, <3>2, <4>1, <4>3, <5>1 DEF PreviousCoversEarlier
        <4>4. QED
          BY <4>2, <4>3
      <3>3. QED
        BY <3>1, <3>2
    <2>4. Covers(w)'
      <3>1. previous'[w] = tail[KeyOf[w]] /\ earlier'[w] = Unsettled(KeyOf[w])
        OBVIOUS
      <3>2. CASE tail[KeyOf[w]] = NoWrite
        BY <3>1, <3>2 DEF TailCoversUnsettled
      <3>3. CASE tail[KeyOf[w]] # NoWrite
        <4>1. tail[KeyOf[w]] \in Writes \ {w} /\ phase[tail[KeyOf[w]]] # "idle"
          <5>1. KeyOf[w] \in Keys
            OBVIOUS
          <5>2. tail[KeyOf[w]] \in Writes /\ phase[tail[KeyOf[w]]] # "idle"
            BY <3>3, <5>1 DEF TailCoversUnsettled
          <5>3. QED
            BY <2>2, <5>2
        <4>2. Unsettled(KeyOf[w]) \subseteq {tail[KeyOf[w]]} \union earlier[tail[KeyOf[w]]]
          BY <3>3 DEF TailCoversUnsettled
        <4>3. QED
          BY <2>1, <3>1, <3>3, <4>1, <4>2
      <3>4. QED
        BY <3>2, <3>3
    <2>5. QED
      BY <2>3, <2>4 DEF PreviousCoversEarlier
  <1>4. BegunInOrder'
    BY DEF BegunInOrder, EarlierOfOneEntity
  <1>5. CallsAreOrdered'
    BY DEF CallsAreOrdered, Unsettled
  <1>6. EarlierOfOneEntity'
    BY DEF EarlierOfOneEntity, Unsettled
  <1>7. QED
    BY <1>1, <1>2, <1>3, <1>4, <1>5, <1>6

\* A write that begins has nothing unsettled in front of it: its promise
\* leads to all that was, and whatever that had begun after is settled too.
LEMMA FrontIsSettled ==
  ASSUME ChainInv, NEW w \in Writes, phase[w] = "waiting", PreviousSettled(w)
  PROVE  \A v \in earlier[w] : phase[v] \in Settled
  BY DEF ChainInv, WritesTypeOK, PreviousCoversEarlier, BegunInOrder, PreviousSettled, Settled

LEMMA StartKeepsChain ==
  ASSUME ChainInv, NEW w \in Writes, StartOperation(w)
  PROVE  ChainInv'
  <1> USE KeysAssumption DEF ChainInv, WritesTypeOK, StartOperation, Settled
  <1>1. \A v \in earlier[w] : phase[v] \in Settled
    BY FrontIsSettled
  <1>2. WritesTypeOK'
    OBVIOUS
  <1>3. TailCoversUnsettled'
    BY DEF TailCoversUnsettled, Unsettled
  <1>4. PreviousCoversEarlier'
    BY DEF PreviousCoversEarlier
  <1>5. BegunInOrder'
    BY <1>1 DEF BegunInOrder
  <1>6. CallsAreOrdered'
    BY DEF CallsAreOrdered, Unsettled
  <1>7. EarlierOfOneEntity'
    BY DEF EarlierOfOneEntity
  <1>8. QED
    BY <1>2, <1>3, <1>4, <1>5, <1>6, <1>7

LEMMA SettleKeepsChain ==
  ASSUME ChainInv, NEW w \in Writes, NEW outcome \in Settled, Settle(w, outcome)
  PROVE  ChainInv'
  <1> USE KeysAssumption DEF ChainInv, WritesTypeOK, Settle, Settled
  <1>1. WritesTypeOK'
    OBVIOUS
  <1>2. TailCoversUnsettled'
    BY DEF TailCoversUnsettled, Unsettled
  <1>3. PreviousCoversEarlier'
    BY DEF PreviousCoversEarlier
  <1>4. BegunInOrder'
    BY DEF BegunInOrder
  <1>5. CallsAreOrdered'
    BY DEF CallsAreOrdered, Unsettled
  <1>6. EarlierOfOneEntity'
    BY DEF EarlierOfOneEntity
  <1>7. QED
    BY <1>1, <1>2, <1>3, <1>4, <1>5, <1>6

\* The entry of the map goes only when its promise is settled, and so is then
\* everything of the entity: it had all begun before.
LEMMA ReleaseKeepsChain ==
  ASSUME ChainInv, NEW w \in Writes, Release(w)
  PROVE  ChainInv'
  <1> USE KeysAssumption DEF ChainInv, WritesTypeOK, Release, Settled
  <1>1. WritesTypeOK'
    OBVIOUS
  <1>2. TailCoversUnsettled'
    <2>1. CASE tail[KeyOf[w]] # w
      BY <2>1 DEF TailCoversUnsettled, Unsettled
    <2>2. CASE tail[KeyOf[w]] = w
      <3>1. \A v \in earlier[w] : phase[v] \in {"resolved", "rejected"}
        BY DEF BegunInOrder
      <3>2. Unsettled(KeyOf[w]) = {}
        BY <2>2, <3>1 DEF TailCoversUnsettled, Unsettled
      <3>3. QED
        BY <2>2, <3>2 DEF TailCoversUnsettled, Unsettled
    <2>3. QED
      BY <2>1, <2>2
  <1>3. PreviousCoversEarlier'
    BY DEF PreviousCoversEarlier
  <1>4. BegunInOrder'
    BY DEF BegunInOrder
  <1>5. CallsAreOrdered'
    BY DEF CallsAreOrdered, Unsettled
  <1>6. EarlierOfOneEntity'
    BY DEF EarlierOfOneEntity
  <1>7. QED
    BY <1>1, <1>2, <1>3, <1>4, <1>5, <1>6

LEMMA StepKeepsChain == ChainInv /\ [WritesNext]_writeVars => ChainInv'
  <1> SUFFICES ASSUME ChainInv, [WritesNext]_writeVars PROVE ChainInv'
    OBVIOUS
  <1>1. CASE UNCHANGED writeVars
    BY <1>1 DEF ChainInv, WritesTypeOK, TailCoversUnsettled, PreviousCoversEarlier, BegunInOrder,
                CallsAreOrdered, EarlierOfOneEntity, Unsettled, writeVars
  <1>2. ASSUME NEW w \in Writes, WriteEntity(w) PROVE ChainInv'
    BY <1>2, CallKeepsChain
  <1>3. ASSUME NEW w \in Writes, StartOperation(w) PROVE ChainInv'
    BY <1>3, StartKeepsChain
  <1>4. ASSUME NEW w \in Writes, NEW outcome \in Settled, Settle(w, outcome) PROVE ChainInv'
    BY <1>4, SettleKeepsChain
  <1>5. ASSUME NEW w \in Writes, Release(w) PROVE ChainInv'
    BY <1>5, ReleaseKeepsChain
  <1>6. QED
    BY <1>1, <1>2, <1>3, <1>4, <1>5 DEF WritesNext

\* The chain of promises covers everything unsettled, in every reachable state.
THEOREM ChainIsSound == WritesSpec => []ChainInv
  BY ChainHoldsInitially, StepKeepsChain, PTL DEF WritesSpec

\* One request per entity at a time: of two unsettled writes one was called
\* behind the other and has not begun.
THEOREM WritesAreSerial == WritesSpec => []OneWriteAtATime
  <1>1. ChainInv => OneWriteAtATime
    BY DEF ChainInv, WritesTypeOK, CallsAreOrdered, BegunInOrder, OneWriteAtATime, Unsettled, Settled
  <1>2. QED
    BY <1>1, ChainIsSound, PTL
-----------------------------------------------------------------------------
(***************************************************************************)
(* The refinement of SerialWrites.                                         *)
(***************************************************************************)

LEMMA InitImplements == WritesInit => Abstract!SInit
  BY DEF WritesInit, Abstract!SInit, Stage, Settled

LEMMA StepImplements ==
  ChainInv /\ ChainInv' /\ [WritesNext]_writeVars => [Abstract!SNext]_(Abstract!svars)
  <1> SUFFICES ASSUME ChainInv, ChainInv', [WritesNext]_writeVars
               PROVE  [Abstract!SNext]_(Abstract!svars)
    OBVIOUS
  <1>1. CASE UNCHANGED writeVars
    BY <1>1 DEF writeVars, Abstract!svars, Stage
  <1> USE DEF Stage, Settled
  <1>2. ASSUME NEW w \in Writes, WriteEntity(w) PROVE Abstract!Submit(w)
    <2>1. Unsettled(KeyOf[w]) = Abstract!Unfinished(KeyOf[w])
      BY DEF Unsettled, Abstract!Unfinished, ChainInv, WritesTypeOK
    <2>2. QED
      BY <1>2, <2>1 DEF WriteEntity, Abstract!Submit, ChainInv, WritesTypeOK
  <1>3. ASSUME NEW w \in Writes, StartOperation(w) PROVE Abstract!Begin(w)
    <2>1. \A v \in earlier[w] : phase[v] \in Settled
      BY <1>3, FrontIsSettled DEF StartOperation
    <2>2. QED
      BY <1>3, <2>1 DEF StartOperation, Abstract!Begin, ChainInv, WritesTypeOK
  <1>4. ASSUME NEW w \in Writes, NEW outcome \in Settled, Settle(w, outcome)
        PROVE  Abstract!End(w)
    BY <1>4 DEF Settle, Abstract!End, ChainInv, WritesTypeOK
  <1>5. ASSUME NEW w \in Writes, Release(w) PROVE UNCHANGED Abstract!svars
    BY <1>5 DEF Release, Abstract!svars
  <1>6. QED
    BY <1>1, <1>2, <1>3, <1>4, <1>5 DEF WritesNext, Abstract!SNext

\* Every write waits for exactly the unsettled writes of its entity that were
\* called before it (the safety half of ImplementsSerialWrites).
THEOREM WritesImplementSerialWrites == WritesSpec => Abstract!SSafety
  BY InitImplements, StepImplements, ChainIsSound, PTL DEF WritesSpec, Abstract!SSafety
-----------------------------------------------------------------------------
(***************************************************************************)
(* Bulk actions.  Of the batches of the page on screen only the running    *)
(* one is under way, and it works on the rows that are still selected.     *)
(***************************************************************************)
BatchesFollowRunning ==
  /\ \A b \in onPage : b \notin ended => running = b
  /\ \A b \in ended : \A i \in Ids : items[b][i] # "pending"
  /\ \A b \in onPage \union ended : Submitted(b) # {}
  /\ running # NoBatch => selection = Submitted(running)

BulkIInv == BulkTypeOK /\ BatchesFollowRunning

LEMMA BulkHoldsInitially == BulkInit => BulkIInv
  BY BatchAssumption DEF BulkInit, BulkIInv, BulkTypeOK, BatchesFollowRunning

\* The rows change only between batches.
LEMMA SelectKeepsBatches ==
  ASSUME BulkIInv, NEW s \in SUBSET Ids, Select(s)
  PROVE  BulkIInv'
  BY DEF Select, BulkIInv, BulkTypeOK, BatchesFollowRunning, Submitted

LEMMA RunKeepsBatches ==
  ASSUME BulkIInv, NEW b \in Batches, Run(b)
  PROVE  BulkIInv'
  <1> USE BatchAssumption DEF BulkIInv, BulkTypeOK, Run
  <1>1. items' \in [Batches -> [Ids -> {"out", "pending", "done", "failed"}]]
    OBVIOUS
  <1>2. /\ \A c \in Batches \ {b} : items'[c] = items[c]
        /\ \A i \in Ids : items'[b][i] = IF i \in selection THEN "pending" ELSE "out"
    OBVIOUS
  <1>3. Submitted(b)' = selection
    BY <1>2 DEF Submitted
  <1>4. \A c \in Batches \ {b} : Submitted(c)' = Submitted(c)
    BY <1>2 DEF Submitted
  <1>5. b \notin ended /\ b \notin onPage
    BY DEF BatchesFollowRunning
  <1>6. BatchesFollowRunning'
    BY <1>2, <1>3, <1>4, <1>5 DEF BatchesFollowRunning
  <1> QED
    BY <1>1, <1>3, <1>5, <1>6

\* An id that settles stays submitted.
LEMMA SettleKeepsBatches ==
  ASSUME BulkIInv, NEW b \in Batches, NEW i \in Ids, NEW outcome \in {"done", "failed"},
         SettleItem(b, i, outcome)
  PROVE  BulkIInv'
  <1> USE DEF BulkIInv, BulkTypeOK, SettleItem
  <1>1. items' \in [Batches -> [Ids -> {"out", "pending", "done", "failed"}]]
    OBVIOUS
  <1>2. \A c \in Batches, j \in Ids :
          /\ items'[c][j] = "out" <=> items[c][j] = "out"
          /\ items'[c][j] = "pending" => items[c][j] = "pending"
    OBVIOUS
  <1>3. \A c \in Batches : Submitted(c)' = Submitted(c)
    BY <1>2 DEF Submitted
  <1>4. BatchesFollowRunning'
    BY <1>2, <1>3 DEF BatchesFollowRunning
  <1> QED
    BY <1>1, <1>3, <1>4

LEMMA FinishKeepsBatches ==
  ASSUME BulkIInv, NEW b \in Batches, Finish(b)
  PROVE  BulkIInv'
  <1> USE BatchAssumption DEF BulkIInv, BulkTypeOK, Finish, Reset
  <1>1. \A c \in Batches : Submitted(c)' = Submitted(c)
    BY DEF Submitted
  <1>2. selection' \subseteq Ids
    BY DEF SelectionAfter, Failed
  <1>3. \A i \in Ids : items[b][i] # "pending"
    BY DEF Submitted, Done, Failed
  <1>4. running' # NoBatch => b # running /\ b \notin onPage /\ selection' = selection
    BY DEF BatchesFollowRunning
  <1>5. BatchesFollowRunning'
    BY <1>1, <1>3, <1>4 DEF BatchesFollowRunning
  <1> QED
    BY <1>1, <1>2, <1>5

LEMMA StepKeepsBatches == BulkIInv /\ [BulkNext]_bulkVars => BulkIInv'
  <1> SUFFICES ASSUME BulkIInv, [BulkNext]_bulkVars PROVE BulkIInv'
    OBVIOUS
  <1>1. CASE SelectionStep
    <2>1. ASSUME NEW s \in SUBSET Ids, Select(s) PROVE BulkIInv'
      BY <2>1, SelectKeepsBatches
    <2>2. ASSUME NEW i \in Ids, Toggle(i) PROVE BulkIInv'
      BY <2>1, <2>2 DEF Toggle, BulkIInv, BulkTypeOK
    <2>3. ASSUME NEW shown \in SUBSET Ids, ToggleAll(shown) PROVE BulkIInv'
      BY <2>1, <2>3 DEF ToggleAll
    <2>4. CASE Clear
      BY <2>1, <2>4 DEF Clear
    <2>5. CASE Leave
      BY <2>5 DEF Leave, BulkIInv, BulkTypeOK, BatchesFollowRunning, Submitted
    <2> QED
      BY <1>1, <2>2, <2>3, <2>4, <2>5 DEF SelectionStep
  <1>2. ASSUME NEW b \in Batches, Run(b) PROVE BulkIInv'
    BY <1>2, RunKeepsBatches
  <1>3. ASSUME NEW b \in Batches, Finish(b) PROVE BulkIInv'
    BY <1>3, FinishKeepsBatches
  <1>4. ASSUME NEW b \in Batches, NEW i \in Ids, NEW outcome \in {"done", "failed"},
               SettleItem(b, i, outcome)
        PROVE  BulkIInv'
    BY <1>4, SettleKeepsBatches
  <1>5. CASE UNCHANGED bulkVars
    BY <1>5 DEF bulkVars, BulkIInv, BulkTypeOK, BatchesFollowRunning, Submitted
  <1> QED
    BY <1>1, <1>2, <1>3, <1>4, <1>5 DEF BulkNext

\* Two batches of the page never work on one id: both would be the running one.
LEMMA RunningIsAlone == BulkIInv => NoDuplicateSubmission
  BY DEF BulkIInv, BulkTypeOK, BatchesFollowRunning, NoDuplicateSubmission

\* The buttons of the page are disabled exactly as long as a batch of this page
\* is under way, and no id is in two of its batches.
THEOREM BulkIsSound == BulkSpec => []BulkInv
  <1>1. BulkIInv => BulkInv
    BY RunningIsAlone DEF BulkIInv, BulkInv
  <1> QED
    BY <1>1, BulkHoldsInitially, StepKeepsBatches, PTL DEF BulkSpec

LEMMA StepKeepsChoice ==
  BulkIInv /\ [BulkNext]_bulkVars =>
    \A b \in Batches :
      b \in ended' \ ended =>
        selection' = IF b \in onPage THEN Submitted(b) \ Done(b) ELSE selection
  <1> SUFFICES ASSUME BulkIInv, BulkNext, NEW b \in Batches, b \in ended' \ ended
               PROVE  selection' = IF b \in onPage THEN Submitted(b) \ Done(b) ELSE selection
    BY DEF bulkVars
  <1>1. Finish(b)
    BY DEF BulkNext, SelectionStep, Toggle, ToggleAll, Clear, Select, Leave, Run, SettleItem, Finish
  <1>2. Submitted(b) \ Done(b) = Failed(b)
    BY <1>1 DEF Finish, Submitted, Done, Failed
  <1>3. b \in onPage => running = b /\ selection = Submitted(b)
    BY BatchAssumption, <1>1 DEF Finish, BulkIInv, BatchesFollowRunning
  <1> QED
    BY <1>1, <1>2, <1>3 DEF Finish, SelectionAfter

\* When a batch of the page ends, what stays selected is what it has not
\* carried out; a batch of an earlier visit leaves the selection alone.
THEOREM BatchEndsKeepTheChoice == BulkSpec => EndKeepsChoice
  <1>1. BulkIInv /\ [BulkNext]_bulkVars =>
          [\A b \in Batches :
             b \in ended' \ ended =>
               selection' = IF b \in onPage THEN Submitted(b) \ Done(b) ELSE selection]_bulkVars
    BY StepKeepsChoice
  <1> QED
    BY <1>1, BulkHoldsInitially, StepKeepsBatches, PTL DEF BulkSpec, EndKeepsChoice
=============================================================================
