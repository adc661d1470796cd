---------------------------- MODULE EntityWrites ----------------------------
(***************************************************************************)
(* writeEntity: the mutations of clients, tags and members append their    *)
(* request to a chain of promises kept per query client and entity.  An    *)
(* action is one synchronous call or one callback of a promise; callbacks  *)
(* of different promises may run in any order.                             *)
(***************************************************************************)
CONSTANTS
  Writes,   \* calls of writeEntity, by any instance of any hook
  Keys,     \* entities
  KeyOf,    \* the entity a call writes
  NoWrite   \* no promise: Promise.resolve(), or no entry of the map

ASSUME KeysAssumption == KeyOf \in [Writes -> Keys] /\ NoWrite \notin Writes

VARIABLES
  tail,      \* queues.get(client): the last promise of each entity
  previous,  \* the promise a write was chained to
  phase,     \* of the promise a call returned
  released,  \* writes whose release callback has run
  earlier    \* history: unsettled writes of the entity when a write was called

writeVars == <<tail, previous, phase, released, earlier>>

Settled == {"resolved", "rejected"}
Unsettled(k) == {w \in Writes : KeyOf[w] = k /\ phase[w] \in {"waiting", "running"}}

WritesInit ==
  /\ tail = [k \in Keys |-> NoWrite]
  /\ previous = [w \in Writes |-> NoWrite]
  /\ phase = [w \in Writes |-> "idle"]
  /\ released = {}
  /\ earlier = [w \in Writes |-> {}]

WriteEntity(w) ==
  /\ phase[w] = "idle"
  /\ phase' = [phase EXCEPT ![w] = "waiting"]
  /\ previous' = [previous EXCEPT ![w] = tail[KeyOf[w]]]
  /\ tail' = [tail EXCEPT ![KeyOf[w]] = w]
  /\ earlier' = [earlier EXCEPT ![w] = Unsettled(KeyOf[w])]
  /\ UNCHANGED released

\* Mutant: the chain continues only after a success.
AfterSuccess(w) == previous[w] # NoWrite => phase[previous[w]] = "resolved"

\* Mutant: the chain is kept, but no call waits for it.
NoWait(w) == TRUE

\* previous.catch(() => {}): whatever became of the promise before.
PreviousSettled(w) == previous[w] # NoWrite => phase[previous[w]] \in Settled

StartOperation(w) ==
  /\ phase[w] = "waiting"
  /\ PreviousSettled(w)
  /\ phase' = [phase EXCEPT ![w] = "running"]
  /\ UNCHANGED <<tail, previous, released, earlier>>

Settle(w, outcome) ==
  /\ phase[w] = "running"
  /\ phase' = [phase EXCEPT ![w] = outcome]
  /\ UNCHANGED <<tail, previous, released, earlier>>

\* The last write of an entity removes the entry of the map.
Release(w) ==
  /\ phase[w] \in Settled
  /\ w \notin released
  /\ released' = released \union {w}
  /\ tail' = IF tail[KeyOf[w]] = w THEN [tail EXCEPT ![KeyOf[w]] = NoWrite] ELSE tail
  /\ UNCHANGED <<previous, phase, earlier>>

WritesNext ==
  \E w \in Writes :
    \/ WriteEntity(w)
    \/ StartOperation(w)
    \/ \E outcome \in Settled : Settle(w, outcome)
    \/ Release(w)

WritesSpec == WritesInit /\ [][WritesNext]_writeVars
-----------------------------------------------------------------------------
WritesTypeOK ==
  /\ tail \in [Keys -> Writes \union {NoWrite}]
  /\ previous \in [Writes -> Writes \union {NoWrite}]
  /\ phase \in [Writes -> {"idle", "waiting", "running"} \union Settled]
  /\ released \subseteq Writes
  /\ earlier \in [Writes -> SUBSET Writes]

\* The page never waits for two requests that write one entity at a time, so of
\* two edits that it sees answered the server gets the earlier one first.
OneWriteAtATime ==
  \A v, w \in Writes :
    phase[v] = "running" /\ phase[w] = "running" /\ KeyOf[v] = KeyOf[w] => v = w

\* A write that has begun was called after everything it had to wait for ended.
BegunInOrder ==
  \A w \in Writes :
    phase[w] \in {"running"} \union Settled =>
      \A v \in earlier[w] : phase[v] \in Settled

\* The refinement: SerialWrites forgets the promises and the map.
Stage(w) ==
  CASE phase[w] = "idle" -> "idle"
    [] phase[w] = "waiting" -> "pending"
    [] phase[w] = "running" -> "active"
    [] phase[w] \in Settled -> "over"

Abstract == INSTANCE SerialWrites WITH stage <- [w \in Writes |-> Stage(w)], ahead <- earlier

\* Every write waits for exactly the unsettled writes of its entity that were
\* called before it, and is made in the end.
ImplementsSerialWrites == Abstract!SSpec
-----------------------------------------------------------------------------
(***************************************************************************)
(* What makes the chain work.                                              *)
(***************************************************************************)

\* The map leads to every unsettled write of its entity.
TailCoversUnsettled ==
  \A k \in Keys :
    IF tail[k] = NoWrite
    THEN Unsettled(k) = {}
    ELSE /\ KeyOf[tail[k]] = k
         /\ phase[tail[k]] # "idle"
         /\ Unsettled(k) \subseteq {tail[k]} \union earlier[tail[k]]

\* So does the promise a write was chained to, for what was called before it.
PreviousCoversEarlier ==
  \A w \in Writes :
    phase[w] # "idle" =>
      IF previous[w] = NoWrite
      THEN \A v \in earlier[w] : phase[v] \in Settled
      ELSE /\ phase[previous[w]] # "idle"
           /\ \A v \in earlier[w] :
                v = previous[w] \/ v \in earlier[previous[w]] \/ phase[v] \in Settled

\* Of two unsettled writes of one entity, one was called while the other was unsettled.
CallsAreOrdered ==
  \A v, w \in Writes :
    KeyOf[v] = KeyOf[w] /\ v \in Unsettled(KeyOf[v]) /\ w \in Unsettled(KeyOf[v]) =>
      v = w \/ v \in earlier[w] \/ w \in earlier[v]

\* earlier holds writes of the same entity that were called, and only of called writes.
EarlierOfOneEntity ==
  \A w \in Writes :
    /\ phase[w] = "idle" => earlier[w] = {}
    /\ \A v \in earlier[w] : KeyOf[v] = KeyOf[w] /\ phase[v] # "idle"

ChainInv ==
  /\ WritesTypeOK
  /\ TailCoversUnsettled
  /\ PreviousCoversEarlier
  /\ BegunInOrder
  /\ CallsAreOrdered
  /\ EarlierOfOneEntity
=============================================================================
