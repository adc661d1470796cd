---------------------------- MODULE SerialWrites ----------------------------
(***************************************************************************)
(* What the write queue of the web client promises: a write begins only    *)
(* after every write of its entity that was asked for before it is over,   *)
(* however those ended, and waits for no write of another entity.          *)
(***************************************************************************)
CONSTANTS
  Writes,  \* calls of writeEntity
  Keys,    \* entities
  KeyOf    \* the entity a call writes

VARIABLES
  stage,  \* of each write: "idle", "pending", "active" or "over"
  ahead   \* the writes of its entity that were not over when it was asked for

svars == <<stage, ahead>>

SInit ==
  /\ stage = [w \in Writes |-> "idle"]
  /\ ahead = [w \in Writes |-> {}]

Unfinished(k) == {w \in Writes : KeyOf[w] = k /\ stage[w] \in {"pending", "active"}}

Submit(w) ==
  /\ stage[w] = "idle"
  /\ stage' = [stage EXCEPT ![w] = "pending"]
  /\ ahead' = [ahead EXCEPT ![w] = Unfinished(KeyOf[w])]

Begin(w) ==
  /\ stage[w] = "pending"
  /\ \A v \in ahead[w] : stage[v] = "over"
  /\ stage' = [stage EXCEPT ![w] = "active"]
  /\ UNCHANGED ahead

End(w) ==
  /\ stage[w] = "active"
  /\ stage' = [stage EXCEPT ![w] = "over"]
  /\ UNCHANGED ahead

SNext == \E w \in Writes : Submit(w) \/ Begin(w) \/ End(w)

SSafety == SInit /\ [][SNext]_svars

\* With requests that settle, every write that was asked for is made.
SSpec == SSafety /\ \A w \in Writes : WF_svars(Begin(w)) /\ WF_svars(End(w))
=============================================================================
