---------------------------- MODULE RunningTimer ----------------------------
(***************************************************************************)
(* What the tracking service promises one user: entries are started,       *)
(* recorded already stopped, stopped and deleted; starting needs that      *)
(* nothing else runs, and neither a stopped nor a deleted entry comes      *)
(* back.                                                                   *)
(***************************************************************************)
CONSTANT EntryIds

VARIABLE phase

TypeOK == phase \in [EntryIds -> {"absent", "running", "stopped", "deleted"}]

Init == phase = [id \in EntryIds |-> "absent"]

Start(id) ==
  /\ phase[id] = "absent"
  /\ \A other \in EntryIds : phase[other] # "running"
  /\ phase' = [phase EXCEPT ![id] = "running"]

Record(id) ==
  /\ phase[id] = "absent"
  /\ phase' = [phase EXCEPT ![id] = "stopped"]

Stop(id) ==
  /\ phase[id] = "running"
  /\ phase' = [phase EXCEPT ![id] = "stopped"]

Delete(id) ==
  /\ phase[id] \in {"running", "stopped"}
  /\ phase' = [phase EXCEPT ![id] = "deleted"]

Next == \E id \in EntryIds : Start(id) \/ Record(id) \/ Stop(id) \/ Delete(id)

Spec == Init /\ [][Next]_phase
=============================================================================
