----------------------------- MODULE BulkWrites -----------------------------
(***************************************************************************)
(* Bulk actions on the clients page over the queue of writes: each id of a *)
(* batch is one write of that client, called in a microtask of its own.    *)
(***************************************************************************)
EXTENDS EntityWrites, BulkAction

ASSUME WritesOfBatches ==
  /\ Writes = Batches \X Ids
  /\ KeyOf = [w \in Writes |-> w[2]]

bulkWriteVars == <<writeVars, bulkVars>>

BulkWritesInit == WritesInit /\ BulkInit

\* Microtasks run before the next event: no click and no answer comes between
\* the calls of a batch.
AllCalled ==
  \A b \in Batches, i \in Ids : items[b][i] = "pending" => phase[<<b, i>>] # "idle"

\* Promise.resolve().then(() => action(id)): the mutation calls writeEntity.
CallAction(b, i) ==
  /\ items[b][i] = "pending"
  /\ WriteEntity(<<b, i>>)
  /\ UNCHANGED bulkVars

\* The mutation settles as the promise of its write.
SettleAction(b, i) ==
  /\ AllCalled
  /\ \/ Settle(<<b, i>>, "resolved") /\ SettleItem(b, i, "done")
     \/ Settle(<<b, i>>, "rejected") /\ SettleItem(b, i, "failed")

BulkWritesNext ==
  \/ SelectionStep /\ AllCalled /\ UNCHANGED writeVars
  \/ \E b \in Batches :
       \/ Run(b) /\ AllCalled /\ UNCHANGED writeVars
       \/ Finish(b) /\ UNCHANGED writeVars
       \/ \E i \in Ids : CallAction(b, i) \/ SettleAction(b, i)
  \/ \E w \in Writes : (StartOperation(w) \/ Release(w)) /\ UNCHANGED bulkVars

BulkWritesSafety == BulkWritesInit /\ [][BulkWritesNext]_bulkWriteVars

\* Callbacks of promises run and requests settle; nothing is assumed about the user.
BulkWritesSpec ==
  /\ BulkWritesSafety
  /\ \A b \in Batches :
       /\ WF_bulkWriteVars(Finish(b) /\ UNCHANGED writeVars)
       /\ \A i \in Ids : WF_bulkWriteVars(CallAction(b, i)) /\ WF_bulkWriteVars(SettleAction(b, i))
  /\ \A w \in Writes :
       /\ WF_bulkWriteVars(StartOperation(w) /\ UNCHANGED bulkVars)
       /\ WF_bulkWriteVars(Release(w) /\ UNCHANGED bulkVars)
-----------------------------------------------------------------------------
\* Every batch ends, also behind the failed writes of a batch whose page the
\* user has left.
BatchesEnd == \A b \in Batches : Submitted(b) # {} ~> b \in ended
=============================================================================
