----------------------------- MODULE BulkAction -----------------------------
(***************************************************************************)
(* Bulk actions on the rows a user has selected: the hook useBulkAction    *)
(* and the selection of the clients page, which holds the hook.  A render  *)
(* is part of the action that causes it.                                   *)
(***************************************************************************)
EXTENDS FiniteSets

CONSTANTS
  Ids,      \* the clients of the workspace
  Batches,  \* bound: calls of run that get past its guard
  NoBatch

ASSUME BatchAssumption == NoBatch \notin Batches

VARIABLES
  selection,  \* selectedIds of the page
  running,    \* the batch of the mounted hook: running.current and isPending
  onPage,     \* batches whose page is still mounted
  items,      \* of each batch and id: "out", "pending", "done" or "failed"
  ended       \* batches that have come to their end

bulkVars == <<selection, running, onPage, items, ended>>

Submitted(b) == {i \in Ids : items[b][i] # "out"}
Failed(b) == {i \in Ids : items[b][i] = "failed"}
Done(b) == {i \in Ids : items[b][i] = "done"}

BulkInit ==
  /\ selection = {}
  /\ running = NoBatch
  /\ onPage = {}
  /\ items = [b \in Batches |-> [i \in Ids |-> "out"]]
  /\ ended = {}

\* Mutant: the page takes clicks on rows during a batch.
SelectAnyway(s) ==
  /\ selection' = s
  /\ UNCHANGED <<running, onPage, items, ended>>

\* Rows are toggled; the page ignores it during a batch.
Select(s) ==
  /\ running = NoBatch
  /\ selection' = s
  /\ UNCHANGED <<running, onPage, items, ended>>

Toggle(i) == Select(IF i \in selection THEN selection \ {i} ELSE selection \union {i})

\* The filters show some of the rows; the header's box compares numbers.
ToggleAll(shown) ==
  Select(IF Cardinality(selection) = Cardinality(shown) THEN {} ELSE shown)

\* The buttons of the bar are disabled during a batch.
Clear == running = NoBatch /\ selection # {} /\ Select({})

\* Mutant: the ref is not looked at, only the button is disabled.
RunAgain(b) ==
  /\ selection # {}
  /\ Submitted(b) = {}
  /\ running' = b
  /\ onPage' = onPage \union {b}
  /\ items' = [items EXCEPT ![b] = [i \in Ids |-> IF i \in selection THEN "pending" ELSE "out"]]
  /\ UNCHANGED <<selection, ended>>

Run(b) ==
  /\ running = NoBatch /\ selection # {}
  /\ Submitted(b) = {}
  /\ running' = b
  /\ onPage' = onPage \union {b}
  /\ items' = [items EXCEPT ![b] = [i \in Ids |-> IF i \in selection THEN "pending" ELSE "out"]]
  /\ UNCHANGED <<selection, ended>>

SettleItem(b, i, outcome) ==
  /\ items[b][i] = "pending"
  /\ items' = [items EXCEPT ![b][i] = outcome]
  /\ UNCHANGED <<selection, running, onPage, ended>>

\* onSelectionChange: nothing, or the failed ones; all of them change nothing.
SelectionAfter(b) ==
  IF Failed(b) = Submitted(b) THEN selection ELSE Failed(b)

\* finally: running.current = false and setIsPending(false).
Reset(b) == IF running = b THEN NoBatch ELSE running

\* Promise.allSettled resolves.  The setters of a page that is gone do nothing.
Finish(b) ==
  /\ Submitted(b) # {} /\ b \notin ended
  /\ Submitted(b) \subseteq Done(b) \union Failed(b)
  /\ ended' = ended \union {b}
  /\ selection' = IF b \in onPage THEN SelectionAfter(b) ELSE selection
  /\ running' = Reset(b)
  /\ UNCHANGED <<onPage, items>>

\* The user goes to another page and back.
Leave ==
  /\ selection' = {} /\ running' = NoBatch
  /\ onPage' = {}
  /\ UNCHANGED <<items, ended>>

SelectionStep ==
  \/ \E i \in Ids : Toggle(i)
  \/ \E shown \in SUBSET Ids : ToggleAll(shown)
  \/ Clear \/ Leave

BulkNext ==
  \/ SelectionStep
  \/ \E b \in Batches :
       \/ Run(b) \/ Finish(b)
       \/ \E i \in Ids, outcome \in {"done", "failed"} : SettleItem(b, i, outcome)

BulkSpec == BulkInit /\ [][BulkNext]_bulkVars
-----------------------------------------------------------------------------
\* The types; and the buttons are disabled only while a batch of this page,
\* started with this hook, has not ended.
BulkTypeOK ==
  /\ selection \subseteq Ids
  /\ running \in Batches \union {NoBatch}
  /\ onPage \subseteq Batches /\ ended \subseteq Batches
  /\ items \in [Batches -> [Ids -> {"out", "pending", "done", "failed"}]]
  /\ running # NoBatch => running \in onPage \ ended /\ Submitted(running) # {}

\* While the user stays on the page, no id is submitted to a batch that another
\* batch of the page still works on, whatever batches of an earlier visit end.
NoDuplicateSubmission ==
  \A a, b \in onPage : \A i \in Ids :
    items[a][i] = "pending" /\ items[b][i] = "pending" => a = b

\* The guard of run is sound, with batches of earlier visits still under way.
BulkInv == BulkTypeOK /\ NoDuplicateSubmission

\* The end of a batch of this page leaves selected exactly what it has not
\* carried out, so the button pressed again retries what failed and nothing
\* else; the end of a batch of an earlier visit takes nothing away.
EndKeepsChoice ==
  [][\A b \in Batches :
       b \in ended' \ ended =>
         selection' = IF b \in onPage THEN Submitted(b) \ Done(b) ELSE selection]_bulkVars
=============================================================================
