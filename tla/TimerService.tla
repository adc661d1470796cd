---------------------------- MODULE TimerService ----------------------------
(***************************************************************************)
(* The time-entry half of the tracking service, for one user: the handlers *)
(* of POST, PUT, PATCH, DELETE .../time_entries, .../stop and              *)
(* GET /me/time_entries/current, run by concurrent requests over           *)
(*   entries    the user's rows of tracking_time_entries                   *)
(*   pointer    the user's row of tracking_running_timers (its             *)
(*              time_entry_id; user_id is the primary key)                 *)
(*   lockAt     report_locked_at of every workspace.                       *)
(* Every SQL statement is one step, because the store runs each on its own *)
(* connection with no transaction around a handler.  Between two steps any *)
(* other request may run, and the handler may end (Abort): a failed store  *)
(* call, a cancelled context and a crash of the process all leave the      *)
(* writes already made.  Every query filters on user_id, so the timers of  *)
(* two users do not interact and one user is enough.                       *)
(***************************************************************************)
EXTENDS TimeEntryRange

CONSTANTS
  Requests,    \* request handlers that may be in flight at once
  EntryIds,    \* ids the identity column hands out
  Workspaces,
  Times,       \* start and stop times clients send and the clock shows
  Durations    \* durations clients send

ASSUME TimesAreSeconds == Times \subseteq Int
ASSUME DurationsAreSeconds == Durations \subseteq Int
ASSUME NoneIsNoId == None \notin EntryIds /\ None \notin Workspaces

VARIABLES entries, pointer, lockAt, req

vars == <<entries, pointer, lockAt, req>>

Row == [ws : Workspaces, start : Int, stop : Optional(Int), duration : Int, deleted : BOOLEAN]

\* UpdateTimeEntryCommand, as far as it moves the entry in time; the empty
\* edit is one that only changes the description, project, tags or billable.
Edit == [start : Optional(Int), stop : Optional(Int), duration : Optional(Int)]
ClientEdits == [start : Optional(Times), stop : Optional(Times), duration : Optional(Durations)]

\* What a handler uses of the entry GetCurrentTimeEntry returned.
Current == [id : EntryIds, ws : Workspaces, start : Int]

\* nil is neither a row nor an answer of GetCurrentTimeEntry.
ASSUME NoneIsNoRecord == None \notin Row /\ None \notin Current

Labels == {"idle", "readstop", "get", "lock", "lookup", "fallback", "repair",
           "resolve", "write", "delete", "clear", "insert", "point"}

\* A handler's program counter and locals: the operation, the entry it works
\* on, the edit, its copy of the row, the range of the entry being created,
\* and the current entry it has read.
Request == [pc : Labels,
            op : {"none", "create", "update", "stop", "delete", "current"},
            ws : Optional(Workspaces),
            id : Optional(EntryIds),
            edit : Edit,
            row : Optional(Row),
            new : Optional(Row),
            seen : Optional(Current)]

Used(id) == entries[id] # None

\* Which locals a handler at a label has filled.
LocalsOK(q) ==
  /\ (q.pc = "idle") <=> (q.op = "none")
  /\ q.pc \in {"readstop", "get", "lock", "write", "delete", "clear", "point"} => q.id # None
  /\ q.pc \in {"readstop", "get", "lock"} => q.ws # None
  /\ q.pc \in {"lock", "write", "delete", "clear"} => q.row # None
  /\ q.pc \in {"lookup", "fallback", "repair", "resolve"} /\ q.op = "update" => q.id # None /\ q.row # None
  /\ q.pc = "insert" => q.op = "create"
  /\ q.op = "create" => q.new # None
  /\ q.pc = "repair" => q.seen # None

\* A handler's copy is the copy of an entry that exists.
CopyOK(q) == q.row # None => q.id # None /\ Used(q.id)

NoEdit == [start |-> None, stop |-> None, duration |-> None]

IdleRequest == [pc |-> "idle", op |-> "none", ws |-> None, id |-> None, edit |-> NoEdit,
                row |-> None, new |-> None, seen |-> None]

\* GetTimeEntry finds the row.
Visible(ws, id) == Used(id) /\ entries[id].ws = ws /\ ~entries[id].deleted

\* The row is in the table and not soft-deleted.
Live(id) == Used(id) /\ ~entries[id].deleted

Running(id) == Live(id) /\ entries[id].stop = None

\* What the fallback query of GetCurrentTimeEntry takes for running.
NegativeDuration(id) == Live(id) /\ entries[id].duration < 0

AsCurrent(id) == [id |-> id, ws |-> entries[id].ws, start |-> entries[id].start]

\* checkReportLock refuses the entry.
Locked(ws, start) == lockAt[ws] # None /\ start < lockAt[ws]

RowOf(ws, range) ==
  [ws |-> ws, start |-> range.start, stop |-> range.stop, duration |-> range.duration,
   deleted |-> FALSE]

Goto(r, label) == req' = [req EXCEPT ![r].pc = label]
Finish(r) == req' = [req EXCEPT ![r] = IdleRequest]

TablesUnchanged == UNCHANGED <<entries, pointer, lockAt>>

Init ==
  /\ entries = [id \in EntryIds |-> None]
  /\ pointer = None
  /\ lockAt = [ws \in Workspaces |-> None]
  /\ req = [r \in Requests |-> IdleRequest]
-----------------------------------------------------------------------------
(***************************************************************************)
(* Arrival of a request.                                                   *)
(***************************************************************************)

\* CreateTimeEntry up to its first use of the store: the range is normalised
\* before the current entry is looked up, and an invalid one is refused.
BeginCreate(r) ==
  /\ req[r].pc = "idle"
  /\ \E ws \in Workspaces, start \in Times, stop \in Optional(Times), duration \in Optional(Durations) :
       LET range == NormalizeRange(start, stop, duration)
       IN  /\ range # InvalidRange
           /\ req' = [req EXCEPT ![r] =
                [IdleRequest EXCEPT !.op = "create",
                                    !.pc = IF range.stop = None THEN "lookup" ELSE "insert",
                                    !.new = RowOf(ws, range)]]
  /\ TablesUnchanged

\* PUT, or one id of a bulk PATCH: the edit is chosen where it is first read.
BeginUpdate(r) ==
  /\ req[r].pc = "idle"
  /\ \E ws \in Workspaces, id \in EntryIds :
       req' = [req EXCEPT ![r] = [IdleRequest EXCEPT !.op = "update", !.pc = "get", !.ws = ws, !.id = id]]
  /\ TablesUnchanged

BeginStop(r) ==
  /\ req[r].pc = "idle"
  /\ \E ws \in Workspaces, id \in EntryIds :
       req' = [req EXCEPT ![r] = [IdleRequest EXCEPT !.op = "stop", !.pc = "readstop", !.ws = ws, !.id = id]]
  /\ TablesUnchanged

BeginDelete(r) ==
  /\ req[r].pc = "idle"
  /\ \E ws \in Workspaces, id \in EntryIds :
       req' = [req EXCEPT ![r] = [IdleRequest EXCEPT !.op = "delete", !.pc = "get", !.ws = ws, !.id = id]]
  /\ TablesUnchanged

\* GET /me/time_entries/current, which every open web client polls.
BeginCurrent(r) ==
  /\ req[r].pc = "idle"
  /\ req' = [req EXCEPT ![r] = [IdleRequest EXCEPT !.op = "current", !.pc = "lookup"]]
  /\ TablesUnchanged
-----------------------------------------------------------------------------
(***************************************************************************)
(* Reading and checking the entry a request works on.                      *)
(***************************************************************************)

\* StopTimeEntry reads the entry once for its start, then calls
\* UpdateTimeEntry, which reads it again.
ReadForStop(r) ==
  /\ req[r].pc = "readstop"
  /\ Visible(req[r].ws, req[r].id)
  /\ \E now \in Times :
       req' = [req EXCEPT ![r].pc = "get",
                          ![r].edit = [start |-> None, stop |-> now,
                                       duration |-> now - entries[req[r].id].start]]
  /\ TablesUnchanged

ReadEntry(r) ==
  /\ req[r].pc = "get"
  /\ Visible(req[r].ws, req[r].id)
  /\ req' = [req EXCEPT ![r].pc = "lock", ![r].row = entries[req[r].id]]
  /\ TablesUnchanged

\* ErrTimeEntryNotFound: also ends a create whose auto-stop it meets.
EntryNotFound(r) ==
  /\ req[r].pc \in {"readstop", "get"}
  /\ ~Visible(req[r].ws, req[r].id)
  /\ Finish(r)
  /\ TablesUnchanged

\* ErrReportLocked.
RejectLocked(r) ==
  /\ req[r].pc = "lock"
  /\ Locked(req[r].ws, req[r].row.start)
  /\ Finish(r)
  /\ TablesUnchanged

\* The edits the handler at "lock" may hold: the client's for an update, the
\* stop built earlier for StopTimeEntry and the auto-stop of a create.
EditsOf(r) == IF req[r].op = "update" THEN ClientEdits ELSE {req[r].edit}

\* The lock is checked on the row as read; the edit is merged into that copy.
ApplyEdit(r) ==
  /\ req[r].pc = "lock"
  /\ req[r].op # "delete"
  /\ ~Locked(req[r].ws, req[r].row.start)
  /\ \E edit \in EditsOf(r) :
       LET range == EditedRange(req[r].row, edit)
       IN  /\ range # InvalidRange
           /\ req' = [req EXCEPT ![r].pc = IF range.stop = None THEN "lookup" ELSE "write",
                                 ![r].row = RowOf(req[r].row.ws, range),
                                 ![r].edit = NoEdit]
  /\ TablesUnchanged

RejectEdit(r) ==
  /\ req[r].pc = "lock"
  /\ req[r].op # "delete"
  /\ ~Locked(req[r].ws, req[r].row.start)
  /\ \E edit \in EditsOf(r) : EditedRange(req[r].row, edit) = InvalidRange
  /\ Finish(r)
  /\ TablesUnchanged

\* Mutant: DeleteTimeEntry forgets checkReportLock.
AllowDeleteLocked(r) ==
  /\ req[r].pc = "lock"
  /\ req[r].op = "delete"
  /\ Goto(r, "delete")
  /\ TablesUnchanged

AllowDelete(r) ==
  /\ req[r].pc = "lock"
  /\ req[r].op = "delete"
  /\ ~Locked(req[r].ws, req[r].row.start)
  /\ Goto(r, "delete")
  /\ TablesUnchanged
-----------------------------------------------------------------------------
(***************************************************************************)
(* store.GetCurrentTimeEntry: the pointer, else the latest-starting entry  *)
(* with a negative duration, which then becomes the pointer.               *)
(***************************************************************************)

\* The join through tracking_running_timers does not look at stop_time.
LookupPointer(r) ==
  /\ req[r].pc = "lookup"
  /\ IF pointer # None /\ Live(pointer)
     THEN req' = [req EXCEPT ![r].pc = "resolve", ![r].seen = AsCurrent(pointer)]
     ELSE Goto(r, "fallback")
  /\ TablesUnchanged

FallbackFinds(r) ==
  /\ req[r].pc = "fallback"
  /\ \E id \in EntryIds :
       /\ NegativeDuration(id)
       /\ \A other \in EntryIds : NegativeDuration(other) => entries[other].start <= entries[id].start
       /\ req' = [req EXCEPT ![r].pc = "repair", ![r].seen = AsCurrent(id)]
  /\ TablesUnchanged

FallbackEmpty(r) ==
  /\ req[r].pc = "fallback"
  /\ ~ \E id \in EntryIds : NegativeDuration(id)
  /\ Goto(r, "resolve")
  /\ TablesUnchanged

\* Mutant: the fallback does not repair the pointer.
LeavePointer(r) ==
  /\ req[r].pc = "repair"
  /\ Goto(r, "resolve")
  /\ TablesUnchanged

\* An error of the repair is dropped.
RepairPointer(r) ==
  /\ req[r].pc = "repair"
  /\ pointer' \in {pointer, req[r].seen.id}
  /\ Goto(r, "resolve")
  /\ UNCHANGED <<entries, lockAt>>
-----------------------------------------------------------------------------
(***************************************************************************)
(* What the three callers of GetCurrentTimeEntry do with its answer.       *)
(***************************************************************************)

\* CreateTimeEntry stops the entry it takes for running at its own start.
AutoStop(r) ==
  /\ req[r].pc = "resolve"
  /\ req[r].op = "create"
  /\ req[r].seen # None
  /\ req' = [req EXCEPT ![r].pc = "get",
                        ![r].ws = req[r].seen.ws,
                        ![r].id = req[r].seen.id,
                        ![r].edit = [start |-> None, stop |-> req[r].new.start,
                                     duration |-> req[r].new.start - req[r].seen.start],
                        ![r].row = None,
                        ![r].seen = None]
  /\ TablesUnchanged

\* Mutant: CreateTimeEntry does not stop the current entry.
StopNothing(r) ==
  /\ req[r].pc = "resolve"
  /\ req[r].op = "create"
  /\ req' = [req EXCEPT ![r].pc = "insert", ![r].row = None, ![r].seen = None]
  /\ TablesUnchanged

NothingToStop(r) ==
  /\ req[r].pc = "resolve"
  /\ req[r].op = "create"
  /\ req[r].seen = None
  /\ req' = [req EXCEPT ![r].pc = "insert", ![r].row = None]
  /\ TablesUnchanged

\* UpdateTimeEntry keeps an entry running unless another one is current.
KeepRunning(r) ==
  /\ req[r].pc = "resolve"
  /\ req[r].op = "update"
  /\ req[r].seen # None => req[r].seen.id = req[r].id
  /\ req' = [req EXCEPT ![r].pc = "write", ![r].seen = None]
  /\ TablesUnchanged

\* ErrRunningTimeEntryExists.
RejectConflict(r) ==
  /\ req[r].pc = "resolve"
  /\ req[r].op = "update"
  /\ req[r].seen # None
  /\ req[r].seen.id # req[r].id
  /\ Finish(r)
  /\ TablesUnchanged

ReturnCurrent(r) ==
  /\ req[r].pc = "resolve"
  /\ req[r].op = "current"
  /\ Finish(r)
  /\ TablesUnchanged
-----------------------------------------------------------------------------
(***************************************************************************)
(* Writes.                                                                 *)
(***************************************************************************)

\* Mutant: the UPDATE writes deleted_at from the handler's copy.
WriteDeletedAt(r) ==
  /\ req[r].pc = "write"
  /\ entries' = [entries EXCEPT ![req[r].id] = req[r].row]
  /\ Goto(r, IF req[r].row.stop = None THEN "point" ELSE "clear")
  /\ UNCHANGED <<pointer, lockAt>>

\* The UPDATE writes the whole copy; it neither tests nor writes deleted_at.
WriteEntry(r) ==
  /\ req[r].pc = "write"
  /\ LET id == req[r].id
     IN  entries' = [entries EXCEPT ![id] = [req[r].row EXCEPT !.deleted = entries[id].deleted]]
  /\ Goto(r, IF req[r].row.stop = None THEN "point" ELSE "clear")
  /\ UNCHANGED <<pointer, lockAt>>

MarkDeleted(r) ==
  /\ req[r].pc = "delete"
  /\ entries' = [entries EXCEPT ![req[r].id].deleted = TRUE]
  /\ IF req[r].row.stop = None THEN Goto(r, "clear") ELSE Finish(r)
  /\ UNCHANGED <<pointer, lockAt>>

\* Mutant: an auto-stop leaves the pointer on the entry it stopped.
ClearPointerUnlessCreating(r) ==
  /\ req[r].pc = "clear"
  /\ IF req[r].op = "create"
     THEN /\ req' = [req EXCEPT ![r].pc = "insert", ![r].ws = None, ![r].id = None,
                                ![r].row = None, ![r].edit = NoEdit]
          /\ UNCHANGED pointer
     ELSE Finish(r) /\ pointer' = None
  /\ UNCHANGED <<entries, lockAt>>

\* ClearRunningTimeEntry deletes the user's pointer, whatever entry it names;
\* after an auto-stop the create goes on.
ClearPointer(r) ==
  /\ req[r].pc = "clear"
  /\ pointer' = None
  /\ IF req[r].op = "create"
     THEN req' = [req EXCEPT ![r].pc = "insert", ![r].ws = None, ![r].id = None,
                             ![r].row = None, ![r].edit = NoEdit]
     ELSE Finish(r)
  /\ UNCHANGED <<entries, lockAt>>

\* Mutant: the pointer is set without the id the INSERT returned.
InsertWithoutId(r) ==
  /\ req[r].pc = "insert"
  /\ \E id \in EntryIds :
       /\ ~Used(id)
       /\ entries' = [entries EXCEPT ![id] = req[r].new]
       /\ IF req[r].new.stop = None THEN Goto(r, "point") ELSE Finish(r)
  /\ UNCHANGED <<pointer, lockAt>>

\* Mutant: the id of a deleted entry is handed out again.
InsertReusingIds(r) ==
  /\ req[r].pc = "insert"
  /\ \E id \in EntryIds :
       /\ ~Live(id)
       /\ entries' = [entries EXCEPT ![id] = req[r].new]
       /\ IF req[r].new.stop = None
          THEN req' = [req EXCEPT ![r].pc = "point", ![r].id = id, ![r].row = None]
          ELSE Finish(r)
  /\ UNCHANGED <<pointer, lockAt>>

InsertEntry(r) ==
  /\ req[r].pc = "insert"
  /\ \E id \in EntryIds :
       /\ ~Used(id)
       /\ entries' = [entries EXCEPT ![id] = req[r].new]
       /\ IF req[r].new.stop = None
          THEN req' = [req EXCEPT ![r].pc = "point", ![r].id = id, ![r].row = None]
          ELSE Finish(r)
  /\ UNCHANGED <<pointer, lockAt>>

\* SetRunningTimeEntry: upsert of the user's pointer.
PointRunning(r) ==
  /\ req[r].pc = "point"
  /\ pointer' = req[r].id
  /\ Finish(r)
  /\ UNCHANGED <<entries, lockAt>>
-----------------------------------------------------------------------------
\* The next store call fails, the client goes away or the process dies.
Abort(r) ==
  /\ req[r].pc # "idle"
  /\ Finish(r)
  /\ TablesUnchanged

\* A workspace administrator moves or clears report_locked_at.
SetReportLock(ws) ==
  /\ \E at \in Optional(Times) \ {lockAt[ws]} : lockAt' = [lockAt EXCEPT ![ws] = at]
  /\ UNCHANGED <<entries, pointer, req>>

Arrive(r) == BeginCreate(r) \/ BeginUpdate(r) \/ BeginStop(r) \/ BeginDelete(r) \/ BeginCurrent(r)

Check(r) ==
  \/ ReadForStop(r) \/ ReadEntry(r) \/ EntryNotFound(r)
  \/ RejectLocked(r) \/ ApplyEdit(r) \/ RejectEdit(r) \/ AllowDelete(r)

GetCurrent(r) == LookupPointer(r) \/ FallbackFinds(r) \/ FallbackEmpty(r) \/ RepairPointer(r)

Resolve(r) == AutoStop(r) \/ NothingToStop(r) \/ KeepRunning(r) \/ RejectConflict(r) \/ ReturnCurrent(r)

Write(r) == WriteEntry(r) \/ MarkDeleted(r) \/ ClearPointer(r) \/ InsertEntry(r) \/ PointRunning(r)

Step(r) == Check(r) \/ GetCurrent(r) \/ Resolve(r) \/ Write(r)

Handle(r) == Arrive(r) \/ Step(r) \/ Abort(r)

Next == (\E r \in Requests : Handle(r)) \/ (\E ws \in Workspaces : SetReportLock(ws))

Spec == Init /\ [][Next]_vars

\* No administrator touches the report lock while the requests run.
SteadyLockInit ==
  /\ entries = [id \in EntryIds |-> None]
  /\ pointer = None
  /\ lockAt \in [Workspaces -> Optional(Times)]
  /\ req = [r \in Requests |-> IdleRequest]

SteadyLockSpec == SteadyLockInit /\ [][\E r \in Requests : Handle(r)]_vars

\* Clients keep polling the current entry, and a poll that is retried often
\* enough gets through: no statement of it fails every time.
RepairSucceeds(r) == RepairPointer(r) /\ pointer' = req[r].seen.id
PollingFairness ==
  \A r \in Requests :
    /\ WF_vars(BeginCurrent(r))
    /\ WF_vars(ReturnCurrent(r))
    /\ SF_vars(LookupPointer(r))
    /\ SF_vars(FallbackFinds(r))
    /\ SF_vars(RepairSucceeds(r))

PollingSpec == SteadyLockSpec /\ PollingFairness
-----------------------------------------------------------------------------
(***************************************************************************)
(* Properties.                                                             *)
(***************************************************************************)

\* The tables and the handlers' locals have the shapes of their columns and
\* variables, and a handler that is past its first read holds what it read.
TypeOK ==
  /\ entries \in [EntryIds -> Optional(Row)]
  /\ pointer \in Optional(EntryIds)
  /\ lockAt \in [Workspaces -> Optional(Int)]
  /\ req \in [Requests -> Request]
  /\ \A r \in Requests : LocalsOK(req[r]) /\ CopyOK(req[r])

\* However requests interleave and wherever they fail, every stored row is
\* either running (no stop, duration = -start) or stopped (stop >= start,
\* duration = stop - start): the two encodings of "running" that
\* GetCurrentTimeEntry, the reports and the clients use never disagree.
RowsWellFormed == \A id \in EntryIds : Used(id) => WellFormedRange(entries[id])

\* A user has at most one running entry across all workspaces
\* (regressions_test.go, VAL-TIMER-001).
AtMostOneRunning == \A a, b \in EntryIds : Running(a) /\ Running(b) => a = b

\* What GetCurrentTimeEntry answers when it runs alone.
CurrentAnswers ==
  IF pointer # None /\ Live(pointer) THEN {pointer}
  ELSE {id \in EntryIds : NegativeDuration(id)}

\* A running entry is never hidden from its user: GetCurrentTimeEntry finds
\* it, whether the pointer was written, lost to another entry's update or
\* left dangling on a deleted entry.
RunningEntryIsCurrent == \A id \in EntryIds : Running(id) => CurrentAnswers = {id}

\* A soft-deleted entry stays deleted, even when an update that read it
\* before the deletion writes its copy back afterwards.
DeletedStaysDeleted ==
  [][\A id \in EntryIds : Used(id) /\ entries[id].deleted => Used(id)' /\ entries'[id].deleted]_vars

\* An update cannot start a timer: a stopped entry never becomes a running
\* one (regressions_test.go, the note above VAL-REG-001).
StoppedStaysStopped ==
  [][\A id \in EntryIds : Used(id) /\ entries[id].stop # None => entries'[id].stop # None]_vars

\* Entries that start before their workspace's report_locked_at are
\* immutable (checkReportLock): no request changes or deletes them.
LockedEntriesImmutable ==
  [][\A id \in EntryIds :
       Live(id) /\ Locked(entries[id].ws, entries[id].start) => entries'[id] = entries[id]]_vars

\* Once only polls of the current entry run and an entry is left running,
\* the polls restore the pointer that HasRunningTimer and the primary lookup
\* depend on, however it was lost.
PollsRestorePointer ==
  <>[](\A r \in Requests : req[r].op \in {"none", "current"}) /\ <>[](\E id \in EntryIds : Running(id))
    => <>[](pointer # None /\ Live(pointer))

(***************************************************************************)
(* The refinement: what each entry is to its user.                         *)
(***************************************************************************)
Phase(id) ==
  IF ~Used(id) THEN "absent"
  ELSE IF entries[id].deleted THEN "deleted"
  ELSE IF entries[id].stop = None THEN "running" ELSE "stopped"

Timer == INSTANCE RunningTimer WITH phase <- [id \in EntryIds |-> Phase(id)]

\* Requests of a user that arrive one at a time move the entries exactly as
\* RunningTimer allows, whatever store call fails.
ImplementsRunningTimer == Timer!Spec
-----------------------------------------------------------------------------
(***************************************************************************)
(* Inductive strengthenings: what the proofs carry along.                  *)
(***************************************************************************)

SoundRow(row) == WellFormedRange(row) /\ row.start \in Times

\* Every row, stored or still in a handler's hands, is well formed and starts
\* at a time some client or the clock gave; no stop moves a start.
RowsSound ==
  /\ \A id \in EntryIds : Used(id) => SoundRow(entries[id])
  /\ \A r \in Requests :
       /\ req[r].row # None => SoundRow(req[r].row)
       /\ req[r].new # None => SoundRow(req[r].new) /\ ~req[r].new.deleted
       /\ req[r].edit.start = None

\* What a handler that runs alone knows at each of its steps.
KnowsEntry(q) ==
  /\ q.row # None /\ q.pc # "clear" => Live(q.id) /\ (q.row.stop = None => Running(q.id))
  /\ q.pc = "lock" => q.row = entries[q.id]
  /\ q.pc = "point" => Running(q.id)
  /\ q.pc = "readstop" => q.op = "stop"
  /\ q.pc = "delete" => q.op = "delete"

KnowsCurrent(q) ==
  /\ q.pc \in {"readstop", "get", "lock", "lookup", "fallback"} => q.seen = None
  /\ q.pc = "fallback" => pointer = None \/ ~Live(pointer)
  /\ q.pc = "repair" => Running(q.seen.id)
  /\ q.pc = "resolve" => CurrentAnswers = IF q.seen = None THEN {} ELSE {q.seen.id}

\* A create stops the one entry that is current before it inserts its own.
StopsBeforeStarting(q) ==
  q.op = "create" =>
    /\ q.pc \in {"get", "lock", "write"} => CurrentAnswers = {q.id}
    /\ q.pc \in {"get", "lock"} => q.edit.stop # None
    /\ q.pc = "write" => q.row.stop # None
    /\ q.pc = "clear" => \A id \in EntryIds : ~Running(id)
    /\ q.pc = "insert" /\ q.new.stop = None => CurrentAnswers = {}

\* The invariant of a user whose requests arrive one at a time.
SerialInv ==
  /\ RowsSound
  /\ RunningEntryIsCurrent
  /\ pointer # None => Used(pointer)
  /\ \A r \in Requests : KnowsEntry(req[r]) /\ KnowsCurrent(req[r]) /\ StopsBeforeStarting(req[r])

\* What a handler that runs alone has checked under a lock nobody moves: from
\* the check to its write, the entry in the table passes it.
PassedTheLock(q) ==
  /\ q.pc = "lock" => q.ws = entries[q.id].ws /\ q.row = entries[q.id]
  /\ \/ q.pc = "delete"
     \/ q.pc \in {"lookup", "fallback", "repair", "resolve", "write"} /\ q.row # None
     => ~Locked(entries[q.id].ws, entries[q.id].start)

LockInv == \A r \in Requests : PassedTheLock(req[r])
=============================================================================
