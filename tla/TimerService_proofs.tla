------------------------ MODULE TimerService_proofs ------------------------
(***************************************************************************)
(* What TimerService guarantees for every set of requests, entries,        *)
(* workspaces, times and durations, and what more it guarantees a user     *)
(* whose requests arrive one at a time.                                    *)
(***************************************************************************)
EXTENDS TimerService, TLAPS

\* normalizeTimeEntryRange refuses its input or returns a well-formed range
\* that starts where it was told to start and runs only if no stop was given.
LEMMA NormalizeRangeIsWellFormed ==
  ASSUME NEW start \in Int, NEW stop \in Optional(Int), NEW duration \in Optional(Int),
         NormalizeRange(start, stop, duration) # InvalidRange
  PROVE  /\ NormalizeRange(start, stop, duration) \in Range
         /\ WellFormedRange(NormalizeRange(start, stop, duration))
         /\ NormalizeRange(start, stop, duration).start = start
         /\ NormalizeRange(start, stop, duration).stop = None => stop = None
  BY NoneIsNotATime
  DEF NormalizeRange, InvalidRange, StoppedRange, RunningRange, Range, Optional, WellFormedRange

\* The same for the merge of an edit into a row; the merged range starts where
\* the edit or else the row starts, and runs only if neither has a stop.
LEMMA EditedRangeIsWellFormed ==
  ASSUME NEW row \in Row, NEW edit \in Edit, EditedRange(row, edit) # InvalidRange
  PROVE  /\ EditedRange(row, edit) \in Range
         /\ WellFormedRange(EditedRange(row, edit))
         /\ EditedRange(row, edit).start = IF edit.start # None THEN edit.start ELSE row.start
         /\ EditedRange(row, edit).stop = None => edit.stop = None /\ row.stop = None
  <1> DEFINE start == IF edit.start # None THEN edit.start ELSE row.start
             stop == IF edit.stop # None THEN edit.stop ELSE row.stop
             duration == IF edit.duration # None THEN edit.duration
                         ELSE IF edit.start = None /\ edit.stop = None THEN row.duration ELSE None
  <1>1. start \in Int /\ stop \in Optional(Int) /\ duration \in Optional(Int)
    BY NoneIsNotATime DEF Row, Edit, Optional
  <1>2. EditedRange(row, edit) = NormalizeRange(start, stop, duration)
    BY DEF EditedRange
  <1>3. /\ stop = None => edit.stop = None /\ row.stop = None
        /\ start = IF edit.start # None THEN edit.start ELSE row.start
    OBVIOUS
  <1> HIDE DEF start, stop, duration
  <1>4. QED
    BY <1>1, <1>2, <1>3, NormalizeRangeIsWellFormed
-----------------------------------------------------------------------------
(***************************************************************************)
(* Type correctness.                                                       *)
(***************************************************************************)

LEMMA IdleRequestIsTyped == IdleRequest \in Request /\ LocalsOK(IdleRequest) /\ CopyOK(IdleRequest)
  BY DEF IdleRequest, NoEdit, Request, Labels, Edit, Optional, LocalsOK, CopyOK

LEMMA InitIsTyped == Init => TypeOK
  BY IdleRequestIsTyped DEF Init, TypeOK, Optional

\* A step that gives one handler well-typed locals and leaves the tables
\* alone keeps the type invariant.
LEMMA OneHandlerTyped ==
  ASSUME TypeOK, NEW r \in Requests, NEW q \in Request, LocalsOK(q), CopyOK(q),
         req' = [req EXCEPT ![r] = q], TablesUnchanged
  PROVE  TypeOK'
  BY DEF TypeOK, TablesUnchanged, CopyOK, Used

LEMMA ArriveTyped == ASSUME TypeOK, NEW r \in Requests, Arrive(r) PROVE TypeOK'
  <1>1. CASE BeginCreate(r)
    <2>1. PICK ws \in Workspaces, start \in Times, stop \in Optional(Times), duration \in Optional(Durations) :
            LET range == NormalizeRange(start, stop, duration)
            IN  /\ range # InvalidRange
                /\ req' = [req EXCEPT ![r] =
                     [IdleRequest EXCEPT !.op = "create",
                                         !.pc = IF range.stop = None THEN "lookup" ELSE "insert",
                                         !.new = RowOf(ws, range)]]
      BY <1>1 DEF BeginCreate
    <2> DEFINE range == NormalizeRange(start, stop, duration)
    <2>2. range \in Range
      BY <2>1, NormalizeRangeIsWellFormed, TimesAreSeconds, DurationsAreSeconds DEF Optional
    <2>3. RowOf(ws, range) \in Row
      BY <2>2 DEF RowOf, Row, Range
    <2> DEFINE q == [IdleRequest EXCEPT !.op = "create",
                                         !.pc = IF range.stop = None THEN "lookup" ELSE "insert",
                                         !.new = RowOf(ws, range)]
    <2>4. q \in Request /\ LocalsOK(q) /\ CopyOK(q)
      <3> HIDE DEF range
      <3> QED BY <2>3, NoneIsNoRecord DEF IdleRequest, NoEdit, Request, Labels, Edit, Optional, LocalsOK, CopyOK, RowOf
    <2>5. req' = [req EXCEPT ![r] = q]
      BY <2>1
    <2> HIDE DEF q
    <2> QED BY <1>1, <2>4, <2>5, OneHandlerTyped DEF BeginCreate
  <1>2. CASE BeginUpdate(r) \/ BeginStop(r) \/ BeginDelete(r)
    <2>1. PICK op \in {"update", "stop", "delete"}, pc \in {"get", "readstop"}, ws \in Workspaces, id \in EntryIds :
            req' = [req EXCEPT ![r] = [IdleRequest EXCEPT !.op = op, !.pc = pc, !.ws = ws, !.id = id]]
      BY <1>2 DEF BeginUpdate, BeginStop, BeginDelete
    <2>2. [IdleRequest EXCEPT !.op = op, !.pc = pc, !.ws = ws, !.id = id] \in Request
      BY DEF IdleRequest, NoEdit, Request, Labels, Edit, Optional
    <2>3. LocalsOK([IdleRequest EXCEPT !.op = op, !.pc = pc, !.ws = ws, !.id = id])
          /\ CopyOK([IdleRequest EXCEPT !.op = op, !.pc = pc, !.ws = ws, !.id = id])
      BY NoneIsNoId DEF IdleRequest, LocalsOK, CopyOK
    <2> QED BY <1>2, <2>1, <2>2, <2>3, OneHandlerTyped DEF BeginUpdate, BeginStop, BeginDelete
  <1>3. CASE BeginCurrent(r)
    <2>1. [IdleRequest EXCEPT !.op = "current", !.pc = "lookup"] \in Request
      BY DEF IdleRequest, NoEdit, Request, Labels, Edit, Optional
    <2>2. LocalsOK([IdleRequest EXCEPT !.op = "current", !.pc = "lookup"])
          /\ CopyOK([IdleRequest EXCEPT !.op = "current", !.pc = "lookup"])
      BY DEF IdleRequest, LocalsOK, CopyOK
    <2> QED BY <1>3, <2>1, <2>2, OneHandlerTyped DEF BeginCurrent
  <1> QED BY <1>1, <1>2, <1>3 DEF Arrive

LEMMA CheckTyped == ASSUME TypeOK, NEW r \in Requests, Check(r) PROVE TypeOK'
  <1> DEFINE old == req[r]
  <1>0. old \in Request /\ LocalsOK(old) /\ CopyOK(old) /\ req \in [Requests -> Request]
    BY DEF TypeOK
  <1>row. ASSUME NEW id \in EntryIds, Used(id) PROVE entries[id] \in Row
    BY <1>row DEF TypeOK, Used, Optional
  <1>1. CASE ReadForStop(r)
    <2>1. PICK now \in Times :
            req' = [req EXCEPT ![r].pc = "get",
                               ![r].edit = [start |-> None, stop |-> now,
                                            duration |-> now - entries[req[r].id].start]]
      BY <1>1 DEF ReadForStop
    <2>2. old.id \in EntryIds /\ entries[old.id] \in Row
      BY <1>0, <1>1, <1>row DEF ReadForStop, Visible, Request, LocalsOK, CopyOK, Optional
    <2> DEFINE q == [old EXCEPT !.pc = "get",
                                !.edit = [start |-> None, stop |-> now,
                                          duration |-> now - entries[old.id].start]]
    <2>3. [start |-> None, stop |-> now, duration |-> now - entries[old.id].start] \in Edit
      BY <2>2, TimesAreSeconds DEF Edit, Optional, Row
    <2>4. q \in Request
      BY <1>0, <2>3 DEF Request, Labels
    <2>5. LocalsOK(q) /\ CopyOK(q)
      BY <1>0, <1>1 DEF ReadForStop, LocalsOK, CopyOK, Request
    <2>6. req' = [req EXCEPT ![r] = q]
      BY <1>0, <2>1
    <2> HIDE DEF q
    <2> QED BY <1>1, <2>4, <2>5, <2>6, OneHandlerTyped DEF ReadForStop
  <1>2. CASE ReadEntry(r)
    <2> DEFINE q == [old EXCEPT !.pc = "lock", !.row = entries[old.id]]
    <2>2. old.id \in EntryIds /\ entries[old.id] \in Row
      BY <1>0, <1>2, <1>row DEF ReadEntry, Visible, Request, LocalsOK, CopyOK, Optional
    <2>4. q \in Request
      BY <1>0, <2>2 DEF Request, Labels, Optional
    <2>5. LocalsOK(q) /\ CopyOK(q)
      BY <1>0, <1>2, <2>2, NoneIsNoRecord DEF ReadEntry, Visible, LocalsOK, CopyOK, Request
    <2>6. req' = [req EXCEPT ![r] = q]
      BY <1>0, <1>2 DEF ReadEntry
    <2> HIDE DEF q
    <2> QED BY <1>2, <2>4, <2>5, <2>6, OneHandlerTyped DEF ReadEntry
  <1>3. CASE EntryNotFound(r) \/ RejectLocked(r) \/ RejectEdit(r)
    BY <1>3, IdleRequestIsTyped, OneHandlerTyped DEF EntryNotFound, RejectLocked, RejectEdit, Finish
  <1>4. CASE ApplyEdit(r)
    <2>1. PICK edit \in EditsOf(r) :
            LET range == EditedRange(req[r].row, edit)
            IN  /\ range # InvalidRange
                /\ req' = [req EXCEPT ![r].pc = IF range.stop = None THEN "lookup" ELSE "write",
                                      ![r].row = RowOf(req[r].row.ws, range),
                                      ![r].edit = NoEdit]
      BY <1>4 DEF ApplyEdit
    <2>2. edit \in Edit
      BY <1>0, TimesAreSeconds, DurationsAreSeconds DEF EditsOf, ClientEdits, Edit, Optional, Request
    <2>3. old.row \in Row /\ old.id # None
      BY <1>0, <1>4 DEF ApplyEdit, Optional, Request, LocalsOK, CopyOK
    <2>4. PICK range \in Range :
            req' = [req EXCEPT ![r].pc = IF range.stop = None THEN "lookup" ELSE "write",
                               ![r].row = RowOf(req[r].row.ws, range),
                               ![r].edit = NoEdit]
      BY <2>1, <2>2, <2>3, EditedRangeIsWellFormed
    <2>5. RowOf(old.row.ws, range) \in Row
      BY <2>3, <2>4 DEF RowOf, Row, Range
    <2> DEFINE q == [old EXCEPT !.pc = IF range.stop = None THEN "lookup" ELSE "write",
                                !.row = RowOf(old.row.ws, range),
                                !.edit = NoEdit]
    <2>6. q \in Request
      <3>1. NoEdit \in Edit
        BY DEF NoEdit, Edit, Optional
      <3>2. (IF range.stop = None THEN "lookup" ELSE "write") \in Labels
        BY DEF Labels
      <3> QED BY <1>0, <2>5, <3>1, <3>2 DEF Request, Optional
    <2>7. LocalsOK(q) /\ CopyOK(q)
      <3>1. q.pc \in {"lookup", "write"} /\ q.row # None /\ q.op = old.op /\ q.id = old.id /\ q.new = old.new
        BY <1>0, <2>5, NoneIsNoRecord DEF Request
      <3>2. old.op # "none" /\ (old.op = "create" => old.new # None)
        BY <1>0, <1>4 DEF ApplyEdit, LocalsOK
      <3>3. Used(old.id)
        BY <1>0, <2>3, NoneIsNoRecord DEF CopyOK
      <3> HIDE DEF q
      <3> QED BY <2>3, <3>1, <3>2, <3>3 DEF LocalsOK, CopyOK
    <2>8. req' = [req EXCEPT ![r] = q]
      BY <1>0, <2>4
    <2> HIDE DEF q
    <2> QED BY <1>4, <2>6, <2>7, <2>8, OneHandlerTyped DEF ApplyEdit
  <1>5. CASE AllowDelete(r)
    <2> DEFINE q == [old EXCEPT !.pc = "delete"]
    <2>1. q \in Request /\ LocalsOK(q) /\ CopyOK(q)
      BY <1>0, <1>5 DEF AllowDelete, Request, Labels, LocalsOK, CopyOK
    <2>2. req' = [req EXCEPT ![r] = q]
      BY <1>0, <1>5 DEF AllowDelete, Goto
    <2> HIDE DEF q
    <2> QED BY <1>5, <2>1, <2>2, OneHandlerTyped DEF AllowDelete
  <1> QED BY <1>1, <1>2, <1>3, <1>4, <1>5 DEF Check

LEMMA GetCurrentTyped == ASSUME TypeOK, NEW r \in Requests, GetCurrent(r) PROVE TypeOK'
  <1> DEFINE old == req[r]
  <1>0. old \in Request /\ LocalsOK(old) /\ CopyOK(old) /\ req \in [Requests -> Request]
    BY DEF TypeOK
  <1>seen. ASSUME NEW id \in EntryIds, Live(id) PROVE AsCurrent(id) \in Current
    BY <1>seen DEF TypeOK, Live, Used, AsCurrent, Current, Row, Optional
  <1>1. CASE LookupPointer(r) /\ pointer # None /\ Live(pointer)
    <2> DEFINE q == [old EXCEPT !.pc = "resolve", !.seen = AsCurrent(pointer)]
    <2>1. AsCurrent(pointer) \in Current
      BY <1>seen, <1>1 DEF TypeOK, Optional
    <2>2. q \in Request
      BY <1>0, <2>1 DEF Request, Labels, Optional
    <2>3. LocalsOK(q) /\ CopyOK(q)
      BY <1>0, <1>1 DEF LookupPointer, LocalsOK, CopyOK, Request
    <2>4. req' = [req EXCEPT ![r] = q]
      BY <1>0, <1>1 DEF LookupPointer
    <2> HIDE DEF q
    <2> QED BY <1>1, <2>2, <2>3, <2>4, OneHandlerTyped DEF LookupPointer
  <1>2. CASE LookupPointer(r) /\ ~(pointer # None /\ Live(pointer))
    <2> DEFINE q == [old EXCEPT !.pc = "fallback"]
    <2>1. q \in Request /\ LocalsOK(q) /\ CopyOK(q)
      BY <1>0, <1>2 DEF LookupPointer, Request, Labels, LocalsOK, CopyOK
    <2>2. req' = [req EXCEPT ![r] = q]
      BY <1>0, <1>2 DEF LookupPointer, Goto
    <2> HIDE DEF q
    <2> QED BY <1>2, <2>1, <2>2, OneHandlerTyped DEF LookupPointer
  <1>3. CASE FallbackFinds(r)
    <2>1. PICK id \in EntryIds :
            /\ NegativeDuration(id)
            /\ req' = [req EXCEPT ![r].pc = "repair", ![r].seen = AsCurrent(id)]
      BY <1>3 DEF FallbackFinds
    <2> DEFINE q == [old EXCEPT !.pc = "repair", !.seen = AsCurrent(id)]
    <2>2. AsCurrent(id) \in Current
      BY <1>seen, <2>1 DEF NegativeDuration
    <2>3. q \in Request
      BY <1>0, <2>2 DEF Request, Labels, Optional
    <2>4. LocalsOK(q) /\ CopyOK(q)
      BY <1>0, <1>3, <2>2, NoneIsNoRecord DEF FallbackFinds, LocalsOK, CopyOK, Request
    <2>5. req' = [req EXCEPT ![r] = q]
      BY <1>0, <2>1
    <2> HIDE DEF q
    <2> QED BY <1>3, <2>3, <2>4, <2>5, OneHandlerTyped DEF FallbackFinds
  <1>4. CASE FallbackEmpty(r)
    <2> DEFINE q == [old EXCEPT !.pc = "resolve"]
    <2>1. q \in Request /\ LocalsOK(q) /\ CopyOK(q)
      BY <1>0, <1>4 DEF FallbackEmpty, Request, Labels, LocalsOK, CopyOK
    <2>2. req' = [req EXCEPT ![r] = q]
      BY <1>0, <1>4 DEF FallbackEmpty, Goto
    <2> HIDE DEF q
    <2> QED BY <1>4, <2>1, <2>2, OneHandlerTyped DEF FallbackEmpty
  <1>5. CASE RepairPointer(r)
    <2> DEFINE q == [old EXCEPT !.pc = "resolve"]
    <2>1. q \in Request /\ LocalsOK(q) /\ CopyOK(q)
      BY <1>0, <1>5 DEF RepairPointer, Request, Labels, LocalsOK, CopyOK
    <2>2. req' = [req EXCEPT ![r] = q]
      BY <1>0, <1>5 DEF RepairPointer, Goto
    <2>3. pointer' \in Optional(EntryIds)
      BY <1>0, <1>5 DEF RepairPointer, Request, Current, LocalsOK, CopyOK, Optional, TypeOK
    <2> HIDE DEF q
    <2> QED BY <1>5, <2>1, <2>2, <2>3 DEF RepairPointer, TypeOK, CopyOK, Used
  <1> QED BY <1>1, <1>2, <1>3, <1>4, <1>5 DEF GetCurrent

LEMMA ResolveTyped == ASSUME TypeOK, NEW r \in Requests, Resolve(r) PROVE TypeOK'
  <1> DEFINE old == req[r]
  <1>0. old \in Request /\ LocalsOK(old) /\ CopyOK(old) /\ req \in [Requests -> Request]
    BY DEF TypeOK
  <1>1. CASE AutoStop(r)
    <2>1. old.new \in Row /\ old.seen \in Current
      BY <1>0, <1>1 DEF AutoStop, Request, LocalsOK, CopyOK, Optional
    <2> DEFINE edit == [start |-> None, stop |-> old.new.start,
                        duration |-> old.new.start - old.seen.start]
               q == [old EXCEPT !.pc = "get", !.ws = old.seen.ws, !.id = old.seen.id,
                                !.edit = edit, !.row = None, !.seen = None]
    <2>2. edit \in Edit /\ old.seen.ws \in Workspaces /\ old.seen.id \in EntryIds
      BY <2>1 DEF Edit, Row, Current, Optional
    <2>3. req' = [req EXCEPT ![r] = q]
      BY <1>0, <1>1 DEF AutoStop
    <2> HIDE DEF edit
    <2>4. q \in Request
      BY <1>0, <2>2 DEF Request, Labels, Optional
    <2>5. LocalsOK(q) /\ CopyOK(q)
      BY <1>0, <1>1, <2>2, NoneIsNoId DEF AutoStop, LocalsOK, CopyOK, Request
    <2> HIDE DEF q
    <2> QED BY <1>1, <2>3, <2>4, <2>5, OneHandlerTyped DEF AutoStop
  <1>2. CASE NothingToStop(r)
    <2> DEFINE q == [old EXCEPT !.pc = "insert", !.row = None]
    <2>1. q \in Request /\ LocalsOK(q) /\ CopyOK(q)
      <3>1. old.pc = "resolve" /\ old.op = "create" /\ old.new # None
        BY <1>0, <1>2 DEF NothingToStop, LocalsOK
      <3>2. q \in Request
        BY <1>0 DEF Request, Labels, Optional
      <3>3. q.pc = "insert" /\ q.op = "create" /\ q.row = None /\ q.new # None
        BY <1>0, <3>1 DEF Request
      <3> HIDE DEF q
      <3> QED BY <3>2, <3>3 DEF LocalsOK, CopyOK
    <2>2. req' = [req EXCEPT ![r] = q]
      BY <1>0, <1>2 DEF NothingToStop
    <2> HIDE DEF q
    <2> QED BY <1>2, <2>1, <2>2, OneHandlerTyped DEF NothingToStop
  <1>3. CASE KeepRunning(r)
    <2> DEFINE q == [old EXCEPT !.pc = "write", !.seen = None]
    <2>1. q \in Request /\ LocalsOK(q) /\ CopyOK(q)
      BY <1>0, <1>3 DEF KeepRunning, Request, Labels, LocalsOK, CopyOK, Optional
    <2>2. req' = [req EXCEPT ![r] = q]
      BY <1>0, <1>3 DEF KeepRunning
    <2> HIDE DEF q
    <2> QED BY <1>3, <2>1, <2>2, OneHandlerTyped DEF KeepRunning
  <1>4. CASE RejectConflict(r) \/ ReturnCurrent(r)
    BY <1>4, IdleRequestIsTyped, OneHandlerTyped DEF RejectConflict, ReturnCurrent, Finish
  <1> QED BY <1>1, <1>2, <1>3, <1>4 DEF Resolve

LEMMA WriteTyped == ASSUME TypeOK, NEW r \in Requests, Write(r) PROVE TypeOK'
  <1> DEFINE old == req[r]
  <1>0. old \in Request /\ LocalsOK(old) /\ CopyOK(old) /\ req \in [Requests -> Request]
    BY DEF TypeOK
  \* A write that ends in q keeps the invariant when its tables are typed.
  <1>q. ASSUME NEW q \in Request, LocalsOK(q), CopyOK(q), req' = [req EXCEPT ![r] = q],
               entries' \in [EntryIds -> Optional(Row)], pointer' \in Optional(EntryIds), UNCHANGED lockAt,
               \A id \in EntryIds : Used(id) => Used(id)'
        PROVE  TypeOK'
    BY <1>q DEF TypeOK, CopyOK, Request, Optional
  <1>copy. old.row # None => old.id # None /\ Used(old.id)
    BY <1>0 DEF CopyOK
  <1>tables. entries \in [EntryIds -> Optional(Row)] /\ pointer \in Optional(EntryIds)
    BY DEF TypeOK
  <1>1. CASE WriteEntry(r)
    <2>1. old.id \in EntryIds /\ old.row \in Row /\ entries[old.id] \in Row
      BY <1>0, <1>1, <1>copy, <1>tables DEF WriteEntry, Request, LocalsOK, Used, Optional
    <2> DEFINE q == [old EXCEPT !.pc = IF old.row.stop = None THEN "point" ELSE "clear"]
    <2>2. q \in Request /\ LocalsOK(q) /\ CopyOK(q)
      BY <1>0, <1>1, <2>1, NoneIsNoId, NoneIsNoRecord DEF WriteEntry, Request, Labels, LocalsOK, CopyOK
    <2>3. req' = [req EXCEPT ![r] = q]
      BY <1>0, <1>1 DEF WriteEntry, Goto
    <2> DEFINE new == [old.row EXCEPT !.deleted = entries[old.id].deleted]
    <2>4. new \in Row
      BY <2>1 DEF Row
    <2>5. entries' = [entries EXCEPT ![old.id] = new]
      BY <1>1 DEF WriteEntry
    <2> HIDE DEF q, new
    <2>6. entries' \in [EntryIds -> Optional(Row)] /\ \A id \in EntryIds : Used(id) => Used(id)'
      BY <1>tables, <2>1, <2>4, <2>5, NoneIsNoRecord DEF Optional, Used
    <2> QED BY <1>1, <1>q, <1>tables, <2>2, <2>3, <2>6 DEF WriteEntry
  <1>2. CASE MarkDeleted(r)
    <2>1. old.id \in EntryIds /\ old.row \in Row /\ entries[old.id] \in Row
      BY <1>0, <1>2, <1>copy, <1>tables DEF MarkDeleted, Request, LocalsOK, Used, Optional
    <2> DEFINE q == [old EXCEPT !.pc = "clear"]
    <2>2. q \in Request /\ LocalsOK(q) /\ CopyOK(q)
      BY <1>0, <1>2, <2>1, NoneIsNoId, NoneIsNoRecord DEF MarkDeleted, Request, Labels, LocalsOK, CopyOK
    <2>3. req' = [req EXCEPT ![r] = q] \/ req' = [req EXCEPT ![r] = IdleRequest]
      BY <1>0, <1>2 DEF MarkDeleted, Goto, Finish
    <2> DEFINE new == [entries[old.id] EXCEPT !.deleted = TRUE]
    <2>4. new \in Row
      BY <2>1 DEF Row
    <2>5. entries' = [entries EXCEPT ![old.id] = new]
      BY <1>2 DEF MarkDeleted
    <2> HIDE DEF q, new
    <2>6. entries' \in [EntryIds -> Optional(Row)] /\ \A id \in EntryIds : Used(id) => Used(id)'
      BY <1>tables, <2>1, <2>4, <2>5, NoneIsNoRecord DEF Optional, Used
    <2> QED BY <1>2, <1>q, <1>tables, <2>2, <2>3, <2>6, IdleRequestIsTyped DEF MarkDeleted
  <1>3. CASE ClearPointer(r)
    <2> DEFINE q == [old EXCEPT !.pc = "insert", !.ws = None, !.id = None, !.row = None, !.edit = NoEdit]
    <2>0. NoEdit \in Edit
      BY DEF NoEdit, Edit, Optional
    <2>1. old.op = "create" => q \in Request /\ LocalsOK(q) /\ CopyOK(q)
      BY <1>0, <1>3, <2>0 DEF ClearPointer, Request, Labels, LocalsOK, CopyOK, Optional
    <2>2. \/ old.op = "create" /\ req' = [req EXCEPT ![r] = q]
          \/ req' = [req EXCEPT ![r] = IdleRequest]
      BY <1>0, <1>3 DEF ClearPointer, Finish
    <2> HIDE DEF q
    <2> QED BY <1>3, <1>q, <1>tables, <2>1, <2>2, IdleRequestIsTyped DEF ClearPointer, Optional, Used
  <1>4. CASE InsertEntry(r)
    <2>1. old.new \in Row
      BY <1>0, <1>4 DEF InsertEntry, Request, LocalsOK, CopyOK, Optional
    <2>2. PICK id \in EntryIds :
            /\ entries' = [entries EXCEPT ![id] = old.new]
            /\ IF old.new.stop = None
               THEN req' = [req EXCEPT ![r].pc = "point", ![r].id = id, ![r].row = None]
               ELSE Finish(r)
      BY <1>4 DEF InsertEntry
    <2> DEFINE q == [old EXCEPT !.pc = "point", !.id = id, !.row = None]
    <2>3. q \in Request /\ LocalsOK(q) /\ CopyOK(q)
      <3>1. q \in Request
        BY <1>0 DEF Request, Labels, Optional
      <3>2. LocalsOK(q) /\ CopyOK(q)
        BY <1>0, <1>4, NoneIsNoId DEF InsertEntry, LocalsOK, CopyOK, Request
      <3> QED BY <3>1, <3>2
    <2>4. req' = [req EXCEPT ![r] = q] \/ req' = [req EXCEPT ![r] = IdleRequest]
      BY <1>0, <2>2 DEF Finish
    <2>5. entries' \in [EntryIds -> Optional(Row)] /\ \A other \in EntryIds : Used(other) => Used(other)'
      BY <1>tables, <2>1, <2>2, NoneIsNoRecord DEF Optional, Used
    <2> HIDE DEF q
    <2> QED BY <1>4, <1>q, <1>tables, <2>3, <2>4, <2>5, IdleRequestIsTyped DEF InsertEntry
  <1>5. CASE PointRunning(r)
    <2>1. pointer' \in Optional(EntryIds)
      BY <1>0, <1>5 DEF PointRunning, Request, LocalsOK, CopyOK, Optional
    <2> QED BY <1>5, <1>q, <1>tables, <2>1, IdleRequestIsTyped DEF PointRunning, Finish, Used
  <1> QED BY <1>1, <1>2, <1>3, <1>4, <1>5 DEF Write

LEMMA NextTyped == TypeOK /\ [Next]_vars => TypeOK'
  <1> SUFFICES ASSUME TypeOK, [Next]_vars PROVE TypeOK'
    OBVIOUS
  <1>1. ASSUME NEW r \in Requests, Handle(r) PROVE TypeOK'
    <2>1. CASE Abort(r)
      BY <2>1, IdleRequestIsTyped, OneHandlerTyped DEF Abort, Finish
    <2> QED BY <1>1, <2>1, ArriveTyped, CheckTyped, GetCurrentTyped, ResolveTyped, WriteTyped
         DEF Handle, Step
  <1>2. ASSUME NEW ws \in Workspaces, SetReportLock(ws) PROVE TypeOK'
    BY <1>2, TimesAreSeconds DEF SetReportLock, TypeOK, CopyOK, Used, Optional
  <1>3. CASE UNCHANGED vars
    BY <1>3 DEF vars, TypeOK, CopyOK, Used
  <1> QED BY <1>1, <1>2, <1>3 DEF Next

\* The tables and the handlers' locals keep their types, whatever requests
\* run together and wherever they fail.
THEOREM TypeCorrect == Spec => []TypeOK
  BY InitIsTyped, NextTyped, PTL DEF Spec
-----------------------------------------------------------------------------
(***************************************************************************)
(* Well-formed rows.  RowsWellFormed is not inductive: the rows handlers   *)
(* are about to write must be sound too, which is what RowsSound adds.     *)
(***************************************************************************)

LEMMA InitIsSound == Init => RowsSound
  BY DEF Init, RowsSound, IdleRequest, NoEdit, Used

\* A step that leaves the table alone and only forgets copies keeps it sound.
LEMMA CopiesKept ==
  ASSUME RowsSound, NEW r \in Requests, UNCHANGED entries,
         \A s \in Requests \ {r} : req'[s] = req[s],
         req'[r].row \in {req[r].row, None},
         req'[r].new \in {req[r].new, None},
         req'[r].edit.start = None
  PROVE  RowsSound'
  BY DEF RowsSound, Used

\* A step that changes one row to a sound one, and no handler's copy.
LEMMA SoundRowWritten ==
  ASSUME TypeOK, RowsSound, NEW r \in Requests, NEW id \in EntryIds, NEW row, SoundRow(row),
         entries' = [entries EXCEPT ![id] = row],
         \A s \in Requests \ {r} : req'[s] = req[s],
         req'[r].row \in {req[r].row, None},
         req'[r].new \in {req[r].new, None},
         req'[r].edit.start = None
  PROVE  RowsSound'
  <1>1. \A other \in EntryIds : Used(other)' => SoundRow(entries'[other])
    BY DEF TypeOK, RowsSound, Used
  <1> QED BY <1>1 DEF RowsSound

LEMMA SoundRowIgnoresDeletion ==
  ASSUME NEW row \in Row, NEW flag, SoundRow(row)
  PROVE  SoundRow([row EXCEPT !.deleted = flag])
  BY DEF SoundRow, WellFormedRange, Row

LEMMA ArriveSound == ASSUME TypeOK, RowsSound, NEW r \in Requests, Arrive(r) PROVE RowsSound'
  <1>0. req \in [Requests -> Request]
    BY DEF TypeOK
  <1>1. CASE BeginCreate(r)
    <2>1. PICK ws \in Workspaces, start \in Times, stop \in Optional(Times), duration \in Optional(Durations) :
            LET range == NormalizeRange(start, stop, duration)
            IN  /\ range # InvalidRange
                /\ req' = [req EXCEPT ![r] =
                     [IdleRequest EXCEPT !.op = "create",
                                         !.pc = IF range.stop = None THEN "lookup" ELSE "insert",
                                         !.new = RowOf(ws, range)]]
      BY <1>1 DEF BeginCreate
    <2> DEFINE range == NormalizeRange(start, stop, duration)
    <2>2. range \in Range /\ WellFormedRange(range) /\ range.start = start
      BY <2>1, NormalizeRangeIsWellFormed, TimesAreSeconds, DurationsAreSeconds DEF Optional
    <2>3. SoundRow(RowOf(ws, range)) /\ ~RowOf(ws, range).deleted
      BY <2>2 DEF RowOf, SoundRow, WellFormedRange, Range
    <2>4. /\ \A s \in Requests \ {r} : req'[s] = req[s]
          /\ req'[r].row = None /\ req'[r].new = RowOf(ws, range) /\ req'[r].edit.start = None
      BY <1>0, <2>1 DEF IdleRequest, NoEdit
    <2> HIDE DEF range
    <2> QED BY <1>1, <2>3, <2>4 DEF BeginCreate, TablesUnchanged, RowsSound, Used
  <1>2. CASE BeginUpdate(r) \/ BeginStop(r) \/ BeginDelete(r)
    <2>1. PICK op \in {"update", "stop", "delete"}, pc \in {"get", "readstop"}, ws \in Workspaces, id \in EntryIds :
            req' = [req EXCEPT ![r] = [IdleRequest EXCEPT !.op = op, !.pc = pc, !.ws = ws, !.id = id]]
      BY <1>2 DEF BeginUpdate, BeginStop, BeginDelete
    <2>2. /\ \A s \in Requests \ {r} : req'[s] = req[s]
          /\ req'[r].row = None /\ req'[r].new = None /\ req'[r].edit.start = None
      BY <1>0, <2>1 DEF IdleRequest, NoEdit
    <2> QED BY <1>2, <2>2, CopiesKept DEF BeginUpdate, BeginStop, BeginDelete, TablesUnchanged
  <1>3. CASE BeginCurrent(r)
    <2>1. /\ \A s \in Requests \ {r} : req'[s] = req[s]
          /\ req'[r].row = None /\ req'[r].new = None /\ req'[r].edit.start = None
      BY <1>0, <1>3 DEF BeginCurrent, IdleRequest, NoEdit
    <2> QED BY <1>3, <2>1, CopiesKept DEF BeginCurrent, TablesUnchanged
  <1> QED BY <1>1, <1>2, <1>3 DEF Arrive

LEMMA CheckSound == ASSUME TypeOK, RowsSound, NEW r \in Requests, Check(r) PROVE RowsSound'
  <1> DEFINE old == req[r]
  <1>0. old \in Request /\ LocalsOK(old) /\ CopyOK(old) /\ req \in [Requests -> Request]
    BY DEF TypeOK
  <1>1. CASE ReadForStop(r)
    <2>1. /\ \A s \in Requests \ {r} : req'[s] = req[s]
          /\ req'[r].row = req[r].row /\ req'[r].new = req[r].new /\ req'[r].edit.start = None
      BY <1>0, <1>1 DEF ReadForStop, Request
    <2> QED BY <1>1, <2>1, CopiesKept DEF ReadForStop, TablesUnchanged
  <1>2. CASE ReadEntry(r)
    <2>1. old.id \in EntryIds /\ Used(old.id)
      BY <1>0, <1>2 DEF ReadEntry, Visible, Request, LocalsOK, Optional
    <2>2. /\ \A s \in Requests \ {r} : req'[s] = req[s]
          /\ req'[r].row = entries[old.id] /\ req'[r].new = old.new /\ req'[r].edit = old.edit
      BY <1>0, <1>2 DEF ReadEntry, Request
    <2>3. UNCHANGED entries
      BY <1>2 DEF ReadEntry, TablesUnchanged
    <2> QED BY <2>1, <2>2, <2>3 DEF RowsSound, Used
  <1>3. CASE EntryNotFound(r) \/ RejectLocked(r) \/ RejectEdit(r)
    <2>1. /\ \A s \in Requests \ {r} : req'[s] = req[s]
          /\ req'[r].row = None /\ req'[r].new = None /\ req'[r].edit.start = None
      BY <1>0, <1>3 DEF EntryNotFound, RejectLocked, RejectEdit, Finish, IdleRequest, NoEdit
    <2> QED BY <1>3, <2>1, CopiesKept DEF EntryNotFound, RejectLocked, RejectEdit, TablesUnchanged
  <1>4. CASE ApplyEdit(r)
    <2>1. PICK edit \in EditsOf(r) :
            LET range == EditedRange(req[r].row, edit)
            IN  /\ range # InvalidRange
                /\ req' = [req EXCEPT ![r].pc = IF range.stop = None THEN "lookup" ELSE "write",
                                      ![r].row = RowOf(req[r].row.ws, range),
                                      ![r].edit = NoEdit]
      BY <1>4 DEF ApplyEdit
    <2>2. edit \in Edit /\ edit.start \in Optional(Times)
      <3>1. CASE req[r].op = "update"
        BY <3>1, TimesAreSeconds, DurationsAreSeconds DEF EditsOf, ClientEdits, Edit, Optional
      <3>2. CASE req[r].op # "update"
        BY <3>2, <1>0 DEF EditsOf, Request, RowsSound, Optional
      <3> QED BY <3>1, <3>2
    <2>3. old.row \in Row /\ SoundRow(old.row)
      BY <1>0, <1>4, NoneIsNoRecord DEF ApplyEdit, Optional, Request, LocalsOK, RowsSound
    <2>4. PICK range \in Range :
            /\ WellFormedRange(range) /\ range.start \in Times
            /\ req' = [req EXCEPT ![r].pc = IF range.stop = None THEN "lookup" ELSE "write",
                                  ![r].row = RowOf(req[r].row.ws, range),
                                  ![r].edit = NoEdit]
      BY <2>1, <2>2, <2>3, EditedRangeIsWellFormed DEF SoundRow, Optional
    <2>5. SoundRow(RowOf(old.row.ws, range))
      BY <2>4 DEF RowOf, SoundRow, WellFormedRange, Range
    <2>6. /\ \A s \in Requests \ {r} : req'[s] = req[s]
          /\ req'[r].row = RowOf(old.row.ws, range) /\ req'[r].new = old.new /\ req'[r].edit.start = None
      BY <1>0, <2>4 DEF NoEdit, Request
    <2>7. UNCHANGED entries
      BY <1>4 DEF ApplyEdit, TablesUnchanged
    <2> QED BY <2>5, <2>6, <2>7 DEF RowsSound, Used
  <1>5. CASE AllowDelete(r)
    <2>1. /\ \A s \in Requests \ {r} : req'[s] = req[s]
          /\ req'[r].row = old.row /\ req'[r].new = old.new /\ req'[r].edit = old.edit
      BY <1>0, <1>5 DEF AllowDelete, Goto, Request
    <2>2. old.edit.start = None
      BY DEF RowsSound
    <2> QED BY <1>5, <2>1, <2>2, CopiesKept DEF AllowDelete, TablesUnchanged
  <1> QED BY <1>1, <1>2, <1>3, <1>4, <1>5 DEF Check

LEMMA GetCurrentSound == ASSUME TypeOK, RowsSound, NEW r \in Requests, GetCurrent(r) PROVE RowsSound'
  <1>1. req \in [Requests -> Request] /\ req[r].edit.start = None
    BY DEF TypeOK, RowsSound
  <1>2. /\ \A s \in Requests \ {r} : req'[s] = req[s]
        /\ req'[r].row = req[r].row /\ req'[r].new = req[r].new /\ req'[r].edit = req[r].edit
    BY <1>1 DEF GetCurrent, LookupPointer, FallbackFinds, FallbackEmpty, RepairPointer, Goto, Request
  <1>3. UNCHANGED entries
    BY DEF GetCurrent, LookupPointer, FallbackFinds, FallbackEmpty, RepairPointer, TablesUnchanged
  <1> QED BY <1>1, <1>2, <1>3, CopiesKept

LEMMA ResolveSound == ASSUME TypeOK, RowsSound, NEW r \in Requests, Resolve(r) PROVE RowsSound'
  <1>1. req \in [Requests -> Request] /\ req[r].edit.start = None
    BY DEF TypeOK, RowsSound
  <1>2. /\ \A s \in Requests \ {r} : req'[s] = req[s]
        /\ req'[r].row \in {req[r].row, None}
        /\ req'[r].new \in {req[r].new, None}
        /\ req'[r].edit.start = None
    BY <1>1 DEF Resolve, AutoStop, NothingToStop, KeepRunning, RejectConflict, ReturnCurrent,
                Finish, IdleRequest, NoEdit, Request
  <1>3. UNCHANGED entries
    BY DEF Resolve, AutoStop, NothingToStop, KeepRunning, RejectConflict, ReturnCurrent, TablesUnchanged
  <1> QED BY <1>2, <1>3, CopiesKept

LEMMA WriteSound == ASSUME TypeOK, RowsSound, NEW r \in Requests, Write(r) PROVE RowsSound'
  <1> DEFINE old == req[r]
  <1>0. /\ old \in Request /\ LocalsOK(old) /\ req \in [Requests -> Request]
        /\ old.row # None => SoundRow(old.row) /\ old.id # None /\ Used(old.id)
        /\ old.new # None => SoundRow(old.new)
        /\ old.edit.start = None
    BY DEF TypeOK, RowsSound, CopyOK
  <1>1. /\ \A s \in Requests \ {r} : req'[s] = req[s]
        /\ req'[r].row \in {req[r].row, None}
        /\ req'[r].new \in {req[r].new, None}
        /\ req'[r].edit.start = None
    <2>1. CASE WriteEntry(r)
      BY <1>0, <2>1 DEF WriteEntry, Goto, Request
    <2>2. CASE MarkDeleted(r)
      BY <1>0, <2>2 DEF MarkDeleted, Goto, Finish, IdleRequest, NoEdit, Request
    <2>3. CASE ClearPointer(r)
      BY <1>0, <2>3 DEF ClearPointer, Finish, IdleRequest, NoEdit, Request
    <2>4. CASE InsertEntry(r)
      BY <1>0, <2>4 DEF InsertEntry, Finish, IdleRequest, NoEdit, Request
    <2>5. CASE PointRunning(r)
      BY <1>0, <2>5 DEF PointRunning, Finish, IdleRequest, NoEdit, Request
    <2> QED BY <2>1, <2>2, <2>3, <2>4, <2>5 DEF Write
  <1>2. CASE WriteEntry(r)
    <2>1. old.id \in EntryIds /\ old.row \in Row /\ SoundRow(old.row)
      BY <1>0, <1>2 DEF WriteEntry, Request, LocalsOK, Optional
    <2>2. SoundRow([old.row EXCEPT !.deleted = entries[old.id].deleted])
      BY <2>1, SoundRowIgnoresDeletion
    <2>3. entries' = [entries EXCEPT ![old.id] = [old.row EXCEPT !.deleted = entries[old.id].deleted]]
      BY <1>2 DEF WriteEntry
    <2> QED BY <1>1, <2>1, <2>2, <2>3, SoundRowWritten
  <1>3. CASE MarkDeleted(r)
    <2>1. old.id \in EntryIds /\ Used(old.id)
      BY <1>0, <1>3 DEF MarkDeleted, Request, LocalsOK, Optional
    <2>2. entries[old.id] \in Row /\ SoundRow(entries[old.id])
      BY <2>1 DEF TypeOK, RowsSound, Used, Optional
    <2>3. SoundRow([entries[old.id] EXCEPT !.deleted = TRUE])
      BY <2>2, SoundRowIgnoresDeletion
    <2>4. entries' = [entries EXCEPT ![old.id] = [entries[old.id] EXCEPT !.deleted = TRUE]]
      BY <1>3 DEF MarkDeleted
    <2> QED BY <1>1, <2>1, <2>3, <2>4, SoundRowWritten
  <1>4. CASE InsertEntry(r)
    <2>1. SoundRow(old.new)
      BY <1>0, <1>4 DEF InsertEntry, LocalsOK
    <2>2. PICK id \in EntryIds : entries' = [entries EXCEPT ![id] = old.new]
      BY <1>4 DEF InsertEntry
    <2> QED BY <1>1, <2>1, <2>2, SoundRowWritten
  <1>5. CASE ClearPointer(r) \/ PointRunning(r)
    BY <1>1, <1>5, CopiesKept DEF ClearPointer, PointRunning
  <1> QED BY <1>2, <1>3, <1>4, <1>5 DEF Write

LEMMA NextSound == TypeOK /\ RowsSound /\ [Next]_vars => RowsSound'
  <1> SUFFICES ASSUME TypeOK, RowsSound, [Next]_vars PROVE RowsSound'
    OBVIOUS
  <1>1. ASSUME NEW r \in Requests, Handle(r) PROVE RowsSound'
    <2>1. CASE Abort(r)
      <3>1. /\ \A s \in Requests \ {r} : req'[s] = req[s]
            /\ req'[r].row = None /\ req'[r].new = None /\ req'[r].edit.start = None
        BY <2>1 DEF Abort, Finish, IdleRequest, NoEdit, TypeOK
      <3> QED BY <2>1, <3>1, CopiesKept DEF Abort, TablesUnchanged
    <2> QED BY <1>1, <2>1, ArriveSound, CheckSound, GetCurrentSound, ResolveSound, WriteSound
         DEF Handle, Step
  <1>2. ASSUME NEW ws \in Workspaces, SetReportLock(ws) PROVE RowsSound'
    BY <1>2 DEF SetReportLock, RowsSound, Used
  <1>3. CASE UNCHANGED vars
    BY <1>3 DEF vars, RowsSound, Used
  <1> QED BY <1>1, <1>2, <1>3 DEF Next

\* Every stored row is running or stopped in both of its encodings, whatever
\* requests run together and wherever they fail.
THEOREM RowsAreWellFormed == Spec => []RowsWellFormed
  <1>1. RowsSound => RowsWellFormed
    BY DEF RowsSound, RowsWellFormed, SoundRow
  <1> QED BY <1>1, InitIsTyped, NextTyped, InitIsSound, NextSound, PTL DEF Spec
-----------------------------------------------------------------------------
(***************************************************************************)
(* Deletion is final.                                                      *)
(***************************************************************************)

\* Three statements change the table of entries.
LEMMA EntriesChange ==
  ASSUME [Next]_vars
  PROVE  \/ UNCHANGED entries
         \/ \E r \in Requests : WriteEntry(r) \/ MarkDeleted(r) \/ InsertEntry(r)
  <1>1. ASSUME NEW r \in Requests, Handle(r), ~WriteEntry(r), ~MarkDeleted(r), ~InsertEntry(r)
        PROVE  UNCHANGED entries
    BY <1>1 DEF Handle, Arrive, BeginCreate, BeginUpdate, BeginStop, BeginDelete, BeginCurrent,
      Step, Check, ReadForStop, ReadEntry, EntryNotFound, RejectLocked, ApplyEdit, RejectEdit, AllowDelete,
      GetCurrent, LookupPointer, FallbackFinds, FallbackEmpty, RepairPointer,
      Resolve, AutoStop, NothingToStop, KeepRunning, RejectConflict, ReturnCurrent,
      Write, ClearPointer, PointRunning, Abort, TablesUnchanged
  <1>2. ASSUME NEW ws \in Workspaces, SetReportLock(ws) PROVE UNCHANGED entries
    BY <1>2 DEF SetReportLock
  <1> QED BY <1>1, <1>2 DEF Next, vars

\* The whole-row UPDATE of a handler that read the entry before its deletion
\* cannot bring it back, for it does not write deleted_at.
LEMMA StepKeepsDeleted ==
  ASSUME TypeOK, [Next]_vars, NEW id \in EntryIds, Used(id), entries[id].deleted
  PROVE  Used(id)' /\ entries'[id].deleted
  <1>typed. entries \in [EntryIds -> Optional(Row)] /\ entries[id] \in Row
    BY DEF TypeOK, Used, Optional
  <1>1. CASE UNCHANGED entries
    BY <1>1 DEF Used
  <1>2. ASSUME NEW r \in Requests, WriteEntry(r) PROVE Used(id)' /\ entries'[id].deleted
    <2>1. req[r] \in Request /\ LocalsOK(req[r]) /\ req[r].row \in Row /\ req[r].id \in EntryIds
      BY <1>2 DEF WriteEntry, TypeOK, Request, LocalsOK, Optional
    <2>2. CASE id = req[r].id
      <3>1. entries'[id] = [req[r].row EXCEPT !.deleted = entries[id].deleted]
        BY <1>2, <1>typed, <2>2 DEF WriteEntry
      <3>2. entries'[id] \in Row /\ entries'[id].deleted
        BY <1>typed, <2>1, <3>1 DEF Row
      <3> QED BY <3>2, NoneIsNoRecord DEF Used
    <2>3. CASE id # req[r].id
      BY <1>2, <1>typed, <2>3 DEF WriteEntry, Used
    <2> QED BY <2>2, <2>3
  <1>3. ASSUME NEW r \in Requests, MarkDeleted(r) PROVE Used(id)' /\ entries'[id].deleted
    <2>1. entries'[id] = entries[id] \/ entries'[id] = [entries[id] EXCEPT !.deleted = TRUE]
      BY <1>3, <1>typed DEF MarkDeleted
    <2>2. entries'[id] \in Row /\ entries'[id].deleted
      BY <1>typed, <2>1 DEF Row
    <2> QED BY <2>2, NoneIsNoRecord DEF Used
  <1>4. ASSUME NEW r \in Requests, InsertEntry(r) PROVE Used(id)' /\ entries'[id].deleted
    BY <1>4, <1>typed DEF InsertEntry, Used
  <1> QED BY <1>1, <1>2, <1>3, <1>4, EntriesChange

\* A soft-deleted entry stays deleted, whatever requests run together.
THEOREM DeletionIsFinal == Spec => DeletedStaysDeleted
  <1>1. TypeOK /\ [Next]_vars
          => [\A id \in EntryIds : Used(id) /\ entries[id].deleted => Used(id)' /\ entries'[id].deleted]_vars
    BY StepKeepsDeleted
  <1> QED BY <1>1, TypeCorrect, PTL DEF Spec, DeletedStaysDeleted
-----------------------------------------------------------------------------
(***************************************************************************)
(* A user whose requests arrive one at a time and whose entries start      *)
(* after the epoch, wherever the requests fail.                            *)
(***************************************************************************)

\* No two requests of the user are in flight together.
Serial == \A r, s \in Requests : r = s

\* Entries start after the epoch, so that -start is negative.
PositiveTimes == Times \subseteq Nat \ {0}

\* What a handler knows about the tables.
Knows(q) == KnowsEntry(q) /\ KnowsCurrent(q) /\ StopsBeforeStarting(q)
-----------------------------------------------------------------------------
(***************************************************************************)
(* The current entry.                                                      *)
(***************************************************************************)

\* The fallback query's test, a negative duration, is the test for no stop.
LEMMA EncodingsAgree ==
  ASSUME PositiveTimes, NEW row \in Row, SoundRow(row)
  PROVE  row.duration < 0 <=> row.stop = None
  BY NoneIsNotATime DEF PositiveTimes, Row, SoundRow, WellFormedRange, Optional

LEMMA AnswersAreRunning ==
  ASSUME PositiveTimes, TypeOK, RowsSound
  PROVE  CurrentAnswers = IF pointer # None /\ Live(pointer) THEN {pointer}
                          ELSE {id \in EntryIds : Running(id)}
  <1>1. ASSUME NEW id \in EntryIds PROVE NegativeDuration(id) <=> Running(id)
    BY EncodingsAgree DEF TypeOK, RowsSound, NegativeDuration, Running, Live, Used, Optional
  <1> QED BY <1>1 DEF CurrentAnswers

\* The same after a step.
LEMMA NextAnswersAreRunning ==
  ASSUME PositiveTimes, TypeOK', RowsSound'
  PROVE  CurrentAnswers' = IF pointer' # None /\ Live(pointer)' THEN {pointer'}
                           ELSE {id \in EntryIds : Running(id)'}
  <1>1. ASSUME NEW id \in EntryIds PROVE NegativeDuration(id)' <=> Running(id)'
    BY EncodingsAgree DEF TypeOK, RowsSound, NegativeDuration, Running, Live, Used, Optional
  <1> QED BY <1>1 DEF CurrentAnswers

\* Two running entries would both be the only current one.
LEMMA CurrentIsUnique == RunningEntryIsCurrent => AtMostOneRunning
  BY DEF RunningEntryIsCurrent, AtMostOneRunning
-----------------------------------------------------------------------------
(***************************************************************************)
(* The invariant.                                                          *)
(***************************************************************************)

LEMMA IdleKnows == Knows(IdleRequest)
  BY DEF Knows, IdleRequest, KnowsEntry, KnowsCurrent, StopsBeforeStarting

LEMMA InitIsSerial == Init => SerialInv
  BY InitIsSound, IdleKnows
  DEF Init, SerialInv, RunningEntryIsCurrent, Running, Live, Used, Knows, IdleRequest,
      KnowsEntry, KnowsCurrent, StopsBeforeStarting

\* A step that leaves the tables alone keeps what they answer.
LEMMA EntriesKept ==
  ASSUME SerialInv, UNCHANGED <<entries, pointer>>
  PROVE  /\ RunningEntryIsCurrent' /\ (pointer # None => Used(pointer))'
         /\ \A q : Knows(q) => Knows(q)'
  <1>1. RunningEntryIsCurrent' /\ (pointer # None => Used(pointer))'
    BY DEF SerialInv, RunningEntryIsCurrent, CurrentAnswers, NegativeDuration, Running, Live, Used
  <1>2. ASSUME NEW q, KnowsEntry(q) PROVE KnowsEntry(q)'
    BY <1>2 DEF KnowsEntry, Running, Live, Used
  <1>3. ASSUME NEW q, KnowsCurrent(q) PROVE KnowsCurrent(q)'
    BY <1>3 DEF KnowsCurrent, CurrentAnswers, NegativeDuration, Running, Live, Used
  <1>4. ASSUME NEW q, StopsBeforeStarting(q) PROVE StopsBeforeStarting(q)'
    BY <1>4 DEF StopsBeforeStarting, CurrentAnswers, NegativeDuration, Running, Live, Used
  <1> QED BY <1>1, <1>2, <1>3, <1>4 DEF Knows

LEMMA TablesKept ==
  ASSUME SerialInv, TablesUnchanged, NEW q, Knows(q)
  PROVE  RunningEntryIsCurrent' /\ (pointer # None => Used(pointer))' /\ Knows(q)'
  BY EntriesKept DEF TablesUnchanged

\* When the one handler knows what it should, the invariant holds.
LEMMA OnlyHandlerKnows ==
  ASSUME Serial, NEW r \in Requests, NEW q, req'[r] = q, Knows(q)',
         RowsSound', RunningEntryIsCurrent', (pointer # None => Used(pointer))'
  PROVE  SerialInv'
  BY DEF Serial, SerialInv, Knows, KnowsEntry, KnowsCurrent, StopsBeforeStarting

LEMMA OneHandlerKnows ==
  ASSUME Serial, SerialInv, RowsSound', NEW r \in Requests, NEW q, Knows(q), req'[r] = q, TablesUnchanged
  PROVE  SerialInv'
  BY TablesKept, OnlyHandlerKnows

\* An idle handler knows nothing.
LEMMA FinishSerial ==
  ASSUME Serial, TypeOK, SerialInv, RowsSound', NEW r \in Requests, Finish(r), TablesUnchanged
  PROVE  SerialInv'
  BY IdleKnows, OneHandlerKnows DEF Finish, TypeOK

LEMMA ArriveSerial ==
  ASSUME Serial, TypeOK, SerialInv, RowsSound', NEW r \in Requests, Arrive(r) PROVE SerialInv'
  <1>0. req \in [Requests -> Request]
    BY DEF TypeOK
  <1>1. CASE BeginCreate(r)
    <2>1. PICK ws \in Workspaces, start \in Times, stop \in Optional(Times), duration \in Optional(Durations) :
            LET range == NormalizeRange(start, stop, duration)
            IN  /\ range # InvalidRange
                /\ req' = [req EXCEPT ![r] =
                     [IdleRequest EXCEPT !.op = "create",
                                         !.pc = IF range.stop = None THEN "lookup" ELSE "insert",
                                         !.new = RowOf(ws, range)]]
      BY <1>1 DEF BeginCreate
    <2> DEFINE range == NormalizeRange(start, stop, duration)
               q == [IdleRequest EXCEPT !.op = "create",
                                        !.pc = IF range.stop = None THEN "lookup" ELSE "insert",
                                        !.new = RowOf(ws, range)]
    <2>2. req'[r] = q
      BY <1>0, <2>1
    <2>3. Knows(q)
      <3> HIDE DEF range
      <3> QED BY DEF IdleRequest, RowOf, Knows, KnowsEntry, KnowsCurrent, StopsBeforeStarting
    <2> HIDE DEF q
    <2> QED BY <1>1, <2>2, <2>3, OneHandlerKnows DEF BeginCreate
  <1>2. CASE BeginUpdate(r) \/ BeginStop(r) \/ BeginDelete(r)
    <2>1. PICK op \in {"update", "stop", "delete"}, pc \in {"get", "readstop"}, ws \in Workspaces, id \in EntryIds :
            /\ pc = "readstop" => op = "stop"
            /\ req' = [req EXCEPT ![r] = [IdleRequest EXCEPT !.op = op, !.pc = pc, !.ws = ws, !.id = id]]
      BY <1>2 DEF BeginUpdate, BeginStop, BeginDelete
    <2> DEFINE q == [IdleRequest EXCEPT !.op = op, !.pc = pc, !.ws = ws, !.id = id]
    <2>2. req'[r] = q
      BY <1>0, <2>1
    <2>3. Knows(q)
      BY <2>1 DEF IdleRequest, Knows, KnowsEntry, KnowsCurrent, StopsBeforeStarting
    <2> HIDE DEF q
    <2> QED BY <1>2, <2>2, <2>3, OneHandlerKnows DEF BeginUpdate, BeginStop, BeginDelete
  <1>3. CASE BeginCurrent(r)
    <2> DEFINE q == [IdleRequest EXCEPT !.op = "current", !.pc = "lookup"]
    <2>1. req'[r] = q
      BY <1>0, <1>3 DEF BeginCurrent
    <2>2. Knows(q)
      BY DEF IdleRequest, Knows, KnowsEntry, KnowsCurrent, StopsBeforeStarting
    <2> HIDE DEF q
    <2> QED BY <1>3, <2>1, <2>2, OneHandlerKnows DEF BeginCurrent
  <1> QED BY <1>1, <1>2, <1>3 DEF Arrive

LEMMA CheckSerial ==
  ASSUME Serial, TypeOK, SerialInv, RowsSound', NEW r \in Requests, Check(r) PROVE SerialInv'
  <1> DEFINE old == req[r]
  <1>0. old \in Request /\ LocalsOK(old) /\ CopyOK(old) /\ Knows(old) /\ req \in [Requests -> Request]
    BY DEF TypeOK, SerialInv, Knows
  <1>1. CASE ReadForStop(r)
    <2>1. PICK now \in Times :
            req' = [req EXCEPT ![r].pc = "get",
                               ![r].edit = [start |-> None, stop |-> now,
                                            duration |-> now - entries[req[r].id].start]]
      BY <1>1 DEF ReadForStop
    <2> DEFINE q == [old EXCEPT !.pc = "get",
                                !.edit = [start |-> None, stop |-> now,
                                          duration |-> now - entries[old.id].start]]
    <2>2. req'[r] = q
      BY <1>0, <2>1
    <2>3. Knows(q)
      BY <1>0, <1>1 DEF ReadForStop, Request, Knows, KnowsEntry, KnowsCurrent, StopsBeforeStarting
    <2> HIDE DEF q
    <2> QED BY <1>1, <2>2, <2>3, OneHandlerKnows DEF ReadForStop
  <1>2. CASE ReadEntry(r)
    <2> DEFINE q == [old EXCEPT !.pc = "lock", !.row = entries[old.id]]
    <2>1. req'[r] = q
      BY <1>0, <1>2 DEF ReadEntry
    <2>2. Knows(q)
      BY <1>0, <1>2 DEF ReadEntry, Visible, Live, Running, Request, Knows, KnowsEntry, KnowsCurrent,
                        StopsBeforeStarting
    <2> HIDE DEF q
    <2> QED BY <1>2, <2>1, <2>2, OneHandlerKnows DEF ReadEntry
  <1>3. CASE EntryNotFound(r) \/ RejectLocked(r) \/ RejectEdit(r)
    BY <1>3, FinishSerial DEF EntryNotFound, RejectLocked, RejectEdit
  <1>4. CASE ApplyEdit(r)
    <2>1. PICK edit \in EditsOf(r) :
            LET range == EditedRange(req[r].row, edit)
            IN  /\ range # InvalidRange
                /\ req' = [req EXCEPT ![r].pc = IF range.stop = None THEN "lookup" ELSE "write",
                                      ![r].row = RowOf(req[r].row.ws, range),
                                      ![r].edit = NoEdit]
      BY <1>4 DEF ApplyEdit
    <2>2. edit \in Edit
      BY <1>0, TimesAreSeconds, DurationsAreSeconds DEF EditsOf, ClientEdits, Edit, Optional, Request
    <2>3. old.row \in Row
      BY <1>0, <1>4 DEF ApplyEdit, Optional, Request, LocalsOK
    <2>4. PICK range \in Range :
            /\ range.stop = None => edit.stop = None /\ old.row.stop = None
            /\ req' = [req EXCEPT ![r].pc = IF range.stop = None THEN "lookup" ELSE "write",
                                  ![r].row = RowOf(req[r].row.ws, range),
                                  ![r].edit = NoEdit]
      BY <2>1, <2>2, <2>3, EditedRangeIsWellFormed
    <2> DEFINE q == [old EXCEPT !.pc = IF range.stop = None THEN "lookup" ELSE "write",
                                !.row = RowOf(old.row.ws, range),
                                !.edit = NoEdit]
    <2>5. req'[r] = q
      BY <1>0, <2>4
    <2>6. Live(old.id) /\ (range.stop = None => Running(old.id))
      BY <1>0, <1>4, <2>3, <2>4, NoneIsNoRecord DEF ApplyEdit, Knows, KnowsEntry
    <2>7. old.op = "create" => CurrentAnswers = {old.id} /\ range.stop # None
      BY <1>0, <1>4, <2>4 DEF ApplyEdit, Knows, StopsBeforeStarting, EditsOf
    <2>8. /\ q.pc = IF range.stop = None THEN "lookup" ELSE "write"
          /\ q.row.stop = range.stop /\ q.op = old.op /\ q.id = old.id /\ q.seen = old.seen
      BY <1>0 DEF Request, RowOf
    <2>9. old.seen = None
      BY <1>0, <1>4 DEF ApplyEdit, Knows, KnowsCurrent, LocalsOK
    <2> HIDE DEF q
    <2>10. Knows(q)
      BY <1>4, <2>6, <2>7, <2>8, <2>9
      DEF ApplyEdit, Knows, KnowsEntry, KnowsCurrent, StopsBeforeStarting
    <2> QED BY <1>4, <2>5, <2>10, OneHandlerKnows DEF ApplyEdit
  <1>5. CASE AllowDelete(r)
    <2> DEFINE q == [old EXCEPT !.pc = "delete"]
    <2>1. req'[r] = q
      BY <1>0, <1>5 DEF AllowDelete, Goto
    <2>2. Knows(q)
      BY <1>0, <1>5 DEF AllowDelete, Request, Knows, KnowsEntry, KnowsCurrent, StopsBeforeStarting
    <2> HIDE DEF q
    <2> QED BY <1>5, <2>1, <2>2, OneHandlerKnows DEF AllowDelete
  <1> QED BY <1>1, <1>2, <1>3, <1>4, <1>5 DEF Check

LEMMA GetCurrentSerial ==
  ASSUME Serial, PositiveTimes, TypeOK, SerialInv, TypeOK', RowsSound', NEW r \in Requests, GetCurrent(r)
  PROVE  SerialInv'
  <1> DEFINE old == req[r]
  <1>0. old \in Request /\ LocalsOK(old) /\ Knows(old) /\ req \in [Requests -> Request]
    BY DEF TypeOK, SerialInv, Knows
  <1>answers. CurrentAnswers = IF pointer # None /\ Live(pointer) THEN {pointer}
                               ELSE {id \in EntryIds : Running(id)}
    BY AnswersAreRunning DEF SerialInv
  <1>negative. \A id \in EntryIds : NegativeDuration(id) => Running(id)
    BY EncodingsAgree DEF TypeOK, SerialInv, RowsSound, NegativeDuration, Running, Live, Used, Optional
  <1>1. CASE LookupPointer(r) /\ pointer # None /\ Live(pointer)
    <2> DEFINE q == [old EXCEPT !.pc = "resolve", !.seen = AsCurrent(pointer)]
    <2>1. req'[r] = q
      BY <1>0, <1>1 DEF LookupPointer
    <2>2. CurrentAnswers = {q.seen.id} /\ q.seen # None
      <3>1. AsCurrent(pointer) \in Current
        BY <1>1 DEF TypeOK, Live, Used, AsCurrent, Current, Row, Optional
      <3> QED BY <1>0, <1>1, <1>answers, <3>1, NoneIsNoRecord DEF Request, AsCurrent
    <2>3. q.pc = "resolve" /\ q.row = old.row /\ q.id = old.id /\ q.op = old.op
      BY <1>0 DEF Request
    <2> HIDE DEF q
    <2>4. Knows(q)
      BY <1>0, <1>1, <2>2, <2>3 DEF LookupPointer, Knows, KnowsEntry, KnowsCurrent, StopsBeforeStarting
    <2> QED BY <1>1, <2>1, <2>4, OneHandlerKnows DEF LookupPointer
  <1>2. CASE LookupPointer(r) /\ ~(pointer # None /\ Live(pointer))
    <2> DEFINE q == [old EXCEPT !.pc = "fallback"]
    <2>1. req'[r] = q
      BY <1>0, <1>2 DEF LookupPointer, Goto
    <2>2. Knows(q)
      BY <1>0, <1>2 DEF LookupPointer, Request, Knows, KnowsEntry, KnowsCurrent, StopsBeforeStarting
    <2> HIDE DEF q
    <2> QED BY <1>2, <2>1, <2>2, OneHandlerKnows DEF LookupPointer
  <1>3. CASE FallbackFinds(r)
    <2>1. PICK id \in EntryIds :
            /\ NegativeDuration(id)
            /\ req' = [req EXCEPT ![r].pc = "repair", ![r].seen = AsCurrent(id)]
      BY <1>3 DEF FallbackFinds
    <2> DEFINE q == [old EXCEPT !.pc = "repair", !.seen = AsCurrent(id)]
    <2>2. req'[r] = q
      BY <1>0, <2>1
    <2>3. Running(q.seen.id)
      BY <1>0, <1>negative, <2>1 DEF Request, AsCurrent
    <2>4. q.pc = "repair" /\ q.row = old.row /\ q.id = old.id /\ q.op = old.op
      BY <1>0 DEF Request
    <2> HIDE DEF q
    <2>5. Knows(q)
      BY <1>0, <1>3, <2>3, <2>4 DEF FallbackFinds, Knows, KnowsEntry, KnowsCurrent, StopsBeforeStarting
    <2> QED BY <1>3, <2>2, <2>5, OneHandlerKnows DEF FallbackFinds
  <1>4. CASE FallbackEmpty(r)
    <2> DEFINE q == [old EXCEPT !.pc = "resolve"]
    <2>1. req'[r] = q
      BY <1>0, <1>4 DEF FallbackEmpty, Goto
    <2>2. CurrentAnswers = {} /\ q.seen = None
      BY <1>0, <1>4 DEF FallbackEmpty, Knows, KnowsCurrent, CurrentAnswers, Request
    <2>3. q.pc = "resolve" /\ q.row = old.row /\ q.id = old.id /\ q.op = old.op
      BY <1>0 DEF Request
    <2> HIDE DEF q
    <2>4. Knows(q)
      BY <1>0, <1>4, <2>2, <2>3 DEF FallbackEmpty, Knows, KnowsEntry, KnowsCurrent, StopsBeforeStarting
    <2> QED BY <1>4, <2>1, <2>4, OneHandlerKnows DEF FallbackEmpty
  <1>5. CASE RepairPointer(r)
    <2>0. PICK q : q = [old EXCEPT !.pc = "resolve"]
      OBVIOUS
    <2>1. req'[r] = q
      BY <1>0, <1>5, <2>0 DEF RepairPointer, Goto
    <2>2. old.seen # None /\ old.seen.id \in EntryIds /\ Running(old.seen.id)
      BY <1>0, <1>5 DEF RepairPointer, Request, Current, LocalsOK, Optional, Knows, KnowsCurrent
    <2>3. CurrentAnswers = {old.seen.id} /\ \A id \in EntryIds : Running(id) => id = old.seen.id
      BY <2>2 DEF SerialInv, RunningEntryIsCurrent
    <2>4. UNCHANGED entries /\ pointer' \in {pointer, old.seen.id}
      BY <1>5 DEF RepairPointer
    <2>5. \A id : (Live(id) <=> Live(id)') /\ (Running(id) <=> Running(id)')
      BY <2>4 DEF Live, Running, Used
    <2>6. CurrentAnswers' = {old.seen.id}
      <3>1. CurrentAnswers' = IF pointer' # None /\ Live(pointer)' THEN {pointer'}
                              ELSE {id \in EntryIds : Running(id)'}
        BY NextAnswersAreRunning
      <3>2. CASE pointer' = pointer
        BY <1>answers, <2>3, <2>4, <2>5, <3>1, <3>2 DEF Live, Used
      <3>3. CASE pointer' = old.seen.id
        BY <2>2, <2>4, <3>1, <3>3, NoneIsNoId DEF Running, Live, Used
      <3> QED BY <2>4, <3>2, <3>3
    <2>7. RunningEntryIsCurrent'
      BY <2>3, <2>5, <2>6 DEF RunningEntryIsCurrent
    <2>8. (pointer # None => Used(pointer))'
      BY <2>2, <2>4 DEF SerialInv, Running, Live, Used
    <2>9. /\ q.pc = "resolve" /\ q.row = old.row /\ q.id = old.id /\ q.op = old.op /\ q.seen = old.seen
      BY <1>0, <2>0 DEF Request
    <2>10. Knows(q)'
      <3>1. KnowsEntry(q)'
        BY <1>0, <1>5, <2>5, <2>9 DEF RepairPointer, Knows, KnowsEntry
      <3>2. KnowsCurrent(q)' /\ StopsBeforeStarting(q)'
        BY <2>2, <2>6, <2>9 DEF KnowsCurrent, StopsBeforeStarting
      <3> QED BY <3>1, <3>2 DEF Knows
    <2> QED BY <2>1, <2>7, <2>8, <2>10, OnlyHandlerKnows
  <1> QED BY <1>1, <1>2, <1>3, <1>4, <1>5 DEF GetCurrent

LEMMA ResolveSerial ==
  ASSUME Serial, TypeOK, SerialInv, RowsSound', NEW r \in Requests, Resolve(r) PROVE SerialInv'
  <1> DEFINE old == req[r]
  <1>0. old \in Request /\ LocalsOK(old) /\ Knows(old) /\ req \in [Requests -> Request]
    BY DEF TypeOK, SerialInv, Knows
  <1>1. CASE AutoStop(r)
    <2>1. old.new \in Row /\ old.seen \in Current
      BY <1>0, <1>1 DEF AutoStop, Request, LocalsOK, Optional
    <2> DEFINE edit == [start |-> None, stop |-> old.new.start,
                        duration |-> old.new.start - old.seen.start]
               q == [old EXCEPT !.pc = "get", !.ws = old.seen.ws, !.id = old.seen.id,
                                !.edit = edit, !.row = None, !.seen = None]
    <2>2. req'[r] = q
      BY <1>0, <1>1 DEF AutoStop
    <2>3. edit.stop # None
      BY <2>1, NoneIsNotATime DEF Row
    <2>4. CurrentAnswers = {old.seen.id}
      BY <1>0, <1>1 DEF AutoStop, Knows, KnowsCurrent
    <2> HIDE DEF edit
    <2>5. q.pc = "get" /\ q.id = old.seen.id /\ q.edit = edit /\ q.row = None /\ q.seen = None
      BY <1>0 DEF Request
    <2> HIDE DEF q
    <2>6. Knows(q)
      BY <2>3, <2>4, <2>5 DEF Knows, KnowsEntry, KnowsCurrent, StopsBeforeStarting
    <2> QED BY <1>1, <2>2, <2>6, OneHandlerKnows DEF AutoStop
  <1>2. CASE NothingToStop(r)
    <2> DEFINE q == [old EXCEPT !.pc = "insert", !.row = None]
    <2>1. req'[r] = q
      BY <1>0, <1>2 DEF NothingToStop
    <2>2. Knows(q)
      BY <1>0, <1>2 DEF NothingToStop, Request, Knows, KnowsEntry, KnowsCurrent, StopsBeforeStarting
    <2> HIDE DEF q
    <2> QED BY <1>2, <2>1, <2>2, OneHandlerKnows DEF NothingToStop
  <1>3. CASE KeepRunning(r)
    <2> DEFINE q == [old EXCEPT !.pc = "write", !.seen = None]
    <2>1. req'[r] = q
      BY <1>0, <1>3 DEF KeepRunning
    <2>2. Knows(q)
      BY <1>0, <1>3 DEF KeepRunning, Request, Knows, KnowsEntry, KnowsCurrent, StopsBeforeStarting
    <2> HIDE DEF q
    <2> QED BY <1>3, <2>1, <2>2, OneHandlerKnows DEF KeepRunning
  <1>4. CASE RejectConflict(r) \/ ReturnCurrent(r)
    BY <1>4, FinishSerial DEF RejectConflict, ReturnCurrent
  <1> QED BY <1>1, <1>2, <1>3, <1>4 DEF Resolve

\* The whole-row UPDATE of a handler that runs alone brings nothing to life.
LEMMA WriteEntrySerial ==
  ASSUME Serial, PositiveTimes, TypeOK, SerialInv, TypeOK', RowsSound', NEW r \in Requests, WriteEntry(r)
  PROVE  SerialInv'
  <1> DEFINE old == req[r]
             new == [old.row EXCEPT !.deleted = entries[old.id].deleted]
  <1>0. old \in Request /\ LocalsOK(old) /\ Knows(old) /\ req \in [Requests -> Request]
    BY DEF TypeOK, SerialInv, Knows
  <1>1. old.id \in EntryIds /\ old.row \in Row /\ old.pc = "write"
    BY <1>0 DEF WriteEntry, Request, LocalsOK, Optional
  <1>2. Live(old.id) /\ (old.row.stop = None => Running(old.id))
    BY <1>0, <1>1, NoneIsNoRecord DEF Knows, KnowsEntry
  <1>3. entries \in [EntryIds -> Optional(Row)] /\ entries[old.id] \in Row /\ pointer \in Optional(EntryIds)
    BY <1>1, <1>2 DEF TypeOK, Live, Used, Optional
  <1>4. entries' = [entries EXCEPT ![old.id] = new] /\ UNCHANGED pointer
    BY DEF WriteEntry
  <1>5. new \in Row /\ new.stop = old.row.stop /\ new.deleted = entries[old.id].deleted
    BY <1>1, <1>3 DEF Row
  <1> HIDE DEF new
  <1>6. \A id \in EntryIds : (Live(id)' <=> Live(id)) /\ (Used(id) => Used(id)')
    BY <1>1, <1>2, <1>3, <1>4, <1>5, NoneIsNoRecord DEF Live, Used
  <1>7. \A id \in EntryIds : Running(id)' <=> IF id = old.id THEN old.row.stop = None ELSE Running(id)
    BY <1>1, <1>2, <1>3, <1>4, <1>5, NoneIsNoRecord DEF Running, Live, Used
  <1>8. \A id \in EntryIds : Running(id)' => Running(id)
    BY <1>2, <1>7
  <1>9. RunningEntryIsCurrent'
    <2>1. ASSUME NEW id \in EntryIds, Running(id)' PROVE CurrentAnswers' = {id}
      <3>1. Running(id) /\ CurrentAnswers = {id}
        BY <1>8, <2>1 DEF SerialInv, RunningEntryIsCurrent
      <3>2. CurrentAnswers = IF pointer # None /\ Live(pointer) THEN {pointer} ELSE {x \in EntryIds : Running(x)}
        BY AnswersAreRunning DEF SerialInv
      <3>3. CurrentAnswers' = IF pointer' # None /\ Live(pointer)' THEN {pointer'}
                              ELSE {x \in EntryIds : Running(x)'}
        BY NextAnswersAreRunning
      <3>4. CASE pointer # None /\ Live(pointer)
        <4>1. pointer' = pointer /\ Live(pointer)'
          BY <1>3, <1>4, <1>6, <3>4 DEF Optional, Live, Used
        <4> QED BY <3>1, <3>2, <3>3, <3>4, <4>1
      <3>5. CASE ~(pointer # None /\ Live(pointer))
        <4>1. ~(pointer' # None /\ Live(pointer)')
          BY <1>3, <1>4, <1>6, <3>5 DEF Optional, Live, Used
        <4> QED BY <1>8, <2>1, <3>1, <3>2, <3>3, <3>5, <4>1
      <3> QED BY <3>4, <3>5
    <2> QED BY <2>1 DEF RunningEntryIsCurrent
  <1>10. (pointer # None => Used(pointer))'
    BY <1>3, <1>4, <1>6 DEF SerialInv, Optional, Used
  <1>11. PICK q : q = [old EXCEPT !.pc = IF old.row.stop = None THEN "point" ELSE "clear"]
    OBVIOUS
  <1>12. req'[r] = q
    BY <1>0, <1>11 DEF WriteEntry, Goto
  <1>13. /\ q.pc = IF old.row.stop = None THEN "point" ELSE "clear"
         /\ q.row = old.row /\ q.id = old.id /\ q.op = old.op
    BY <1>0, <1>11 DEF Request
  <1>14. Knows(q)'
    <2>1. KnowsEntry(q)'
      BY <1>1, <1>2, <1>6, <1>7, <1>13 DEF KnowsEntry
    <2>2. KnowsCurrent(q)'
      BY <1>13 DEF KnowsCurrent
    <2>3. old.op = "create" => old.row.stop # None /\ \A id \in EntryIds : ~Running(id)'
      BY <1>0, <1>1, <1>7, <1>8 DEF Knows, StopsBeforeStarting, SerialInv, RunningEntryIsCurrent
    <2>4. StopsBeforeStarting(q)'
      BY <1>13, <2>3 DEF StopsBeforeStarting
    <2> QED BY <2>1, <2>2, <2>4 DEF Knows
  <1> QED BY <1>9, <1>10, <1>12, <1>14, OnlyHandlerKnows

LEMMA MarkDeletedSerial ==
  ASSUME Serial, PositiveTimes, TypeOK, SerialInv, TypeOK', RowsSound', NEW r \in Requests, MarkDeleted(r)
  PROVE  SerialInv'
  <1> DEFINE old == req[r]
             new == [entries[old.id] EXCEPT !.deleted = TRUE]
  <1>0. old \in Request /\ LocalsOK(old) /\ Knows(old) /\ req \in [Requests -> Request]
    BY DEF TypeOK, SerialInv, Knows
  <1>1. old.id \in EntryIds /\ old.row \in Row /\ old.pc = "delete" /\ old.op = "delete"
    BY <1>0 DEF MarkDeleted, Request, LocalsOK, Optional, Knows, KnowsEntry
  <1>2. entries \in [EntryIds -> Optional(Row)] /\ entries[old.id] \in Row /\ pointer \in Optional(EntryIds)
    BY <1>0, <1>1, NoneIsNoRecord DEF Knows, KnowsEntry, TypeOK, Live, Used, Optional
  <1>3. entries' = [entries EXCEPT ![old.id] = new] /\ UNCHANGED pointer
    BY DEF MarkDeleted
  <1>4. new \in Row /\ new.deleted
    BY <1>2 DEF Row
  <1> HIDE DEF new
  <1>5. \A id \in EntryIds : (Live(id)' <=> Live(id) /\ id # old.id) /\ (Used(id) => Used(id)')
    BY <1>1, <1>2, <1>3, <1>4, NoneIsNoRecord DEF Live, Used
  <1>6. \A id \in EntryIds : Running(id)' <=> Running(id) /\ id # old.id
    BY <1>1, <1>2, <1>3, <1>4, NoneIsNoRecord DEF Running, Live, Used
  <1>7. RunningEntryIsCurrent'
    <2>1. ASSUME NEW id \in EntryIds, Running(id)' PROVE CurrentAnswers' = {id}
      <3>1. Running(id) /\ id # old.id /\ CurrentAnswers = {id}
        BY <1>6, <2>1 DEF SerialInv, RunningEntryIsCurrent
      <3>2. CurrentAnswers = IF pointer # None /\ Live(pointer) THEN {pointer} ELSE {x \in EntryIds : Running(x)}
        BY AnswersAreRunning DEF SerialInv
      <3>3. CurrentAnswers' = IF pointer' # None /\ Live(pointer)' THEN {pointer'}
                              ELSE {x \in EntryIds : Running(x)'}
        BY NextAnswersAreRunning
      <3>4. CASE pointer # None /\ Live(pointer)
        <4>1. pointer = id
          BY <3>1, <3>2, <3>4
        <4>2. pointer' = pointer /\ Live(pointer)'
          BY <1>3, <1>5, <3>1, <3>4, <4>1 DEF Live, Used
        <4> QED BY <3>3, <3>4, <4>1, <4>2
      <3>5. CASE ~(pointer # None /\ Live(pointer))
        <4>1. ~(pointer' # None /\ Live(pointer)')
          BY <1>2, <1>3, <1>5, <3>5 DEF Optional, Live, Used
        <4> QED BY <1>6, <2>1, <3>1, <3>2, <3>3, <3>5, <4>1
      <3> QED BY <3>4, <3>5
    <2> QED BY <2>1 DEF RunningEntryIsCurrent
  <1>8. (pointer # None => Used(pointer))'
    BY <1>2, <1>3, <1>5 DEF SerialInv, Optional, Used
  <1>9. PICK q : /\ q = [old EXCEPT !.pc = "clear"] \/ q = IdleRequest
                 /\ req'[r] = q
    BY <1>0 DEF MarkDeleted, Goto, Finish
  <1>10. Knows(q)'
    <2>1. CASE q = [old EXCEPT !.pc = "clear"]
      <3>1. q.pc = "clear" /\ q.op = "delete"
        BY <1>0, <1>1, <2>1 DEF Request
      <3> QED BY <3>1 DEF Knows, KnowsEntry, KnowsCurrent, StopsBeforeStarting
    <2>2. CASE q = IdleRequest
      BY <2>2 DEF IdleRequest, Knows, KnowsEntry, KnowsCurrent, StopsBeforeStarting
    <2> QED BY <1>9, <2>1, <2>2
  <1> QED BY <1>7, <1>8, <1>9, <1>10, OnlyHandlerKnows

LEMMA ClearPointerSerial ==
  ASSUME Serial, PositiveTimes, TypeOK, SerialInv, TypeOK', RowsSound', NEW r \in Requests, ClearPointer(r)
  PROVE  SerialInv'
  <1> DEFINE old == req[r]
  <1>0. old \in Request /\ LocalsOK(old) /\ Knows(old) /\ req \in [Requests -> Request]
    BY DEF TypeOK, SerialInv, Knows
  <1>1. UNCHANGED entries /\ pointer' = None /\ old.pc = "clear"
    BY DEF ClearPointer
  <1>2. \A id : Running(id)' <=> Running(id)
    BY <1>1 DEF Running, Live, Used
  <1>3. CurrentAnswers' = {x \in EntryIds : Running(x)'}
    BY <1>1, NextAnswersAreRunning
  <1>4. RunningEntryIsCurrent'
    <2>1. \A a, b \in EntryIds : Running(a)' /\ Running(b)' => a = b
      BY <1>2, CurrentIsUnique DEF SerialInv, AtMostOneRunning
    <2> QED BY <1>3, <2>1 DEF RunningEntryIsCurrent
  <1>5. (pointer # None => Used(pointer))'
    BY <1>1
  <1>6. CASE old.op = "create"
    <2>1. PICK q : q = [old EXCEPT !.pc = "insert", !.ws = None, !.id = None, !.row = None, !.edit = NoEdit]
      OBVIOUS
    <2>2. req'[r] = q
      BY <1>0, <1>6, <2>1 DEF ClearPointer
    <2>3. q.pc = "insert" /\ q.row = None
      BY <1>0, <2>1 DEF Request
    <2>4. CurrentAnswers' = {}
      BY <1>0, <1>1, <1>2, <1>3, <1>6 DEF Knows, StopsBeforeStarting
    <2>5. Knows(q)'
      BY <2>3, <2>4 DEF Knows, KnowsEntry, KnowsCurrent, StopsBeforeStarting
    <2> QED BY <1>4, <1>5, <2>2, <2>5, OnlyHandlerKnows
  <1>7. CASE old.op # "create"
    <2>1. req'[r] = IdleRequest
      BY <1>0, <1>7 DEF ClearPointer, Finish
    <2>2. Knows(IdleRequest)'
      BY DEF Knows, IdleRequest, KnowsEntry, KnowsCurrent, StopsBeforeStarting
    <2> QED BY <1>4, <1>5, <2>1, <2>2, OnlyHandlerKnows
  <1> QED BY <1>6, <1>7

LEMMA InsertEntrySerial ==
  ASSUME Serial, PositiveTimes, TypeOK, SerialInv, TypeOK', RowsSound', NEW r \in Requests, InsertEntry(r)
  PROVE  SerialInv'
  <1> DEFINE old == req[r]
  <1>0. old \in Request /\ LocalsOK(old) /\ Knows(old) /\ req \in [Requests -> Request]
    BY DEF TypeOK, SerialInv, Knows
  <1>1. old.new \in Row /\ ~old.new.deleted /\ old.op = "create" /\ old.pc = "insert"
    BY <1>0, NoneIsNoRecord DEF InsertEntry, Request, LocalsOK, Optional, SerialInv, RowsSound
  <1>2. PICK id \in EntryIds :
          /\ ~Used(id)
          /\ entries' = [entries EXCEPT ![id] = old.new]
          /\ IF old.new.stop = None
             THEN req' = [req EXCEPT ![r].pc = "point", ![r].id = id, ![r].row = None]
             ELSE Finish(r)
    BY DEF InsertEntry
  <1>3. UNCHANGED pointer /\ entries \in [EntryIds -> Optional(Row)] /\ pointer \in Optional(EntryIds)
    BY DEF InsertEntry, TypeOK
  <1>4. /\ \A x \in EntryIds : Used(x)' <=> Used(x) \/ x = id
        /\ \A x \in EntryIds : Live(x)' <=> Live(x) \/ x = id
        /\ \A x \in EntryIds : Running(x)' <=> Running(x) \/ (x = id /\ old.new.stop = None)
    BY <1>1, <1>2, <1>3, NoneIsNoRecord DEF Running, Live, Used
  <1>5. pointer # id
    BY <1>2, NoneIsNoId DEF SerialInv
  <1>6. (pointer # None => Used(pointer))'
    BY <1>3, <1>4 DEF SerialInv, Optional, Used
  <1>7. CurrentAnswers = IF pointer # None /\ Live(pointer) THEN {pointer} ELSE {x \in EntryIds : Running(x)}
    BY AnswersAreRunning DEF SerialInv
  <1>8. CurrentAnswers' = IF pointer # None /\ Live(pointer) THEN {pointer} ELSE {x \in EntryIds : Running(x)'}
    <2>1. CurrentAnswers' = IF pointer' # None /\ Live(pointer)' THEN {pointer'}
                            ELSE {x \in EntryIds : Running(x)'}
      BY NextAnswersAreRunning
    <2>2. pointer # None => (Live(pointer)' <=> Live(pointer))
      BY <1>3, <1>4, <1>5 DEF Optional, Live, Used
    <2> QED BY <1>3, <2>1, <2>2
  <1>9. CASE old.new.stop = None
    <2>1. CurrentAnswers = {}
      BY <1>0, <1>1, <1>9 DEF Knows, StopsBeforeStarting
    <2>2. \A x \in EntryIds : Running(x)' <=> x = id
      BY <1>4, <1>9, <2>1 DEF SerialInv, RunningEntryIsCurrent
    <2>3. CurrentAnswers' = {id}
      BY <1>7, <1>8, <2>1, <2>2
    <2>4. RunningEntryIsCurrent'
      BY <2>2, <2>3 DEF RunningEntryIsCurrent
    <2>5. PICK q : q = [old EXCEPT !.pc = "point", !.id = id, !.row = None]
      OBVIOUS
    <2>6. req'[r] = q
      BY <1>0, <1>2, <1>9, <2>5
    <2>7. q.pc = "point" /\ q.row = None /\ q.id = id
      BY <1>0, <2>5 DEF Request
    <2>8. Knows(q)'
      BY <2>2, <2>7 DEF Knows, KnowsEntry, KnowsCurrent, StopsBeforeStarting
    <2> QED BY <1>6, <2>4, <2>6, <2>8, OnlyHandlerKnows
  <1>10. CASE old.new.stop # None
    <2>1. RunningEntryIsCurrent'
      BY <1>4, <1>7, <1>8, <1>10 DEF SerialInv, RunningEntryIsCurrent
    <2>2. req'[r] = IdleRequest
      BY <1>0, <1>2, <1>10 DEF Finish
    <2>3. Knows(IdleRequest)'
      BY DEF Knows, IdleRequest, KnowsEntry, KnowsCurrent, StopsBeforeStarting
    <2> QED BY <1>6, <2>1, <2>2, <2>3, OnlyHandlerKnows
  <1> QED BY <1>9, <1>10

LEMMA PointRunningSerial ==
  ASSUME Serial, PositiveTimes, TypeOK, SerialInv, TypeOK', RowsSound', NEW r \in Requests, PointRunning(r)
  PROVE  SerialInv'
  <1> DEFINE old == req[r]
  <1>0. old \in Request /\ LocalsOK(old) /\ Knows(old) /\ req \in [Requests -> Request]
    BY DEF TypeOK, SerialInv, Knows
  <1>1. old.id \in EntryIds /\ Running(old.id)
    BY <1>0 DEF PointRunning, Request, LocalsOK, Optional, Knows, KnowsEntry
  <1>2. UNCHANGED entries /\ pointer' = old.id
    BY DEF PointRunning
  <1>3. \A id \in EntryIds : Running(id)' => id = old.id
    <2>1. \A id \in EntryIds : Running(id) => id = old.id
      BY <1>1, CurrentIsUnique DEF SerialInv, AtMostOneRunning
    <2> QED BY <1>2, <2>1 DEF Running, Live, Used
  <1>4. pointer' # None /\ Live(pointer)' /\ Used(pointer)'
    BY <1>1, <1>2, NoneIsNoId DEF Running, Live, Used
  <1>5. CurrentAnswers' = {old.id}
    BY <1>2, <1>4 DEF CurrentAnswers
  <1>6. RunningEntryIsCurrent'
    BY <1>3, <1>5 DEF RunningEntryIsCurrent
  <1>7. req'[r] = IdleRequest
    BY <1>0 DEF PointRunning, Finish
  <1>8. Knows(IdleRequest)'
    BY DEF Knows, IdleRequest, KnowsEntry, KnowsCurrent, StopsBeforeStarting
  <1> QED BY <1>4, <1>6, <1>7, <1>8, OnlyHandlerKnows

LEMMA NextSerial ==
  ASSUME Serial, PositiveTimes PROVE TypeOK /\ SerialInv /\ [Next]_vars => SerialInv'
  <1> SUFFICES ASSUME TypeOK, SerialInv, [Next]_vars PROVE SerialInv'
    OBVIOUS
  <1>0. TypeOK' /\ RowsSound'
    BY NextTyped, NextSound DEF SerialInv
  <1>1. ASSUME NEW r \in Requests, Handle(r) PROVE SerialInv'
    <2>1. CASE Abort(r)
      BY <1>0, <2>1, FinishSerial DEF Abort
    <2>2. CASE Write(r)
      BY <1>0, <2>2, WriteEntrySerial, MarkDeletedSerial, ClearPointerSerial, InsertEntrySerial,
         PointRunningSerial DEF Write
    <2> QED BY <1>0, <1>1, <2>1, <2>2, ArriveSerial, CheckSerial, GetCurrentSerial, ResolveSerial
         DEF Handle, Step
  <1>2. CASE UNCHANGED <<entries, pointer, req>>
    <2>1. /\ RunningEntryIsCurrent' /\ (pointer # None => Used(pointer))'
          /\ \A q : Knows(q) => Knows(q)'
      BY <1>2, EntriesKept
    <2>2. ASSUME NEW r \in Requests
          PROVE  (KnowsEntry(req[r]) /\ KnowsCurrent(req[r]) /\ StopsBeforeStarting(req[r]))'
      <3>1. PICK q : q = req[r] /\ Knows(q)
        BY DEF SerialInv, Knows
      <3> QED BY <1>2, <2>1, <3>1 DEF Knows, KnowsEntry, KnowsCurrent, StopsBeforeStarting
    <2> QED BY <1>0, <2>1, <2>2 DEF SerialInv
  <1> QED BY <1>1, <1>2 DEF Next, SetReportLock, vars

LEMMA SerialInvariant == ASSUME Serial, PositiveTimes PROVE Spec => []SerialInv
  BY InitIsTyped, NextTyped, InitIsSerial, NextSerial, PTL DEF Spec
-----------------------------------------------------------------------------
(***************************************************************************)
(* What follows from it.                                                   *)
(***************************************************************************)

\* GetCurrentTimeEntry always finds the running entry and no other, even when
\* failures have left the pointer missing, stale or dangling.
THEOREM SerialCurrentIsRunning == ASSUME Serial, PositiveTimes PROVE Spec => []RunningEntryIsCurrent
  <1>1. SerialInv => RunningEntryIsCurrent
    BY DEF SerialInv
  <1> QED BY <1>1, SerialInvariant, PTL

\* A user whose requests arrive one at a time never has two running entries,
\* across all workspaces.
THEOREM SerialOneTimer == ASSUME Serial, PositiveTimes PROVE Spec => []AtMostOneRunning
  BY CurrentIsUnique, SerialCurrentIsRunning, PTL
-----------------------------------------------------------------------------
(***************************************************************************)
(* The refinement of RunningTimer.                                         *)
(***************************************************************************)

PhaseMap == [id \in EntryIds |-> Phase(id)]

\* What the three writes do to the phases of the entries.
LEMMA StepMovesPhase ==
  ASSUME Serial, TypeOK, SerialInv, [Next]_vars
  PROVE  [Timer!Next]_PhaseMap
  <1>typed. entries \in [EntryIds -> Optional(Row)]
    BY DEF TypeOK
  <1>1. CASE UNCHANGED entries
    BY <1>1 DEF PhaseMap, Phase, Used
  <1>2. ASSUME NEW r \in Requests, WriteEntry(r) PROVE [Timer!Next]_PhaseMap
    <2> DEFINE old == req[r]
               new == [old.row EXCEPT !.deleted = entries[old.id].deleted]
    <2>1. old.id \in EntryIds /\ old.row \in Row /\ KnowsEntry(old) /\ old.pc = "write"
      BY <1>2 DEF WriteEntry, TypeOK, SerialInv, Request, LocalsOK, Optional
    <2>2. Live(old.id) /\ (old.row.stop = None => Running(old.id)) /\ entries[old.id] \in Row
      BY <1>typed, <2>1, NoneIsNoRecord DEF KnowsEntry, Live, Used, Optional
    <2>3. entries' = [entries EXCEPT ![old.id] = new]
      BY <1>2 DEF WriteEntry
    <2>4. new \in Row /\ ~new.deleted /\ new.stop = old.row.stop
      BY <2>1, <2>2 DEF Row, Live
    <2> HIDE DEF new
    <2>5. /\ \A id \in EntryIds \ {old.id} : Phase(id)' = Phase(id)
          /\ Phase(old.id) = IF entries[old.id].stop = None THEN "running" ELSE "stopped"
          /\ PhaseMap'[old.id] = IF new.stop = None THEN "running" ELSE "stopped"
      BY <1>typed, <2>1, <2>2, <2>3, <2>4, NoneIsNoRecord DEF PhaseMap, Phase, Live, Used
    <2>6. PhaseMap' = [PhaseMap EXCEPT ![old.id] = IF new.stop = None THEN "running" ELSE "stopped"]
      BY <2>5 DEF PhaseMap
    <2>7. CASE new.stop = None
      BY <2>2, <2>4, <2>5, <2>6, <2>7 DEF PhaseMap, Running
    <2>8. CASE new.stop # None /\ entries[old.id].stop # None
      BY <2>5, <2>6, <2>8 DEF PhaseMap
    <2>9. CASE new.stop # None /\ entries[old.id].stop = None
      <3>1. Timer!Stop(old.id)
        BY <2>1, <2>5, <2>6, <2>9 DEF Timer!Stop, PhaseMap
      <3> QED BY <2>1, <3>1 DEF Timer!Next
    <2> QED BY <2>7, <2>8, <2>9
  <1>3. ASSUME NEW r \in Requests, MarkDeleted(r) PROVE [Timer!Next]_PhaseMap
    <2> DEFINE old == req[r]
               new == [entries[old.id] EXCEPT !.deleted = TRUE]
    <2>1. old.id \in EntryIds /\ old.row \in Row /\ KnowsEntry(old) /\ old.pc = "delete"
      BY <1>3 DEF MarkDeleted, TypeOK, SerialInv, Request, LocalsOK, Optional
    <2>2. Live(old.id) /\ entries[old.id] \in Row
      BY <1>typed, <2>1, NoneIsNoRecord DEF KnowsEntry, Live, Used, Optional
    <2>3. entries' = [entries EXCEPT ![old.id] = new]
      BY <1>3 DEF MarkDeleted
    <2>4. new \in Row /\ new.deleted
      BY <2>2 DEF Row
    <2> HIDE DEF new
    <2>5. /\ \A id \in EntryIds \ {old.id} : Phase(id)' = Phase(id)
          /\ Phase(old.id) \in {"running", "stopped"}
          /\ PhaseMap'[old.id] = "deleted"
      BY <1>typed, <2>1, <2>2, <2>3, <2>4, NoneIsNoRecord DEF PhaseMap, Phase, Live, Used
    <2>6. PhaseMap' = [PhaseMap EXCEPT ![old.id] = "deleted"]
      BY <2>5 DEF PhaseMap
    <2>7. Timer!Delete(old.id)
      BY <2>1, <2>5, <2>6 DEF Timer!Delete, PhaseMap
    <2> QED BY <2>1, <2>7 DEF Timer!Next
  <1>4. ASSUME NEW r \in Requests, InsertEntry(r) PROVE [Timer!Next]_PhaseMap
    <2> DEFINE old == req[r]
    <2>1. /\ old.new \in Row /\ ~old.new.deleted /\ old.op = "create" /\ old.pc = "insert"
          /\ StopsBeforeStarting(old)
      BY <1>4, NoneIsNoRecord DEF InsertEntry, TypeOK, Request, LocalsOK, Optional, SerialInv, RowsSound
    <2>2. PICK id \in EntryIds : ~Used(id) /\ entries' = [entries EXCEPT ![id] = old.new]
      BY <1>4 DEF InsertEntry
    <2>3. /\ \A other \in EntryIds \ {id} : Phase(other)' = Phase(other)
          /\ Phase(id) = "absent"
          /\ PhaseMap'[id] = IF old.new.stop = None THEN "running" ELSE "stopped"
      BY <1>typed, <2>1, <2>2, NoneIsNoRecord DEF PhaseMap, Phase, Used
    <2>4. PhaseMap' = [PhaseMap EXCEPT ![id] = IF old.new.stop = None THEN "running" ELSE "stopped"]
      BY <2>3 DEF PhaseMap
    <2>5. CASE old.new.stop # None
      <3>1. Timer!Record(id)
        BY <2>3, <2>4, <2>5 DEF Timer!Record, PhaseMap
      <3> QED BY <3>1 DEF Timer!Next
    <2>6. CASE old.new.stop = None
      <3>1. \A other \in EntryIds : ~Running(other)
        BY <2>1, <2>6 DEF StopsBeforeStarting, SerialInv, RunningEntryIsCurrent
      <3>2. \A other \in EntryIds : Phase(other) # "running"
        BY <3>1 DEF Phase, Running, Live
      <3>3. Timer!Start(id)
        BY <2>3, <2>4, <2>6, <3>2 DEF Timer!Start, PhaseMap
      <3> QED BY <3>3 DEF Timer!Next
    <2> QED BY <2>5, <2>6
  <1> QED BY <1>1, <1>2, <1>3, <1>4, EntriesChange

\* Requests that arrive one at a time start, record, stop and delete entries
\* exactly as RunningTimer allows: a start needs that nothing runs, and
\* neither a stopped nor a deleted entry runs again.
THEOREM SerialImplementsRunningTimer == ASSUME Serial, PositiveTimes PROVE Spec => ImplementsRunningTimer
  <1>1. Init => Timer!Init
    BY DEF Init, Timer!Init, Phase, Used
  <1>2. TypeOK /\ SerialInv /\ [Next]_vars => [Timer!Next]_PhaseMap
    BY StepMovesPhase
  <1> QED BY <1>1, <1>2, TypeCorrect, SerialInvariant, PTL DEF Spec, ImplementsRunningTimer, Timer!Spec, PhaseMap

LEMMA StepKeepsStopped ==
  ASSUME TypeOK, SerialInv, [Next]_vars, NEW id \in EntryIds, Used(id), entries[id].stop # None
  PROVE  entries'[id].stop # None
  <1>typed. entries \in [EntryIds -> Optional(Row)] /\ entries[id] \in Row
    BY DEF TypeOK, Used, Optional
  <1>1. ASSUME NEW r \in Requests, WriteEntry(r) PROVE entries'[id].stop # None
    <2>1. req[r].id \in EntryIds /\ req[r].row \in Row /\ KnowsEntry(req[r]) /\ req[r].pc = "write"
      BY <1>1 DEF WriteEntry, TypeOK, SerialInv, Request, LocalsOK, Optional
    <2>2. entries' = [entries EXCEPT ![req[r].id] = [req[r].row EXCEPT !.deleted = entries[req[r].id].deleted]]
      BY <1>1 DEF WriteEntry
    <2>3. CASE id = req[r].id
      <3>1. req[r].row.stop # None
        BY <2>1, <2>3, NoneIsNoRecord DEF KnowsEntry, Running
      <3> QED BY <1>typed, <2>1, <2>2, <2>3, <3>1 DEF Row
    <2>4. CASE id # req[r].id
      BY <1>typed, <2>2, <2>4
    <2> QED BY <2>3, <2>4
  <1>2. ASSUME NEW r \in Requests, MarkDeleted(r) PROVE entries'[id].stop # None
    <2>1. entries'[id] = entries[id] \/ entries'[id] = [entries[id] EXCEPT !.deleted = TRUE]
      BY <1>2, <1>typed DEF MarkDeleted
    <2> QED BY <1>typed, <2>1 DEF Row
  <1>3. ASSUME NEW r \in Requests, InsertEntry(r) PROVE entries'[id].stop # None
    BY <1>3, <1>typed DEF InsertEntry, Used
  <1> QED BY <1>1, <1>2, <1>3, EntriesChange

\* No update that runs alone starts a timer.
THEOREM SerialStoppedStaysStopped == ASSUME Serial, PositiveTimes PROVE Spec => StoppedStaysStopped
  <1>1. TypeOK /\ SerialInv /\ [Next]_vars
          => [\A id \in EntryIds : Used(id) /\ entries[id].stop # None => entries'[id].stop # None]_vars
    BY StepKeepsStopped
  <1> QED BY <1>1, TypeCorrect, SerialInvariant, PTL DEF Spec, StoppedStaysStopped
-----------------------------------------------------------------------------
(***************************************************************************)
(* The report lock, for a user whose requests arrive one at a time while   *)
(* no administrator moves the lock.                                        *)
(***************************************************************************)

LEMMA SteadyLockInitiallyTyped == SteadyLockInit => TypeOK /\ LockInv
  <1>1. IdleRequest.pc = "idle" /\ IdleRequest.row = None
    BY DEF IdleRequest
  <1> QED BY <1>1, IdleRequestIsTyped, TimesAreSeconds
       DEF SteadyLockInit, TypeOK, LockInv, PassedTheLock, Optional

\* A handler that finds the tables as they were has passed the lock as before.
LEMMA TablesKeepTheCheck ==
  ASSUME UNCHANGED <<entries, lockAt>>, NEW q, PassedTheLock(q)
  PROVE  PassedTheLock(q)'
  BY DEF PassedTheLock, Locked

\* When the one handler is past the check rightly, the invariant holds.
LEMMA OnlyHandlerPassed ==
  ASSUME Serial, NEW r \in Requests, NEW q, req'[r] = q, PassedTheLock(q)'
  PROVE  LockInv'
  BY DEF Serial, LockInv, PassedTheLock

LEMMA FinishPassed ==
  ASSUME Serial, TypeOK, NEW r \in Requests, Finish(r)
  PROVE  LockInv'
  <1>1. req'[r] = IdleRequest
    BY DEF Finish, TypeOK
  <1>2. PassedTheLock(IdleRequest)'
    BY DEF PassedTheLock, IdleRequest
  <1> QED BY <1>1, <1>2, OnlyHandlerPassed

LEMMA ArrivePassed ==
  ASSUME Serial, TypeOK, NEW r \in Requests, Arrive(r)
  PROVE  LockInv'
  <1>typed. req \in [Requests -> Request] /\ IdleRequest \in Request /\ IdleRequest.row = None
    BY IdleRequestIsTyped DEF TypeOK, IdleRequest
  <1>1. PICK q : req'[r] = q /\ q.row = None /\ q.pc \in {"lookup", "insert", "readstop", "get"}
    <2>1. CASE BeginCreate(r)
      <3>1. PICK ws \in Workspaces, start \in Times, stop \in Optional(Times), duration \in Optional(Durations) :
              LET range == NormalizeRange(start, stop, duration)
              IN  /\ range # InvalidRange
                  /\ req' = [req EXCEPT ![r] =
                       [IdleRequest EXCEPT !.op = "create",
                                           !.pc = IF range.stop = None THEN "lookup" ELSE "insert",
                                           !.new = RowOf(ws, range)]]
        BY <2>1 DEF BeginCreate
      <3> DEFINE range == NormalizeRange(start, stop, duration)
                 q == [IdleRequest EXCEPT !.op = "create",
                                          !.pc = IF range.stop = None THEN "lookup" ELSE "insert",
                                          !.new = RowOf(ws, range)]
      <3>2. req'[r] = q
        BY <3>1, <1>typed
      <3> HIDE DEF range
      <3>3. q.row = None /\ q.pc \in {"lookup", "insert"}
        BY <1>typed DEF Request
      <3> QED BY <3>2, <3>3
    <2>2. CASE BeginUpdate(r)
      <3>1. PICK ws, id : req'[r] = [IdleRequest EXCEPT !.op = "update", !.pc = "get", !.ws = ws, !.id = id]
        BY <2>2, <1>typed DEF BeginUpdate
      <3> QED BY <1>typed, <3>1 DEF Request
    <2>3. CASE BeginStop(r)
      <3>1. PICK ws, id : req'[r] = [IdleRequest EXCEPT !.op = "stop", !.pc = "readstop", !.ws = ws, !.id = id]
        BY <2>3, <1>typed DEF BeginStop
      <3> QED BY <1>typed, <3>1 DEF Request
    <2>4. CASE BeginDelete(r)
      <3>1. PICK ws, id : req'[r] = [IdleRequest EXCEPT !.op = "delete", !.pc = "get", !.ws = ws, !.id = id]
        BY <2>4, <1>typed DEF BeginDelete
      <3> QED BY <1>typed, <3>1 DEF Request
    <2>5. CASE BeginCurrent(r)
      <3>1. req'[r] = [IdleRequest EXCEPT !.op = "current", !.pc = "lookup"]
        BY <2>5, <1>typed DEF BeginCurrent
      <3> QED BY <1>typed, <3>1 DEF Request
    <2> QED BY <2>1, <2>2, <2>3, <2>4, <2>5 DEF Arrive
  <1>2. PassedTheLock(req[r])'
    BY <1>1 DEF PassedTheLock
  <1> QED BY <1>2 DEF Serial, LockInv

\* The check itself: it is made on the row as it stands.
LEMMA CheckPassed ==
  ASSUME Serial, TypeOK, LockInv, NEW r \in Requests, Check(r)
  PROVE  LockInv'
  <1>typed. req \in [Requests -> Request] /\ req[r] \in Request /\ LocalsOK(req[r]) /\ PassedTheLock(req[r])
    BY DEF TypeOK, LockInv
  <1>tables. UNCHANGED <<entries, lockAt>>
    BY DEF Check, ReadForStop, ReadEntry, EntryNotFound, RejectLocked, ApplyEdit, RejectEdit, AllowDelete,
      TablesUnchanged
  <1>1. CASE ReadForStop(r)
    BY <1>1, <1>typed DEF ReadForStop, Request, Serial, LockInv, PassedTheLock
  <1>2. CASE ReadEntry(r)
    <2>1. /\ req'[r].pc = "lock" /\ req'[r].ws = req[r].ws /\ req'[r].id = req[r].id
          /\ req'[r].row = entries[req[r].id] /\ entries[req[r].id].ws = req[r].ws
      BY <1>2, <1>typed DEF ReadEntry, Request, Visible
    <2>2. PassedTheLock(req[r])'
      BY <2>1, <1>tables DEF PassedTheLock
    <2> QED BY <2>2 DEF Serial, LockInv
  <1>3. CASE EntryNotFound(r) \/ RejectLocked(r) \/ RejectEdit(r)
    BY <1>3, FinishPassed DEF EntryNotFound, RejectLocked, RejectEdit
  <1>4. CASE ApplyEdit(r)
    <2>1. /\ req'[r].pc \in {"lookup", "write"} /\ req'[r].id = req[r].id
          /\ req[r].pc = "lock" /\ ~Locked(req[r].ws, req[r].row.start)
      BY <1>4, <1>typed DEF ApplyEdit, Request
    <2>2. ~Locked(entries[req[r].id].ws, entries[req[r].id].start)
      BY <2>1, <1>typed DEF PassedTheLock
    <2>3. PassedTheLock(req[r])'
      BY <2>1, <2>2, <1>tables DEF PassedTheLock, Locked
    <2> QED BY <2>3 DEF Serial, LockInv
  <1>5. CASE AllowDelete(r)
    <2>1. /\ req'[r].pc = "delete" /\ req'[r].id = req[r].id
          /\ req[r].pc = "lock" /\ ~Locked(req[r].ws, req[r].row.start)
      BY <1>5, <1>typed DEF AllowDelete, Goto, Request
    <2>2. ~Locked(entries[req[r].id].ws, entries[req[r].id].start)
      BY <2>1, <1>typed DEF PassedTheLock
    <2>3. PassedTheLock(req[r])'
      BY <2>1, <2>2, <1>tables DEF PassedTheLock, Locked
    <2> QED BY <2>3 DEF Serial, LockInv
  <1> QED BY <1>1, <1>2, <1>3, <1>4, <1>5 DEF Check

\* Looking for the current entry changes nothing the lock protects.
LEMMA CurrentPassed ==
  ASSUME Serial, TypeOK, LockInv, NEW r \in Requests, GetCurrent(r) \/ Resolve(r)
  PROVE  LockInv'
  <1>typed. req \in [Requests -> Request] /\ req[r] \in Request /\ PassedTheLock(req[r])
    BY DEF TypeOK, LockInv
  <1>tables. UNCHANGED <<entries, lockAt>>
    BY DEF GetCurrent, LookupPointer, FallbackFinds, FallbackEmpty, RepairPointer, Resolve, AutoStop,
      NothingToStop, KeepRunning, RejectConflict, ReturnCurrent, TablesUnchanged
  <1>1. CASE RejectConflict(r) \/ ReturnCurrent(r)
    BY <1>1, FinishPassed DEF RejectConflict, ReturnCurrent
  <1>2. CASE AutoStop(r) \/ NothingToStop(r)
    <2>1. req'[r].pc \in {"get", "insert"}
      BY <1>2, <1>typed DEF AutoStop, NothingToStop, Request
    <2> QED BY <2>1 DEF PassedTheLock, Serial, LockInv
  <1>3. CASE GetCurrent(r) \/ KeepRunning(r)
    <2>1. /\ req[r].pc \in {"lookup", "fallback", "repair", "resolve"}
          /\ req'[r].pc \in {"fallback", "repair", "resolve", "write"}
          /\ req'[r].id = req[r].id /\ req'[r].row = req[r].row
      <3>1. CASE LookupPointer(r)
        BY <3>1, <1>typed DEF LookupPointer, Goto, Request
      <3>2. CASE FallbackFinds(r)
        BY <3>2, <1>typed DEF FallbackFinds, Request
      <3>3. CASE FallbackEmpty(r) \/ RepairPointer(r) \/ KeepRunning(r)
        BY <3>3, <1>typed DEF FallbackEmpty, RepairPointer, KeepRunning, Goto, Request
      <3> QED BY <1>3, <3>1, <3>2, <3>3 DEF GetCurrent
    <2>2. PassedTheLock(req[r])'
      BY <2>1, <1>typed, <1>tables DEF PassedTheLock, Locked
    <2> QED BY <2>2 DEF Serial, LockInv
  <1> QED BY <1>1, <1>2, <1>3 DEF Resolve

\* After its write a handler touches no entry without checking again.
LEMMA WritePassed ==
  ASSUME Serial, TypeOK, NEW r \in Requests, Write(r)
  PROVE  LockInv'
  <1>typed. req \in [Requests -> Request] /\ req[r] \in Request /\ IdleRequest.pc = "idle"
    BY DEF TypeOK, IdleRequest
  <1>1. req'[r].pc \in {"idle", "clear", "insert", "point"}
    <2>1. CASE WriteEntry(r)
      BY <2>1, <1>typed DEF WriteEntry, Goto, Request
    <2>2. CASE MarkDeleted(r)
      BY <2>2, <1>typed DEF MarkDeleted, Goto, Finish, Request
    <2>3. CASE ClearPointer(r)
      BY <2>3, <1>typed DEF ClearPointer, Finish, Request
    <2>4. CASE InsertEntry(r)
      <3>1. PICK id : req' = [req EXCEPT ![r].pc = "point", ![r].id = id, ![r].row = None] \/ Finish(r)
        BY <2>4 DEF InsertEntry
      <3> QED BY <3>1, <1>typed DEF Finish, Request
    <2>5. CASE PointRunning(r)
      BY <2>5, <1>typed DEF PointRunning, Finish
    <2> QED BY <2>1, <2>2, <2>3, <2>4, <2>5 DEF Write
  <1> QED BY <1>1 DEF PassedTheLock, Serial, LockInv

LEMMA NextPassed ==
  ASSUME Serial
  PROVE  TypeOK /\ LockInv /\ [\E r \in Requests : Handle(r)]_vars => LockInv'
  <1>1. ASSUME TypeOK, LockInv, NEW r \in Requests, Handle(r) PROVE LockInv'
    <2>1. CASE Abort(r)
      BY <1>1, <2>1, FinishPassed DEF Abort
    <2> QED BY <1>1, <2>1, ArrivePassed, CheckPassed, CurrentPassed, WritePassed DEF Handle, Step
  <1>2. LockInv /\ UNCHANGED vars => LockInv'
    BY DEF vars, LockInv, PassedTheLock, Locked
  <1> QED BY <1>1, <1>2

\* A step writes the entry of the one handler, which has passed the lock.
LEMMA StepKeepsLocked ==
  ASSUME TypeOK, LockInv, [Next]_vars,
         NEW id \in EntryIds, Live(id), Locked(entries[id].ws, entries[id].start)
  PROVE  entries'[id] = entries[id]
  <1>typed. entries \in [EntryIds -> Optional(Row)]
    BY DEF TypeOK
  <1>1. ASSUME NEW r \in Requests, WriteEntry(r) \/ MarkDeleted(r) PROVE entries'[id] = entries[id]
    <2>1. req[r] \in Request /\ LocalsOK(req[r]) /\ PassedTheLock(req[r]) /\ req[r].pc \in {"write", "delete"}
      BY <1>1 DEF TypeOK, LockInv, WriteEntry, MarkDeleted
    <2>2. id # req[r].id
      BY <2>1 DEF LocalsOK, PassedTheLock
    <2> QED BY <1>typed, <1>1, <2>2 DEF WriteEntry, MarkDeleted
  <1>2. ASSUME NEW r \in Requests, InsertEntry(r) PROVE entries'[id] = entries[id]
    BY <1>2, <1>typed DEF InsertEntry, Live, Used
  <1> QED BY <1>1, <1>2, EntriesChange

\* While the lock stands still, no request that runs alone changes or deletes
\* an entry that starts before it: not the edit, not the auto-stop of a
\* create, wherever they fail.
THEOREM LockedEntriesStay == ASSUME Serial PROVE SteadyLockSpec => LockedEntriesImmutable
  <1>1. [\E r \in Requests : Handle(r)]_vars => [Next]_vars
    BY DEF Next
  <1>2. TypeOK /\ LockInv /\ [Next]_vars
          => [\A id \in EntryIds :
                Live(id) /\ Locked(entries[id].ws, entries[id].start) => entries'[id] = entries[id]]_vars
    BY StepKeepsLocked
  <1> QED BY <1>1, <1>2, SteadyLockInitiallyTyped, NextTyped, NextPassed, PTL
       DEF SteadyLockSpec, LockedEntriesImmutable
=============================================================================
