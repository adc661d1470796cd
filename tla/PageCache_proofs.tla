-------------------------- MODULE PageCache_proofs --------------------------
(***************************************************************************)
(* What the time entries of a page guarantee for any number of calls and   *)
(* for every set of texts and kinds of mutations.                          *)
(***************************************************************************)
EXTENDS PageCache, TLAPS

(***************************************************************************)
(* Entries, and what the mutations make of them.                           *)
(***************************************************************************)
Ids == -MaxCalls..MaxCalls

\* A list or the rows have one entry of an id; one of them runs.
Distinct(es) == \A d, e \in es : d.id = e.id => d = e
OneRuns(es) == \A d, e \in es : d.run /\ e.run => d = e

\* The server makes the row of a call when it carries the call out.
RowsFit(es, carried) ==
  /\ Distinct(es) /\ OneRuns(es)
  /\ \A e \in es : e.id >= 0 /\ (e.id \in Calls => e.id \in carried)

\* A list has the optimistic entries only of calls that have been made.
Drawable(es, made) ==
  es # Unknown => Distinct(es) /\ \A e \in es : e.id < 0 => -e.id \in made

\* The entry that runs, or none.
IsCurrent(x, es) ==
  \/ x = Nothing /\ \A e \in es : ~e.run
  \/ x \in es /\ x.run /\ \A e \in es : e.run => e = x

CurrentOf(es) ==
  IF {e \in es : e.run} = {} THEN Nothing ELSE CHOOSE e \in {x \in es : x.run} : TRUE

\* What the answer of an update does to a list and to the current entry.
Put(e, es) == {IF x.id = e.id THEN e ELSE x : x \in es}
PutCurrent(e, x) == IF x \in {Unknown, Nothing} \/ x.id # e.id THEN x ELSE e

PatchedAll(es, i, text) == {Patched(e, i, text) : e \in es}
PatchedCurrent(x, i, text) == IF x = Nothing THEN Nothing ELSE Patched(x, i, text)

LEMMA CallsAreIds ==
  /\ \A c \in Calls : c \in Int /\ c > 0 /\ c \in Ids /\ Temporary(c) \in Ids /\ Temporary(c) < 0
  /\ First \in Ids
  BY PageAssumption DEF Calls, Ids, Temporary, First

LEMMA EntryFields ==
  ASSUME NEW e \in Entry
  PROVE  /\ e.id \in Ids /\ e.id \in Int /\ e.run \in BOOLEAN /\ e.text \in Texts
         /\ e # Unknown /\ e # Nothing
  BY PageAssumption, NoData DEF Entry, Ids

LEMMA StoppedEntry ==
  ASSUME NEW e \in Entry, NEW i
  PROVE  LET s == [e EXCEPT !.run = e.run /\ e.id # i] IN
         s \in Entry /\ s.id = e.id /\ (s.run <=> e.run /\ e.id # i)
  BY DEF Entry

LEMMA SilencedEntry ==
  ASSUME NEW e \in Entry
  PROVE  LET s == [e EXCEPT !.run = FALSE] IN s \in Entry /\ s.id = e.id /\ ~s.run
  BY DEF Entry

LEMMA PatchedEntry ==
  ASSUME NEW e \in Entry, NEW i, NEW text \in Texts
  PROVE  /\ Patched(e, i, text) \in Entry
         /\ Patched(e, i, text).id = e.id /\ Patched(e, i, text).run = e.run
         /\ e.id # i => Patched(e, i, text) = e
  BY DEF Entry, Patched

LEMMA StoppedSet ==
  ASSUME NEW es \in SUBSET Entry, NEW i
  PROVE  /\ Stopped(es, i) \in SUBSET Entry
         /\ \A s \in Stopped(es, i) : \E e \in es : s.id = e.id /\ (s.run => e.run /\ e.id # i)
         /\ \A e \in es : \E s \in Stopped(es, i) : s.id = e.id /\ (e.run /\ e.id # i => s.run)
         /\ Distinct(es) => Distinct(Stopped(es, i))
         /\ OneRuns(es) => OneRuns(Stopped(es, i))
  <1> DEFINE stop(e) == [e EXCEPT !.run = e.run /\ e.id # i]
  <1>1. \A e \in es : stop(e) \in Entry /\ stop(e).id = e.id /\ (stop(e).run <=> e.run /\ e.id # i)
    BY StoppedEntry
  <1>2. Stopped(es, i) = {stop(e) : e \in es}
    BY DEF Stopped
  <1> HIDE DEF stop
  <1> QED
    BY <1>1, <1>2 DEF Distinct, OneRuns

LEMMA StoppedRunOn ==
  ASSUME NEW es \in SUBSET Entry, NEW i, NEW e \in es, e.run, e.id # i
  PROVE  \E s \in Stopped(es, i) : s.id = e.id /\ s.run
  <1> DEFINE s == [e EXCEPT !.run = e.run /\ e.id # i]
  <1>1. s.id = e.id /\ s.run
    BY StoppedEntry
  <1>2. s \in Stopped(es, i)
    BY DEF Stopped
  <1> QED
    BY <1>1, <1>2

LEMMA PatchedSet ==
  ASSUME NEW es \in SUBSET Entry, NEW i, NEW text \in Texts
  PROVE  /\ PatchedAll(es, i, text) \in SUBSET Entry
         /\ \A s \in PatchedAll(es, i, text) : \E e \in es : s = Patched(e, i, text) /\ s.id = e.id /\ s.run = e.run
         /\ \A e \in es : Patched(e, i, text) \in PatchedAll(es, i, text)
         /\ Distinct(es) => Distinct(PatchedAll(es, i, text))
         /\ OneRuns(es) => OneRuns(PatchedAll(es, i, text))
  <1>1. \A e \in es : /\ Patched(e, i, text) \in Entry
                      /\ Patched(e, i, text).id = e.id /\ Patched(e, i, text).run = e.run
    BY PatchedEntry
  <1> QED
    BY <1>1 DEF PatchedAll, Distinct, OneRuns

(***************************************************************************)
(* The current entry.                                                      *)
(***************************************************************************)
LEMMA ServerKnowsCurrent ==
  ASSUME NEW es \in SUBSET Entry, OneRuns(es)
  PROVE  IsCurrent(CurrentOf(es), es)
  BY DEF IsCurrent, CurrentOf, OneRuns

LEMMA CurrentIsUnique ==
  ASSUME NEW es \in SUBSET Entry, NEW x, NEW y, IsCurrent(x, es), IsCurrent(y, es)
  PROVE  x = y
  BY DEF IsCurrent

LEMMA CurrentIsTyped ==
  ASSUME NEW es \in SUBSET Entry, NEW x, IsCurrent(x, es)
  PROVE  x \in {Nothing} \union Entry /\ x # Unknown
  BY NoData, EntryFields DEF IsCurrent

(***************************************************************************)
(* The answer of an update.                                                *)
(***************************************************************************)
LEMMA PutTwice ==
  ASSUME NEW e, NEW es
  PROVE  Put(e, Put(e, es)) = Put(e, es)
  BY DEF Put

LEMMA PutCurrentTwice ==
  ASSUME NEW e \in Entry, NEW x
  PROVE  PutCurrent(e, PutCurrent(e, x)) = PutCurrent(e, x)
  BY DEF PutCurrent

LEMMA PutPatches ==
  ASSUME NEW es \in SUBSET Entry, Distinct(es), NEW i, NEW text \in Texts,
         NEW e \in PatchedAll(es, i, text), e.id = i
  PROVE  /\ Put(e, es) = PatchedAll(es, i, text)
         /\ Put(e, PatchedAll(es, i, text)) = PatchedAll(es, i, text)
  <1>1. /\ Distinct(PatchedAll(es, i, text))
        /\ \A x \in es : /\ Patched(x, i, text) \in PatchedAll(es, i, text)
                         /\ Patched(x, i, text).id = x.id
    BY PatchedSet, PatchedEntry
  <1>2. \A x \in es : Patched(x, i, text) = IF x.id = e.id THEN e ELSE x
    BY <1>1, PatchedEntry DEF Distinct
  <1>3. Put(e, es) = PatchedAll(es, i, text)
    BY <1>2 DEF Put, PatchedAll
  <1> QED
    BY <1>3, PutTwice

LEMMA PutPatchesCurrent ==
  ASSUME NEW es \in SUBSET Entry, Distinct(es), NEW i, NEW text \in Texts,
         NEW e \in PatchedAll(es, i, text), e.id = i,
         NEW x, IsCurrent(x, es)
  PROVE  /\ IsCurrent(PutCurrent(e, x), PatchedAll(es, i, text))
         /\ PutCurrent(e, PatchedCurrent(x, i, text)) = PutCurrent(e, x)
  <1>1. /\ Distinct(PatchedAll(es, i, text))
        /\ \A y \in es : /\ Patched(y, i, text) \in PatchedAll(es, i, text)
                         /\ Patched(y, i, text).id = y.id /\ Patched(y, i, text).run = y.run
                         /\ Patched(y, i, text) \in Entry
    BY PatchedSet, PatchedEntry
  <1>2. \A y \in es : Patched(y, i, text) = IF y.id = e.id THEN e ELSE y
    BY <1>1, PatchedEntry DEF Distinct
  <1>3. CASE x = Nothing
    <2>1. \A y \in es : ~y.run
      BY <1>3, EntryFields DEF IsCurrent
    <2>2. \A y \in PatchedAll(es, i, text) : ~y.run
      BY <2>1, PatchedSet
    <2> QED
      BY <1>3, <2>2 DEF PutCurrent, PatchedCurrent, IsCurrent
  <1>4. CASE x \in es /\ x.run /\ \A y \in es : y.run => y = x
    <2>1. x # Nothing /\ x # Unknown
      BY <1>4, EntryFields
    <2>2. PutCurrent(e, x) = Patched(x, i, text)
      BY <1>2, <1>4, <2>1 DEF PutCurrent
    <2>3. \A y \in PatchedAll(es, i, text) : y.run => y = Patched(x, i, text)
      BY <1>4, PatchedSet
    <2>4. PutCurrent(e, Patched(x, i, text)) = Patched(x, i, text)
      BY <1>2, <1>4 DEF PutCurrent
    <2> QED
      BY <1>1, <1>4, <2>1, <2>2, <2>3, <2>4 DEF PatchedCurrent, IsCurrent
  <1> QED
    BY <1>3, <1>4 DEF IsCurrent
(***************************************************************************)
(* What the server makes of its rows.                                      *)
(***************************************************************************)
LEMMA MoreCarried ==
  ASSUME NEW es, NEW carried, NEW more, carried \subseteq more, RowsFit(es, carried)
  PROVE  RowsFit(es, more)
  BY DEF RowsFit

Started(es, c, text) ==
  {[e EXCEPT !.run = FALSE] : e \in es} \union {[id |-> c, run |-> TRUE, text |-> text]}
Created(es, c, text) == es \union {[id |-> c, run |-> FALSE, text |-> text]}

LEMMA StartedRow ==
  ASSUME NEW es, NEW c, NEW text
  PROVE  \E row \in Started(es, c, text) : row.id = c
  <1> DEFINE row == [id |-> c, run |-> TRUE, text |-> text]
  <1>1. row \in Started(es, c, text)
    BY DEF Started
  <1>2. row.id = c
    OBVIOUS
  <1> QED
    BY <1>1, <1>2

LEMMA StartedRows ==
  ASSUME NEW es \in SUBSET Entry, NEW carried, RowsFit(es, carried),
         NEW c \in Calls, c \notin carried, NEW text \in Texts
  PROVE  /\ Started(es, c, text) \in SUBSET Entry /\ RowsFit(Started(es, c, text), carried \union {c})
         /\ \A e \in Started(es, c, text) : e.id = c => e.run
  <1> DEFINE silence(e) == [e EXCEPT !.run = FALSE]
             row == [id |-> c, run |-> TRUE, text |-> text]
             after == {silence(e) : e \in es} \union {row}
  <1>1. \A e \in es : silence(e) \in Entry /\ silence(e).id = e.id /\ ~silence(e).run
    BY SilencedEntry
  <1>2. row \in Entry /\ row.id = c /\ row.run /\ c \in Int /\ c > 0
    BY CallsAreIds DEF Entry, Ids
  <1>3. \A e \in es : e.id # c
    BY DEF RowsFit
  <1>4. \A a \in after : a = row \/ \E e \in es : a = silence(e)
    OBVIOUS
  <1>5. after \in SUBSET Entry /\ row \in after
    BY <1>1, <1>2
  <1> HIDE DEF silence, row, after
  <1>6. \A e \in after : e.id = c => e = row
    BY <1>1, <1>3, <1>4
  <1>7. Distinct(after)
    BY <1>1, <1>2, <1>3, <1>4 DEF Distinct, RowsFit
  <1>8. OneRuns(after)
    BY <1>1, <1>4 DEF OneRuns
  <1>9. \A e \in after : e.id >= 0 /\ (e.id \in Calls => e.id \in carried \union {c})
    BY <1>1, <1>2, <1>4 DEF RowsFit
  <1> QED
    BY <1>2, <1>5, <1>6, <1>7, <1>8, <1>9 DEF RowsFit, row, after, silence, Started

LEMMA CreatedRows ==
  ASSUME NEW es \in SUBSET Entry, NEW carried, RowsFit(es, carried),
         NEW c \in Calls, c \notin carried, NEW text \in Texts
  PROVE  /\ Created(es, c, text) \in SUBSET Entry /\ RowsFit(Created(es, c, text), carried \union {c})
         /\ \A x : IsCurrent(x, es) => IsCurrent(x, Created(es, c, text))
  <1> DEFINE row == [id |-> c, run |-> FALSE, text |-> text]
             after == es \union {row}
  <1>1. row \in Entry /\ row.id = c /\ ~row.run /\ c \in Int /\ c > 0
    BY CallsAreIds DEF Entry, Ids
  <1> HIDE DEF row
  <1>2. \A e \in es : e.id # c
    BY DEF RowsFit
  <1>3. Distinct(after) /\ OneRuns(after)
    BY <1>1, <1>2 DEF Distinct, OneRuns, RowsFit
  <1>4. \A e \in after : e.id >= 0 /\ (e.id \in Calls => e.id \in carried \union {c})
    BY <1>1 DEF RowsFit
  <1>5. \A x : IsCurrent(x, es) => IsCurrent(x, after)
    BY <1>1 DEF IsCurrent
  <1> QED
    BY <1>1, <1>3, <1>4, <1>5 DEF RowsFit, row, Created

LEMMA StoppedRows ==
  ASSUME NEW es \in SUBSET Entry, NEW carried, RowsFit(es, carried), NEW i
  PROVE  Stopped(es, i) \in SUBSET Entry /\ RowsFit(Stopped(es, i), carried)
  BY StoppedSet DEF RowsFit

LEMMA PatchedRows ==
  ASSUME NEW es \in SUBSET Entry, NEW carried, RowsFit(es, carried), NEW i, NEW text \in Texts
  PROVE  PatchedAll(es, i, text) \in SUBSET Entry /\ RowsFit(PatchedAll(es, i, text), carried)
  BY PatchedSet DEF RowsFit

LEMMA DeletedRows ==
  ASSUME NEW es \in SUBSET Entry, NEW carried, RowsFit(es, carried), NEW i
  PROVE  {e \in es : e.id # i} \in SUBSET Entry /\ RowsFit({e \in es : e.id # i}, carried)
  BY DEF RowsFit, Distinct, OneRuns

(***************************************************************************)
(* What a list and the current entry become.                               *)
(***************************************************************************)
LEMMA MoreMade ==
  ASSUME NEW es, NEW made, NEW more, made \subseteq more, Drawable(es, made)
  PROVE  Drawable(es, more)
  BY DEF Drawable

LEMMA RowsAreDrawable ==
  ASSUME NEW es \in SUBSET Entry, NEW carried, RowsFit(es, carried), NEW made
  PROVE  Drawable(es, made) /\ es # Unknown
  <1>1. \A e \in es : e.id \in Int /\ e.id >= 0
    BY EntryFields DEF RowsFit
  <1> QED
    BY <1>1, NoData DEF RowsFit, Drawable

LEMMA StoppedList ==
  ASSUME NEW es \in SUBSET Entry, NEW made, Drawable(es, made), NEW i
  PROVE  Stopped(es, i) \in SUBSET Entry /\ Drawable(Stopped(es, i), made)
  <1>1. es # Unknown
    BY NoData
  <1> QED
    BY <1>1, StoppedSet DEF Drawable

LEMMA PatchedList ==
  ASSUME NEW es \in SUBSET Entry, NEW made, Drawable(es, made), NEW i, NEW text \in Texts
  PROVE  PatchedAll(es, i, text) \in SUBSET Entry /\ Drawable(PatchedAll(es, i, text), made)
  <1>1. es # Unknown
    BY NoData
  <1> QED
    BY <1>1, PatchedSet DEF Drawable

LEMMA PrependedList ==
  ASSUME NEW es \in SUBSET Entry, NEW made, Drawable(es, made), NEW e \in Entry,
         e.id < 0 => -e.id \in made, \A x \in es : x.id # e.id
  PROVE  es \union {e} \in SUBSET Entry /\ Drawable(es \union {e}, made)
  <1>1. es # Unknown
    BY NoData
  <1> QED
    BY <1>1 DEF Drawable, Distinct

LEMMA PutList ==
  ASSUME NEW es \in SUBSET Entry, NEW made, Drawable(es, made), NEW e \in Entry
  PROVE  Put(e, es) \in SUBSET Entry /\ Drawable(Put(e, es), made)
  <1>1. es # Unknown
    BY NoData
  <1>2. \A x \in Put(e, es) : x \in Entry /\ \E y \in es : x.id = y.id /\ x = IF y.id = e.id THEN e ELSE y
    BY DEF Put
  <1> QED
    BY <1>1, <1>2 DEF Drawable, Distinct
-----------------------------------------------------------------------------
(***************************************************************************)
(* The types, and what they rest on.                                       *)
(***************************************************************************)
Phases == {"new", "sent", "accepted", "lost", "lists", "current", "over"}
Lists == {Unknown} \union SUBSET Entry
Currents == {Unknown, Nothing} \union Entry

Contexts ==
  [kind : AllKinds \union {"none"}, target : Ids, text : Texts, phase : Phases,
   wasCurrent : Currents, wasList : Lists, data : {Nothing} \union Entry]

Fetches ==
  [at : {"idle", "sent", "read"}, by : {Timer} \union Calls,
   answer : {Unknown, Nothing} \union Entry \union SUBSET Entry]

Made == {c \in Calls : call[c].phase # "new"}
CarriedOut == {"accepted", "lists", "current", "over"}
Carried == {c \in Calls : call[c].phase \in CarriedOut}

DataTyped ==
  /\ rows \in SUBSET Entry /\ list \in Lists /\ current \in Currents
  /\ raced \in {"no", "poll", "yes"}

AnswerFits(q, answer, made) ==
  IF q = "list" THEN answer \in SUBSET Entry /\ Drawable(answer, made)
  ELSE answer \in {Nothing} \union Entry

AnswersFit == \A q \in Queries : fetch[q].at = "read" => AnswerFits(q, fetch[q].answer, Made)

\* A rollback brings back a list that can be drawn; an answer is a row.
ContextFits(m, made) ==
  /\ Drawable(m.wasList, made)
  /\ m.phase \in {"sent", "accepted", "lost"} => m.kind # "none"
  /\ m.phase = "accepted" /\ m.kind \in {"start", "update"} => m.data \in Entry /\ m.data.id >= 0

ContextsFit == \A c \in Calls : ContextFits(call[c], Made)

PageInv ==
  /\ DataTyped
  /\ fetch \in [Queries -> Fetches] /\ AnswersFit
  /\ call \in [Calls -> Contexts] /\ ContextsFit
  /\ RowsFit(rows, Carried)
  /\ Drawable(list, Made)

LEMMA NoCallIsTyped ==
  /\ NoCall \in Contexts /\ NoCall.phase = "new" /\ \A made : ContextFits(NoCall, made)
  /\ \A phase \in {"over", "lists"} :
       LET m == [NoCall EXCEPT !.phase = phase] IN
       m \in Contexts /\ m.phase = phase /\ \A made : ContextFits(m, made)
  BY PageAssumption, CallsAreIds
  DEF NoCall, NewText, Contexts, ContextFits, Drawable, Phases, Lists, Currents, AllKinds

LEMMA BegunIsTyped ==
  /\ IdleFetch \in Fetches /\ IdleFetch.at = "idle"
  /\ \A who \in {Timer} \union Calls : Begun(who) \in Fetches /\ Begun(who).at = "sent" /\ Begun(who).by = who
  BY DEF IdleFetch, Begun, Fetches

LEMMA PageHoldsInitially == PageInit => PageInv
  <1> SUFFICES ASSUME PageInit PROVE PageInv
    OBVIOUS
  <1>1. rows \in SUBSET Entry /\ RowsFit(rows, Carried)
    <2>1. CASE rows = {}
      BY <2>1 DEF RowsFit, Distinct, OneRuns
    <2>2. CASE rows = {[id |-> First, run |-> TRUE, text |-> NewText]}
      BY <2>2, PageAssumption, CallsAreIds DEF Entry, Ids, NewText, First, RowsFit, Distinct, OneRuns
    <2> QED
      BY <2>1, <2>2 DEF PageInit
  <1>2. fetch \in [Queries -> Fetches] /\ AnswersFit
    BY BegunIsTyped DEF PageInit, AnswersFit
  <1>3. call \in [Calls -> Contexts] /\ ContextsFit
    BY NoCallIsTyped DEF PageInit, ContextsFit
  <1>4. DataTyped /\ Drawable(list, Made)
    BY <1>1 DEF PageInit, DataTyped, Lists, Currents, Drawable
  <1> QED
    BY <1>1, <1>2, <1>3, <1>4 DEF PageInv

\* A step of a fetch.
LEMMA FetchMoves ==
  ASSUME PageInv, NEW q \in Queries, NEW f \in Fetches, fetch' = [fetch EXCEPT ![q] = f],
         f.at = "read" => AnswerFits(q, f.answer, Made), UNCHANGED call
  PROVE  /\ fetch' \in [Queries -> Fetches] /\ AnswersFit'
         /\ fetch'[q] = f /\ \A p \in Queries : p # q => fetch'[p] = fetch[p]
         /\ call' \in [Calls -> Contexts] /\ ContextsFit' /\ Made' = Made /\ Carried' = Carried
  <1>1. fetch' \in [Queries -> Fetches] /\ fetch'[q] = f /\ \A p \in Queries : p # q => fetch'[p] = fetch[p]
    BY DEF PageInv
  <1>2. call' \in [Calls -> Contexts] /\ ContextsFit' /\ Made' = Made /\ Carried' = Carried
    BY DEF PageInv, ContextsFit, Made, Carried
  <1>3. AnswersFit'
    BY <1>1, <1>2 DEF PageInv, AnswersFit
  <1> QED
    BY <1>1, <1>2, <1>3

\* A step of a call that has been made.
LEMMA CallMoves ==
  ASSUME PageInv, NEW c \in Calls, NEW m \in Contexts, call' = [call EXCEPT ![c] = m],
         call[c].phase # "new", m.phase # "new", ContextFits(m, Made),
         call[c].phase \in CarriedOut => m.phase \in CarriedOut
  PROVE  /\ call' \in [Calls -> Contexts] /\ ContextsFit'
         /\ call'[c] = m /\ \A d \in Calls : d # c => call'[d] = call[d]
         /\ Made' = Made
         /\ Carried' = IF m.phase \in CarriedOut THEN Carried \union {c} ELSE Carried
  <1>1. call' \in [Calls -> Contexts] /\ call'[c] = m /\ \A d \in Calls : d # c => call'[d] = call[d]
    BY DEF PageInv
  <1>2. Made' = Made /\ Carried' = IF m.phase \in CarriedOut THEN Carried \union {c} ELSE Carried
    BY <1>1 DEF Made, Carried
  <1>3. ContextsFit'
    BY <1>1, <1>2 DEF PageInv, ContextsFit
  <1> QED
    BY <1>1, <1>2, <1>3

\* What a step leaves alone stays typed.
LEMMA ListStaysDrawable ==
  ASSUME PageInv, UNCHANGED list, Made \subseteq Made'
  PROVE  list' \in Lists /\ Drawable(list', Made')
  BY MoreMade DEF PageInv, DataTyped

LEMMA FetchesStay ==
  ASSUME PageInv, UNCHANGED fetch, Made \subseteq Made'
  PROVE  fetch' \in [Queries -> Fetches] /\ AnswersFit'
  <1>1. \A q \in Queries : fetch[q].at = "read" => AnswerFits(q, fetch[q].answer, Made')
    BY MoreMade DEF PageInv, AnswersFit, AnswerFits
  <1> QED
    BY <1>1 DEF PageInv, AnswersFit

LEMMA CurrentIsServed == ServerCurrent = CurrentOf(rows) /\ ServerCurrent' = CurrentOf(rows')
  BY DEF ServerCurrent, CurrentOf, Running

LEMMA ServerCurrentFits ==
  ASSUME PageInv
  PROVE  IsCurrent(ServerCurrent, rows) /\ ServerCurrent \in {Nothing} \union Entry /\ ServerCurrent # Unknown
  BY CurrentIsServed, ServerKnowsCurrent, CurrentIsTyped DEF PageInv, DataTyped, RowsFit
-----------------------------------------------------------------------------
LEMMA PollTyped ==
  ASSUME PageInv, NEW q \in Queries, Poll(q)
  PROVE  PageInv' /\ fetch'[q] = Begun(Timer) /\ \A p \in Queries : p # q => fetch'[p] = fetch[p]
  <1>1. Begun(Timer) \in Fetches /\ Begun(Timer).at = "sent"
    BY BegunIsTyped
  <1> QED
    BY <1>1, FetchMoves DEF Poll, PageInv, DataTyped

LEMMA ReadTyped ==
  ASSUME PageInv, NEW q \in Queries, Read(q)
  PROVE  /\ PageInv'
         /\ fetch'[q].at = "read" /\ fetch'[q].by = fetch[q].by
         /\ fetch'[q].answer = IF q = "list" THEN rows ELSE ServerCurrent
         /\ \A p \in Queries : p # q => fetch'[p] = fetch[p]
  <1> DEFINE answer == IF q = "list" THEN rows ELSE ServerCurrent
             f == [fetch[q] EXCEPT !.at = "read", !.answer = answer]
  <1>1. AnswerFits(q, answer, Made)
    BY ServerCurrentFits, RowsAreDrawable DEF PageInv, DataTyped, AnswerFits
  <1>2. answer \in {Unknown, Nothing} \union Entry \union SUBSET Entry
    BY <1>1 DEF AnswerFits
  <1> HIDE DEF answer
  <1>3. f \in Fetches /\ f.at = "read" /\ f.by = fetch[q].by /\ f.answer = answer
    BY <1>2 DEF PageInv, Fetches
  <1>4. fetch' = [fetch EXCEPT ![q] = f]
    BY DEF Read, answer
  <1> HIDE DEF f
  <1>5. UNCHANGED <<rows, list, current, call, raced>>
    BY DEF Read
  <1>6. /\ fetch' \in [Queries -> Fetches] /\ AnswersFit' /\ fetch'[q] = f
        /\ \A p \in Queries : p # q => fetch'[p] = fetch[p]
        /\ call' \in [Calls -> Contexts] /\ ContextsFit' /\ Made' = Made /\ Carried' = Carried
    BY <1>1, <1>3, <1>4, <1>5, FetchMoves
  <1> QED
    BY <1>3, <1>5, <1>6 DEF PageInv, DataTyped, answer

LEMMA FetchDoneTyped ==
  ASSUME PageInv, NEW q \in Queries, FetchDone(q)
  PROVE  /\ PageInv'
         /\ fetch'[q] = IdleFetch /\ \A p \in Queries : p # q => fetch'[p] = fetch[p]
  <1>1. IdleFetch \in Fetches /\ IdleFetch.at = "idle"
    BY BegunIsTyped
  <1>2. AnswerFits(q, fetch[q].answer, Made)
    BY DEF FetchDone, PageInv, AnswersFit
  <1>3. list' \in Lists /\ Drawable(list', Made) /\ current' \in Currents
    BY <1>2 DEF FetchDone, PageInv, DataTyped, AnswerFits, Lists, Currents
  <1> QED
    BY <1>1, <1>3, FetchMoves DEF FetchDone, PageInv, DataTyped

LEMMA FetchFailsTyped ==
  ASSUME PageInv, NEW q \in Queries, FetchFails(q)
  PROVE  /\ PageInv'
         /\ fetch'[q] = IdleFetch /\ \A p \in Queries : p # q => fetch'[p] = fetch[p]
  <1>1. IdleFetch \in Fetches /\ IdleFetch.at = "idle"
    BY BegunIsTyped
  <1> QED
    BY <1>1, FetchMoves DEF FetchFails, PageInv, DataTyped
-----------------------------------------------------------------------------
(***************************************************************************)
(* onMutate.                                                               *)
(***************************************************************************)
Context(c, kind, i, text) ==
  [kind |-> kind, target |-> i, text |-> text, phase |-> "sent", data |-> Nothing,
   wasCurrent |-> IF kind = "create" THEN Unknown ELSE current, wasList |-> list]

LEMMA ShownAreEntries ==
  ASSUME PageInv
  PROVE  /\ Shown \in SUBSET Entry
         /\ \A kind \in AllKinds : Targets(kind) \subseteq Ids
  <1>1. Shown \in SUBSET Entry
    BY DEF PageInv, DataTyped, Lists, Currents, Shown
  <1>2. \A e \in Shown : e.id \in Ids
    BY <1>1, EntryFields
  <1> QED
    BY <1>1, <1>2, CallsAreIds DEF Targets, AllKinds

LEMMA OptimisticEntry ==
  ASSUME NEW c \in Calls, NEW kind, NEW text \in Texts
  PROVE  /\ Optimistic(c, kind, text) \in Entry
         /\ Optimistic(c, kind, text).id = Temporary(c)
         /\ Optimistic(c, kind, text).run <=> kind = "start"
  BY CallsAreIds DEF Optimistic, Entry, Ids

LEMMA ListAfterFits ==
  ASSUME PageInv, NEW c \in Calls, call[c].phase = "new", NEW kind \in AllKinds, NEW i, NEW text \in Texts
  PROVE  ListAfter(c, kind, i, text) \in Lists /\ Drawable(ListAfter(c, kind, i, text), Made \union {c})
  <1>1. /\ list \in Lists /\ Drawable(list, Made \union {c})
        /\ list # Unknown => list \in SUBSET Entry
    BY MoreMade DEF PageInv, DataTyped, Lists
  <1>2. CASE kind = "start"
    BY <1>1, <1>2, StoppedList DEF ListAfter, Lists
  <1>3. CASE kind = "create"
    <2> DEFINE new == Optimistic(c, kind, text)
               old == IF list = Unknown THEN {} ELSE list
    <2>1. new \in Entry /\ new.id = -c /\ c > 0 /\ c \in Int
      BY OptimisticEntry, CallsAreIds DEF Temporary
    <2>2. old \in SUBSET Entry /\ Drawable(old, Made) /\ old # Unknown
      BY <1>1, NoData DEF PageInv, Drawable, Distinct
    <2>3. \A x \in old : x.id # -c
      <3>1. \A x \in old : x.id < 0 => -x.id \in Made
        BY <2>2 DEF Drawable
      <3>2. c \notin Made
        BY DEF Made
      <3> QED
        BY <2>1, <3>1, <3>2
    <2>4. Drawable(old, Made \union {c}) /\ -(-c) \in Made \union {c}
      BY <2>1, <2>2, MoreMade
    <2>5. ListAfter(c, kind, i, text) = old \union {new}
      BY <1>3 DEF ListAfter
    <2> HIDE DEF new, old
    <2>6. old \union {new} \in SUBSET Entry /\ Drawable(old \union {new}, Made \union {c})
      BY <2>1, <2>2, <2>3, <2>4, PrependedList
    <2> QED
      BY <2>5, <2>6 DEF Lists
  <1>4. CASE kind = "stop"
    BY <1>1, <1>4, StoppedList DEF ListAfter, Lists
  <1>5. CASE kind = "update"
    BY <1>1, <1>5, PatchedList DEF ListAfter, Lists, PatchedAll
  <1>6. CASE kind = "delete"
    <2>1. list # Unknown => {e \in list : e.id # i} \in SUBSET Entry /\ Drawable({e \in list : e.id # i}, Made \union {c})
      BY <1>1 DEF Drawable, Distinct
    <2> QED
      BY <1>1, <1>6, <2>1 DEF ListAfter, Lists
  <1> QED
    BY <1>2, <1>3, <1>4, <1>5, <1>6 DEF AllKinds

LEMMA CurrentAfterFits ==
  ASSUME PageInv, NEW c \in Calls, NEW kind \in AllKinds, NEW i, NEW text \in Texts
  PROVE  CurrentAfter(c, kind, i, text) \in Currents
  <1>1. current \in Currents /\ (current \notin {Unknown, Nothing} => current \in Entry)
    BY DEF PageInv, DataTyped, Currents
  <1>2. CASE kind = "start"
    BY <1>2, OptimisticEntry DEF CurrentAfter, Currents
  <1>3. CASE kind = "create"
    BY <1>1, <1>3 DEF CurrentAfter
  <1>4. CASE kind = "stop"
    BY <1>4 DEF CurrentAfter, Currents
  <1>5. CASE kind = "update"
    BY <1>1, <1>5, PatchedEntry DEF CurrentAfter, Currents
  <1>6. CASE kind = "delete"
    BY <1>1, <1>6 DEF CurrentAfter, Currents
  <1> QED
    BY <1>2, <1>3, <1>4, <1>5, <1>6 DEF AllKinds

LEMMA MutateTyped ==
  ASSUME PageInv, NEW c \in Calls, NEW kind \in Kinds, NEW i \in Targets(kind), NEW text \in Texts,
         Mutate(c, kind, i, text)
  PROVE  /\ PageInv'
         /\ call'[c] = Context(c, kind, i, text) /\ \A d \in Calls : d # c => call'[d] = call[d]
         /\ \A q \in Queries : fetch'[q] = IF kind = "create" /\ q = "current" THEN fetch[q] ELSE IdleFetch
  <1> DEFINE m == Context(c, kind, i, text)
  <1>1. kind \in AllKinds /\ i \in Ids
    BY PageAssumption, ShownAreEntries
  <1>2. list \in Lists /\ current \in Currents /\ Drawable(list, Made)
    BY DEF PageInv, DataTyped
  <1>3. m \in Contexts /\ m.phase = "sent" /\ m.kind = kind /\ m.wasList = list
    BY <1>1, <1>2 DEF Context, Contexts, Phases, Currents
  <1>4. call' = [call EXCEPT ![c] = m]
    BY DEF Mutate, Context
  <1> HIDE DEF m
  <1>5. call' \in [Calls -> Contexts] /\ call'[c] = m /\ \A d \in Calls : d # c => call'[d] = call[d]
    BY <1>3, <1>4 DEF PageInv
  <1>6. Made' = Made \union {c} /\ Carried' = Carried
    BY <1>3, <1>5 DEF Mutate, Made, Carried, CarriedOut
  <1>7. ContextsFit'
    <2>1. \A d \in Calls : ContextFits(call[d], Made')
      BY <1>6, MoreMade DEF PageInv, ContextsFit, ContextFits
    <2>2. ContextFits(m, Made')
      BY <1>1, <1>2, <1>3, <1>6, MoreMade DEF ContextFits, AllKinds
    <2> QED
      BY <1>5, <2>1, <2>2 DEF ContextsFit
  <1>8. \A q \in Queries : fetch'[q] = IF kind = "create" /\ q = "current" THEN fetch[q] ELSE IdleFetch
    BY DEF Mutate, Cancelled
  <1>9. fetch' \in [Queries -> Fetches] /\ AnswersFit'
    <2>1. fetch' \in [Queries -> Fetches]
      BY <1>8, BegunIsTyped DEF Mutate, Cancelled, PageInv
    <2>2. ASSUME NEW q \in Queries, fetch'[q].at = "read" PROVE AnswerFits(q, fetch'[q].answer, Made')
      <3>1. fetch'[q] = fetch[q] /\ q = "current"
        BY <1>8, <2>2, BegunIsTyped
      <3> QED
        BY <2>2, <3>1 DEF PageInv, AnswersFit, AnswerFits
    <2> QED
      BY <2>1, <2>2 DEF AnswersFit
  <1>10. DataTyped' /\ Drawable(list', Made')
    <2>1. rows' = rows /\ list' = ListAfter(c, kind, i, text) /\ current' = CurrentAfter(c, kind, i, text)
          /\ raced' \in {"yes", raced} /\ call[c].phase = "new"
      BY DEF Mutate
    <2> QED
      BY <1>1, <1>6, <2>1, ListAfterFits, CurrentAfterFits DEF PageInv, DataTyped
  <1>11. RowsFit(rows', Carried')
    BY <1>6 DEF Mutate, PageInv
  <1> QED
    BY <1>5, <1>7, <1>8, <1>9, <1>10, <1>11 DEF PageInv, m
-----------------------------------------------------------------------------
(***************************************************************************)
(* The server.                                                             *)
(***************************************************************************)
LEMMA AcceptedRows ==
  ASSUME PageInv, NEW c \in Calls, Accept(c)
  PROVE  /\ rows' \in SUBSET Entry /\ RowsFit(rows', Carried \union {c})
         /\ call[c].kind \in {"start", "update"} =>
              \E e \in rows' : e.id = IF call[c].kind = "start" THEN c ELSE call[c].target
  <1> DEFINE m == call[c]
  <1>1. /\ m \in Contexts /\ m.phase \in {"sent", "lost"} /\ m.kind \in AllKinds /\ m.text \in Texts
        /\ rows \in SUBSET Entry /\ RowsFit(rows, Carried) /\ c \notin Carried
    BY DEF Accept, PageInv, DataTyped, ContextsFit, ContextFits, Contexts, Carried, CarriedOut
  <1>2. RowsFit(rows, Carried \union {c}) /\ rows' = RowsAfter(c)
    BY <1>1, MoreCarried DEF Accept
  <1>3. CASE m.kind = "start"
    <2>1. rows' = Started(rows, c, m.text)
      BY <1>2, <1>3 DEF RowsAfter, Started
    <2> HIDE DEF m
    <2>2. rows' \in SUBSET Entry /\ RowsFit(rows', Carried \union {c})
      BY <1>1, <2>1, StartedRows
    <2>3. \E e \in rows' : e.id = c
      BY <2>1, StartedRow
    <2> QED
      BY <1>3, <2>2, <2>3 DEF m
  <1>4. CASE m.kind = "create"
    <2>1. rows' = Created(rows, c, m.text)
      BY <1>2, <1>4 DEF RowsAfter, Created
    <2> HIDE DEF m
    <2>2. rows' \in SUBSET Entry /\ RowsFit(rows', Carried \union {c})
      BY <1>1, <2>1, CreatedRows
    <2> QED
      BY <1>4, <2>2 DEF m
  <1>5. CASE m.kind = "stop"
    BY <1>1, <1>2, <1>5, StoppedRows DEF RowsAfter
  <1>6. CASE m.kind = "update"
    <2>1. rows' = PatchedAll(rows, m.target, m.text)
      BY <1>2, <1>6 DEF RowsAfter, PatchedAll
    <2>2. PICK e \in rows : e.id = m.target
      BY <1>6 DEF Accept
    <2>3. Patched(e, m.target, m.text) \in rows' /\ Patched(e, m.target, m.text).id = m.target
      BY <1>1, <2>1, <2>2, PatchedSet, PatchedEntry
    <2> QED
      BY <1>1, <1>2, <1>6, <2>1, <2>3, PatchedRows
  <1>7. CASE m.kind = "delete"
    BY <1>1, <1>2, <1>7, DeletedRows DEF RowsAfter
  <1> QED
    BY <1>1, <1>3, <1>4, <1>5, <1>6, <1>7 DEF AllKinds

LEMMA AcceptTyped ==
  ASSUME PageInv, NEW c \in Calls, Accept(c)
  PROVE  /\ PageInv'
         /\ \A d \in Calls : d # c => call'[d] = call[d]
         /\ call[c].phase = "sent" =>
              /\ call'[c].phase = "accepted" /\ call'[c].kind = call[c].kind
              /\ call[c].kind \in {"start", "update"} =>
                   /\ call'[c].data \in rows'
                   /\ call'[c].data.id = IF call[c].kind = "start" THEN c ELSE call[c].target
  <1> DEFINE id == IF call[c].kind = "start" THEN c ELSE call[c].target
             row == CHOOSE e \in RowOf(c, rows') : TRUE
             data == IF call[c].kind \in {"start", "update"} THEN row ELSE Nothing
             m == IF call[c].phase = "lost" THEN [NoCall EXCEPT !.phase = "over"]
                  ELSE [call[c] EXCEPT !.phase = "accepted", !.data = data]
  <1>1. /\ rows' \in SUBSET Entry /\ RowsFit(rows', Carried \union {c})
        /\ call[c].kind \in {"start", "update"} => \E e \in rows' : e.id = id
    BY AcceptedRows
  <1>2. call[c].kind \in {"start", "update"} => row \in rows' /\ row.id = id
    BY <1>1 DEF RowOf
  <1>3. call[c].kind \in {"start", "update"} => row \in Entry /\ row.id >= 0
    BY <1>1, <1>2 DEF RowsFit
  <1>4. data \in {Nothing} \union Entry
    BY <1>3
  <1>5. call' = [call EXCEPT ![c] = m] /\ call[c].phase \in {"sent", "lost"}
    BY DEF Accept
  <1> HIDE DEF id, row
  <1>6. CASE call[c].phase = "lost"
    <2>1. m \in Contexts /\ m.phase = "over" /\ ContextFits(m, Made)
      BY <1>6, NoCallIsTyped
    <2> HIDE DEF m
    <2>2. /\ call' \in [Calls -> Contexts] /\ ContextsFit' /\ Made' = Made /\ Carried' = Carried \union {c}
          /\ \A d \in Calls : d # c => call'[d] = call[d]
      BY <1>5, <1>6, <2>1, CallMoves DEF CarriedOut
    <2>3. UNCHANGED <<list, current, fetch, raced>>
      BY DEF Accept
    <2> QED
      BY <1>1, <1>6, <2>2, <2>3, FetchesStay, ListStaysDrawable DEF PageInv, DataTyped
  <1>7. CASE call[c].phase = "sent"
    <2> HIDE DEF data
    <2>1. /\ m \in Contexts /\ m.phase = "accepted" /\ m.kind = call[c].kind /\ m.data = data
          /\ m.wasList = call[c].wasList
      BY <1>4, <1>7 DEF PageInv, Contexts, Phases
    <2>2. ContextFits(m, Made)
      BY <1>3, <1>7, <2>1 DEF PageInv, ContextsFit, ContextFits, data
    <2> HIDE DEF m
    <2>3. /\ call' \in [Calls -> Contexts] /\ ContextsFit' /\ Made' = Made /\ Carried' = Carried \union {c}
          /\ call'[c] = m /\ \A d \in Calls : d # c => call'[d] = call[d]
      BY <1>5, <1>7, <2>1, <2>2, CallMoves DEF CarriedOut
    <2>4. UNCHANGED <<list, current, fetch, raced>>
      BY DEF Accept
    <2>5. PageInv'
      BY <1>1, <2>3, <2>4, FetchesStay, ListStaysDrawable DEF PageInv, DataTyped
    <2> QED
      BY <1>2, <2>1, <2>3, <2>5 DEF data, id
  <1> QED
    BY <1>5, <1>6, <1>7
-----------------------------------------------------------------------------
(***************************************************************************)
(* The answer's way back.                                                  *)
(***************************************************************************)
LEMMA RowsStay ==
  ASSUME PageInv, UNCHANGED rows, Carried \subseteq Carried'
  PROVE  rows' \in SUBSET Entry /\ RowsFit(rows', Carried')
  BY MoreCarried DEF PageInv, DataTyped

LEMMA CallIsTyped ==
  ASSUME PageInv, NEW c \in Calls
  PROVE  call[c] \in Contexts /\ ContextFits(call[c], Made)
  BY DEF PageInv, ContextsFit

LEMMA RollbackFits ==
  ASSUME PageInv, NEW c \in Calls
  PROVE  /\ RestoredList(c) \in Lists /\ Drawable(RestoredList(c), Made)
         /\ RestoredCurrent(c) \in Currents
  BY CallIsTyped DEF PageInv, DataTyped, RestoredList, RestoredCurrent, Contexts, ContextFits

LEMMA RefuseTyped ==
  ASSUME PageInv, NEW c \in Calls, Refuse(c)
  PROVE  PageInv' /\ call'[c].phase = "over" /\ \A d \in Calls : d # c => call'[d] = call[d]
  <1> DEFINE m == [NoCall EXCEPT !.phase = "over"]
  <1>1. m \in Contexts /\ m.phase = "over" /\ ContextFits(m, Made)
    BY NoCallIsTyped
  <1>2. call' = [call EXCEPT ![c] = m] /\ call[c].phase = "sent"
    BY DEF Refuse
  <1> HIDE DEF m
  <1>3. /\ call' \in [Calls -> Contexts] /\ ContextsFit' /\ Made' = Made /\ Carried \subseteq Carried'
        /\ call'[c] = m /\ \A d \in Calls : d # c => call'[d] = call[d]
    BY <1>1, <1>2, CallMoves DEF CarriedOut
  <1>4. UNCHANGED <<rows, fetch, raced>> /\ list' = RestoredList(c) /\ current' = RestoredCurrent(c)
    BY DEF Refuse
  <1>5. rows' \in SUBSET Entry /\ RowsFit(rows', Carried')
    BY <1>3, <1>4, RowsStay
  <1>6. fetch' \in [Queries -> Fetches] /\ AnswersFit'
    BY <1>3, <1>4, FetchesStay
  <1> QED
    BY <1>1, <1>3, <1>4, <1>5, <1>6, RollbackFits DEF PageInv, DataTyped

LEMMA LoseTyped ==
  ASSUME PageInv, NEW c \in Calls, NEW online \in BOOLEAN, Lose(c, online)
  PROVE  PageInv'
  <1> DEFINE m == IF call[c].phase = "sent"
                  THEN [call[c] EXCEPT !.phase = "lost", !.wasList = Unknown, !.wasCurrent = Unknown]
                  ELSE [NoCall EXCEPT !.phase = "over"]
  <1>1. call' = [call EXCEPT ![c] = m] /\ call[c].phase \in {"sent", "accepted"}
    BY DEF Lose
  <1>2. /\ m \in Contexts /\ m.phase # "new" /\ ContextFits(m, Made)
        /\ call[c].phase = "accepted" => m.phase \in CarriedOut
    <2>1. CASE call[c].phase = "sent"
      BY <2>1, CallIsTyped DEF Contexts, ContextFits, Drawable, Phases, Lists, Currents
    <2>2. CASE call[c].phase = "accepted"
      BY <2>2, NoCallIsTyped DEF CarriedOut
    <2> QED
      BY <1>1, <2>1, <2>2
  <1> HIDE DEF m
  <1>3. /\ call' \in [Calls -> Contexts] /\ ContextsFit' /\ Made' = Made /\ Carried \subseteq Carried'
    BY <1>1, <1>2, CallMoves DEF CarriedOut
  <1>4. /\ UNCHANGED <<rows, fetch>> /\ raced' = "yes"
        /\ list' \in {RestoredList(c), list} /\ current' \in {RestoredCurrent(c), current}
    BY DEF Lose
  <1>5. rows' \in SUBSET Entry /\ RowsFit(rows', Carried')
    BY <1>3, <1>4, RowsStay
  <1>6. fetch' \in [Queries -> Fetches] /\ AnswersFit'
    BY <1>3, <1>4, FetchesStay
  <1> QED
    BY <1>3, <1>4, <1>5, <1>6, RollbackFits DEF PageInv, DataTyped

LEMMA FetchBegins ==
  ASSUME PageInv, NEW q \in Queries, NEW who \in {Timer} \union Calls,
         fetch' = [fetch EXCEPT ![q] = Begun(who)], Made' = Made
  PROVE  /\ fetch' \in [Queries -> Fetches] /\ AnswersFit'
         /\ fetch'[q] = Begun(who) /\ \A p \in Queries : p # q => fetch'[p] = fetch[p]
  <1>1. Begun(who) \in Fetches /\ Begun(who).at = "sent"
    BY BegunIsTyped
  <1>2. /\ fetch' \in [Queries -> Fetches]
        /\ fetch'[q] = Begun(who) /\ \A p \in Queries : p # q => fetch'[p] = fetch[p]
    BY <1>1 DEF PageInv
  <1> QED
    BY <1>1, <1>2 DEF PageInv, AnswersFit

LEMMA InsertedFits ==
  ASSUME PageInv, NEW e \in Entry, e.id >= 0
  PROVE  Inserted(e) \in Lists /\ Drawable(Inserted(e), Made)
  <1>1. CASE list = Unknown \/ \E x \in list : x.id = e.id
    BY <1>1 DEF Inserted, PageInv, DataTyped
  <1>2. CASE ~(list = Unknown \/ \E x \in list : x.id = e.id)
    <2>1. list \in SUBSET Entry /\ Drawable(list, Made) /\ \A x \in list : x.id # e.id
      BY <1>2 DEF PageInv, DataTyped, Lists
    <2>2. ~(e.id < 0)
      BY EntryFields
    <2>3. list \union {e} \in SUBSET Entry /\ Drawable(list \union {e}, Made)
      BY <2>1, <2>2, PrependedList
    <2> QED
      BY <1>2, <2>3 DEF Inserted, Lists
  <1> QED
    BY <1>1, <1>2

LEMMA SucceedTyped ==
  ASSUME PageInv, NEW c \in Calls, Succeed(c)
  PROVE  /\ PageInv' /\ call'[c].phase = "lists" /\ \A d \in Calls : d # c => call'[d] = call[d]
         /\ fetch'["list"] = Begun(c) /\ fetch'["current"] = fetch["current"]
  <1> DEFINE m == [NoCall EXCEPT !.phase = "lists"]
  <1>1. m \in Contexts /\ m.phase = "lists" /\ ContextFits(m, Made)
    BY NoCallIsTyped
  <1>2. /\ call' = [call EXCEPT ![c] = m] /\ call[c].phase = "accepted" /\ UNCHANGED <<rows, raced>>
        /\ fetch' = [fetch EXCEPT !["list"] = Begun(c)]
        /\ list' = IF call[c].kind = "start" THEN Inserted(call[c].data) ELSE list
        /\ current' = IF call[c].kind = "start" THEN call[c].data ELSE current
    BY DEF Succeed
  <1> HIDE DEF m
  <1>3. /\ call' \in [Calls -> Contexts] /\ ContextsFit' /\ Made' = Made /\ Carried \subseteq Carried'
        /\ call'[c] = m /\ \A d \in Calls : d # c => call'[d] = call[d]
    BY <1>1, <1>2, CallMoves DEF CarriedOut
  <1>4. rows' \in SUBSET Entry /\ RowsFit(rows', Carried')
    BY <1>2, <1>3, RowsStay
  <1>5. /\ fetch' \in [Queries -> Fetches] /\ AnswersFit'
        /\ fetch'["list"] = Begun(c) /\ fetch'["current"] = fetch["current"]
    BY <1>2, <1>3, FetchBegins DEF Queries
  <1>6. call[c].kind = "start" => call[c].data \in Entry /\ call[c].data.id >= 0
    BY <1>2, CallIsTyped DEF ContextFits
  <1>7. list' \in Lists /\ Drawable(list', Made) /\ current' \in Currents
    <2>1. CASE call[c].kind = "start"
      BY <1>2, <1>6, <2>1, InsertedFits DEF Currents
    <2>2. CASE call[c].kind # "start"
      BY <1>2, <2>2 DEF PageInv, DataTyped
    <2> QED
      BY <2>1, <2>2
  <1> QED
    BY <1>1, <1>2, <1>3, <1>4, <1>5, <1>7 DEF PageInv, DataTyped

LEMMA SucceedUpdateTyped ==
  ASSUME PageInv, NEW c \in Calls, SucceedUpdate(c)
  PROVE  /\ PageInv' /\ call'[c].phase = "over" /\ \A d \in Calls : d # c => call'[d] = call[d]
         /\ list' = (IF list = Unknown THEN list ELSE Put(call[c].data, list))
         /\ current' = PutCurrent(call[c].data, current)
  <1> DEFINE m == [NoCall EXCEPT !.phase = "over"]
  <1>1. m \in Contexts /\ m.phase = "over" /\ ContextFits(m, Made)
    BY NoCallIsTyped
  <1>2. /\ call' = [call EXCEPT ![c] = m] /\ call[c].phase = "accepted" /\ call[c].kind = "update"
        /\ UNCHANGED <<rows, fetch>> /\ raced' \in {"yes", raced}
    BY DEF SucceedUpdate
  <1>3. list' = (IF list = Unknown THEN list ELSE Put(call[c].data, list)) /\ current' = PutCurrent(call[c].data, current)
    BY DEF SucceedUpdate, Put, PutCurrent
  <1> HIDE DEF m
  <1>4. /\ call' \in [Calls -> Contexts] /\ ContextsFit' /\ Made' = Made /\ Carried \subseteq Carried'
        /\ call'[c] = m /\ \A d \in Calls : d # c => call'[d] = call[d]
    BY <1>1, <1>2, CallMoves DEF CarriedOut
  <1>5. rows' \in SUBSET Entry /\ RowsFit(rows', Carried')
    BY <1>2, <1>4, RowsStay
  <1>6. fetch' \in [Queries -> Fetches] /\ AnswersFit'
    BY <1>2, <1>4, FetchesStay
  <1>7. call[c].data \in Entry
    BY <1>2, CallIsTyped DEF ContextFits
  <1>8. list' \in Lists /\ Drawable(list', Made) /\ current' \in Currents
    <2>1. list # Unknown => list \in SUBSET Entry /\ Drawable(list, Made)
      BY DEF PageInv, DataTyped, Lists
    <2>2. list # Unknown => Put(call[c].data, list) \in SUBSET Entry /\ Drawable(Put(call[c].data, list), Made)
      BY <1>7, <2>1, PutList
    <2>3. current' \in Currents
      BY <1>3, <1>7 DEF PutCurrent, Currents, PageInv, DataTyped
    <2> QED
      BY <1>3, <2>2, <2>3 DEF Lists, PageInv, DataTyped
  <1> QED
    BY <1>1, <1>2, <1>3, <1>4, <1>5, <1>6, <1>8 DEF PageInv, DataTyped

LEMMA RefetchCurrentTyped ==
  ASSUME PageInv, NEW c \in Calls, RefetchCurrent(c)
  PROVE  /\ PageInv' /\ call'[c].phase = "current" /\ \A d \in Calls : d # c => call'[d] = call[d]
         /\ fetch'["current"] = Begun(c) /\ fetch'["list"] = fetch["list"]
  <1> DEFINE m == [call[c] EXCEPT !.phase = "current"]
  <1>1. call' = [call EXCEPT ![c] = m] /\ call[c].phase = "lists" /\ UNCHANGED <<rows, list, current, raced>>
    BY DEF RefetchCurrent
  <1>2. m \in Contexts /\ m.phase = "current" /\ ContextFits(m, Made)
    BY CallIsTyped DEF Contexts, ContextFits, Phases
  <1> HIDE DEF m
  <1>3. /\ call' \in [Calls -> Contexts] /\ ContextsFit' /\ Made' = Made /\ Carried \subseteq Carried'
        /\ call'[c] = m /\ \A d \in Calls : d # c => call'[d] = call[d]
    BY <1>1, <1>2, CallMoves DEF CarriedOut
  <1>4. rows' \in SUBSET Entry /\ RowsFit(rows', Carried')
    BY <1>1, <1>3, RowsStay
  <1>5. /\ fetch' \in [Queries -> Fetches] /\ AnswersFit'
        /\ fetch'["current"] = Begun(c) /\ fetch'["list"] = fetch["list"]
    BY <1>3, FetchBegins DEF RefetchCurrent, Queries
  <1> QED
    BY <1>1, <1>2, <1>3, <1>4, <1>5 DEF PageInv, DataTyped

LEMMA EndTyped ==
  ASSUME PageInv, NEW c \in Calls, End(c)
  PROVE  PageInv' /\ call'[c].phase = "over" /\ \A d \in Calls : d # c => call'[d] = call[d]
  <1> DEFINE m == [call[c] EXCEPT !.phase = "over"]
  <1>1. call' = [call EXCEPT ![c] = m] /\ call[c].phase = "current" /\ UNCHANGED <<rows, list, current, fetch, raced>>
    BY DEF End
  <1>2. m \in Contexts /\ m.phase = "over" /\ ContextFits(m, Made)
    BY CallIsTyped DEF Contexts, ContextFits, Phases
  <1> HIDE DEF m
  <1>3. /\ call' \in [Calls -> Contexts] /\ ContextsFit' /\ Made' = Made /\ Carried \subseteq Carried'
        /\ call'[c] = m /\ \A d \in Calls : d # c => call'[d] = call[d]
    BY <1>1, <1>2, CallMoves DEF CarriedOut
  <1>4. rows' \in SUBSET Entry /\ RowsFit(rows', Carried')
    BY <1>1, <1>3, RowsStay
  <1>5. fetch' \in [Queries -> Fetches] /\ AnswersFit'
    BY <1>1, <1>3, FetchesStay
  <1> QED
    BY <1>1, <1>2, <1>3, <1>4, <1>5 DEF PageInv, DataTyped

LEMMA StepKeepsPage == PageInv /\ [PageNext]_pageVars => PageInv'
  <1> SUFFICES ASSUME PageInv, [PageNext]_pageVars PROVE PageInv'
    OBVIOUS
  <1>1. ASSUME NEW q \in Queries, Poll(q) \/ Read(q) \/ FetchDone(q) \/ FetchFails(q) PROVE PageInv'
    BY <1>1, PollTyped, ReadTyped, FetchDoneTyped, FetchFailsTyped
  <1>2. ASSUME NEW c \in Calls, NEW kind \in Kinds, NEW i \in Targets(kind),
               NEW text \in (IF kind = "update" THEN Texts ELSE {NewText}), Mutate(c, kind, i, text)
        PROVE  PageInv'
    BY <1>2, MutateTyped, PageAssumption DEF NewText
  <1>3. ASSUME NEW c \in Calls, CallStep(c) PROVE PageInv'
    BY <1>3, AcceptTyped, RefuseTyped, LoseTyped, SucceedTyped, SucceedUpdateTyped, RefetchCurrentTyped,
       EndTyped DEF CallStep
  <1>4. CASE UNCHANGED pageVars
    <2>1. Made' = Made /\ Carried' = Carried
      BY <1>4 DEF pageVars, Made, Carried
    <2>2. ContextsFit' /\ AnswersFit'
      BY <1>4, <2>1 DEF pageVars, ContextsFit, AnswersFit, PageInv
    <2> QED
      BY <1>4, <2>1, <2>2 DEF pageVars, PageInv, DataTyped
  <1> QED
    BY <1>1, <1>2, <1>3, <1>4 DEF PageNext

\* Whatever calls overlap and whatever is lost: the queries hold entries, a list
\* has one entry of an id, and so has what a rollback may bring back.
THEOREM PageTypeCorrect == PageSafety => []PageTypeOK
  <1>1. PageInv => PageTypeOK
    BY NoData DEF PageInv, DataTyped, PageTypeOK, Drawable, Distinct, Lists, Currents, Fetches, Contexts, Phases
  <1> QED
    BY <1>1, PageHoldsInitially, StepKeepsPage, PTL DEF PageSafety
-----------------------------------------------------------------------------
(***************************************************************************)
(* Calm: no race of the worst kind has happened.  Then calls come one by   *)
(* one, and it is known at each phase of a call how what the page has, and *)
(* what its fetches bring, differ from what the server has.                *)
(***************************************************************************)
Now(q) == IF q = "list" THEN rows ELSE ServerCurrent
AnswersNow(q) == fetch[q].at = "read" => fetch[q].answer = Now(q)

Settled ==
  /\ list \in {Unknown, rows} /\ current \in {Unknown, ServerCurrent}
  /\ AnswersNow("list") /\ AnswersNow("current")

\* A rollback brings back what the server has; a poll may have taken the patch
\* of an update away.
SentFits(c) ==
  /\ AnswersNow("list") /\ AnswersNow("current")
  /\ call[c].wasList = rows
  /\ call[c].kind = "create" => call[c].wasCurrent = Unknown /\ current = ServerCurrent
  /\ call[c].kind # "create" => call[c].wasCurrent = ServerCurrent
  /\ call[c].kind = "update" =>
       /\ list \in {rows, PatchedAll(rows, call[c].target, call[c].text)}
       /\ current \in {ServerCurrent, PatchedCurrent(ServerCurrent, call[c].target, call[c].text)}

\* The answer of an update, put in place, makes of all there is what the server
\* has.
UpdateFits(c) ==
  /\ list # Unknown /\ Put(call[c].data, list) = rows
  /\ PutCurrent(call[c].data, current) = ServerCurrent
  /\ fetch["list"].at = "read" => Put(call[c].data, fetch["list"].answer) = rows
  /\ fetch["current"].at = "read" => PutCurrent(call[c].data, fetch["current"].answer) = ServerCurrent

ListsFit(c) == AnswersNow("list") /\ (~Awaits(c, "list") => list = rows)

CurrentFits(c) ==
  /\ list = rows /\ AnswersNow("list") /\ AnswersNow("current")
  /\ ~Awaits(c, "current") => current = ServerCurrent

PhaseFits(c) ==
  /\ call[c].phase # "lost"
  /\ call[c].phase = "sent" => SentFits(c)
  /\ call[c].phase = "accepted" /\ call[c].kind = "update" => UpdateFits(c)
  /\ call[c].phase = "lists" => ListsFit(c)
  /\ call[c].phase = "current" => CurrentFits(c)

OnePending == \A c, d \in Pending : c = d

CalmInv == raced # "yes" => OnePending /\ (Pending = {} => Settled) /\ \A c \in Calls : PhaseFits(c)

LEMMA CalmInitially == PageInit => CalmInv
  BY DEF PageInit, CalmInv, OnePending, Pending, NoCall, PhaseFits, Settled, AnswersNow, IdleFetch, Queries

\* While a call is under way no other one is.
LEMMA OthersRest ==
  ASSUME PageInv, CalmInv, raced # "yes", NEW c \in Calls, c \in Pending \/ Pending = {}
  PROVE  \A d \in Calls : d # c => call[d].phase \in {"new", "over"}
  BY DEF CalmInv, OnePending, Pending, PhaseFits, PageInv, Contexts, Phases

\* A step of the one call under way.
LEMMA CallKeepsCalm ==
  ASSUME NEW c \in Calls, \A d \in Calls : d # c => call'[d].phase \in {"new", "over"},
         \/ call'[c].phase = "over" /\ Settled'
         \/ call'[c].phase \in {"sent", "accepted", "lists", "current"} /\ PhaseFits(c)'
  PROVE  CalmInv'
  <1>1. \A d \in Calls : d # c => PhaseFits(d)'
    BY DEF PhaseFits
  <1>2. Pending' \subseteq {c} /\ (call'[c].phase # "over" => c \in Pending')
    BY DEF Pending
  <1>3. call'[c].phase = "over" => PhaseFits(c)'
    BY DEF PhaseFits
  <1> QED
    BY <1>1, <1>2, <1>3 DEF CalmInv, OnePending

\* A step of a fetch.
LEMMA FetchKeepsCalm ==
  ASSUME CalmInv, UNCHANGED call, raced' # "yes" => raced # "yes",
         raced' # "yes" => (Settled => Settled') /\ \A c \in Calls : PhaseFits(c) => PhaseFits(c)'
  PROVE  CalmInv'
  BY DEF CalmInv, OnePending, Pending

LEMMA PollCalm ==
  ASSUME PageInv, CalmInv, NEW q \in Queries, Poll(q)
  PROVE  CalmInv'
  <1>1. /\ fetch[q].at = "idle" /\ fetch'[q].at = "sent" /\ \A p \in Queries : p # q => fetch'[p] = fetch[p]
        /\ UNCHANGED <<rows, list, current, call>> /\ (raced' # "yes" => raced # "yes")
    BY PollTyped, BegunIsTyped DEF Poll
  <1>2. UNCHANGED ServerCurrent
    BY <1>1, CurrentIsServed
  <1>3. \A p \in Queries : AnswersNow(p) => AnswersNow(p)'
    BY <1>1, <1>2 DEF AnswersNow, Now
  <1>4. \A p \in Queries : fetch'[p].at = "read" => fetch'[p] = fetch[p]
    BY <1>1
  <1>5. \A c \in Calls, p \in Queries : Awaits(c, p) => fetch[p].at # "idle" /\ Awaits(c, p)'
    BY <1>1 DEF Awaits
  <1>6. Settled => Settled'
    BY <1>1, <1>2, <1>3 DEF Settled, Queries
  <1>7. ASSUME NEW c \in Calls, PhaseFits(c) PROVE PhaseFits(c)'
    <2>1. SentFits(c) => SentFits(c)'
      BY <1>1, <1>2, <1>3 DEF SentFits, Queries
    <2>2. UpdateFits(c) => UpdateFits(c)'
      BY <1>1, <1>2, <1>4 DEF UpdateFits, Queries
    <2>3. ListsFit(c) => ListsFit(c)'
      BY <1>1, <1>3, <1>5 DEF ListsFit, Queries
    <2>4. CurrentFits(c) => CurrentFits(c)'
      BY <1>1, <1>2, <1>3, <1>5 DEF CurrentFits, Queries
    <2> QED
      BY <1>1, <1>7, <2>1, <2>2, <2>3, <2>4 DEF PhaseFits
  <1> QED
    BY <1>1, <1>6, <1>7, FetchKeepsCalm

LEMMA ReadCalm ==
  ASSUME PageInv, CalmInv, NEW q \in Queries, Read(q)
  PROVE  CalmInv'
  <1>1. /\ fetch[q].at = "sent" /\ fetch'[q].at = "read" /\ fetch'[q].by = fetch[q].by
        /\ fetch'[q].answer = Now(q)
        /\ \A p \in Queries : p # q => fetch'[p] = fetch[p]
        /\ UNCHANGED <<rows, list, current, call, raced>>
    BY ReadTyped DEF Read, Now
  <1>2. UNCHANGED ServerCurrent
    BY <1>1, CurrentIsServed
  <1>3. \A p \in Queries : AnswersNow(p) => AnswersNow(p)'
    BY <1>1, <1>2 DEF AnswersNow, Now
  <1>4. \A c \in Calls, p \in Queries : Awaits(c, p) => Awaits(c, p)'
    BY <1>1 DEF Awaits
  <1>5. Settled => Settled'
    BY <1>1, <1>2, <1>3 DEF Settled, Queries
  <1>6. ASSUME NEW c \in Calls, PhaseFits(c) PROVE PhaseFits(c)'
    <2>1. SentFits(c) => SentFits(c)'
      BY <1>1, <1>2, <1>3 DEF SentFits, Queries
    <2>2. call[c].phase = "accepted" /\ call[c].kind = "update" /\ UpdateFits(c) => UpdateFits(c)'
      <3> SUFFICES ASSUME call[c].phase = "accepted", call[c].kind = "update", UpdateFits(c) PROVE UpdateFits(c)'
        OBVIOUS
      <3>1. call[c].data \in Entry
        BY CallIsTyped DEF ContextFits
      <3>2. Put(call[c].data, rows) = rows
        BY PutTwice DEF UpdateFits
      <3>3. PutCurrent(call[c].data, ServerCurrent) = ServerCurrent
        BY <3>1, PutCurrentTwice DEF UpdateFits
      <3> QED
        BY <1>1, <1>2, <3>2, <3>3 DEF UpdateFits, Queries, Now
    <2>3. ListsFit(c) => ListsFit(c)'
      BY <1>1, <1>3, <1>4 DEF ListsFit, Queries
    <2>4. CurrentFits(c) => CurrentFits(c)'
      BY <1>1, <1>2, <1>3, <1>4 DEF CurrentFits, Queries
    <2> QED
      BY <1>1, <1>6, <2>1, <2>2, <2>3, <2>4 DEF PhaseFits
  <1> QED
    BY <1>1, <1>5, <1>6, FetchKeepsCalm

LEMMA FetchDoneCalm ==
  ASSUME PageInv, CalmInv, NEW q \in Queries, FetchDone(q)
  PROVE  CalmInv'
  <1>1. /\ fetch[q].at = "read" /\ fetch'[q].at = "idle"
        /\ \A p \in Queries : p # q => fetch'[p] = fetch[p]
        /\ list' = (IF q = "list" THEN fetch[q].answer ELSE list)
        /\ current' = (IF q = "list" THEN current ELSE fetch[q].answer)
        /\ UNCHANGED <<rows, call, raced>>
    BY FetchDoneTyped, BegunIsTyped DEF FetchDone
  <1>2. UNCHANGED ServerCurrent
    BY <1>1, CurrentIsServed
  <1>3. \A p \in Queries : AnswersNow(p) => AnswersNow(p)'
    BY <1>1, <1>2 DEF AnswersNow, Now
  <1>4. \A p \in Queries : fetch'[p].at = "read" => fetch'[p] = fetch[p] /\ p # q
    BY <1>1
  <1>5. \A c \in Calls, p \in Queries : p # q /\ Awaits(c, p) => Awaits(c, p)'
    BY <1>1 DEF Awaits
  <1>6. /\ q = "list" /\ AnswersNow("list") => list' = rows
        /\ q = "current" /\ AnswersNow("current") => current' = ServerCurrent
        /\ q = "list" => list' # Unknown
    BY <1>1, NoData DEF AnswersNow, Now, PageInv, AnswersFit, AnswerFits
  <1>7. Settled => Settled'
    BY <1>1, <1>2, <1>3, <1>6 DEF Settled, Queries
  <1>8. ASSUME NEW c \in Calls, PhaseFits(c) PROVE PhaseFits(c)'
    <2>1. SentFits(c) => SentFits(c)'
      BY <1>1, <1>2, <1>3, <1>6 DEF SentFits, Queries
    <2>2. UpdateFits(c) => UpdateFits(c)'
      BY <1>1, <1>2, <1>4, <1>6 DEF UpdateFits, Queries
    <2>3. ListsFit(c) => ListsFit(c)'
      BY <1>1, <1>3, <1>5, <1>6 DEF ListsFit, Queries
    <2>4. CurrentFits(c) => CurrentFits(c)'
      BY <1>1, <1>2, <1>3, <1>5, <1>6 DEF CurrentFits, Queries
    <2> QED
      BY <1>1, <1>8, <2>1, <2>2, <2>3, <2>4 DEF PhaseFits
  <1> QED
    BY <1>1, <1>7, <1>8, FetchKeepsCalm

LEMMA FetchFailsCalm ==
  ASSUME PageInv, CalmInv, NEW q \in Queries, FetchFails(q)
  PROVE  CalmInv'
  <1>1. /\ fetch'[q].at = "idle" /\ \A p \in Queries : p # q => fetch'[p] = fetch[p]
        /\ UNCHANGED <<rows, list, current, call>>
        /\ raced' # "yes" => raced # "yes" /\ fetch[q].by = Timer
    BY FetchFailsTyped, BegunIsTyped DEF FetchFails
  <1>2. UNCHANGED ServerCurrent
    BY <1>1, CurrentIsServed
  <1>3. \A p \in Queries : AnswersNow(p) => AnswersNow(p)'
    BY <1>1, <1>2 DEF AnswersNow, Now
  <1>4. \A p \in Queries : fetch'[p].at = "read" => fetch'[p] = fetch[p]
    BY <1>1
  <1>5. raced' # "yes" => \A c \in Calls, p \in Queries : Awaits(c, p) => Awaits(c, p)'
    BY <1>1, CallsAreIds DEF Awaits, Timer
  <1>6. Settled => Settled'
    BY <1>1, <1>2, <1>3 DEF Settled, Queries
  <1>7. ASSUME NEW c \in Calls, raced' # "yes", PhaseFits(c) PROVE PhaseFits(c)'
    <2>1. SentFits(c) => SentFits(c)'
      BY <1>1, <1>2, <1>3 DEF SentFits, Queries
    <2>2. UpdateFits(c) => UpdateFits(c)'
      BY <1>1, <1>2, <1>4 DEF UpdateFits, Queries
    <2>3. ListsFit(c) => ListsFit(c)'
      BY <1>1, <1>3, <1>5, <1>7 DEF ListsFit, Queries
    <2>4. CurrentFits(c) => CurrentFits(c)'
      BY <1>1, <1>2, <1>3, <1>5, <1>7 DEF CurrentFits, Queries
    <2> QED
      BY <1>1, <1>7, <2>1, <2>2, <2>3, <2>4 DEF PhaseFits
  <1> QED
    BY <1>1, <1>6, <1>7, FetchKeepsCalm
-----------------------------------------------------------------------------
(***************************************************************************)
(* The steps of a call.                                                    *)
(***************************************************************************)
LEMMA MutateCalm ==
  ASSUME PageInv, CalmInv, NEW c \in Calls, NEW kind \in Kinds, NEW i \in Targets(kind), NEW text \in Texts,
         Mutate(c, kind, i, text)
  PROVE  CalmInv'
  <1> SUFFICES ASSUME raced' # "yes" PROVE CalmInv'
    BY DEF CalmInv
  <1>1. /\ Pending = {} /\ list # Unknown /\ current # Unknown /\ raced # "yes" /\ UNCHANGED rows
        /\ list' = ListAfter(c, kind, i, text) /\ current' = CurrentAfter(c, kind, i, text)
    BY DEF Mutate
  <1>2. list = rows /\ current = ServerCurrent /\ AnswersNow("list") /\ AnswersNow("current")
    BY <1>1 DEF CalmInv, Settled
  <1>3. /\ call'[c] = Context(c, kind, i, text) /\ \A d \in Calls : d # c => call'[d] = call[d]
        /\ fetch'["list"] = IdleFetch /\ fetch'["current"] \in {fetch["current"], IdleFetch}
    BY MutateTyped DEF Queries
  <1>4. \A d \in Calls : d # c => call'[d].phase \in {"new", "over"}
    BY <1>1, <1>3, OthersRest
  <1>5. UNCHANGED ServerCurrent
    BY <1>1, CurrentIsServed
  <1>6. AnswersNow("list")' /\ AnswersNow("current")'
    BY <1>1, <1>2, <1>3, <1>5, BegunIsTyped DEF AnswersNow, Now
  <1>7. /\ call'[c].phase = "sent" /\ call'[c].kind = kind /\ call'[c].target = i /\ call'[c].text = text
        /\ call'[c].wasList = rows
        /\ call'[c].wasCurrent = IF kind = "create" THEN Unknown ELSE ServerCurrent
    BY <1>2, <1>3 DEF Context
  <1>8. kind = "create" => current' = ServerCurrent
    BY <1>1, <1>2 DEF CurrentAfter
  <1>9. kind = "update" => /\ list' = PatchedAll(rows, i, text)
                           /\ current' = PatchedCurrent(ServerCurrent, i, text)
    BY <1>1, <1>2 DEF ListAfter, CurrentAfter, PatchedAll, PatchedCurrent
  <1>10. SentFits(c)'
    BY <1>1, <1>5, <1>6, <1>7, <1>8, <1>9 DEF SentFits
  <1> QED
    BY <1>4, <1>7, <1>10, CallKeepsCalm DEF PhaseFits

LEMMA AcceptCalm ==
  ASSUME PageInv, CalmInv, NEW c \in Calls, Accept(c)
  PROVE  CalmInv'
  <1> SUFFICES ASSUME raced # "yes" PROVE CalmInv'
    BY DEF Accept, CalmInv
  <1>1. call[c].phase = "sent" /\ PhaseFits(c) /\ c \in Pending
    BY DEF Accept, CalmInv, PhaseFits, Pending
  <1>2. \A d \in Calls : d # c => call'[d].phase \in {"new", "over"}
    BY <1>1, AcceptTyped, OthersRest
  <1>3. /\ PageInv' /\ call'[c].phase = "accepted" /\ call'[c].kind = call[c].kind
        /\ call[c].kind = "update" => call'[c].data \in rows' /\ call'[c].data.id = call[c].target
    BY <1>1, AcceptTyped
  <1>4. ASSUME call[c].kind = "update" PROVE UpdateFits(c)'
    <2> DEFINE e == call'[c].data
               target == call[c].target
               text == call[c].text
    <2>1. SentFits(c) /\ UNCHANGED <<list, current, fetch>> /\ rows' = PatchedAll(rows, target, text)
      BY <1>1, <1>4 DEF PhaseFits, Accept, RowsAfter, PatchedAll
    <2>2. rows \in SUBSET Entry /\ Distinct(rows) /\ text \in Texts /\ IsCurrent(ServerCurrent, rows)
      BY CallIsTyped, ServerCurrentFits DEF PageInv, DataTyped, RowsFit, Contexts
    <2>3. rows' \in SUBSET Entry /\ IsCurrent(ServerCurrent', rows')
      BY <1>3, CurrentIsServed, ServerKnowsCurrent DEF PageInv, DataTyped, RowsFit
    <2>4. e \in rows' /\ e.id = target
      BY <1>3, <1>4
    <2> HIDE DEF e, target, text
    <2>5. Put(e, rows) = rows' /\ Put(e, PatchedAll(rows, target, text)) = rows'
      BY <2>1, <2>2, <2>4, PutPatches
    <2>6. /\ IsCurrent(PutCurrent(e, ServerCurrent), rows')
          /\ PutCurrent(e, PatchedCurrent(ServerCurrent, target, text)) = PutCurrent(e, ServerCurrent)
      BY <2>1, <2>2, <2>4, PutPatchesCurrent
    <2>7. PutCurrent(e, ServerCurrent) = ServerCurrent'
      BY <2>3, <2>6, CurrentIsUnique
    <2>8. /\ list \in {rows, PatchedAll(rows, target, text)}
          /\ current \in {ServerCurrent, PatchedCurrent(ServerCurrent, target, text)}
          /\ AnswersNow("list") /\ AnswersNow("current")
      BY <1>4, <2>1 DEF SentFits, target, text
    <2>9. list' # Unknown
      BY <2>1, <2>2, <2>3, <2>8, NoData
    <2>10. Put(e, list') = rows' /\ PutCurrent(e, current') = ServerCurrent'
      BY <2>1, <2>5, <2>6, <2>7, <2>8
    <2>11. /\ fetch'["list"].at = "read" => Put(e, fetch'["list"].answer) = rows'
           /\ fetch'["current"].at = "read" => PutCurrent(e, fetch'["current"].answer) = ServerCurrent'
      BY <2>1, <2>5, <2>7, <2>8 DEF AnswersNow, Now
    <2> QED
      BY <2>9, <2>10, <2>11 DEF UpdateFits, e
  <1>5. PhaseFits(c)'
    BY <1>3, <1>4 DEF PhaseFits
  <1> QED
    BY <1>2, <1>3, <1>5, CallKeepsCalm

LEMMA RefuseCalm ==
  ASSUME PageInv, CalmInv, NEW c \in Calls, Refuse(c)
  PROVE  CalmInv' /\ (raced # "yes" => Pending' = {} /\ Settled')
  <1> SUFFICES ASSUME raced # "yes" PROVE CalmInv' /\ Pending' = {} /\ Settled'
    BY DEF Refuse, CalmInv
  <1>1. call[c].phase = "sent" /\ c \in Pending /\ SentFits(c) /\ UNCHANGED <<rows, fetch>>
    BY DEF Refuse, CalmInv, PhaseFits, Pending
  <1>2. call'[c].phase = "over" /\ \A d \in Calls : d # c => call'[d].phase \in {"new", "over"}
    BY <1>1, RefuseTyped, OthersRest
  <1>3. UNCHANGED ServerCurrent /\ ServerCurrent # Unknown /\ rows # Unknown
    BY <1>1, CurrentIsServed, ServerCurrentFits, NoData DEF PageInv, DataTyped
  <1>4. list' = rows /\ current' = ServerCurrent
    BY <1>1, <1>3 DEF Refuse, RestoredList, RestoredCurrent, SentFits
  <1>5. Settled'
    BY <1>1, <1>3, <1>4 DEF Settled, SentFits, AnswersNow, Now
  <1>6. Pending' = {}
    BY <1>2 DEF Pending
  <1> QED
    BY <1>2, <1>5, <1>6, CallKeepsCalm

LEMMA SucceedCalm ==
  ASSUME PageInv, CalmInv, NEW c \in Calls, Succeed(c)
  PROVE  CalmInv'
  <1> SUFFICES ASSUME raced # "yes" PROVE CalmInv'
    BY DEF Succeed, CalmInv
  <1>1. c \in Pending
    BY DEF Succeed, Pending
  <1>2. call'[c].phase = "lists" /\ \A d \in Calls : d # c => call'[d].phase \in {"new", "over"}
    BY <1>1, SucceedTyped, OthersRest
  <1>3. fetch'["list"].at = "sent" /\ fetch'["list"].by = c
    BY SucceedTyped, BegunIsTyped
  <1>4. PhaseFits(c)'
    BY <1>2, <1>3 DEF PhaseFits, ListsFit, AnswersNow, Awaits
  <1> QED
    BY <1>2, <1>4, CallKeepsCalm

LEMMA SucceedUpdateCalm ==
  ASSUME PageInv, CalmInv, NEW c \in Calls, SucceedUpdate(c)
  PROVE  CalmInv' /\ (raced' # "yes" => Pending' = {} /\ Settled')
  <1> SUFFICES ASSUME raced' # "yes" PROVE CalmInv' /\ Pending' = {} /\ Settled'
    BY DEF CalmInv
  <1>1. /\ call[c].phase = "accepted" /\ call[c].kind = "update" /\ c \in Pending
        /\ \A q \in Queries : fetch[q].at = "idle"
        /\ raced # "yes" /\ UNCHANGED <<rows, fetch>>
    BY DEF SucceedUpdate, Pending
  <1>2. call'[c].phase = "over" /\ \A d \in Calls : d # c => call'[d].phase \in {"new", "over"}
    BY <1>1, SucceedUpdateTyped, OthersRest
  <1>3. UpdateFits(c)
    BY <1>1 DEF CalmInv, PhaseFits
  <1>4. list' = rows /\ current' = ServerCurrent
    BY <1>3, SucceedUpdateTyped DEF UpdateFits
  <1>5. UNCHANGED ServerCurrent
    BY <1>1, CurrentIsServed
  <1>6. Settled'
    BY <1>1, <1>4, <1>5 DEF Settled, AnswersNow, Queries
  <1>7. Pending' = {}
    BY <1>2 DEF Pending
  <1> QED
    BY <1>2, <1>6, <1>7, CallKeepsCalm, <1>1

LEMMA RefetchCurrentCalm ==
  ASSUME PageInv, CalmInv, NEW c \in Calls, RefetchCurrent(c)
  PROVE  CalmInv'
  <1> SUFFICES ASSUME raced # "yes" PROVE CalmInv'
    BY DEF RefetchCurrent, CalmInv
  <1>1. c \in Pending /\ ListsFit(c) /\ ~Awaits(c, "list") /\ UNCHANGED <<rows, list>>
    BY DEF RefetchCurrent, Pending, CalmInv, PhaseFits
  <1>2. call'[c].phase = "current" /\ \A d \in Calls : d # c => call'[d].phase \in {"new", "over"}
    BY <1>1, RefetchCurrentTyped, OthersRest
  <1>3. /\ fetch'["current"].at = "sent" /\ fetch'["current"].by = c /\ fetch'["list"] = fetch["list"]
    BY RefetchCurrentTyped, BegunIsTyped
  <1>4. CurrentFits(c)'
    BY <1>1, <1>3 DEF ListsFit, CurrentFits, AnswersNow, Now, Awaits
  <1> QED
    BY <1>2, <1>4, CallKeepsCalm DEF PhaseFits

LEMMA EndCalm ==
  ASSUME PageInv, CalmInv, NEW c \in Calls, End(c)
  PROVE  CalmInv'
  <1> SUFFICES ASSUME raced # "yes" PROVE CalmInv'
    BY DEF End, CalmInv
  <1>1. c \in Pending /\ CurrentFits(c) /\ ~Awaits(c, "current") /\ UNCHANGED <<rows, list, current, fetch>>
    BY DEF End, Pending, CalmInv, PhaseFits
  <1>2. call'[c].phase = "over" /\ \A d \in Calls : d # c => call'[d].phase \in {"new", "over"}
    BY <1>1, EndTyped, OthersRest
  <1>3. UNCHANGED ServerCurrent
    BY <1>1, CurrentIsServed
  <1>4. Settled'
    BY <1>1, <1>3 DEF Settled, CurrentFits, AnswersNow, Now
  <1> QED
    BY <1>2, <1>4, CallKeepsCalm

LEMMA StepKeepsCalm == PageInv /\ CalmInv /\ [PageNext]_pageVars => CalmInv'
  <1> SUFFICES ASSUME PageInv, CalmInv, [PageNext]_pageVars PROVE CalmInv'
    OBVIOUS
  <1>1. ASSUME NEW q \in Queries, Poll(q) \/ Read(q) \/ FetchDone(q) \/ FetchFails(q) PROVE CalmInv'
    BY <1>1, PollCalm, ReadCalm, FetchDoneCalm, FetchFailsCalm
  <1>2. ASSUME NEW c \in Calls, NEW kind \in Kinds, NEW i \in Targets(kind),
               NEW text \in (IF kind = "update" THEN Texts ELSE {NewText}), Mutate(c, kind, i, text)
        PROVE  CalmInv'
    BY <1>2, MutateCalm, PageAssumption DEF NewText
  <1>3. ASSUME NEW c \in Calls, CallStep(c) PROVE CalmInv'
    <2>1. ASSUME NEW online \in BOOLEAN, Lose(c, online) PROVE CalmInv'
      BY <2>1 DEF Lose, CalmInv
    <2> QED
      BY <1>3, <2>1, AcceptCalm, RefuseCalm, SucceedCalm, SucceedUpdateCalm, RefetchCurrentCalm, EndCalm
      DEF CallStep
  <1>4. CASE UNCHANGED pageVars
    <2>1. UNCHANGED <<rows, list, current, fetch, call, raced>> /\ UNCHANGED ServerCurrent
      BY <1>4, CurrentIsServed DEF pageVars
    <2>2. Settled => Settled'
      BY <2>1 DEF Settled, AnswersNow, Now
    <2>3. ASSUME NEW c \in Calls, PhaseFits(c) PROVE PhaseFits(c)'
      BY <2>1, <2>3 DEF PhaseFits, SentFits, UpdateFits, ListsFit, CurrentFits, AnswersNow, Now, Awaits
    <2> QED
      BY <2>1, <2>2, <2>3, FetchKeepsCalm
  <1> QED
    BY <1>1, <1>2, <1>3, <1>4 DEF PageNext

\* When nothing is under way, the page shows what the server has, after any
\* number of calls and refusals, unless there was a race of the worst kind.
THEOREM QuietPageIsTrue == PageSafety => []QuietIsTrue
  <1>1. PageInv /\ CalmInv => QuietIsTrue
    BY DEF CalmInv, QuietIsTrue, Quiet, CacheTrue, Settled
  <1> QED
    BY <1>1, PageHoldsInitially, StepKeepsPage, CalmInitially, StepKeepsCalm, PTL DEF PageSafety
-----------------------------------------------------------------------------
(***************************************************************************)
(* No race at all: what the page shows to be running.                      *)
(***************************************************************************)
Listed == IF list = Unknown THEN {} ELSE list

ShowsRunning == \A e \in Shown : e.run => \E x \in Running : x.id = e.id

\* While a call waits for its answer, no poll brings back what its optimistic
\* update has taken away.
CallShows(c) ==
  /\ fetch["list"].at = "idle" /\ (call[c].kind = "create" \/ fetch["current"].at = "idle")
  /\ call[c].kind = "start" => /\ \A e \in Listed : ~e.run
                               /\ call[c].phase = "accepted" => call[c].data \in Running
  /\ call[c].kind \in {"stop", "delete"} => \A e \in Shown : e.run => e.id # call[c].target

NoRaceInv == raced = "no" =>
  /\ AnswersNow("list") /\ AnswersNow("current")
  /\ \A c \in Unanswered : CallShows(c)
  /\ (\A c \in Unanswered : call[c].kind # "start") => ShowsRunning

LEMMA EntriesShown ==
  /\ Listed \subseteq Shown
  /\ \A e \in Shown : e \in Listed \/ e = current
  /\ list # Unknown => Listed = list
  /\ current \notin {Unknown, Nothing} => current \in Shown
  BY DEF Listed, Shown

\* The same after a step.
LEMMA EntriesShownNext ==
  /\ Listed' \subseteq Shown'
  /\ \A e \in Shown' : e \in Listed' \/ (e = current' /\ current' \notin {Unknown, Nothing})
  /\ list' # Unknown => Listed' = list'
  /\ list' = Unknown => Listed' = {}
  BY DEF Listed, Shown

LEMMA SettledShowsRunning ==
  ASSUME PageInv', Settled'
  PROVE  ShowsRunning'
  <1>1. \A e \in Shown' : e \in rows' \/ e = ServerCurrent'
    BY EntriesShownNext DEF Settled
  <1>2. ServerCurrent' \in rows' \/ ServerCurrent' = Nothing
    BY CurrentIsServed, ServerKnowsCurrent DEF IsCurrent, PageInv, DataTyped, RowsFit
  <1>3. \A e \in Shown' : e = current' => e # Nothing
    BY EntriesShownNext, EntryFields DEF PageInv, DataTyped, Lists, Currents
  <1>4. \A e \in Shown' : e \in rows'
    <2>1. ASSUME NEW e \in Shown', e = Nothing PROVE FALSE
      <3>1. Nothing \notin Listed'
        BY EntryFields, NoData DEF Listed, PageInv, DataTyped, Lists
      <3> QED
        BY <2>1, <3>1, EntriesShownNext
    <2> QED
      BY <1>1, <1>2, <2>1
  <1> QED
    BY <1>4 DEF ShowsRunning, Running

LEMMA NoRaceInitially == PageInit => NoRaceInv
  BY NoCallIsTyped
  DEF PageInit, NoRaceInv, AnswersNow, IdleFetch, Queries, Unanswered, ShowsRunning, Shown

\* After the last call is answered.
LEMMA SettledIsNoRace ==
  ASSUME PageInv', Pending' = {}, Settled'
  PROVE  NoRaceInv'
  <1>1. Unanswered' = {}
    BY DEF Pending, Unanswered
  <1> QED
    BY <1>1, SettledShowsRunning DEF NoRaceInv, Settled

LEMMA PollNoRace ==
  ASSUME PageInv, NoRaceInv, NEW q \in Queries, Poll(q)
  PROVE  NoRaceInv'
  <1> SUFFICES ASSUME raced' = "no" PROVE NoRaceInv'
    BY DEF NoRaceInv
  <1>1. /\ raced = "no" /\ Unanswered = {} /\ UNCHANGED <<rows, list, current, call>>
        /\ fetch'[q].at = "sent" /\ \A p \in Queries : p # q => fetch'[p] = fetch[p]
    BY PollTyped, BegunIsTyped DEF Poll
  <1>2. UNCHANGED ServerCurrent
    BY <1>1, CurrentIsServed
  <1>3. Unanswered' = {} /\ ShowsRunning'
    BY <1>1 DEF NoRaceInv, Unanswered, ShowsRunning, Shown, Running
  <1>4. AnswersNow("list")' /\ AnswersNow("current")'
    BY <1>1, <1>2 DEF NoRaceInv, AnswersNow, Now, Queries
  <1> QED
    BY <1>3, <1>4 DEF NoRaceInv

LEMMA ReadNoRace ==
  ASSUME PageInv, NoRaceInv, NEW q \in Queries, Read(q)
  PROVE  NoRaceInv'
  <1> SUFFICES ASSUME raced = "no" PROVE NoRaceInv'
    BY DEF Read, NoRaceInv
  <1>1. /\ fetch[q].at = "sent" /\ fetch'[q].answer = Now(q)
        /\ \A p \in Queries : p # q => fetch'[p] = fetch[p]
        /\ UNCHANGED <<rows, list, current, call>>
    BY ReadTyped DEF Read, Now
  <1>2. UNCHANGED ServerCurrent
    BY <1>1, CurrentIsServed
  <1>3. Unanswered' = Unanswered /\ (ShowsRunning => ShowsRunning')
    BY <1>1 DEF Unanswered, ShowsRunning, Shown, Running
  <1>4. AnswersNow("list")' /\ AnswersNow("current")'
    BY <1>1, <1>2 DEF NoRaceInv, AnswersNow, Now, Queries
  <1>5. ASSUME NEW c \in Unanswered, CallShows(c) PROVE CallShows(c)'
    <2>1. q # "list" /\ fetch'["list"] = fetch["list"]
      BY <1>1, <1>5 DEF CallShows, Queries
    <2>2. call[c].kind = "create" \/ fetch'["current"] = fetch["current"]
      BY <1>1, <1>5 DEF CallShows, Queries
    <2> QED
      BY <1>1, <1>5, <2>1, <2>2 DEF CallShows, Listed, Shown, Running
  <1> QED
    BY <1>1, <1>3, <1>4, <1>5 DEF NoRaceInv

LEMMA FetchDoneNoRace ==
  ASSUME PageInv, NoRaceInv, NEW q \in Queries, FetchDone(q), PageInv'
  PROVE  NoRaceInv'
  <1> SUFFICES ASSUME raced = "no" PROVE NoRaceInv'
    BY DEF FetchDone, NoRaceInv
  <1>1. /\ fetch[q].at = "read" /\ fetch'[q].at = "idle"
        /\ \A p \in Queries : p # q => fetch'[p] = fetch[p]
        /\ list' = (IF q = "list" THEN fetch[q].answer ELSE list)
        /\ current' = (IF q = "list" THEN current ELSE fetch[q].answer)
        /\ UNCHANGED <<rows, call>>
    BY FetchDoneTyped, BegunIsTyped DEF FetchDone
  <1>2. UNCHANGED <<ServerCurrent, Unanswered, Running>>
    BY <1>1, CurrentIsServed DEF Unanswered, Running
  <1>3. AnswersNow("list")' /\ AnswersNow("current")'
    BY <1>1, <1>2 DEF NoRaceInv, AnswersNow, Now, Queries
  <1>4. CASE q = "list"
    <2>1. Unanswered = {} /\ list' = rows /\ current' = current
      BY <1>1, <1>4 DEF NoRaceInv, CallShows, AnswersNow, Now
    <2>2. ShowsRunning
      BY <2>1 DEF NoRaceInv
    <2>3. ShowsRunning'
      BY <1>1, <1>2, <2>1, <2>2, EntriesShownNext, EntriesShown DEF ShowsRunning, Running
    <2> QED
      BY <1>2, <1>3, <2>1, <2>3 DEF NoRaceInv
  <1>5. CASE q = "current"
    <2>1. /\ \A c \in Unanswered : call[c].kind = "create" /\ fetch["list"].at = "idle"
          /\ list' = list /\ current' = ServerCurrent /\ fetch'["list"] = fetch["list"]
      BY <1>1, <1>5 DEF NoRaceInv, CallShows, AnswersNow, Now, Queries
    <2>2. ShowsRunning
      BY <2>1 DEF NoRaceInv
    <2>3. \A e \in Shown' : e.run => \E x \in Running : x.id = e.id
      <3>1. \A e \in Listed' : e \in Shown
        BY <2>1, EntriesShown DEF Listed
      <3>2. ServerCurrent \in rows \/ ServerCurrent = Nothing
        BY ServerCurrentFits DEF IsCurrent
      <3> QED
        BY <2>1, <2>2, <3>1, <3>2, EntriesShownNext DEF ShowsRunning, Running
    <2>4. \A c \in Unanswered : CallShows(c)'
      BY <1>1, <1>2, <2>1 DEF CallShows
    <2> QED
      BY <1>2, <1>3, <2>3, <2>4 DEF NoRaceInv, ShowsRunning
  <1> QED
    BY <1>4, <1>5 DEF Queries

LEMMA FetchFailsNoRace ==
  ASSUME PageInv, NoRaceInv, NEW q \in Queries, FetchFails(q)
  PROVE  NoRaceInv'
  <1> SUFFICES ASSUME raced' = "no" PROVE NoRaceInv'
    BY DEF NoRaceInv
  <1>1. /\ raced = "no" /\ fetch'[q].at = "idle" /\ \A p \in Queries : p # q => fetch'[p] = fetch[p]
        /\ UNCHANGED <<rows, list, current, call>>
    BY FetchFailsTyped, BegunIsTyped DEF FetchFails
  <1>2. UNCHANGED <<ServerCurrent, Unanswered, Running, Shown, Listed>>
    BY <1>1, CurrentIsServed DEF Unanswered, Running, Shown, Listed
  <1>3. AnswersNow("list")' /\ AnswersNow("current")'
    BY <1>1, <1>2 DEF NoRaceInv, AnswersNow, Now, Queries
  <1>4. ASSUME NEW c \in Unanswered, CallShows(c) PROVE CallShows(c)'
    BY <1>1, <1>2, <1>4 DEF CallShows, Queries
  <1> QED
    BY <1>1, <1>2, <1>3, <1>4 DEF NoRaceInv, ShowsRunning
-----------------------------------------------------------------------------
LEMMA MutateNoRace ==
  ASSUME PageInv, CalmInv, NoRaceInv, NEW c \in Calls, NEW kind \in Kinds, NEW i \in Targets(kind),
         NEW text \in Texts, Mutate(c, kind, i, text), PageInv'
  PROVE  NoRaceInv'
  <1> SUFFICES ASSUME raced' = "no" PROVE NoRaceInv'
    BY DEF NoRaceInv
  <1>1. /\ Pending = {} /\ list # Unknown /\ current # Unknown /\ raced = "no" /\ rows' = rows
        /\ list' = ListAfter(c, kind, i, text) /\ current' = CurrentAfter(c, kind, i, text)
    BY DEF Mutate
  <1>2. /\ list = rows /\ current = ServerCurrent /\ AnswersNow("list") /\ AnswersNow("current")
        /\ rows \in SUBSET Entry /\ IsCurrent(current, rows)
    BY <1>1, ServerCurrentFits DEF CalmInv, Settled, PageInv, DataTyped
  <1>3. /\ call'[c] = Context(c, kind, i, text) /\ \A d \in Calls : d # c => call'[d] = call[d]
        /\ fetch'["list"] = IdleFetch
        /\ fetch'["current"] = IF kind = "create" THEN fetch["current"] ELSE IdleFetch
    BY MutateTyped DEF Queries
  <1>4. call'[c].phase = "sent" /\ call'[c].kind = kind /\ call'[c].target = i
    BY <1>3 DEF Context
  <1>5. Unanswered' = {c}
    BY <1>1, <1>3, <1>4 DEF Unanswered, Pending
  <1>6. UNCHANGED <<ServerCurrent, Running>>
    BY <1>1, CurrentIsServed DEF Running
  <1>7. AnswersNow("list")' /\ AnswersNow("current")'
    BY <1>1, <1>2, <1>3, <1>6, BegunIsTyped DEF AnswersNow, Now
  <1>8. fetch'["list"].at = "idle" /\ (kind = "create" \/ fetch'["current"].at = "idle")
    BY <1>3, BegunIsTyped
  <1>9. kind = "start" => \A e \in Listed' : ~e.run
    <2> SUFFICES ASSUME kind = "start" PROVE \A e \in list' : ~e.run
      BY EntriesShownNext
    <2>1. CASE current = Nothing
      <3>1. \A e \in rows : ~e.run
        BY <1>2, <2>1, EntryFields DEF IsCurrent
      <3> QED
        BY <1>1, <1>2, <2>1, <3>1 DEF ListAfter
    <2>2. CASE current # Nothing
      <3>1. \A e \in rows : e.run => e.id = current.id
        BY <1>2, <2>2 DEF IsCurrent
      <3>2. list' = Stopped(rows, current.id)
        BY <1>1, <1>2, <2>2 DEF ListAfter
      <3> QED
        BY <1>2, <3>1, <3>2, StoppedSet
    <2> QED
      BY <2>1, <2>2
  <1>10. kind # "start" => \A e \in Shown' : e.run =>
           \E x \in rows : x.id = e.id /\ x.run /\ (kind \in {"stop", "delete"} => e.id # i)
    <2>1. CASE kind = "create"
      <3>1. list' = rows \union {Optimistic(c, kind, text)} /\ current' = current
        BY <1>1, <1>2, <2>1 DEF ListAfter, CurrentAfter
      <3>2. ~Optimistic(c, kind, text).run
        BY <2>1, OptimisticEntry
      <3>3. current \in rows \/ current = Nothing
        BY <1>2 DEF IsCurrent
      <3>4. \A e \in Shown' : e.run => e \in rows
        BY <3>1, <3>2, <3>3, EntriesShownNext
      <3> QED
        BY <2>1, <3>4
    <2>2. CASE kind = "stop"
      <3>1. list' = Stopped(rows, i) /\ current' = Nothing
        BY <1>1, <1>2, <2>2 DEF ListAfter, CurrentAfter
      <3>2. \A e \in Shown' : e \in Stopped(rows, i)
        BY <3>1, EntriesShownNext
      <3>3. \A s \in Stopped(rows, i) : \E e \in rows : s.id = e.id /\ (s.run => e.run /\ e.id # i)
        BY <1>2, StoppedSet
      <3> QED
        BY <3>2, <3>3
    <2>3. CASE kind = "update"
      <3>1. list' = PatchedAll(rows, i, text) /\ current' = PatchedCurrent(current, i, text)
        BY <1>1, <1>2, <2>3 DEF ListAfter, CurrentAfter, PatchedAll, PatchedCurrent
      <3>2. current' \in PatchedAll(rows, i, text) \/ current' = Nothing
        BY <1>2, <3>1, PatchedSet DEF IsCurrent, PatchedCurrent
      <3>3. \A e \in Shown' : e \in PatchedAll(rows, i, text)
        BY <3>1, <3>2, EntriesShownNext
      <3>4. ASSUME NEW s \in PatchedAll(rows, i, text)
            PROVE  \E e \in rows : s.id = e.id /\ s.run = e.run
        <4>1. \E e \in rows : s = Patched(e, i, text) /\ s.id = e.id /\ s.run = e.run
          BY <1>2, PatchedSet
        <4> QED
          BY <4>1
      <3> QED
        BY <2>3, <3>3, <3>4
    <2>4. CASE kind = "delete"
      <3>1. /\ list' = {e \in rows : e.id # i}
            /\ current' = IF current = Nothing \/ current.id # i THEN current ELSE Nothing
        BY <1>1, <1>2, <2>4 DEF ListAfter, CurrentAfter
      <3>2. current' = Nothing \/ current' \in {e \in rows : e.id # i}
        BY <1>2, <3>1 DEF IsCurrent
      <3>3. \A e \in Shown' : e \in rows /\ e.id # i
        BY <3>1, <3>2, EntriesShownNext
      <3> QED
        BY <3>3
    <2> QED
      BY <2>1, <2>2, <2>3, <2>4, PageAssumption DEF AllKinds
  <1>11. CallShows(c)'
    BY <1>4, <1>8, <1>9, <1>10 DEF CallShows
  <1>12. kind # "start" => ShowsRunning'
    BY <1>1, <1>10 DEF ShowsRunning, Running
  <1> QED
    BY <1>4, <1>5, <1>7, <1>11, <1>12 DEF NoRaceInv

\* What runs, and is not stopped or deleted, goes on.
LEMMA OthersRunOn ==
  ASSUME PageInv, NEW c \in Calls, Accept(c), call[c].kind # "start",
         NEW x \in Running, call[c].kind \in {"stop", "delete"} => x.id # call[c].target
  PROVE  \E y \in Running' : y.id = x.id
  <1>1. /\ call[c].kind \in AllKinds /\ call[c].text \in Texts /\ rows \in SUBSET Entry
        /\ x \in rows /\ x.run /\ rows' = RowsAfter(c)
    BY CallIsTyped DEF Accept, PageInv, DataTyped, ContextFits, Contexts, Running
  <1>2. CASE call[c].kind = "create"
    BY <1>1, <1>2 DEF RowsAfter, Running
  <1>3. CASE call[c].kind = "stop"
    <2>1. rows' = Stopped(rows, call[c].target)
      BY <1>1, <1>3 DEF RowsAfter
    <2>2. x.id # call[c].target
      BY <1>3
    <2>3. \E s \in Stopped(rows, call[c].target) : s.id = x.id /\ s.run
      BY <1>1, <2>2, StoppedRunOn
    <2> QED
      BY <2>1, <2>3 DEF Running
  <1>4. CASE call[c].kind = "update"
    <2>1. rows' = PatchedAll(rows, call[c].target, call[c].text)
      BY <1>1, <1>4 DEF RowsAfter, PatchedAll
    <2>2. Patched(x, call[c].target, call[c].text) \in rows'
      BY <1>1, <2>1, PatchedSet
    <2>3. /\ Patched(x, call[c].target, call[c].text).id = x.id
          /\ Patched(x, call[c].target, call[c].text).run
      BY <1>1, PatchedEntry
    <2> QED
      BY <2>2, <2>3 DEF Running
  <1>5. CASE call[c].kind = "delete"
    BY <1>1, <1>5 DEF RowsAfter, Running
  <1> QED
    BY <1>1, <1>2, <1>3, <1>4, <1>5 DEF AllKinds

\* An entry that is created does not run.
LEMMA CreateKeepsCurrent ==
  ASSUME PageInv, PageInv', NEW c \in Calls, Accept(c), call[c].kind = "create"
  PROVE  UNCHANGED ServerCurrent
  <1>1. /\ rows \in SUBSET Entry /\ RowsFit(rows, Carried) /\ c \notin Carried /\ call[c].text \in Texts
        /\ rows' = Created(rows, c, call[c].text)
    BY CallIsTyped DEF Accept, PageInv, DataTyped, Contexts, Carried, CarriedOut, RowsAfter, Created
  <1>2. IsCurrent(ServerCurrent, rows')
    BY <1>1, CreatedRows, ServerCurrentFits
  <1>3. rows' \in SUBSET Entry /\ IsCurrent(ServerCurrent', rows')
    BY CurrentIsServed, ServerKnowsCurrent DEF PageInv, DataTyped, RowsFit
  <1> QED
    BY <1>2, <1>3, CurrentIsUnique

\* The answer of a start is the entry that runs.
LEMMA StartRuns ==
  ASSUME PageInv, NEW c \in Calls, Accept(c), call[c].kind = "start", call[c].phase = "sent"
  PROVE  call'[c].data \in Running'
  <1>1. /\ rows \in SUBSET Entry /\ RowsFit(rows, Carried) /\ c \notin Carried /\ call[c].text \in Texts
        /\ rows' = Started(rows, c, call[c].text)
    BY CallIsTyped DEF Accept, PageInv, DataTyped, Contexts, Carried, CarriedOut, RowsAfter, Started
  <1>2. call'[c].data \in rows' /\ call'[c].data.id = c
    BY AcceptTyped
  <1> QED
    BY <1>1, <1>2, StartedRows DEF Running
LEMMA AcceptNoRace ==
  ASSUME PageInv, CalmInv, NoRaceInv, NEW c \in Calls, Accept(c)
  PROVE  NoRaceInv'
  <1> SUFFICES ASSUME raced = "no" PROVE NoRaceInv'
    BY DEF Accept, NoRaceInv
  <1>1. call[c].phase = "sent" /\ c \in Pending /\ c \in Unanswered
    BY DEF Accept, CalmInv, PhaseFits, Pending, Unanswered
  <1>2. /\ PageInv' /\ \A d \in Calls : d # c => call'[d] = call[d]
        /\ call'[c].phase = "accepted" /\ call'[c].kind = call[c].kind
    BY <1>1, AcceptTyped
  <1>3. call'[c].target = call[c].target
    BY <1>1, CallIsTyped DEF Accept, PageInv, Contexts
  <1>4. UNCHANGED <<list, current, fetch>> /\ UNCHANGED <<Listed, Shown>>
    BY DEF Accept, Listed, Shown
  <1>5. Unanswered' = {c}
    <2>1. \A d \in Calls : d # c => call[d].phase \in {"new", "over"}
      BY <1>1, OthersRest
    <2> QED
      BY <1>2, <2>1 DEF Unanswered
  <1>6. CallShows(c) /\ AnswersNow("list") /\ AnswersNow("current")
    BY <1>1 DEF NoRaceInv
  <1>7. AnswersNow("list")' /\ AnswersNow("current")'
    <2>1. fetch'["list"].at = "idle"
      BY <1>4, <1>6 DEF CallShows
    <2>2. CASE call[c].kind = "create"
      BY <1>2, <1>4, <1>6, <2>1, <2>2, CreateKeepsCurrent DEF AnswersNow, Now
    <2>3. CASE call[c].kind # "create"
      BY <1>4, <1>6, <2>1, <2>3 DEF AnswersNow, CallShows
    <2> QED
      BY <2>2, <2>3
  <1>8. CallShows(c)'
    <2>1. call[c].kind = "start" => call'[c].data \in Running'
      BY <1>1, StartRuns
    <2> QED
      BY <1>2, <1>3, <1>4, <1>6, <2>1 DEF CallShows
  <1>9. ASSUME call[c].kind # "start" PROVE ShowsRunning'
    <2>1. ShowsRunning
      <3>1. \A d \in Unanswered : d = c
        BY <1>1, OthersRest DEF Unanswered
      <3> QED
        BY <1>9, <3>1 DEF NoRaceInv
    <2>2. ASSUME NEW e \in Shown, e.run PROVE \E y \in Running' : y.id = e.id
      <3>1. PICK x \in Running : x.id = e.id
        BY <2>1, <2>2 DEF ShowsRunning
      <3>2. call[c].kind \in {"stop", "delete"} => x.id # call[c].target
        BY <1>6, <2>2, <3>1 DEF CallShows
      <3> QED
        BY <1>9, <3>1, <3>2, OthersRunOn
    <2> QED
      BY <1>4, <2>2 DEF ShowsRunning
  <1> QED
    BY <1>2, <1>5, <1>7, <1>8, <1>9 DEF NoRaceInv

\* After the answer no call is unanswered, and the page shows what runs.
LEMMA AnsweredNoRace ==
  ASSUME Unanswered' = {}, ShowsRunning', AnswersNow("list")', AnswersNow("current")'
  PROVE  NoRaceInv'
  BY DEF NoRaceInv

LEMMA SucceedNoRace ==
  ASSUME PageInv, CalmInv, NoRaceInv, NEW c \in Calls, Succeed(c)
  PROVE  NoRaceInv'
  <1> SUFFICES ASSUME raced = "no" PROVE NoRaceInv'
    BY DEF Succeed, NoRaceInv
  <1>1. /\ call[c].phase = "accepted" /\ c \in Pending /\ c \in Unanswered /\ rows' = rows
        /\ list' = (IF call[c].kind = "start" THEN Inserted(call[c].data) ELSE list)
        /\ current' = (IF call[c].kind = "start" THEN call[c].data ELSE current)
    BY DEF Succeed, Pending, Unanswered
  <1>2. /\ PageInv' /\ call'[c].phase = "lists" /\ \A d \in Calls : d # c => call'[d] = call[d]
        /\ fetch'["list"] = Begun(c) /\ fetch'["current"] = fetch["current"]
    BY SucceedTyped
  <1>3. UNCHANGED <<ServerCurrent, Running>>
    BY <1>1, CurrentIsServed DEF Running
  <1>4. \A d \in Calls : d # c => call[d].phase \in {"new", "over"}
    BY <1>1, OthersRest
  <1>5. Unanswered = {c} /\ Unanswered' = {}
    BY <1>1, <1>2, <1>4 DEF Unanswered
  <1>6. CallShows(c) /\ AnswersNow("current")
    BY <1>5 DEF NoRaceInv
  <1>7. AnswersNow("list")' /\ AnswersNow("current")'
    BY <1>2, <1>3, <1>6, BegunIsTyped DEF AnswersNow, Now
  <1>8. CASE call[c].kind = "start"
    <2>1. call[c].data \in Running /\ \A e \in Listed : ~e.run
      BY <1>1, <1>6, <1>8 DEF CallShows
    <2>2. \A e \in Listed' : e \in Listed \/ e = call[c].data
      BY <1>1, <1>8 DEF Listed, Inserted
    <2>3. \A e \in Shown' : e.run => e = call[c].data
      BY <1>1, <1>8, <2>1, <2>2, EntriesShownNext
    <2>4. ShowsRunning'
      BY <1>3, <2>1, <2>3 DEF ShowsRunning
    <2> QED
      BY <1>5, <1>7, <2>4, AnsweredNoRace
  <1>9. CASE call[c].kind # "start"
    <2>1. ShowsRunning
      BY <1>5, <1>9 DEF NoRaceInv
    <2>2. UNCHANGED Shown
      BY <1>1, <1>9 DEF Shown
    <2>3. ShowsRunning'
      BY <1>3, <2>1, <2>2 DEF ShowsRunning
    <2> QED
      BY <1>5, <1>7, <2>3, AnsweredNoRace
  <1> QED
    BY <1>8, <1>9

\* The refetches that follow a success.
LEMMA RefetchNoRace ==
  ASSUME PageInv, CalmInv, NoRaceInv, NEW c \in Calls, RefetchCurrent(c) \/ End(c)
  PROVE  NoRaceInv'
  <1> SUFFICES ASSUME raced = "no" PROVE NoRaceInv'
    BY DEF RefetchCurrent, End, NoRaceInv
  <1>1. /\ call[c].phase \in {"lists", "current"} /\ c \in Pending
        /\ UNCHANGED <<rows, list, current>>
    BY DEF RefetchCurrent, End, Pending
  <1>2. call'[c].phase \in {"current", "over"} /\ \A d \in Calls : d # c => call'[d] = call[d]
    BY RefetchCurrentTyped, EndTyped
  <1>3. Unanswered = {} /\ Unanswered' = {}
    <2>1. \A d \in Calls : d # c => call[d].phase \in {"new", "over"}
      BY <1>1, OthersRest
    <2> QED
      BY <1>1, <1>2, <2>1 DEF Unanswered
  <1>4. UNCHANGED <<ServerCurrent, Running, Shown>>
    BY <1>1, CurrentIsServed DEF Running, Shown
  <1>5. ShowsRunning /\ AnswersNow("list") /\ AnswersNow("current")
    BY <1>3 DEF NoRaceInv
  <1>6. ShowsRunning'
    BY <1>4, <1>5 DEF ShowsRunning
  <1>7. CASE RefetchCurrent(c)
    <2>1. fetch'["list"] = fetch["list"] /\ fetch'["current"].at = "sent"
      BY <1>7, RefetchCurrentTyped, BegunIsTyped
    <2>2. AnswersNow("list")' /\ AnswersNow("current")'
      BY <1>1, <1>5, <2>1 DEF AnswersNow, Now
    <2> QED
      BY <1>3, <1>6, <2>2, AnsweredNoRace
  <1>8. CASE End(c)
    <2>1. AnswersNow("list")' /\ AnswersNow("current")'
      BY <1>1, <1>4, <1>5, <1>8 DEF End, AnswersNow, Now
    <2> QED
      BY <1>3, <1>6, <2>1, AnsweredNoRace
  <1> QED
    BY <1>7, <1>8
LEMMA StepKeepsNoRace == PageInv /\ CalmInv /\ NoRaceInv /\ [PageNext]_pageVars => NoRaceInv'
  <1> SUFFICES ASSUME PageInv, CalmInv, NoRaceInv, [PageNext]_pageVars PROVE NoRaceInv'
    OBVIOUS
  <1>1. PageInv'
    BY StepKeepsPage
  <1>2. ASSUME NEW q \in Queries, Poll(q) \/ Read(q) \/ FetchDone(q) \/ FetchFails(q) PROVE NoRaceInv'
    BY <1>1, <1>2, PollNoRace, ReadNoRace, FetchDoneNoRace, FetchFailsNoRace
  <1>3. ASSUME NEW c \in Calls, NEW kind \in Kinds, NEW i \in Targets(kind),
               NEW text \in (IF kind = "update" THEN Texts ELSE {NewText}), Mutate(c, kind, i, text)
        PROVE  NoRaceInv'
    BY <1>1, <1>3, MutateNoRace, PageAssumption DEF NewText
  <1>4. ASSUME NEW c \in Calls, CallStep(c) PROVE NoRaceInv'
    <2>1. ASSUME Refuse(c) \/ SucceedUpdate(c) PROVE NoRaceInv'
      <3>1. raced' # "yes" => Pending' = {} /\ Settled'
        BY <2>1, RefuseCalm, SucceedUpdateCalm DEF Refuse
      <3>2. raced' # "yes" => NoRaceInv'
        BY <1>1, <3>1, SettledIsNoRace
      <3> QED
        BY <3>2 DEF NoRaceInv
    <2>2. ASSUME NEW online \in BOOLEAN, Lose(c, online) PROVE NoRaceInv'
      BY <2>2 DEF Lose, NoRaceInv
    <2> QED
      BY <1>4, <2>1, <2>2, AcceptNoRace, SucceedNoRace, RefetchNoRace DEF CallStep
  <1>5. CASE UNCHANGED pageVars
    <2>1. UNCHANGED <<rows, list, current, fetch, call, raced>> /\ UNCHANGED ServerCurrent
      BY <1>5, CurrentIsServed DEF pageVars
    <2>2. UNCHANGED <<Unanswered, Running, Shown, Listed>>
      BY <2>1 DEF Unanswered, Running, Shown, Listed
    <2>3. \A c \in Unanswered : CallShows(c) => CallShows(c)'
      BY <2>1, <2>2 DEF CallShows
    <2> QED
      BY <2>1, <2>2, <2>3 DEF NoRaceInv, AnswersNow, Now, ShowsRunning
  <1> QED
    BY <1>2, <1>3, <1>4, <1>5 DEF PageNext

\* The page never shows two running entries, whatever is started, stopped,
\* edited, deleted and refused, unless a poll is begun while a call waits for its
\* answer, or there is a worse race.
THEOREM OneBlockRuns == PageSafety => []OneRunningBlock
  <1>1. PageInv /\ NoRaceInv => OneRunningBlock
    <2> SUFFICES ASSUME PageInv, NoRaceInv, raced = "no",
                        NEW d \in Shown, NEW e \in Shown, d.run, e.run
                 PROVE  d.id = e.id
      BY DEF OneRunningBlock, RunningBlocks
    <2>1. CASE \E c \in Unanswered : call[c].kind = "start"
      <3>1. \A x \in Listed : ~x.run
        BY <2>1 DEF NoRaceInv, CallShows
      <3> QED
        BY <3>1, EntriesShown
    <2>2. CASE \A c \in Unanswered : call[c].kind # "start"
      <3>1. \A x \in Shown : x.run => \E y \in rows : y.run /\ y.id = x.id
        BY <2>2 DEF NoRaceInv, ShowsRunning, Running
      <3>2. \A x, y \in rows : x.run /\ y.run => x = y
        BY DEF PageInv, RowsFit, OneRuns
      <3> QED
        BY <3>1, <3>2
    <2> QED
      BY <2>1, <2>2
  <1>2. PageInit => PageInv /\ CalmInv /\ NoRaceInv
    BY PageHoldsInitially, CalmInitially, NoRaceInitially
  <1>3. PageInv /\ CalmInv /\ NoRaceInv /\ [PageNext]_pageVars => PageInv' /\ CalmInv' /\ NoRaceInv'
    BY StepKeepsPage, StepKeepsCalm, StepKeepsNoRace
  <1> QED
    BY <1>1, <1>2, <1>3, PTL DEF PageSafety
=============================================================================
