------------------------ MODULE AutosaveForm_proofs ------------------------
(***************************************************************************)
(* Proofs about AutosaveForm for any set of form contents.                 *)
(***************************************************************************)
EXTENDS AutosaveForm, TLAPS

LEMMA InitTyped == Init => TypeOK
  BY NoneIsNoValue DEF Init, TypeOK, Dirty

LEMMA NextTyped == TypeOK /\ [Next]_vars => TypeOK'
  <1> SUFFICES ASSUME TypeOK, [Next]_vars PROVE TypeOK'
    OBVIOUS
  <1> USE NoneIsNoValue DEF TypeOK, Dirty, form, request
  <1>1. ASSUME NEW v \in Values, Edit(v) PROVE TypeOK'
    BY <1>1 DEF Edit
  <1>2. ASSUME NEW v \in Values, OtherWrite(v) PROVE TypeOK'
    BY <1>2 DEF OtherWrite
  <1>3. CASE Refresh
    BY <1>3 DEF Refresh
  <1>4. CASE TimerFires
    BY <1>4 DEF TimerFires
  <1>5. CASE Apply
    BY <1>5 DEF Apply
  <1>6. CASE SaveSucceeds
    BY <1>6 DEF SaveSucceeds, FollowUp
  <1>7. CASE SaveFails
    BY <1>7 DEF SaveFails, FollowUp
  <1>8. CASE Unmount
    BY <1>8 DEF Unmount
  <1>9. CASE UNCHANGED vars
    BY <1>9 DEF vars
  <1> QED
    BY <1>1, <1>2, <1>3, <1>4, <1>5, <1>6, <1>7, <1>8, <1>9 DEF Next, ReliableNext

\* The form, its request and the debounce keep their types.
THEOREM FormTypeCorrect == Spec => []TypeOK
  BY InitTyped, NextTyped, PTL DEF Spec
-----------------------------------------------------------------------------
LEMMA NextSubmits == TypeOK /\ DirtyInputIsSubmitted /\ [Next]_vars => DirtyInputIsSubmitted'
  <1> SUFFICES ASSUME TypeOK, DirtyInputIsSubmitted, [Next]_vars PROVE DirtyInputIsSubmitted'
    OBVIOUS
  <1> USE NoneIsNoValue DEF DirtyInputIsSubmitted, UnderWay, Dirty, form, request
  <1>1. ASSUME NEW v \in Values, Edit(v) PROVE DirtyInputIsSubmitted'
    BY <1>1 DEF Edit
  <1>2. ASSUME NEW v \in Values, OtherWrite(v) PROVE DirtyInputIsSubmitted'
    BY <1>2 DEF OtherWrite
  <1>3. CASE Refresh
    BY <1>3 DEF Refresh
  <1>4. CASE TimerFires
    BY <1>4 DEF TimerFires, TypeOK
  <1>5. CASE Apply
    BY <1>5 DEF Apply
  <1>6. CASE SaveSucceeds
    BY <1>6 DEF SaveSucceeds, FollowUp, TypeOK
  <1>7. CASE SaveFails
    BY <1>7 DEF SaveFails, FollowUp, TypeOK
  <1>8. CASE Unmount
    BY <1>8 DEF Unmount
  <1>9. CASE UNCHANGED vars
    BY <1>9 DEF vars
  <1> QED
    BY <1>1, <1>2, <1>3, <1>4, <1>5, <1>6, <1>7, <1>8, <1>9 DEF Next, ReliableNext

\* What a dirty form holds was acknowledged, was reported as failed, or is
\* under way to the server, whichever requests fail.
THEOREM DirtyInputIsNeverLost == Spec => []DirtyInputIsSubmitted
  <1>1. Init => DirtyInputIsSubmitted
    BY DEF Init, DirtyInputIsSubmitted
  <1> QED
    BY <1>1, InitTyped, NextTyped, NextSubmits, PTL DEF Spec
-----------------------------------------------------------------------------
ReliableInv == TypeOK /\ InputIsSubmitted /\ IdleDefaultsAreSaved

LEMMA ReliableNextSubmits == ReliableInv /\ [ReliableNext]_vars => ReliableInv'
  <1> SUFFICES ASSUME ReliableInv, [ReliableNext]_vars PROVE ReliableInv'
    OBVIOUS
  <1>t. TypeOK'
    BY NextTyped DEF ReliableInv, Next
  <1> DEFINE Goal == InputIsSubmitted' /\ IdleDefaultsAreSaved'
  <1> USE NoneIsNoValue DEF ReliableInv, InputIsSubmitted, IdleDefaultsAreSaved, UnderWay, Dirty, form, request
  <1>1. ASSUME NEW v \in Values, Edit(v) PROVE Goal
    BY <1>1 DEF Edit
  <1>2. ASSUME NEW v \in Values, OtherWrite(v) PROVE Goal
    BY <1>2 DEF OtherWrite
  <1>3. ASSUME Refresh PROVE Goal
    BY <1>3 DEF Refresh
  <1>4. ASSUME TimerFires PROVE Goal
    BY <1>4 DEF TimerFires, TypeOK
  <1>5. ASSUME Apply PROVE Goal
    BY <1>5 DEF Apply
  <1>6. ASSUME SaveSucceeds PROVE Goal
    BY <1>6 DEF SaveSucceeds, FollowUp, TypeOK
  <1>7. ASSUME Unmount PROVE Goal
    BY <1>7 DEF Unmount
  <1>8. ASSUME UNCHANGED vars PROVE Goal
    BY <1>8 DEF vars
  <1> QED
    BY <1>t, <1>1, <1>2, <1>3, <1>4, <1>5, <1>6, <1>7, <1>8 DEF ReliableNext

\* While no save fails, every edit is submitted, including one that returns
\* to the form's defaults; a failure is what it takes to lose one.
THEOREM ReliableInputIsNeverLost == ReliableSpec => []InputIsSubmitted
  <1>1. Init => ReliableInv
    BY InitTyped DEF Init, ReliableInv, InputIsSubmitted, IdleDefaultsAreSaved
  <1>2. ReliableInv => InputIsSubmitted
    BY DEF ReliableInv
  <1> QED
    BY <1>1, <1>2, ReliableNextSubmits, PTL DEF ReliableSpec
=============================================================================
