---------------------------- MODULE AutosaveForm ----------------------------
(***************************************************************************)
(* useAutosaveForm: a mounted form of the web client that saves itself     *)
(* 900 ms after the last edit, one request at a time.  A whole form is one *)
(* value; the form library's isDirty is values # defaults.  Each action is *)
(* one turn of the event loop with the effects of the render it causes.    *)
(* The server (external) is written by these requests and by other         *)
(* clients, and the query cache delivers what it holds as initialValues.   *)
(***************************************************************************)
CONSTANTS
  Values,  \* contents of the form
  None     \* no request, no report

ASSUME NoneIsNoValue == None \notin Values

VARIABLES
  values, defaults,  \* the form's contents, and what isDirty compares them with
  initial,           \* options.initialValues of the last render
  saved,             \* the last acknowledged contents
  inFlight,          \* the snapshot being saved, None between saves
  applied,           \* the server has processed that save
  timer,             \* the debounce runs
  mounted,
  reported,          \* contents the last onError was about, None after a success
  server             \* what the server holds

form == <<values, defaults, saved, timer, mounted, reported>>
request == <<inFlight, applied>>
vars == <<form, request, initial, server>>

Dirty == values # defaults

Init ==
  /\ \E v \in Values : values = v /\ defaults = v /\ initial = v /\ saved = v /\ server = v
  /\ inFlight = None
  /\ applied = FALSE
  /\ timer = FALSE
  /\ mounted = TRUE
  /\ reported = None

\* Mutant: an edit that returns to the defaults lets the debounce run on.
EditKeepingTimer(v) ==
  /\ mounted
  /\ v # values
  /\ values' = v
  /\ timer' = TRUE
  /\ UNCHANGED <<defaults, saved, mounted, reported, request, initial, server>>

\* Each edit restarts the debounce; one that returns to the defaults stops it.
Edit(v) ==
  /\ mounted
  /\ v # values
  /\ values' = v
  /\ timer' = (v # defaults)
  /\ UNCHANGED <<defaults, saved, mounted, reported, request, initial, server>>

\* The query cache has new values: the effect resets an idle, clean form.
Refresh ==
  /\ mounted
  /\ server # initial
  /\ initial' = server
  /\ IF inFlight = None /\ ~Dirty
     THEN values' = server /\ defaults' = server /\ saved' = server
     ELSE UNCHANGED <<values, defaults, saved>>
  /\ UNCHANGED <<timer, mounted, reported, request, server>>

\* The debounce ends: saveLatest, which leaves a save in flight alone and
\* does not submit what was acknowledged last.
TimerFires ==
  /\ timer
  /\ timer' = FALSE
  /\ inFlight' = IF inFlight = None /\ values # saved THEN values ELSE inFlight
  /\ UNCHANGED <<values, defaults, saved, mounted, reported, applied, initial, server>>

Apply ==
  /\ inFlight # None
  /\ ~applied
  /\ applied' = TRUE
  /\ server' = inFlight
  /\ UNCHANGED <<form, inFlight, initial>>

\* Mutant: edits made during a save wait for the next debounce.
NoFollowUp(acknowledged) == None

\* What saveLatest submits when a save has settled: edits made meanwhile.
FollowUp(acknowledged) ==
  IF mounted /\ values # inFlight /\ values # acknowledged THEN values ELSE None

\* An acknowledged form that still holds the snapshot becomes clean.
SaveSucceeds ==
  /\ applied
  /\ saved' = inFlight
  /\ IF mounted /\ values = inFlight
     THEN defaults' = inFlight /\ timer' = FALSE
     ELSE UNCHANGED <<defaults, timer>>
  /\ inFlight' = FollowUp(inFlight)
  /\ applied' = FALSE
  /\ reported' = IF mounted THEN None ELSE reported
  /\ UNCHANGED <<values, mounted, initial, server>>

\* The request may have been applied before the connection was lost.
SaveFails ==
  /\ inFlight # None
  /\ inFlight' = FollowUp(saved)
  /\ applied' = FALSE
  /\ reported' = IF mounted THEN inFlight ELSE reported
  /\ UNCHANGED <<values, defaults, saved, timer, mounted, initial, server>>

Unmount ==
  /\ mounted
  /\ mounted' = FALSE
  /\ timer' = FALSE
  /\ UNCHANGED <<values, defaults, saved, reported, request, initial, server>>

OtherWrite(v) ==
  /\ v # server
  /\ server' = v
  /\ UNCHANGED <<form, request, initial>>

ReliableNext ==
  \/ \E v \in Values : Edit(v) \/ OtherWrite(v)
  \/ Refresh \/ TimerFires \/ Apply \/ SaveSucceeds \/ Unmount

Next == ReliableNext \/ SaveFails

Spec == Init /\ [][Next]_vars

\* No request is lost and the server accepts every one.
ReliableSpec == Init /\ [][ReliableNext]_vars

\* Timers fire and requests settle.
FairSpec == Spec /\ WF_vars(TimerFires) /\ WF_vars(SaveSucceeds \/ SaveFails)
-----------------------------------------------------------------------------
(***************************************************************************)
(* Properties.                                                             *)
(***************************************************************************)

\* The debounce runs only on a dirty, mounted form, and only a request that
\* exists has been processed.
TypeOK ==
  /\ {values, defaults, initial, saved, server} \subseteq Values
  /\ {inFlight, reported} \subseteq Values \cup {None}
  /\ {timer, mounted, applied} \subseteq BOOLEAN
  /\ timer => mounted /\ Dirty
  /\ applied => inFlight # None

UnderWay == timer \/ inFlight # None

\* "A later edit survives both success and failure of the older write":
\* however edits, debounces, acknowledgements and refreshes interleave, what
\* a dirty form holds was acknowledged, was reported as failed, or is under
\* way to the server.
DirtyInputIsSubmitted ==
  mounted /\ Dirty /\ values # saved => UnderWay \/ reported = values

\* "Newer values are submitted after the current attempt settles, including
\* reverting to the original value" (continuous-operations.md): the same of
\* every form, also one that was edited back to its defaults.
InputIsSubmitted ==
  mounted /\ values # saved => UnderWay \/ reported = values

\* Input the user leaves alone is acknowledged or reported in the end.
DirtyInputSettles ==
  \A v \in Values :
    mounted /\ Dirty /\ values = v ~> saved = v \/ reported = v \/ values # v \/ ~mounted

\* Between saves a form that never met a failure has acknowledged defaults:
\* with it InputIsSubmitted is inductive.
IdleDefaultsAreSaved == mounted /\ inFlight = None => defaults = saved
=============================================================================
