------------------------------ MODULE Account -------------------------------
(***************************************************************************)
(* One account of identity/application, statement by statement: signup     *)
(* and verification links, login, profile edits, password reset and        *)
(* closing.  A request is a label and the copy of the user it read;        *)
(* between two labels there is one SQL statement (or mail, or lookup) and  *)
(* the decision that follows it.  Every save writes the whole row.         *)
(***************************************************************************)
EXTENDS Naturals, FiniteSets

CONSTANTS
  Requests,   \* handlers that may run at a time
  Passwords,
  NoPassword,
  ResetLimit, \* passwordResetRateLimit, an hour's reset links
  MaxResets   \* bound: reset links in all

ASSUME AccountAssumption ==
  /\ IsFiniteSet(Requests)
  /\ ResetLimit \in Nat /\ MaxResets \in Nat /\ NoPassword \notin Passwords

VARIABLES
  user,       \* the row of identity_users
  retired,    \* history: the passwords it had before
  link,       \* the row of identity_email_verification_tokens
  resets,     \* identity_password_reset_tokens, by id
  sessions,   \* the passwords of the rows whose readers got a session
  timer,      \* a timer runs (tracking, external)
  job,        \* identity_job_records has the stop of the timer
  call,       \* the handlers
  revoked,    \* history: passwords replaced before a reset reported success,
              \* until handlers overlap
  overlapped, \* history: two handlers have run at the same time
  crashed,    \* history: a handler was cut off before any overlapped
  misread     \* history: a failed lookup hid a live link before any overlapped

rows == <<link, resets, sessions, timer, job>>
histories == <<revoked, overlapped, crashed, misread>>
accountVars == <<user, retired, rows, call, histories>>

Resets == 1..MaxResets
NoAccount == [state |-> "none", password |-> NoPassword]
NoLink == [seed |-> NoPassword, age |-> "none"]
Idle == [at |-> "idle", copy |-> NoAccount, reset |-> 0]

AccountInit ==
  /\ user = NoAccount /\ retired = {}
  /\ link = NoLink
  /\ resets = [i \in Resets |-> "none"]
  /\ sessions = {} /\ timer = FALSE /\ job = FALSE
  /\ call = [r \in Requests |-> Idle]
  /\ revoked = {} /\ overlapped = FALSE /\ crashed = FALSE /\ misread = FALSE

\* From the first overlap on the other histories are not kept.
Overlap ==
  /\ overlapped' = TRUE /\ revoked' = {}
  /\ crashed' = FALSE /\ misread' = FALSE

\* A handler begins: it has read copy and goes on at label.
BeginAt(r, label, copy, reset) ==
  /\ call[r].at = "idle"
  /\ call' = [call EXCEPT ![r] = [at |-> label, copy |-> copy, reset |-> reset]]
  /\ IF \E s \in Requests \ {r} : call[s].at # "idle" THEN Overlap
     ELSE UNCHANGED histories

At(r, label) == call[r].at = label

Goto(r, label) ==
  /\ call' = [call EXCEPT ![r] = IF label = "idle" THEN Idle ELSE [@ EXCEPT !.at = label]]
  /\ UNCHANGED histories

\* users.Save: the whole row.
Save(copy) ==
  /\ user' = copy
  /\ retired' = IF copy.password = user.password \/ user = NoAccount THEN retired
                ELSE retired \union {user.password}

UserUnchanged == UNCHANGED <<user, retired>>

\* A password nobody has used: what the user chooses is new.
Fresh ==
  Passwords \ (retired \union {user.password, link.seed} \union {call[r].copy.password : r \in Requests})
-----------------------------------------------------------------------------
(***************************************************************************)
(* Signup.  needs: a verification mail is required; trusted: the caller    *)
(* presented an invite that was mailed to the address.                     *)
(***************************************************************************)
Seeded(p, needs) == [state |-> IF needs THEN "pending" ELSE "active", password |-> p]

\* userForEmail: anything but a pending row is a duplicate address.
Register(r, p, needs, trusted) ==
  /\ trusted => ~needs
  /\ \/ user.state = "none" /\ BeginAt(r, "insert", Seeded(p, needs), 0)
     \/ user.state = "pending" /\ BeginAt(r, IF trusted THEN "reclaim" ELSE "lookup", Seeded(p, needs), 0)
  /\ UserUnchanged /\ UNCHANGED rows

\* Mutant: the link does not protect the row.
ReclaimsAlways == TRUE

\* canReclaimPendingRegistration: a live link protects the row.
Reclaims == link.age \in {"none", "expired"}

LookupLink(r) ==
  /\ At(r, "lookup")
  /\ Goto(r, IF Reclaims THEN "reclaim" ELSE "idle")
  /\ UserUnchanged /\ UNCHANGED rows

\* A lookup that fails counts as no link.
LookupFails(r) ==
  /\ \/ At(r, "lookup") /\ call' = [call EXCEPT ![r].at = "reclaim"]
     \/ At(r, "cooldown") /\ call' = [call EXCEPT ![r].at = "rotate"]
  /\ misread' = (misread \/ (~overlapped /\ At(r, "lookup") /\ ~Reclaims))
  /\ UserUnchanged /\ UNCHANGED <<rows, revoked, overlapped, crashed>>

AfterSave(r) ==
  IF call[r].copy.state = "pending" THEN "link" ELSE IF At(r, "reclaim") THEN "clear" ELSE "session"

\* Mutant: the insert does nothing on a conflict, and the signup goes on.
SaveIgnoringConflict(r) ==
  /\ At(r, "reclaim") \/ At(r, "insert")
  /\ IF At(r, "insert") /\ user # NoAccount THEN UserUnchanged ELSE Save(call[r].copy)
  /\ Goto(r, AfterSave(r))
  /\ UNCHANGED rows

\* The email is unique: a second insert of the address is refused.
SaveRegistration(r) ==
  \/ /\ At(r, "insert") /\ user # NoAccount
     /\ Goto(r, "idle")
     /\ UserUnchanged /\ UNCHANGED rows
  \/ /\ At(r, "reclaim") \/ (At(r, "insert") /\ user = NoAccount)
     /\ Save(call[r].copy)
     /\ Goto(r, AfterSave(r))
     /\ UNCHANGED rows

SaveLink(r) ==
  /\ At(r, "link")
  /\ link' = [seed |-> call[r].copy.password, age |-> "new"]
  /\ Goto(r, "mail")
  /\ UserUnchanged /\ UNCHANGED <<resets, sessions, timer, job>>

MailLink(r) ==
  /\ At(r, "mail")
  /\ Goto(r, "idle") \/ Goto(r, "discard")
  /\ UserUnchanged /\ UNCHANGED rows

\* The link of a mail that was not sent, of an account that is active, or of a resend.
DeleteLink(r) ==
  /\ \/ At(r, "discard") /\ Goto(r, "idle")
     \/ At(r, "clear") /\ Goto(r, "session")
     \/ At(r, "rotate") /\ Goto(r, "resend")
  /\ link' = NoLink
  /\ UserUnchanged /\ UNCHANGED <<resets, sessions, timer, job>>

\* Its failure is only logged, except for a resend.
DeleteLinkFails(r) ==
  /\ \/ At(r, "discard") /\ Goto(r, "idle")
     \/ At(r, "clear") /\ Goto(r, "session")
  /\ UserUnchanged /\ UNCHANGED rows

\* issueSession
IssueSession(r) ==
  /\ At(r, "session")
  /\ sessions' = sessions \union {call[r].copy.password}
  /\ Goto(r, "idle")
  /\ UserUnchanged /\ UNCHANGED <<link, resets, timer, job>>
-----------------------------------------------------------------------------
(***************************************************************************)
(* Links.                                                                  *)
(***************************************************************************)
\* VerifyEmail finds the link by its token.
VerifyEmail(r) ==
  /\ link.age \in {"new", "live"}
  /\ BeginAt(r, "verify", NoAccount, 0)
  /\ UserUnchanged /\ UNCHANGED rows

\* Mutant: any account that is not active is activated.
ActivatesInactive == user.state # "active"

\* Activate
Activates == user.state = "pending"

ReadForVerify(r) ==
  /\ At(r, "verify")
  /\ IF Activates
     THEN /\ call' = [call EXCEPT ![r].at = "activate", ![r].copy = [user EXCEPT !.state = "active"]]
          /\ UNCHANGED histories
     ELSE Goto(r, "idle")
  /\ UserUnchanged /\ UNCHANGED rows

SaveActivated(r) ==
  /\ At(r, "activate")
  /\ Save(call[r].copy)
  /\ Goto(r, "clear")
  /\ UNCHANGED rows

ResendVerificationEmail(r) ==
  /\ user.state = "pending"
  /\ BeginAt(r, "cooldown", user, 0)
  /\ UserUnchanged /\ UNCHANGED rows

CheckCooldown(r) ==
  /\ At(r, "cooldown")
  /\ Goto(r, IF link.age = "new" THEN "idle" ELSE "rotate")
  /\ UserUnchanged /\ UNCHANGED rows

\* The mail that follows changes nothing, sent or not.
SaveFreshLink(r) ==
  /\ At(r, "resend")
  /\ link' = [seed |-> call[r].copy.password, age |-> "new"]
  /\ Goto(r, "idle")
  /\ UserUnchanged /\ UNCHANGED <<resets, sessions, timer, job>>

\* The cooldown of a link ends, then its validity.
LinkAges ==
  /\ \/ link.age = "new" /\ link' = [link EXCEPT !.age = "live"]
     \/ link.age = "live" /\ link' = [link EXCEPT !.age = "expired"]
  /\ UserUnchanged /\ UNCHANGED <<resets, sessions, timer, job, call, histories>>
-----------------------------------------------------------------------------
(***************************************************************************)
(* An active account: login, profile and preferences, password reset.      *)
(***************************************************************************)
LoginBasic(r) ==
  /\ user.state = "active"
  /\ BeginAt(r, "session", user, 0)
  /\ UserUnchanged /\ UNCHANGED rows

Logout ==
  /\ sessions # {}
  /\ \E p \in sessions : sessions' = sessions \ {p}
  /\ UserUnchanged /\ UNCHANGED <<link, resets, timer, job, call, histories>>

\* The handlers that read the row, set a field and save; the profile may set the password.
Edit(r) ==
  /\ user.state = "active"
  /\ \E p \in Fresh \union {user.password} : BeginAt(r, "edit", [user EXCEPT !.password = p], 0)
  /\ UserUnchanged /\ UNCHANGED rows

SaveEdit(r) ==
  /\ At(r, "edit")
  /\ Save(call[r].copy)
  /\ Goto(r, "idle")
  /\ UNCHANGED rows

RequestPasswordReset(r) ==
  /\ user.state = "active"
  /\ BeginAt(r, "count", user, 0)
  /\ UserUnchanged /\ UNCHANGED rows

Recent == {i \in Resets : resets[i] \in {"unused", "consumed"}}

\* Mutant: links that were used are not counted.
UnusedCount == Cardinality({i \in Recent : resets[i] = "unused"})

\* CountRecentForUser
RecentCount == Cardinality(Recent)

CountRecent(r) ==
  /\ At(r, "count")
  /\ Goto(r, IF RecentCount >= ResetLimit THEN "idle" ELSE "token")
  /\ UserUnchanged /\ UNCHANGED rows

SaveReset(r) ==
  /\ At(r, "token")
  /\ \E i \in Resets :
       /\ resets[i] = "none" /\ \A j \in Resets : j < i => resets[j] # "none"
       /\ resets' = [resets EXCEPT ![i] = "unused"]
       /\ call' = [call EXCEPT ![r].at = "resetMail", ![r].reset = i]
  /\ UserUnchanged /\ UNCHANGED <<link, sessions, timer, job, histories>>

MailReset(r) ==
  /\ At(r, "resetMail")
  /\ \/ Goto(r, "idle") /\ UNCHANGED resets
     \/ Goto(r, "idle") /\ resets' = [resets EXCEPT ![call[r].reset] = "gone"]
  /\ UserUnchanged /\ UNCHANGED <<link, sessions, timer, job>>

\* An hour passes: the links expire and are not counted any more.
HourPasses ==
  /\ Recent # {}
  /\ resets' = [i \in Resets |-> IF i \in Recent THEN "gone" ELSE resets[i]]
  /\ UserUnchanged /\ UNCHANGED <<link, sessions, timer, job, call, histories>>

ResetPassword(r) ==
  /\ \E i \in Resets : resets[i] = "unused" /\ BeginAt(r, "resetUser", NoAccount, i)
  /\ UserUnchanged /\ UNCHANGED rows

ReadForReset(r) ==
  /\ At(r, "resetUser")
  /\ IF user.state = "active"
     THEN /\ \E p \in Fresh :
               call' = [call EXCEPT ![r].at = "resetSave", ![r].copy = [user EXCEPT !.password = p]]
          /\ UNCHANGED histories
     ELSE Goto(r, "idle")
  /\ UserUnchanged /\ UNCHANGED rows

SavePassword(r) ==
  /\ At(r, "resetSave")
  /\ Save(call[r].copy)
  /\ Goto(r, "consume")
  /\ UNCHANGED rows

MarkConsumed(r) ==
  /\ At(r, "consume")
  /\ resets' = IF resets[call[r].reset] = "unused" THEN [resets EXCEPT ![call[r].reset] = "consumed"] ELSE resets
  /\ Goto(r, "purge")
  /\ UserUnchanged /\ UNCHANGED <<link, sessions, timer, job>>

\* Mutant: the sessions survive.
SessionsStay(r) == sessions

\* DeleteByUserID
SessionsLeft(r) == {}

PurgeSessions(r) ==
  /\ At(r, "purge")
  /\ sessions' = SessionsLeft(r)
  /\ revoked' = IF overlapped THEN revoked ELSE retired
  /\ call' = [call EXCEPT ![r] = Idle]
  /\ UserUnchanged /\ UNCHANGED <<link, resets, timer, job, overlapped, crashed, misread>>
-----------------------------------------------------------------------------
(***************************************************************************)
(* Closing the account, and the timer it leaves behind.                    *)
(***************************************************************************)
StartTimer(r) ==
  /\ user.state = "active"
  /\ BeginAt(r, "timer", user, 0)
  /\ UserUnchanged /\ UNCHANGED rows

RunTimer(r) ==
  /\ At(r, "timer")
  /\ timer' = TRUE
  /\ Goto(r, "idle")
  /\ UserUnchanged /\ UNCHANGED <<link, resets, sessions, job>>

StopTimer ==
  /\ timer /\ user.state = "active"
  /\ timer' = FALSE
  /\ IF \E r \in Requests : ~At(r, "idle") THEN Overlap
     ELSE UNCHANGED histories
  /\ UserUnchanged /\ UNCHANGED <<link, resets, sessions, job, call>>

\* The person closes the account.  The caller is signed in, so the row was active;
\* the domain itself refuses deleted users only.
Deactivate(r) ==
  /\ user.state = "active"
  /\ BeginAt(r, "hasTimer", user, 0)
  /\ UserUnchanged /\ UNCHANGED rows

HasRunningTimer(r) ==
  /\ At(r, "hasTimer")
  /\ Goto(r, IF timer THEN "closeRunning" ELSE "close")
  /\ UserUnchanged /\ UNCHANGED rows

SaveClosed(r) ==
  /\ At(r, "closeRunning") \/ At(r, "close")
  /\ Save([call[r].copy EXCEPT !.state = "deactivated"])
  /\ Goto(r, IF At(r, "close") THEN "idle" ELSE "record")
  /\ UNCHANGED rows

\* Mutant: the failure is only logged.
RecordFailsQuietly == "idle"

\* Where a failed record leads: the rollback.
AfterFailedRecord == "undo"

RecordJob(r) ==
  /\ At(r, "record")
  /\ \/ job' = TRUE /\ Goto(r, "idle")
     \/ UNCHANGED job /\ Goto(r, AfterFailedRecord)
  /\ UserUnchanged /\ UNCHANGED <<link, resets, sessions, timer>>

Undo(r) ==
  /\ At(r, "undo")
  /\ Save(call[r].copy)
  /\ Goto(r, "idle")
  /\ UNCHANGED rows
-----------------------------------------------------------------------------
\* A statement fails where the handler only returns the error.
Fail(r) ==
  /\ call[r].at \notin {"idle", "lookup", "cooldown", "mail", "discard", "clear", "record", "undo", "resetMail"}
  /\ Goto(r, "idle")
  /\ UserUnchanged /\ UNCHANGED rows

\* The process stops, or the rollback of a closing fails.
Crash(r) ==
  /\ ~At(r, "idle")
  /\ call' = [call EXCEPT ![r] = Idle]
  /\ crashed' = (crashed \/ ~overlapped)
  /\ UserUnchanged /\ UNCHANGED <<rows, revoked, overlapped, misread>>

Begin(r) ==
  \/ \E p \in Fresh, needs \in BOOLEAN, trusted \in BOOLEAN : Register(r, p, needs, trusted)
  \/ VerifyEmail(r) \/ ResendVerificationEmail(r)
  \/ LoginBasic(r) \/ Edit(r)
  \/ RequestPasswordReset(r) \/ ResetPassword(r)
  \/ StartTimer(r) \/ Deactivate(r)

Continue(r) ==
  \/ LookupLink(r) \/ LookupFails(r) \/ SaveRegistration(r) \/ SaveLink(r) \/ MailLink(r)
  \/ DeleteLink(r) \/ DeleteLinkFails(r) \/ IssueSession(r)
  \/ ReadForVerify(r) \/ SaveActivated(r) \/ CheckCooldown(r) \/ SaveFreshLink(r)
  \/ SaveEdit(r) \/ CountRecent(r) \/ SaveReset(r) \/ MailReset(r)
  \/ ReadForReset(r) \/ SavePassword(r) \/ MarkConsumed(r) \/ PurgeSessions(r)
  \/ RunTimer(r) \/ HasRunningTimer(r) \/ SaveClosed(r) \/ RecordJob(r) \/ Undo(r)

AccountNext ==
  \/ \E r \in Requests : Begin(r) \/ Continue(r) \/ Fail(r) \/ Crash(r)
  \/ LinkAges \/ HourPasses \/ Logout \/ StopTimer

AccountSpec == AccountInit /\ [][AccountNext]_accountVars
-----------------------------------------------------------------------------
\* Where a handler stands: nothing read yet, a signup to save, a row that is
\* pending or active, as the handler has read or saved it.
Blank == {"idle", "verify", "resetUser"}
OfSignup == {"insert", "lookup", "reclaim"}
OfPending == {"link", "mail", "discard", "cooldown", "rotate", "resend"}
OfActive ==
  {"clear", "session", "activate", "count", "token", "resetMail", "consume", "purge", "timer",
   "hasTimer", "closeRunning", "close", "record", "undo", "edit", "resetSave"}
Labels == Blank \union OfSignup \union OfPending \union OfActive

Users == [state : {"none", "pending", "active", "deactivated"}, password : Passwords \union {NoPassword}]

\* The types, and where passwords come from: a session and a link belong to a
\* password that was saved, whatever handlers overlap.
AccountTypeOK ==
  /\ user \in Users /\ retired \subseteq Passwords
  /\ link \in [seed : Passwords \union {NoPassword}, age : {"none", "new", "live", "expired"}]
  /\ resets \in [Resets -> {"none", "unused", "consumed", "gone"}]
  /\ timer \in BOOLEAN /\ job \in BOOLEAN
  /\ call \in [Requests -> [at : Labels, copy : Users, reset : {0} \union Resets]]
  /\ revoked \subseteq retired
  /\ sessions \subseteq retired \union {user.password}
  /\ link # NoLink => link.seed \in retired \union {user.password}

\* A closing is final when its handler needs no rollback any more.
Closing == user.state = "deactivated" /\ \E r \in Requests : At(r, "record") \/ At(r, "undo")

Life == INSTANCE AccountLife WITH user <- [user EXCEPT !.state = IF Closing THEN "closing" ELSE @]

\* As long as no two handlers overlap, and wherever they fail or are cut off,
\* each of their steps is one the account may take: it never falls back to
\* pending, a closing is taken back only by its own handler, and a password
\* that was replaced never returns.
AloneItLives == [][~overlapped' => Life!LifeNext]_(Life!lifeVars)

\* A verification link that can still be clicked confirms the credentials it
\* was mailed for: as long as no lookup of it fails, a signup does not take the
\* row over under a live link.
LinkMatchesCredentials ==
  ~overlapped /\ ~misread /\ user.state = "pending" /\ link.age \in {"new", "live"}
    => link.seed = user.password

\* A password reset that reported success left no session of an older password.
ResetRevokesSessions == ~overlapped => sessions \intersect revoked = {}

\* An hour has at most ResetLimit reset links, and when handlers overlap at
\* most one more for each of the others.
ResetsAreLimited ==
  Cardinality(Recent) <= ResetLimit + IF overlapped THEN Cardinality(Requests) - 1 ELSE 0

\* Deactivation and the handoff of the running timer are atomic: between
\* handlers, a closed account has no timer or a job that stops it.
ClosedTimerHasJob ==
  (/\ ~overlapped /\ ~crashed
   /\ user.state = "deactivated" /\ timer
   /\ \A r \in Requests : At(r, "idle"))
    => job
=============================================================================
