--------------------------- MODULE Account_proofs ---------------------------
(***************************************************************************)
(* What the handlers of an account guarantee for every number of handlers, *)
(* passwords and reset links.                                              *)
(***************************************************************************)
EXTENDS Account, FiniteSetTheorems, TLAPS

(***************************************************************************)
(* Types, whatever handlers overlap.  A handler carries the password of a  *)
(* row that was saved, unless it is still on its way to save a new one.    *)
(***************************************************************************)
Proposing == {"insert", "lookup", "reclaim", "edit", "resetSave"}

Known == (retired \union {user.password}) \ {NoPassword}

CallType == [Requests -> [at : Labels, copy : Users, reset : {0} \union Resets]]

\* What a handler at label has read, or is about to save.
CopyFits(label, copy, known) ==
  /\ label \in Labels
  /\ label \in Blank => copy = NoAccount
  /\ label \notin Blank => copy.password \in Passwords
  /\ label \in OfSignup => copy.state \in {"pending", "active"}
  /\ label \in OfPending => copy.state = "pending"
  /\ label \in OfActive => copy.state = "active"
  /\ label \notin Blank \union Proposing => copy.password \in known

UserTyped ==
  /\ user \in Users /\ retired \subseteq Passwords
  /\ user.state = "none" => user = NoAccount /\ retired = {}
  /\ user.state # "none" => user.password \in Passwords

RowsTyped ==
  /\ link \in [seed : Passwords \union {NoPassword}, age : {"none", "new", "live", "expired"}]
  /\ resets \in [Resets -> {"none", "unused", "consumed", "gone"}]
  /\ timer \in BOOLEAN /\ job \in BOOLEAN
  /\ sessions \subseteq Known
  /\ link # NoLink => link.seed \in Known

HistoriesTyped ==
  /\ revoked \subseteq retired
  /\ overlapped \in BOOLEAN /\ crashed \in BOOLEAN /\ misread \in BOOLEAN

CallTyped ==
  /\ call \in CallType
  /\ \A r \in Requests : CopyFits(call[r].at, call[r].copy, Known)

TypeInv == UserTyped /\ RowsTyped /\ HistoriesTyped /\ CallTyped

LEMMA NoAccountTyped == NoAccount \in Users
  BY DEF NoAccount, Users

LEMMA IdleTyped == Idle \in [at : Labels, copy : Users, reset : {0} \union Resets]
  <1>1. "idle" \in Labels /\ 0 \in {0} \union Resets
    BY DEF Labels, Blank
  <1> HIDE DEF Resets, Users, NoAccount, Labels
  <1> QED
    BY <1>1, NoAccountTyped DEF Idle

LEMMA TypesHoldInitially == AccountInit => TypeInv
  <1> SUFFICES ASSUME AccountInit PROVE TypeInv
    OBVIOUS
  <1> USE AccountAssumption DEF AccountInit
  <1>1. UserTyped
    BY DEF UserTyped, Users, NoAccount
  <1>2. RowsTyped
    BY DEF RowsTyped, NoLink
  <1>3. HistoriesTyped
    BY DEF HistoriesTyped
  <1>5. \A r \in Requests : call[r].at = "idle" /\ call[r].copy = NoAccount
    BY DEF Idle
  <1>6. CallTyped
    BY IdleTyped, <1>5
    DEF CallTyped, CallType, CopyFits, Labels, Blank, Proposing, OfSignup, OfPending, OfActive
  <1> QED
    BY <1>1, <1>2, <1>3, <1>6 DEF TypeInv

LEMMA TypesAreOK == TypeInv => AccountTypeOK
  BY DEF TypeInv, UserTyped, RowsTyped, HistoriesTyped, CallTyped, CallType, AccountTypeOK, Known

(***************************************************************************)
(* A step of handler r leads it to label with copy, and no other anywhere. *)
(***************************************************************************)
Moved(r, label, copy) ==
  /\ call' \in CallType
  /\ call'[r].at = label /\ call'[r].copy = copy
  /\ \A s \in Requests \ {r} : call'[s] = call[s]

LEMMA GotoMoves ==
  ASSUME call \in CallType, NEW r \in Requests, NEW label \in Labels, Goto(r, label)
  PROVE  Moved(r, label, IF label = "idle" THEN NoAccount ELSE call[r].copy)
  BY DEF Goto, Moved, CallType, Idle, NoAccount, Users

LEMMA BeginMoves ==
  ASSUME call \in CallType, NEW r \in Requests, NEW label \in Labels, NEW copy \in Users,
         NEW i \in {0} \union Resets, BeginAt(r, label, copy, i)
  PROVE  Moved(r, label, copy)
  BY DEF BeginAt, Moved, CallType

\* What a save does to the row, and to the passwords that are known.
LEMMA SaveTypes ==
  ASSUME UserTyped, NEW copy \in Users, copy.state # "none", copy.password \in Passwords, Save(copy)
  PROVE  UserTyped' /\ Known \subseteq Known' /\ copy.password \in Known' /\ retired \subseteq retired'
  BY AccountAssumption DEF UserTyped, Known, Save, Users, NoAccount

LEMMA SaveKeepsRows ==
  ASSUME TypeInv, Known \subseteq Known', UNCHANGED rows
  PROVE  RowsTyped'
  BY DEF TypeInv, RowsTyped, rows

LEMMA UserStays ==
  ASSUME UserUnchanged
  PROVE  Known' = Known /\ user' = user /\ retired' = retired /\ (UserTyped => UserTyped')
  BY DEF UserUnchanged, Known, UserTyped

\* The step of one handler, its effect on the rows apart.
LEMMA MoveKeepsTypes ==
  ASSUME TypeInv, UserTyped', RowsTyped', HistoriesTyped', Known \subseteq Known',
         NEW r \in Requests, NEW label, NEW copy, Moved(r, label, copy),
         CopyFits(label, copy, Known')
  PROVE  TypeInv'
  <1>1. ASSUME NEW s \in Requests PROVE CopyFits(call'[s].at, call'[s].copy, Known')
    <2>1. CASE s = r
      BY <2>1 DEF Moved
    <2>2. CASE s # r
      BY <2>2 DEF Moved, TypeInv, CallTyped, CopyFits
    <2> QED
      BY <2>1, <2>2
  <1>2. call' \in CallType
    BY DEF Moved
  <1>3. CallTyped'
    BY <1>1, <1>2 DEF CallTyped, CallType, Users, Resets
  <1> QED
    BY <1>3 DEF TypeInv

LEMMA IdleFits == ASSUME NEW known PROVE CopyFits("idle", NoAccount, known)
  BY DEF CopyFits, Labels, Blank, OfSignup, OfPending, OfActive, Proposing

\* Where Goto leads to with the copy the handler has.
LEMMA GotoKeepsTypes ==
  ASSUME TypeInv, UserTyped', RowsTyped', Known \subseteq Known', retired \subseteq retired',
         NEW r \in Requests, NEW label \in Labels, Goto(r, label),
         label = "idle" \/ CopyFits(label, call[r].copy, Known')
  PROVE  TypeInv'
  <1>1. Moved(r, label, IF label = "idle" THEN NoAccount ELSE call[r].copy)
    BY GotoMoves DEF TypeInv, CallTyped
  <1>2. HistoriesTyped'
    BY DEF TypeInv, HistoriesTyped, Goto, histories
  <1>3. CASE label = "idle"
    BY <1>1, <1>2, <1>3, IdleFits, MoveKeepsTypes
  <1>4. CASE label # "idle"
    BY <1>1, <1>2, <1>4, MoveKeepsTypes
  <1> QED
    BY <1>3, <1>4

LEMMA BeginKeepsTypes ==
  ASSUME TypeInv, UserUnchanged, UNCHANGED rows,
         NEW r \in Requests, NEW label \in Labels, NEW copy \in Users, NEW i \in {0} \union Resets,
         BeginAt(r, label, copy, i), CopyFits(label, copy, Known)
  PROVE  TypeInv'
  <1>1. Moved(r, label, copy)
    BY BeginMoves DEF TypeInv, CallTyped
  <1>2. HistoriesTyped'
    BY DEF TypeInv, HistoriesTyped, BeginAt, histories, Overlap, UserUnchanged
  <1>3. UserTyped' /\ Known' = Known
    BY UserStays DEF TypeInv
  <1>4. RowsTyped'
    BY <1>3, SaveKeepsRows
  <1> QED
    BY <1>1, <1>2, <1>3, <1>4, MoveKeepsTypes

LEMMA QuietKeepsTypes ==
  ASSUME TypeInv, UserUnchanged, UNCHANGED rows,
         NEW r \in Requests, NEW label \in Labels, Goto(r, label),
         label = "idle" \/ CopyFits(label, call[r].copy, Known)
  PROVE  TypeInv'
  <1>1. UserTyped' /\ Known' = Known /\ retired' = retired
    BY UserStays DEF TypeInv
  <1>2. RowsTyped'
    BY <1>1, SaveKeepsRows
  <1> QED
    BY <1>1, <1>2, GotoKeepsTypes

LEMMA LabelsAre ==
  /\ "idle" \in Labels /\ "verify" \in Labels /\ "resetUser" \in Labels
  /\ "insert" \in Labels /\ "lookup" \in Labels /\ "reclaim" \in Labels
  /\ "link" \in Labels /\ "mail" \in Labels /\ "discard" \in Labels
  /\ "cooldown" \in Labels /\ "rotate" \in Labels /\ "resend" \in Labels
  /\ "clear" \in Labels /\ "session" \in Labels /\ "activate" \in Labels
  /\ "count" \in Labels /\ "token" \in Labels /\ "resetMail" \in Labels
  /\ "consume" \in Labels /\ "purge" \in Labels /\ "timer" \in Labels
  /\ "hasTimer" \in Labels /\ "closeRunning" \in Labels /\ "close" \in Labels
  /\ "record" \in Labels /\ "undo" \in Labels /\ "edit" \in Labels /\ "resetSave" \in Labels
  BY DEF Labels, Blank, OfSignup, OfPending, OfActive

LEMMA RowFits ==
  ASSUME TypeInv, user.state \in {"pending", "active"}
  PROVE  user \in Users /\ user.password \in Passwords /\ user.password \in Known
  BY AccountAssumption DEF TypeInv, UserTyped, Known

\* A row that was just read fits its state.
LEMMA ReadFits ==
  ASSUME TypeInv, NEW label \in Labels,
         \/ user.state = "active" /\ label \in OfActive
         \/ user.state = "pending" /\ label \in OfPending
  PROVE  CopyFits(label, user, Known)
  BY RowFits DEF CopyFits, Labels, Blank, OfSignup, OfPending, OfActive

LEMMA FreshIs == Fresh \subseteq Passwords /\ Fresh \intersect (retired \union {user.password}) = {}
  BY DEF Fresh

LEMMA SeededFits ==
  ASSUME NEW p \in Passwords, NEW needs \in BOOLEAN, NEW label \in OfSignup, NEW known
  PROVE  Seeded(p, needs) \in Users /\ CopyFits(label, Seeded(p, needs), known)
  BY DEF Seeded, Users, CopyFits, Labels, Blank, OfSignup, OfPending, OfActive, Proposing

LEMMA ProposalFits ==
  ASSUME TypeInv, user.state = "active", NEW p \in Passwords, NEW label \in {"edit", "resetSave"}
  PROVE  [user EXCEPT !.password = p] \in Users /\ CopyFits(label, [user EXCEPT !.password = p], Known)
  <1> DEFINE c == [user EXCEPT !.password = p]
  <1>1. c.state = "active" /\ c.password = p /\ c \in Users
    BY RowFits DEF Users
  <1> HIDE DEF c
  <1>2. CopyFits(label, c, Known)
    BY <1>1 DEF CopyFits, Labels, Blank, OfSignup, OfPending, OfActive, Proposing
  <1> QED
    BY <1>1, <1>2 DEF c

LEMMA BeginTypes == ASSUME TypeInv, NEW r \in Requests, Begin(r) PROVE TypeInv'
  <1> USE LabelsAre
  <1>1. ASSUME NEW p \in Fresh, NEW needs \in BOOLEAN, NEW trusted \in BOOLEAN,
               Register(r, p, needs, trusted)
        PROVE  TypeInv'
    <2>1. PICK label \in OfSignup : BeginAt(r, label, Seeded(p, needs), 0)
      BY <1>1 DEF Register, OfSignup
    <2>2. Seeded(p, needs) \in Users /\ CopyFits(label, Seeded(p, needs), Known)
      BY FreshIs, SeededFits
    <2>3. label \in Labels /\ UserUnchanged /\ UNCHANGED rows
      BY <1>1 DEF Register, Labels
    <2> QED
      BY <2>1, <2>2, <2>3, BeginKeepsTypes
  <1>2. CASE VerifyEmail(r)
    BY <1>2, NoAccountTyped, BeginKeepsTypes DEF VerifyEmail, CopyFits, Blank, OfSignup, OfPending, OfActive
  <1>3. CASE ResetPassword(r)
    BY <1>3, NoAccountTyped, BeginKeepsTypes DEF ResetPassword, CopyFits, Blank, OfSignup, OfPending, OfActive
  <1>4. CASE Edit(r)
    <2>1. PICK p \in Passwords : BeginAt(r, "edit", [user EXCEPT !.password = p], 0)
      BY <1>4, FreshIs, RowFits DEF Edit
    <2>2. user.state = "active" /\ UserUnchanged /\ UNCHANGED rows
      BY <1>4 DEF Edit
    <2> QED
      BY <2>1, <2>2, ProposalFits, BeginKeepsTypes
  <1>5. ASSUME NEW label \in {"session", "count", "timer", "hasTimer"}, user.state = "active",
               BeginAt(r, label, user, 0), UserUnchanged, UNCHANGED rows
        PROVE  TypeInv'
    <2>1. CopyFits(label, user, Known)
      BY <1>5, ReadFits DEF OfActive
    <2> QED
      BY <1>5, <2>1, RowFits, BeginKeepsTypes
  <1>6. CASE ResendVerificationEmail(r)
    <2>1. CopyFits("cooldown", user, Known)
      BY <1>6, ReadFits DEF ResendVerificationEmail, OfPending
    <2> QED
      BY <1>6, <2>1, RowFits, BeginKeepsTypes DEF ResendVerificationEmail
  <1> QED
    BY <1>1, <1>2, <1>3, <1>4, <1>5, <1>6
    DEF Begin, LoginBasic, RequestPasswordReset, StartTimer, Deactivate

\* Steps along one list of labels keep the copy fitting.
LEMMA NextLabelFits ==
  ASSUME TypeInv, NEW r \in Requests, NEW label \in Labels,
         \/ call[r].at = "lookup" /\ label = "reclaim"
         \/ call[r].at \in OfPending /\ label \in OfPending
         \/ call[r].at \in OfActive \ Proposing /\ label \in OfActive
  PROVE  CopyFits(label, call[r].copy, Known)
  BY DEF TypeInv, CallTyped, CopyFits, Labels, Blank, OfSignup, OfPending, OfActive, Proposing

LEMMA HandlerTyped ==
  ASSUME TypeInv, NEW r \in Requests
  PROVE  /\ call \in CallType /\ call[r].copy \in Users
         /\ call[r].at \in Labels
         /\ CopyFits(call[r].at, call[r].copy, Known)
         /\ call[r].at \notin Blank =>
              call[r].copy.password \in Passwords /\ call[r].copy.state \in {"pending", "active"}
  BY DEF TypeInv, CallTyped, CallType, CopyFits, Labels, Blank, OfSignup, OfPending, OfActive

\* A handler that saves its copy goes on with a password that is known.
LEMMA SaveMoves ==
  ASSUME TypeInv, NEW r \in Requests, call[r].at \notin Blank, Save(call[r].copy), UNCHANGED rows,
         NEW label \in Labels, Goto(r, label),
         \/ label = "idle"
         \/ call[r].copy.state = "pending" /\ label \in OfPending
         \/ call[r].copy.state = "active" /\ label \in OfActive
  PROVE  TypeInv'
  <1> DEFINE c == call[r].copy
  <1>1. c \in Users /\ c.password \in Passwords /\ c.state \in {"pending", "active"}
    BY HandlerTyped
  <1>2. Save(c) /\ UserTyped
    BY DEF TypeInv
  <1> HIDE DEF c
  <1>3. UserTyped' /\ Known \subseteq Known' /\ c.password \in Known' /\ retired \subseteq retired'
    BY <1>1, <1>2, SaveTypes
  <1>4. RowsTyped'
    BY <1>3, SaveKeepsRows
  <1>5. label = "idle" \/ CopyFits(label, c, Known')
    BY <1>1, <1>3 DEF c, CopyFits, Labels, Blank, OfSignup, OfPending, OfActive, Proposing
  <1> QED
    BY <1>3, <1>4, <1>5, GotoKeepsTypes DEF c

\* A handler that writes rows, and what it leaves of them is typed.
LEMMA RowMoves ==
  ASSUME TypeInv, NEW r \in Requests, UserUnchanged,
         RowsTyped', NEW label \in Labels, Goto(r, label),
         label = "idle" \/ CopyFits(label, call[r].copy, Known)
  PROVE  TypeInv'
  BY UserStays, GotoKeepsTypes DEF TypeInv

LEMMA SignupTypes ==
  ASSUME TypeInv, NEW r \in Requests,
         \/ LookupLink(r) \/ LookupFails(r) \/ SaveRegistration(r) \/ SaveLink(r) \/ MailLink(r)
         \/ DeleteLink(r) \/ DeleteLinkFails(r) \/ IssueSession(r)
  PROVE  TypeInv'
  <1> USE LabelsAre DEF At
  <1>1. CASE LookupLink(r)
    <2>1. PICK label \in {"idle", "reclaim"} : Goto(r, label)
      BY <1>1 DEF LookupLink
    <2> QED
      BY <1>1, <2>1, NextLabelFits, QuietKeepsTypes DEF LookupLink
  <1>2. CASE LookupFails(r)
    <2>1. PICK label \in {"reclaim", "rotate"} :
            /\ call' = [call EXCEPT ![r].at = label]
            /\ \/ call[r].at = "lookup" /\ label = "reclaim"
               \/ call[r].at \in OfPending /\ label \in OfPending
      BY <1>2 DEF LookupFails, OfPending
    <2>2. Moved(r, label, call[r].copy)
      BY <2>1, HandlerTyped DEF Moved, CallType
    <2>3. UserTyped' /\ Known' = Known /\ retired' = retired /\ UNCHANGED rows /\ UNCHANGED <<revoked, overlapped, crashed>>
      BY <1>2, UserStays DEF LookupFails, TypeInv
    <2>4. misread' \in BOOLEAN
      BY <1>2 DEF LookupFails, TypeInv, HistoriesTyped
    <2>5. HistoriesTyped'
      BY <2>3, <2>4 DEF HistoriesTyped, TypeInv
    <2>6. RowsTyped'
      BY <2>3, SaveKeepsRows
    <2>7. CopyFits(label, call[r].copy, Known')
      BY <2>1, <2>3, NextLabelFits
    <2> QED
      BY <2>2, <2>3, <2>5, <2>6, <2>7, MoveKeepsTypes
  <1>3. CASE SaveRegistration(r)
    <2>1. CASE call[r].at = "insert" /\ user # NoAccount /\ Goto(r, "idle") /\ UserUnchanged /\ UNCHANGED rows
      BY <2>1, QuietKeepsTypes
    <2>2. CASE /\ call[r].at \in {"reclaim", "insert"} /\ Save(call[r].copy)
               /\ Goto(r, AfterSave(r)) /\ UNCHANGED rows
      <3>1. call[r].at \notin Blank /\ call[r].copy.state \in {"pending", "active"}
        BY <2>2, HandlerTyped DEF Blank
      <3>2. CASE call[r].copy.state = "pending"
        <4>1. AfterSave(r) = "link"
          BY <3>2 DEF AfterSave
        <4> QED
          BY <2>2, <3>1, <3>2, <4>1, SaveMoves DEF OfPending
      <3>3. CASE call[r].copy.state = "active"
        <4>1. AfterSave(r) \in {"clear", "session"}
          BY <3>3 DEF AfterSave
        <4>2. PICK label \in {"clear", "session"} : Goto(r, label)
          BY <2>2, <4>1
        <4> QED
          BY <2>2, <3>1, <3>3, <4>2, SaveMoves DEF OfActive
      <3> QED
        BY <3>1, <3>2, <3>3
    <2> QED
      BY <1>3, <2>1, <2>2 DEF SaveRegistration
  <1>4. CASE SaveLink(r)
    <2>1. call[r].copy.password \in Known /\ Goto(r, "mail") /\ call[r].at \in OfPending
      BY <1>4, HandlerTyped DEF SaveLink, CopyFits, Blank, Proposing, OfPending
    <2>2. Known' = Known /\ link' = [seed |-> call[r].copy.password, age |-> "new"]
          /\ UNCHANGED <<resets, sessions, timer, job>>
      BY <1>4, UserStays DEF SaveLink
    <2>3. RowsTyped'
      <3>1. link'.seed = call[r].copy.password /\ link'.age = "new"
            /\ link' \in [seed : Passwords \union {NoPassword}, age : {"none", "new", "live", "expired"}]
        BY <2>1, <2>2 DEF Known, TypeInv, UserTyped, Users
      <3> QED
        BY <2>1, <2>2, <3>1 DEF RowsTyped, TypeInv
    <2>4. UserUnchanged
      BY <1>4 DEF SaveLink
    <2> QED
      BY <2>1, <2>3, <2>4, NextLabelFits, RowMoves DEF OfPending
  <1>5. CASE MailLink(r)
    <2>1. PICK label \in {"idle", "discard"} : Goto(r, label)
      BY <1>5 DEF MailLink
    <2>2. CopyFits("discard", call[r].copy, Known)
      BY <1>5, NextLabelFits DEF MailLink, OfPending
    <2> QED
      BY <1>5, <2>1, <2>2, QuietKeepsTypes DEF MailLink
  <1>6. ASSUME DeleteLink(r) \/ DeleteLinkFails(r) PROVE TypeInv'
    <2>1. PICK label \in {"idle", "session", "resend"} :
            /\ Goto(r, label)
            /\ label = "session" => call[r].at = "clear"
            /\ label = "resend" => call[r].at = "rotate"
      BY <1>6 DEF DeleteLink, DeleteLinkFails
    <2>2. label = "idle" \/ CopyFits(label, call[r].copy, Known)
      BY <2>1, NextLabelFits DEF OfPending, OfActive, Proposing
    <2>3. UserUnchanged /\ UNCHANGED <<resets, sessions, timer, job>> /\ (link' = NoLink \/ UNCHANGED link)
      BY <1>6 DEF DeleteLink, DeleteLinkFails, rows
    <2>4. RowsTyped'
      BY <2>3, UserStays DEF RowsTyped, TypeInv, NoLink
    <2> QED
      BY <2>1, <2>2, <2>3, <2>4, RowMoves
  <1>7. CASE IssueSession(r)
    <2>1. call[r].copy.password \in Known
      BY <1>7, HandlerTyped DEF IssueSession, CopyFits, Blank, Proposing
    <2>2. RowsTyped'
      BY <1>7, <2>1, UserStays DEF IssueSession, RowsTyped, TypeInv
    <2> QED
      BY <1>7, <2>2, RowMoves DEF IssueSession
  <1> QED
    BY <1>1, <1>2, <1>3, <1>4, <1>5, <1>6, <1>7

LEMMA LinkTypes ==
  ASSUME TypeInv, NEW r \in Requests,
         ReadForVerify(r) \/ SaveActivated(r) \/ CheckCooldown(r) \/ SaveFreshLink(r) \/ SaveEdit(r)
  PROVE  TypeInv'
  <1> USE LabelsAre DEF At
  <1>1. CASE ReadForVerify(r)
    <2>1. CASE Activates
      <3> DEFINE c == [user EXCEPT !.state = "active"]
      <3>1. user.state = "pending" /\ user \in Users
        BY <2>1, RowFits DEF Activates
      <3>2. c \in Users /\ c.state = "active" /\ c.password = user.password
        BY <3>1 DEF Users
      <3>3. call' = [call EXCEPT ![r].at = "activate", ![r].copy = c] /\ UNCHANGED histories
        BY <1>1, <2>1 DEF ReadForVerify
      <3> HIDE DEF c
      <3>4. Moved(r, "activate", c)
        BY <3>2, <3>3, HandlerTyped DEF Moved, CallType
      <3>5. CopyFits("activate", c, Known)
        BY <3>1, <3>2, RowFits DEF CopyFits, Blank, OfSignup, OfPending, OfActive
      <3>6. UserTyped' /\ Known' = Known /\ retired' = retired /\ UNCHANGED rows
        BY <1>1, UserStays DEF ReadForVerify, TypeInv
      <3>7. HistoriesTyped' /\ RowsTyped'
        BY <3>3, <3>6, SaveKeepsRows DEF HistoriesTyped, TypeInv, histories
      <3> QED
        BY <3>4, <3>5, <3>6, <3>7, MoveKeepsTypes
    <2>2. CASE ~Activates
      BY <1>1, <2>2, QuietKeepsTypes DEF ReadForVerify
    <2> QED
      BY <2>1, <2>2
  <1>2. CASE SaveActivated(r)
    <2>1. call[r].at \notin Blank /\ call[r].copy.state = "active"
      BY <1>2, HandlerTyped DEF SaveActivated, CopyFits, Blank, OfActive
    <2> QED
      BY <1>2, <2>1, SaveMoves DEF SaveActivated, OfActive
  <1>3. CASE CheckCooldown(r)
    <2>1. PICK label \in {"idle", "rotate"} : Goto(r, label)
      BY <1>3 DEF CheckCooldown
    <2>2. CopyFits("rotate", call[r].copy, Known)
      BY <1>3, NextLabelFits DEF CheckCooldown, OfPending
    <2> QED
      BY <1>3, <2>1, <2>2, QuietKeepsTypes DEF CheckCooldown
  <1>4. CASE SaveFreshLink(r)
    <2>1. call[r].copy.password \in Known
      BY <1>4, HandlerTyped DEF SaveFreshLink, CopyFits, Blank, Proposing
    <2>2. Known' = Known /\ link' = [seed |-> call[r].copy.password, age |-> "new"]
          /\ UNCHANGED <<resets, sessions, timer, job>>
      BY <1>4, UserStays DEF SaveFreshLink
    <2>3. link'.seed = call[r].copy.password /\ link'.age = "new"
          /\ link' \in [seed : Passwords \union {NoPassword}, age : {"none", "new", "live", "expired"}]
      BY <2>1, <2>2 DEF Known, TypeInv, UserTyped, Users
    <2>4. RowsTyped'
      BY <2>1, <2>2, <2>3 DEF RowsTyped, TypeInv
    <2> QED
      BY <1>4, <2>4, RowMoves DEF SaveFreshLink
  <1>5. CASE SaveEdit(r)
    BY <1>5, SaveMoves DEF SaveEdit, Blank
  <1> QED
    BY <1>1, <1>2, <1>3, <1>4, <1>5

LEMMA ResetTypes ==
  ASSUME TypeInv, NEW r \in Requests,
         \/ CountRecent(r) \/ SaveReset(r) \/ MailReset(r) \/ ReadForReset(r) \/ SavePassword(r)
         \/ MarkConsumed(r) \/ PurgeSessions(r)
  PROVE  TypeInv'
  <1> USE LabelsAre DEF At
  <1>0. UserUnchanged /\ UNCHANGED <<link, sessions, timer, job>>
          /\ resets' \in [Resets -> {"none", "unused", "consumed", "gone"}] => RowsTyped'
    BY UserStays DEF RowsTyped, TypeInv
  <1>1. CASE CountRecent(r)
    <2>1. PICK label \in {"idle", "token"} : Goto(r, label)
      BY <1>1 DEF CountRecent
    <2>2. CopyFits("token", call[r].copy, Known)
      BY <1>1, NextLabelFits DEF CountRecent, OfActive, Proposing
    <2> QED
      BY <1>1, <2>1, <2>2, QuietKeepsTypes DEF CountRecent
  <1>2. CASE SaveReset(r)
    <2>1. PICK i \in Resets :
            /\ resets' = [resets EXCEPT ![i] = "unused"]
            /\ call' = [call EXCEPT ![r].at = "resetMail", ![r].reset = i]
      BY <1>2 DEF SaveReset
    <2>2. Moved(r, "resetMail", call[r].copy)
      BY <2>1, HandlerTyped DEF Moved, CallType
    <2>3. resets' \in [Resets -> {"none", "unused", "consumed", "gone"}]
      BY <2>1 DEF TypeInv, RowsTyped
    <2>4. UserUnchanged /\ UNCHANGED histories /\ RowsTyped'
      BY <1>0, <1>2, <2>3 DEF SaveReset
    <2>5. UserTyped' /\ Known' = Known /\ HistoriesTyped'
      BY <2>4, UserStays DEF TypeInv, HistoriesTyped, histories
    <2>6. CopyFits("resetMail", call[r].copy, Known)
      BY <1>2, NextLabelFits DEF SaveReset, OfActive, Proposing
    <2> QED
      BY <2>2, <2>4, <2>5, <2>6, MoveKeepsTypes
  <1>3. CASE MailReset(r)
    <2>1. resets' \in [Resets -> {"none", "unused", "consumed", "gone"}]
      BY <1>3 DEF MailReset, TypeInv, RowsTyped
    <2> QED
      BY <1>0, <1>3, <2>1, RowMoves DEF MailReset
  <1>4. CASE ReadForReset(r)
    <2>1. CASE user.state = "active"
      <3>1. PICK p \in Passwords :
              call' = [call EXCEPT ![r].at = "resetSave", ![r].copy = [user EXCEPT !.password = p]]
        BY <1>4, <2>1, FreshIs DEF ReadForReset
      <3> DEFINE c == [user EXCEPT !.password = p]
      <3>2. c \in Users /\ CopyFits("resetSave", c, Known)
        BY <2>1, ProposalFits
      <3>3. call' = [call EXCEPT ![r].at = "resetSave", ![r].copy = c]
        BY <3>1
      <3> HIDE DEF c
      <3>4. Moved(r, "resetSave", c)
        BY <3>2, <3>3, HandlerTyped DEF Moved, CallType
      <3>5. UserTyped' /\ Known' = Known /\ retired' = retired /\ UNCHANGED rows /\ UNCHANGED histories
        BY <1>4, <2>1, UserStays DEF ReadForReset, TypeInv
      <3>6. HistoriesTyped' /\ RowsTyped'
        BY <3>5, SaveKeepsRows DEF HistoriesTyped, TypeInv, histories
      <3> QED
        BY <3>2, <3>4, <3>5, <3>6, MoveKeepsTypes
    <2>2. CASE user.state # "active"
      BY <1>4, <2>2, QuietKeepsTypes DEF ReadForReset
    <2> QED
      BY <2>1, <2>2
  <1>5. CASE SavePassword(r)
    <2>1. call[r].at \notin Blank /\ call[r].copy.state = "active"
      BY <1>5, HandlerTyped DEF SavePassword, CopyFits, Blank, OfActive
    <2> QED
      BY <1>5, <2>1, SaveMoves DEF SavePassword, OfActive
  <1>6. CASE MarkConsumed(r)
    <2>1. resets' \in [Resets -> {"none", "unused", "consumed", "gone"}]
      BY <1>6 DEF MarkConsumed, TypeInv, RowsTyped
    <2>2. CopyFits("purge", call[r].copy, Known)
      BY <1>6, NextLabelFits DEF MarkConsumed, OfActive, Proposing
    <2> QED
      BY <1>0, <1>6, <2>1, <2>2, RowMoves DEF MarkConsumed
  <1>7. CASE PurgeSessions(r)
    <2>1. Moved(r, "idle", NoAccount)
      BY <1>7, IdleTyped, HandlerTyped DEF PurgeSessions, Moved, CallType, Idle
    <2>2. UserTyped' /\ Known' = Known /\ retired' = retired
      BY <1>7, UserStays DEF PurgeSessions, TypeInv
    <2>3. RowsTyped'
      BY <1>7, <2>2 DEF PurgeSessions, SessionsLeft, RowsTyped, TypeInv
    <2>4. HistoriesTyped'
      BY <1>7, <2>2 DEF PurgeSessions, HistoriesTyped, TypeInv
    <2> QED
      BY <2>1, <2>2, <2>3, <2>4, IdleFits, MoveKeepsTypes
  <1> QED
    BY <1>1, <1>2, <1>3, <1>4, <1>5, <1>6, <1>7

LEMMA ClosingTypes ==
  ASSUME TypeInv, NEW r \in Requests,
         RunTimer(r) \/ HasRunningTimer(r) \/ SaveClosed(r) \/ RecordJob(r) \/ Undo(r)
  PROVE  TypeInv'
  <1> USE LabelsAre DEF At
  <1>1. CASE RunTimer(r)
    <2>1. RowsTyped'
      BY <1>1, UserStays DEF RunTimer, RowsTyped, TypeInv
    <2> QED
      BY <1>1, <2>1, RowMoves DEF RunTimer
  <1>2. CASE HasRunningTimer(r)
    <2>1. PICK label \in {"close", "closeRunning"} : Goto(r, label)
      BY <1>2 DEF HasRunningTimer
    <2>2. CopyFits(label, call[r].copy, Known)
      BY <1>2, NextLabelFits DEF HasRunningTimer, OfActive, Proposing
    <2> QED
      BY <1>2, <2>1, <2>2, QuietKeepsTypes DEF HasRunningTimer
  <1>3. CASE SaveClosed(r)
    <2> DEFINE c == [call[r].copy EXCEPT !.state = "deactivated"]
    <2>1. PICK label \in {"idle", "record"} : Goto(r, label)
      BY <1>3 DEF SaveClosed
    <2>2. call[r].copy \in Users /\ call[r].copy.password \in Passwords
      BY <1>3, HandlerTyped DEF SaveClosed, Blank
    <2>3. c \in Users /\ c.state = "deactivated" /\ c.password = call[r].copy.password
      BY <2>2 DEF Users
    <2>4. Save(c) /\ UNCHANGED rows
      BY <1>3 DEF SaveClosed
    <2> HIDE DEF c
    <2>5. UserTyped' /\ Known \subseteq Known' /\ retired \subseteq retired'
      BY <2>2, <2>3, <2>4, SaveTypes DEF TypeInv
    <2>6. RowsTyped'
      BY <2>4, <2>5, SaveKeepsRows
    <2>7. CopyFits("record", call[r].copy, Known)
      BY <1>3, NextLabelFits DEF SaveClosed, OfActive, Proposing
    <2>8. CopyFits("record", call[r].copy, Known')
      BY <2>5, <2>7 DEF CopyFits
    <2> QED
      BY <2>1, <2>5, <2>6, <2>8, GotoKeepsTypes
  <1>4. CASE RecordJob(r)
    <2>1. PICK label \in {"idle", "undo"} : Goto(r, label)
      BY <1>4 DEF RecordJob, AfterFailedRecord
    <2>2. RowsTyped'
      BY <1>4, UserStays DEF RecordJob, RowsTyped, TypeInv
    <2>3. CopyFits("undo", call[r].copy, Known)
      BY <1>4, NextLabelFits DEF RecordJob, OfActive, Proposing
    <2> QED
      BY <1>4, <2>1, <2>2, <2>3, RowMoves DEF RecordJob
  <1>5. CASE Undo(r)
    BY <1>5, SaveMoves DEF Undo, Blank
  <1> QED
    BY <1>1, <1>2, <1>3, <1>4, <1>5

LEMMA StepKeepsTypes == TypeInv /\ [AccountNext]_accountVars => TypeInv'
  <1> SUFFICES ASSUME TypeInv, [AccountNext]_accountVars PROVE TypeInv'
    OBVIOUS
  <1>1. ASSUME NEW r \in Requests, Begin(r) \/ Continue(r) PROVE TypeInv'
    BY <1>1, BeginTypes, SignupTypes, LinkTypes, ResetTypes, ClosingTypes DEF Continue
  <1>2. ASSUME NEW r \in Requests, Fail(r) PROVE TypeInv'
    BY <1>2, LabelsAre, QuietKeepsTypes DEF Fail
  <1>3. ASSUME NEW r \in Requests, Crash(r) PROVE TypeInv'
    <2>1. Moved(r, "idle", NoAccount)
      BY <1>3, IdleTyped, HandlerTyped DEF Crash, Moved, CallType, Idle
    <2>2. UserTyped' /\ Known' = Known /\ retired' = retired /\ UNCHANGED rows
      BY <1>3, UserStays DEF Crash, TypeInv
    <2>3. HistoriesTyped' /\ RowsTyped'
      BY <1>3, <2>2, SaveKeepsRows DEF Crash, HistoriesTyped, TypeInv
    <2> QED
      BY <2>1, <2>2, <2>3, IdleFits, MoveKeepsTypes
  <1>4. ASSUME UserUnchanged, UNCHANGED call, HistoriesTyped', RowsTyped' PROVE TypeInv'
    BY <1>4, UserStays DEF TypeInv, CallTyped, CallType, Users, Resets
  <1>5. CASE LinkAges
    <2>1. link'.seed = link.seed /\ link # NoLink
          /\ link' \in [seed : Passwords \union {NoPassword}, age : {"none", "new", "live", "expired"}]
      BY <1>5 DEF LinkAges, TypeInv, RowsTyped, NoLink
    <2> QED
      BY <1>4, <1>5, <2>1, UserStays DEF LinkAges, TypeInv, RowsTyped, HistoriesTyped, histories
  <1>6. CASE HourPasses
    <2>1. resets' \in [Resets -> {"none", "unused", "consumed", "gone"}]
      BY <1>6 DEF HourPasses, TypeInv, RowsTyped
    <2> QED
      BY <1>4, <1>6, <2>1, UserStays DEF HourPasses, TypeInv, RowsTyped, HistoriesTyped, histories
  <1>7. CASE Logout
    BY <1>4, <1>7, UserStays DEF Logout, TypeInv, RowsTyped, HistoriesTyped, histories
  <1>8. CASE StopTimer
    BY <1>4, <1>8, UserStays DEF StopTimer, TypeInv, RowsTyped, HistoriesTyped, histories, Overlap
  <1>9. CASE UNCHANGED accountVars
    BY <1>4, <1>9 DEF accountVars, UserUnchanged, rows, histories, TypeInv, RowsTyped, HistoriesTyped, Known
  <1> QED
    BY <1>1, <1>2, <1>3, <1>5, <1>6, <1>7, <1>8, <1>9 DEF AccountNext

\* Whatever handlers overlap, the rows and the handlers keep their types, and
\* every session and every link belongs to a password that was saved.
THEOREM AccountTypeCorrect == AccountSpec => []AccountTypeOK
  BY TypesHoldInitially, StepKeepsTypes, TypesAreOK, PTL DEF AccountSpec
-----------------------------------------------------------------------------
(***************************************************************************)
(* As long as no two handlers overlap: how what the handler under way has  *)
(* read relates to the row, and what the histories tell.                   *)
(***************************************************************************)
Dead == link.age \notin {"new", "live"}
Unseen(p) == p \notin retired \union {user.password}

\* Labels at which the row is still as the handler has read or saved it.
Current ==
  OfPending \union {"clear", "session", "count", "token", "resetMail", "consume", "purge", "timer",
                    "hasTimer", "closeRunning", "close"}

Agrees(label, copy) ==
  /\ label \in Current => user = copy
  /\ label = "insert" => user = NoAccount
  /\ label \in {"lookup", "reclaim"} => user.state = "pending"
  /\ label \in OfSignup => Unseen(copy.password)
  /\ label = "reclaim" /\ copy.state = "pending" => Dead \/ misread
  /\ label = "activate" => user.state = "pending" /\ user.password = copy.password
  /\ label = "edit" => user.state = "active" /\ (user.password = copy.password \/ Unseen(copy.password))
  /\ label = "resetSave" => user.state = "active" /\ Unseen(copy.password)
  /\ label = "close" => ~timer
  /\ label \in {"record", "undo"} => user.state = "deactivated" /\ user.password = copy.password

OneHandler ==
  /\ \A r, s \in Requests : call[r].at # "idle" /\ call[s].at # "idle" => r = s
  /\ \A r \in Requests : Agrees(call[r].at, call[r].copy)

LinkFits == user.state = "pending" /\ ~misread => Dead \/ link.seed = user.password

\* Only a handler that knows of it leaves a closed account with a timer and no job.
ClosingFits ==
  ~crashed /\ user.state = "deactivated" /\ timer =>
    job \/ \E r \in Requests : call[r].at \in {"record", "undo"}

Alone ==
  /\ OneHandler
  /\ user.password \notin retired
  /\ sessions \intersect revoked = {}
  /\ LinkFits /\ ClosingFits

AccountIInv == TypeInv /\ (~overlapped => Alone)

LEMMA AloneInitially == AccountInit => AccountIInv
  <1> SUFFICES ASSUME AccountInit PROVE AccountIInv
    OBVIOUS
  <1>1. \A r \in Requests : call[r].at = "idle"
    BY DEF AccountInit, Idle
  <1>2. OneHandler
    BY <1>1 DEF OneHandler, Agrees, Current, OfSignup, OfPending
  <1>3. LinkFits /\ ClosingFits
    BY <1>1 DEF AccountInit, LinkFits, ClosingFits, NoAccount
  <1> QED
    BY <1>2, <1>3, TypesHoldInitially DEF AccountInit, AccountIInv, Alone

\* The step of the only handler.
LEMMA OnlyOneMoves ==
  ASSUME Alone, NEW r \in Requests, \A s \in Requests \ {r} : call[s].at = "idle",
         NEW label, NEW copy, Moved(r, label, copy), Agrees(call[r].at, call[r].copy)'
  PROVE  OneHandler'
  <1>1. \A s \in Requests \ {r} : call'[s].at = "idle"
    BY DEF Moved
  <1>2. \A s \in Requests \ {r} : Agrees(call[s].at, call[s].copy)'
    BY <1>1 DEF Agrees, Current, OfSignup, OfPending
  <1> QED
    BY <1>1, <1>2 DEF OneHandler

LEMMA GotoKeepsAlone ==
  ASSUME AccountIInv, ~overlapped, NEW r \in Requests, call[r].at # "idle",
         NEW label \in Labels, Goto(r, label),
         label # "idle" => Agrees(call[r].at, call[r].copy)',
         user'.password \notin retired', sessions' \intersect revoked' = {},
         LinkFits', ClosingFits'
  PROVE  Alone'
  <1>1. \A s \in Requests \ {r} : call[s].at = "idle"
    BY DEF AccountIInv, Alone, OneHandler
  <1>2. Moved(r, label, IF label = "idle" THEN NoAccount ELSE call[r].copy)
    BY HandlerTyped, GotoMoves DEF AccountIInv
  <1>3. label = "idle" => Agrees(call[r].at, call[r].copy)'
    BY <1>2 DEF Moved, Agrees, Current, OfSignup, OfPending
  <1>4. Alone
    BY DEF AccountIInv
  <1>5. OneHandler'
    BY <1>1, <1>2, <1>3, <1>4, OnlyOneMoves
  <1> QED
    BY <1>5 DEF Alone

\* A step that only goes on, before or after the part of a closing that is undone.
LEMMA QuietKeepsAlone ==
  ASSUME AccountIInv, ~overlapped, NEW r \in Requests,
         call[r].at \notin {"idle", "record", "undo"}, UserUnchanged, UNCHANGED rows,
         NEW label \in Labels, Goto(r, label),
         label = "idle" \/ Agrees(label, call[r].copy)
  PROVE  Alone'
  <1>1. Moved(r, label, IF label = "idle" THEN NoAccount ELSE call[r].copy)
    BY HandlerTyped, GotoMoves DEF AccountIInv
  <1>2. label # "idle" => call'[r].at = label /\ call'[r].copy = call[r].copy
    BY <1>1 DEF Moved
  <1>3. UNCHANGED <<user, retired, link, timer, job, sessions>> /\ UNCHANGED <<revoked, misread, crashed>>
    BY DEF UserUnchanged, rows, Goto, histories
  <1>4. label # "idle" => Agrees(call[r].at, call[r].copy)'
    BY <1>2, <1>3 DEF Agrees, Dead, Unseen
  <1>5. LinkFits'
    BY <1>3 DEF AccountIInv, Alone, LinkFits, Dead
  <1>6. ClosingFits'
    BY <1>3 DEF AccountIInv, Alone, OneHandler, ClosingFits, Agrees
  <1> QED
    BY <1>3, <1>4, <1>5, <1>6, GotoKeepsAlone DEF AccountIInv, Alone

\* A handler that begins and does not overlap is the only one.
LEMMA BeginKeepsAlone ==
  ASSUME AccountIInv, ~overlapped', UserUnchanged, UNCHANGED rows,
         NEW r \in Requests, NEW label \in Labels, NEW copy \in Users, NEW i \in {0} \union Resets,
         BeginAt(r, label, copy, i), Agrees(label, copy)
  PROVE  Alone'
  <1>1. Moved(r, label, copy)
    BY BeginMoves, HandlerTyped DEF AccountIInv
  <1>2. call[r].at = "idle" /\ (\A s \in Requests \ {r} : call[s].at = "idle") /\ UNCHANGED histories
    BY DEF BeginAt, Overlap
  <1>3. Alone
    BY <1>2 DEF AccountIInv, histories
  <1>4. call'[r].at = label /\ call'[r].copy = copy
    BY <1>1 DEF Moved
  <1>5. UNCHANGED <<user, retired, link, timer, job, sessions>> /\ UNCHANGED <<revoked, misread, crashed>>
    BY <1>2 DEF UserUnchanged, rows, histories
  <1>6. Agrees(call[r].at, call[r].copy)'
    BY <1>4, <1>5 DEF Agrees, Dead, Unseen
  <1>7. OneHandler'
    BY <1>1, <1>2, <1>3, <1>6, OnlyOneMoves
  <1>8. LinkFits'
    BY <1>3, <1>5 DEF Alone, LinkFits, Dead
  <1>9. ClosingFits'
    BY <1>2, <1>3, <1>5 DEF Alone, ClosingFits
  <1> QED
    BY <1>3, <1>5, <1>7, <1>8, <1>9 DEF Alone

LEMMA BeginAlone ==
  ASSUME AccountIInv, ~overlapped', NEW r \in Requests, Begin(r)
  PROVE  Alone'
  <1> USE LabelsAre
  <1>0. TypeInv
    BY DEF AccountIInv
  <1>1. ASSUME NEW p \in Fresh, NEW needs \in BOOLEAN, NEW trusted \in BOOLEAN,
               Register(r, p, needs, trusted)
        PROVE  Alone'
    <2> DEFINE c == Seeded(p, needs)
    <2>1. c \in Users /\ c.password = p /\ (c.state = "pending" => needs)
      <3>1. p \in Passwords
        BY FreshIs
      <3> QED
        BY <3>1 DEF Seeded, Users
    <2>2. PICK label \in OfSignup :
            /\ BeginAt(r, label, c, 0)
            /\ label = "insert" => user.state = "none"
            /\ label # "insert" => user.state = "pending"
            /\ label = "reclaim" => trusted
      BY <1>1 DEF Register, OfSignup
    <2>3. (trusted => ~needs) /\ UserUnchanged /\ UNCHANGED rows
      BY <1>1 DEF Register
    <2> HIDE DEF c
    <2>4. Unseen(p) /\ (user.state = "none" => user = NoAccount)
      BY <1>0, FreshIs DEF Unseen, TypeInv, UserTyped
    <2>5. Agrees(label, c)
      BY <2>1, <2>2, <2>3, <2>4 DEF Agrees, Current, OfSignup, OfPending
    <2> QED
      BY <2>1, <2>2, <2>3, <2>5, BeginKeepsAlone DEF Labels
  <1>2. CASE VerifyEmail(r)
    BY <1>2, NoAccountTyped, BeginKeepsAlone DEF VerifyEmail, Agrees, Current, OfSignup, OfPending
  <1>3. CASE ResetPassword(r)
    BY <1>3, NoAccountTyped, BeginKeepsAlone DEF ResetPassword, Agrees, Current, OfSignup, OfPending
  <1>4. CASE Edit(r)
    <2>1. PICK p \in Passwords :
            /\ p = user.password \/ Unseen(p)
            /\ BeginAt(r, "edit", [user EXCEPT !.password = p], 0)
      BY <1>0, <1>4, FreshIs, RowFits DEF Edit, Unseen
    <2> DEFINE c == [user EXCEPT !.password = p]
    <2>2. user.state = "active" /\ UserUnchanged /\ UNCHANGED rows /\ BeginAt(r, "edit", c, 0)
      BY <1>4, <2>1 DEF Edit
    <2>3. c \in Users /\ c.password = p
      BY <1>0, <2>2, RowFits DEF Users
    <2> HIDE DEF c
    <2>4. Agrees("edit", c)
      BY <2>1, <2>2, <2>3 DEF Agrees, Current, OfSignup, OfPending
    <2> QED
      BY <2>2, <2>3, <2>4, BeginKeepsAlone
  <1>5. ASSUME NEW label \in {"session", "count", "timer", "hasTimer", "cooldown"},
               user.state \in {"pending", "active"},
               BeginAt(r, label, user, 0), UserUnchanged, UNCHANGED rows
        PROVE  Alone'
    <2>1. Agrees(label, user)
      BY <1>5 DEF Agrees, OfSignup
    <2> QED
      BY <1>0, <1>5, <2>1, RowFits, BeginKeepsAlone
  <1> QED
    BY <1>1, <1>2, <1>3, <1>4, <1>5
    DEF Begin, LoginBasic, RequestPasswordReset, StartTimer, Deactivate, ResendVerificationEmail

\* How the handler under way stands to the row.
LEMMA HandlerAlone ==
  ASSUME AccountIInv, ~overlapped, NEW r \in Requests
  PROVE  /\ Alone /\ Agrees(call[r].at, call[r].copy)
         /\ call[r].at # "idle" => \A s \in Requests \ {r} : call[s].at = "idle"
  BY DEF AccountIInv, Alone, OneHandler

\* A save alone: the row becomes the copy, and no password comes back.
LEMMA SaveAlone ==
  ASSUME AccountIInv, Alone, NEW copy \in Users, Save(copy),
         copy.password = user.password \/ Unseen(copy.password),
         UNCHANGED rows, UNCHANGED histories
  PROVE  /\ user' = copy /\ retired \subseteq retired' /\ user'.password \notin retired'
         /\ sessions' \intersect revoked' = {}
         /\ copy.state # "pending" => LinkFits'
         /\ copy.state # "deactivated" => ClosingFits'
  <1>1. user' = copy /\ (copy.password = user.password => retired' = retired)
        /\ retired' \subseteq retired \union {user.password} /\ retired \subseteq retired'
    BY DEF Save
  <1>2. user'.password \notin retired'
    BY <1>1 DEF Alone, Unseen
  <1>3. UNCHANGED <<sessions, revoked>>
    BY DEF rows, histories
  <1> QED
    BY <1>1, <1>2, <1>3 DEF Alone, LinkFits, ClosingFits

LEMMA GotoCarries ==
  ASSUME TypeInv, NEW r \in Requests, NEW label \in Labels, label # "idle", Goto(r, label)
  PROVE  call'[r].at = label /\ call'[r].copy = call[r].copy /\ UNCHANGED histories
  <1>1. Moved(r, label, call[r].copy)
    BY HandlerTyped, GotoMoves
  <1> QED
    BY <1>1 DEF Moved, Goto

LEMMA SignupAlone ==
  ASSUME AccountIInv, ~overlapped, NEW r \in Requests,
         \/ LookupLink(r) \/ LookupFails(r) \/ SaveRegistration(r) \/ SaveLink(r) \/ MailLink(r)
         \/ DeleteLink(r) \/ DeleteLinkFails(r) \/ IssueSession(r)
  PROVE  Alone'
  <1> USE LabelsAre DEF At
  <1> DEFINE c == call[r].copy
  <1>0. TypeInv /\ Alone /\ Agrees(call[r].at, c)
        /\ (call[r].at # "idle" => \A s \in Requests \ {r} : call[s].at = "idle")
    BY HandlerAlone DEF AccountIInv
  <1>1. CASE LookupLink(r)
    <2>1. PICK label \in {"idle", "reclaim"} : Goto(r, label) /\ (label = "reclaim" => Reclaims)
      BY <1>1 DEF LookupLink
    <2>2. Reclaims => Dead
      BY DEF Reclaims, Dead
    <2>3. label = "idle" \/ Agrees(label, c)
      BY <1>0, <1>1, <2>1, <2>2 DEF Agrees, LookupLink, Current, OfSignup, OfPending
    <2> QED
      BY <1>1, <2>1, <2>3, QuietKeepsAlone DEF LookupLink
  <1>2. CASE LookupFails(r)
    <2>1. PICK label \in {"reclaim", "rotate"} :
            /\ call' = [call EXCEPT ![r].at = label]
            /\ call[r].at = IF label = "reclaim" THEN "lookup" ELSE "cooldown"
      BY <1>2 DEF LookupFails
    <2>2. Moved(r, label, c)
      BY <1>0, <2>1, HandlerTyped DEF Moved, CallType
    <2>3. call'[r].at = label /\ call'[r].copy = c
      BY <2>2 DEF Moved
    <2>4. UNCHANGED <<user, retired, link, sessions, timer, job>> /\ UNCHANGED <<revoked, crashed>>
      BY <1>2 DEF LookupFails, UserUnchanged, rows
    <2>5. (misread => misread') /\ (label = "reclaim" => Dead \/ misread')
      <3>1. link.age \in {"none", "new", "live", "expired"}
        BY <1>0 DEF TypeInv, RowsTyped
      <3> QED
        BY <1>2, <2>1, <3>1 DEF LookupFails, Reclaims, Dead
    <2>6. Agrees(call[r].at, call[r].copy)'
      BY <1>0, <2>1, <2>3, <2>4, <2>5 DEF Agrees, Current, OfSignup, OfPending, Dead, Unseen
    <2>7. OneHandler'
      BY <1>0, <2>1, <2>2, <2>6, OnlyOneMoves
    <2>8. LinkFits'
      BY <1>0, <2>4, <2>5 DEF Alone, LinkFits, Dead
    <2>9. ClosingFits'
      BY <1>0, <2>1, <2>4 DEF Alone, ClosingFits, Agrees, Current, OfSignup, OfPending, OneHandler
    <2> QED
      BY <1>0, <2>4, <2>7, <2>8, <2>9 DEF Alone
  <1>3. CASE SaveRegistration(r)
    <2>1. CASE call[r].at = "insert" /\ user # NoAccount
      BY <1>0, <2>1 DEF Agrees
    <2>2. CASE /\ call[r].at \in {"reclaim", "insert"} /\ Save(c)
               /\ Goto(r, AfterSave(r)) /\ UNCHANGED rows
      <3>1. c \in Users /\ c.state \in {"pending", "active"} /\ Unseen(c.password)
        BY <1>0, <2>2, HandlerTyped DEF Agrees, Blank, OfSignup
      <3>2. PICK label \in {"link", "clear", "session"} : Goto(r, label)
        BY <2>2 DEF AfterSave
      <3>3. call'[r].at = label /\ call'[r].copy = c /\ UNCHANGED histories
        BY <1>0, GotoCarries, <3>2
      <3>4. user' = c /\ user'.password \notin retired' /\ sessions' \intersect revoked' = {}
            /\ (c.state # "pending" => LinkFits') /\ ClosingFits'
        BY <1>0, <2>2, <3>1, <3>3, SaveAlone
      <3>5. c.state = "pending" => Dead \/ misread
        <4>1. user = NoAccount => Dead
          BY <1>0, AccountAssumption DEF TypeInv, UserTyped, RowsTyped, Known, NoAccount, NoLink, Dead
        <4> QED
          BY <1>0, <2>2, <4>1 DEF Agrees
      <3>6. LinkFits'
        BY <2>2, <3>3, <3>4, <3>5 DEF LinkFits, Dead, rows, histories
      <3>7. Agrees(call[r].at, call[r].copy)'
        BY <3>3, <3>4 DEF Agrees, OfSignup
      <3> QED
        BY <2>2, <3>2, <3>4, <3>6, <3>7, GotoKeepsAlone
    <2> QED
      BY <1>3, <2>1, <2>2 DEF SaveRegistration
  <1>4. CASE SaveLink(r)
    <2>1. call'[r].at = "mail" /\ call'[r].copy = c /\ UNCHANGED histories /\ user = c
      BY <1>0, <1>4, GotoCarries DEF SaveLink, Agrees, Current, OfPending
    <2>2. UNCHANGED <<user, retired, sessions, timer, job>> /\ link'.seed = c.password
      BY <1>4 DEF SaveLink, UserUnchanged
    <2>3. Agrees(call[r].at, call[r].copy)'
      BY <2>1, <2>2 DEF Agrees, OfSignup
    <2>4. LinkFits'
      BY <2>1, <2>2 DEF LinkFits
    <2>5. ClosingFits'
      BY <1>0, <1>4, <2>1, <2>2 DEF Alone, ClosingFits, SaveLink, histories, OneHandler
    <2> QED
      BY <1>0, <1>4, <2>1, <2>2, <2>3, <2>4, <2>5, GotoKeepsAlone DEF Alone, SaveLink, histories
  <1>5. CASE MailLink(r)
    <2>1. PICK label \in {"idle", "discard"} : Goto(r, label)
      BY <1>5 DEF MailLink
    <2>2. Agrees("discard", c)
      BY <1>0, <1>5 DEF MailLink, Agrees, Current, OfSignup, OfPending
    <2> QED
      BY <1>5, <2>1, <2>2, QuietKeepsAlone DEF MailLink
  <1>6. ASSUME DeleteLink(r) \/ DeleteLinkFails(r) PROVE Alone'
    <2>1. PICK label \in {"idle", "session", "resend"} : Goto(r, label)
      BY <1>6 DEF DeleteLink, DeleteLinkFails
    <2>2. call[r].at \in {"discard", "clear", "rotate"} /\ user = c
      BY <1>0, <1>6 DEF DeleteLink, DeleteLinkFails, Agrees, Current, OfPending
    <2>3. UNCHANGED <<user, retired, sessions, timer, job>> /\ (link' = NoLink \/ UNCHANGED link) /\ UNCHANGED histories
      BY <1>6, <2>1 DEF DeleteLink, DeleteLinkFails, rows, UserUnchanged, Goto
    <2>4. label # "idle" => Agrees(call[r].at, call[r].copy)'
      BY <1>0, GotoCarries, <2>1, <2>2, <2>3 DEF Agrees, OfSignup
    <2>5. LinkFits'
      BY <1>0, <2>3 DEF Alone, LinkFits, Dead, NoLink, histories
    <2>6. ClosingFits'
      BY <1>0, <2>2, <2>3 DEF Alone, ClosingFits, OneHandler, histories
    <2> QED
      BY <1>0, <2>1, <2>2, <2>3, <2>4, <2>5, <2>6, GotoKeepsAlone DEF Alone, histories
  <1>7. CASE IssueSession(r)
    <2>1. user = c /\ sessions' = sessions \union {c.password} /\ UNCHANGED <<user, retired, link, timer, job>>
          /\ UNCHANGED histories
      BY <1>0, <1>7 DEF IssueSession, Agrees, Current, UserUnchanged, Goto
    <2>2. sessions' \intersect revoked' = {}
      BY <1>0, <2>1 DEF Alone, TypeInv, HistoriesTyped, histories
    <2>3. LinkFits'
      BY <1>0, <2>1 DEF Alone, LinkFits, Dead, histories
    <2>4. ClosingFits'
      BY <1>0, <1>7, <2>1 DEF Alone, ClosingFits, OneHandler, histories, IssueSession
    <2> QED
      BY <1>0, <1>7, <2>1, <2>2, <2>3, <2>4, GotoKeepsAlone DEF Alone, IssueSession
  <1> QED
    BY <1>1, <1>2, <1>3, <1>4, <1>5, <1>6, <1>7

LEMMA LinkAlone ==
  ASSUME AccountIInv, ~overlapped, NEW r \in Requests,
         ReadForVerify(r) \/ SaveActivated(r) \/ CheckCooldown(r) \/ SaveFreshLink(r) \/ SaveEdit(r)
  PROVE  Alone'
  <1> USE LabelsAre DEF At
  <1> DEFINE c == call[r].copy
  <1>0. TypeInv /\ Alone /\ Agrees(call[r].at, c)
        /\ (call[r].at # "idle" => \A s \in Requests \ {r} : call[s].at = "idle")
    BY HandlerAlone DEF AccountIInv
  <1>1. CASE ReadForVerify(r)
    <2>1. CASE Activates
      <3> DEFINE a == [user EXCEPT !.state = "active"]
      <3>1. user.state = "pending" /\ user \in Users
        BY <1>0, <2>1, RowFits DEF Activates
      <3>2. a \in Users /\ a.password = user.password
        BY <3>1 DEF Users
      <3>3. call' = [call EXCEPT ![r].at = "activate", ![r].copy = a]
            /\ UNCHANGED histories /\ UserUnchanged /\ UNCHANGED rows
        BY <1>1, <2>1 DEF ReadForVerify
      <3> HIDE DEF a
      <3>4. Moved(r, "activate", a)
        BY <1>0, <3>2, <3>3, HandlerTyped DEF Moved, CallType
      <3>5. call'[r].at = "activate" /\ call'[r].copy = a
        BY <3>4 DEF Moved
      <3>6. UNCHANGED <<user, retired, link, sessions, timer, job, revoked, misread, crashed>>
        BY <3>3 DEF UserUnchanged, rows, histories
      <3>7. Agrees(call[r].at, call[r].copy)'
        BY <3>1, <3>2, <3>5, <3>6 DEF Agrees, Current, OfSignup, OfPending
      <3>8. OneHandler'
        BY <1>0, <1>1, <3>4, <3>7, OnlyOneMoves DEF ReadForVerify
      <3>9. LinkFits' /\ ClosingFits'
        BY <1>0, <3>1, <3>6 DEF Alone, LinkFits, ClosingFits, Dead
      <3> QED
        BY <1>0, <3>6, <3>8, <3>9 DEF Alone
    <2>2. CASE ~Activates
      BY <1>1, <2>2, QuietKeepsAlone DEF ReadForVerify
    <2> QED
      BY <2>1, <2>2
  <1>2. CASE SaveActivated(r)
    <2>1. c \in Users /\ c.state = "active" /\ c.password = user.password
      BY <1>0, <1>2, HandlerTyped DEF SaveActivated, CopyFits, Blank, OfActive, Agrees
    <2>2. call'[r].at = "clear" /\ call'[r].copy = c /\ UNCHANGED histories
      BY <1>0, <1>2, GotoCarries DEF SaveActivated
    <2>3. Save(c) /\ UNCHANGED rows
      BY <1>2 DEF SaveActivated
    <2>4. user' = c /\ user'.password \notin retired' /\ sessions' \intersect revoked' = {} /\ LinkFits' /\ ClosingFits'
      BY <1>0, <2>1, <2>2, <2>3, SaveAlone
    <2>5. Agrees(call[r].at, call[r].copy)'
      BY <2>2, <2>4 DEF Agrees, OfSignup
    <2> QED
      BY <1>2, <2>4, <2>5, GotoKeepsAlone DEF SaveActivated
  <1>3. CASE CheckCooldown(r)
    <2>1. PICK label \in {"idle", "rotate"} : Goto(r, label)
      BY <1>3 DEF CheckCooldown
    <2>2. Agrees("rotate", c)
      BY <1>0, <1>3 DEF CheckCooldown, Agrees, Current, OfSignup, OfPending
    <2> QED
      BY <1>3, <2>1, <2>2, QuietKeepsAlone DEF CheckCooldown
  <1>4. CASE SaveFreshLink(r)
    <2>1. user = c /\ link'.seed = c.password /\ UNCHANGED <<user, retired, sessions, timer, job>>
          /\ UNCHANGED histories
      BY <1>0, <1>4 DEF SaveFreshLink, Agrees, Current, OfPending, UserUnchanged, Goto
    <2>2. LinkFits'
      BY <2>1 DEF LinkFits
    <2>3. ClosingFits'
      BY <1>0, <1>4, <2>1 DEF Alone, ClosingFits, OneHandler, histories, SaveFreshLink
    <2> QED
      BY <1>0, <1>4, <2>1, <2>2, <2>3, GotoKeepsAlone DEF Alone, SaveFreshLink, histories
  <1>5. CASE SaveEdit(r)
    <2>1. c \in Users /\ c.state = "active" /\ (c.password = user.password \/ Unseen(c.password))
      BY <1>0, <1>5, HandlerTyped DEF SaveEdit, CopyFits, Blank, OfActive, Agrees
    <2>2. Save(c) /\ UNCHANGED rows /\ UNCHANGED histories
      BY <1>5 DEF SaveEdit, Goto
    <2>3. user' = c /\ user'.password \notin retired' /\ sessions' \intersect revoked' = {} /\ LinkFits' /\ ClosingFits'
      BY <1>0, <2>1, <2>2, SaveAlone
    <2> QED
      BY <1>5, <2>3, GotoKeepsAlone DEF SaveEdit
  <1> QED
    BY <1>1, <1>2, <1>3, <1>4, <1>5

LEMMA ResetAlone ==
  ASSUME AccountIInv, ~overlapped, NEW r \in Requests,
         \/ CountRecent(r) \/ SaveReset(r) \/ MailReset(r) \/ ReadForReset(r) \/ SavePassword(r)
         \/ MarkConsumed(r) \/ PurgeSessions(r)
  PROVE  Alone'
  <1> USE LabelsAre DEF At
  <1> DEFINE c == call[r].copy
  <1>0. TypeInv /\ Alone /\ Agrees(call[r].at, c)
        /\ (call[r].at # "idle" => \A s \in Requests \ {r} : call[s].at = "idle")
    BY HandlerAlone DEF AccountIInv
  \* The reset links do not matter here.
  <1>s. ASSUME UNCHANGED <<user, retired, link, sessions, timer, job>>, UNCHANGED histories,
               call[r].at \notin {"idle", "record", "undo"}, OneHandler'
        PROVE  Alone'
    <2>1. LinkFits'
      BY <1>0, <1>s DEF Alone, LinkFits, Dead, histories
    <2>2. ClosingFits'
      BY <1>0, <1>s DEF Alone, ClosingFits, OneHandler, histories
    <2> QED
      BY <1>0, <1>s, <2>1, <2>2 DEF Alone, histories
  <1>1. CASE CountRecent(r)
    <2>1. PICK label \in {"idle", "token"} : Goto(r, label)
      BY <1>1 DEF CountRecent
    <2>2. Agrees("token", c)
      BY <1>0, <1>1 DEF CountRecent, Agrees, Current, OfSignup, OfPending
    <2> QED
      BY <1>1, <2>1, <2>2, QuietKeepsAlone DEF CountRecent
  <1>2. CASE SaveReset(r)
    <2>1. PICK i \in Resets : call' = [call EXCEPT ![r].at = "resetMail", ![r].reset = i]
      BY <1>2 DEF SaveReset
    <2>2. Moved(r, "resetMail", c)
      BY <1>0, <2>1, HandlerTyped DEF Moved, CallType
    <2>3. call'[r].at = "resetMail" /\ call'[r].copy = c /\ user = c /\ user' = user
      BY <1>0, <1>2, <2>2 DEF Moved, SaveReset, Agrees, Current, UserUnchanged
    <2>4. Agrees(call[r].at, call[r].copy)'
      BY <2>3 DEF Agrees, OfSignup
    <2>5. OneHandler'
      BY <1>0, <1>2, <2>2, <2>4, OnlyOneMoves DEF SaveReset
    <2> QED
      BY <1>2, <2>5, <1>s DEF SaveReset, UserUnchanged
  <1>3. CASE MailReset(r)
    <2>1. UNCHANGED <<user, retired, link, sessions, timer, job>> /\ UNCHANGED histories /\ Goto(r, "idle")
      BY <1>3 DEF MailReset, UserUnchanged, Goto
    <2>2. LinkFits'
      BY <1>0, <2>1 DEF Alone, LinkFits, Dead, histories
    <2>3. ClosingFits'
      BY <1>0, <1>3, <2>1 DEF Alone, ClosingFits, OneHandler, histories, MailReset
    <2> QED
      BY <1>0, <1>3, <2>1, <2>2, <2>3, GotoKeepsAlone DEF Alone, MailReset, histories
  <1>4. CASE ReadForReset(r)
    <2>1. CASE user.state = "active"
      <3>1. PICK p \in Fresh :
              call' = [call EXCEPT ![r].at = "resetSave", ![r].copy = [user EXCEPT !.password = p]]
        BY <1>4, <2>1 DEF ReadForReset
      <3> DEFINE n == [user EXCEPT !.password = p]
      <3>2. n \in Users /\ n.password = p /\ Unseen(p)
        BY <1>0, <2>1, RowFits, FreshIs DEF Users, Unseen
      <3>3. call' = [call EXCEPT ![r].at = "resetSave", ![r].copy = n]
        BY <3>1
      <3> HIDE DEF n
      <3>4. Moved(r, "resetSave", n)
        BY <1>0, <3>2, <3>3, HandlerTyped DEF Moved, CallType
      <3>5. call'[r].at = "resetSave" /\ call'[r].copy = n
            /\ UNCHANGED <<user, retired, link, sessions, timer, job>> /\ UNCHANGED histories
        BY <1>4, <2>1, <3>4 DEF Moved, ReadForReset, UserUnchanged, rows
      <3>6. Agrees(call[r].at, call[r].copy)'
        BY <2>1, <3>2, <3>5 DEF Agrees, Current, OfSignup, OfPending, Unseen
      <3>7. OneHandler'
        BY <1>0, <1>4, <3>4, <3>6, OnlyOneMoves DEF ReadForReset
      <3> QED
        BY <1>4, <3>5, <3>7, <1>s DEF ReadForReset
    <2>2. CASE user.state # "active"
      BY <1>4, <2>2, QuietKeepsAlone DEF ReadForReset
    <2> QED
      BY <2>1, <2>2
  <1>5. CASE SavePassword(r)
    <2>1. c \in Users /\ c.state = "active" /\ Unseen(c.password)
      BY <1>0, <1>5, HandlerTyped DEF SavePassword, CopyFits, Blank, OfActive, Agrees
    <2>2. call'[r].at = "consume" /\ call'[r].copy = c /\ UNCHANGED histories
      BY <1>0, <1>5, GotoCarries DEF SavePassword
    <2>3. Save(c) /\ UNCHANGED rows
      BY <1>5 DEF SavePassword
    <2>4. user' = c /\ user'.password \notin retired' /\ sessions' \intersect revoked' = {} /\ LinkFits' /\ ClosingFits'
      BY <1>0, <2>1, <2>2, <2>3, SaveAlone
    <2>5. Agrees(call[r].at, call[r].copy)'
      BY <2>2, <2>4 DEF Agrees, OfSignup
    <2> QED
      BY <1>5, <2>4, <2>5, GotoKeepsAlone DEF SavePassword
  <1>6. CASE MarkConsumed(r)
    <2>1. call'[r].at = "purge" /\ call'[r].copy = c /\ user = c
          /\ UNCHANGED <<user, retired, link, sessions, timer, job>> /\ UNCHANGED histories
      BY <1>0, <1>6, GotoCarries DEF MarkConsumed, UserUnchanged, Agrees, Current
    <2>2. Agrees(call[r].at, call[r].copy)'
      BY <2>1 DEF Agrees, OfSignup
    <2>3. LinkFits'
      BY <1>0, <2>1 DEF Alone, LinkFits, Dead, histories
    <2>4. ClosingFits'
      BY <1>0, <1>6, <2>1 DEF Alone, ClosingFits, OneHandler, histories, MarkConsumed
    <2> QED
      BY <1>0, <1>6, <2>1, <2>2, <2>3, <2>4, GotoKeepsAlone DEF Alone, MarkConsumed, histories
  <1>7. CASE PurgeSessions(r)
    <2>1. Moved(r, "idle", NoAccount)
      BY <1>0, <1>7, IdleTyped, HandlerTyped DEF PurgeSessions, Moved, CallType, Idle
    <2>2. call'[r].at = "idle"
      BY <2>1 DEF Moved
    <2>3. OneHandler'
      BY <1>0, <1>7, <2>1, <2>2, OnlyOneMoves DEF PurgeSessions, Agrees, Current, OfSignup, OfPending
    <2>4. UNCHANGED <<user, retired, link, timer, job, misread, crashed>> /\ sessions' = {}
      BY <1>7 DEF PurgeSessions, SessionsLeft, UserUnchanged
    <2>5. LinkFits'
      BY <1>0, <2>4 DEF Alone, LinkFits, Dead
    <2>6. ClosingFits'
      BY <1>0, <1>7, <2>4 DEF Alone, ClosingFits, OneHandler, PurgeSessions
    <2> QED
      BY <1>0, <2>3, <2>4, <2>5, <2>6 DEF Alone
  <1> QED
    BY <1>1, <1>2, <1>3, <1>4, <1>5, <1>6, <1>7

LEMMA ClosingAlone ==
  ASSUME AccountIInv, ~overlapped, NEW r \in Requests,
         RunTimer(r) \/ HasRunningTimer(r) \/ SaveClosed(r) \/ RecordJob(r) \/ Undo(r)
  PROVE  Alone'
  <1> USE LabelsAre DEF At
  <1> DEFINE c == call[r].copy
  <1>0. TypeInv /\ Alone /\ Agrees(call[r].at, c)
        /\ (call[r].at # "idle" => \A s \in Requests \ {r} : call[s].at = "idle")
    BY HandlerAlone DEF AccountIInv
  <1>1. CASE RunTimer(r)
    <2>1. user = c /\ c.state = "active"
      BY <1>0, <1>1, HandlerTyped DEF RunTimer, Agrees, Current, CopyFits, OfActive
    <2>2. UNCHANGED <<user, retired, link, sessions, job>> /\ UNCHANGED histories
      BY <1>1 DEF RunTimer, UserUnchanged, Goto
    <2>3. LinkFits' /\ ClosingFits'
      BY <2>1, <2>2 DEF LinkFits, ClosingFits
    <2> QED
      BY <1>0, <1>1, <2>2, <2>3, GotoKeepsAlone DEF Alone, RunTimer, histories
  <1>2. CASE HasRunningTimer(r)
    <2>1. PICK label \in {"close", "closeRunning"} : Goto(r, label) /\ (label = "close" => ~timer)
      BY <1>2 DEF HasRunningTimer
    <2>2. Agrees(label, c)
      BY <1>0, <1>2, <2>1 DEF HasRunningTimer, Agrees, Current, OfSignup, OfPending
    <2> QED
      BY <1>2, <2>1, <2>2, QuietKeepsAlone DEF HasRunningTimer
  <1>3. CASE SaveClosed(r)
    <2> DEFINE d == [c EXCEPT !.state = "deactivated"]
    <2>1. PICK label \in {"idle", "record"} :
            Goto(r, label) /\ (label = "idle" => call[r].at = "close")
      BY <1>3 DEF SaveClosed
    <2>2. user = c /\ c \in Users /\ (call[r].at = "close" => ~timer)
      BY <1>0, <1>3, HandlerTyped DEF SaveClosed, Agrees, Current
    <2>3. d \in Users /\ d.state = "deactivated" /\ d.password = user.password
      BY <2>2 DEF Users
    <2>4. Save(d) /\ UNCHANGED rows /\ UNCHANGED histories
      BY <1>3 DEF SaveClosed, Goto
    <2> HIDE DEF d
    <2>5. user' = d /\ user'.password \notin retired' /\ sessions' \intersect revoked' = {} /\ LinkFits'
      BY <1>0, <2>3, <2>4, SaveAlone
    <2>6. label = "record" => call'[r].at = "record" /\ call'[r].copy = c
      BY <1>0, <2>1, GotoCarries
    <2>7. ClosingFits'
      BY <2>1, <2>2, <2>4, <2>6 DEF ClosingFits, rows
    <2>8. label # "idle" => Agrees(call[r].at, call[r].copy)'
      BY <2>2, <2>3, <2>5, <2>6 DEF Agrees, Current, OfSignup, OfPending
    <2> QED
      BY <1>3, <2>1, <2>5, <2>7, <2>8, GotoKeepsAlone DEF SaveClosed
  <1>4. CASE RecordJob(r)
    <2>1. PICK label \in {"idle", "undo"} : Goto(r, label) /\ (label = "idle" => job')
      BY <1>4 DEF RecordJob, AfterFailedRecord
    <2>2. UNCHANGED <<user, retired, link, sessions, timer>> /\ UNCHANGED histories
      BY <1>4, <2>1 DEF RecordJob, UserUnchanged, Goto
    <2>3. label = "undo" => call'[r].at = "undo" /\ call'[r].copy = c
      BY <1>0, <2>1, GotoCarries
    <2>4. user.state = "deactivated" /\ user.password = c.password
      BY <1>0, <1>4 DEF RecordJob, Agrees
    <2>5. label # "idle" => Agrees(call[r].at, call[r].copy)'
      BY <2>1, <2>2, <2>3, <2>4 DEF Agrees, Current, OfSignup, OfPending
    <2>6. LinkFits' /\ ClosingFits'
      BY <2>1, <2>2, <2>3, <2>4 DEF LinkFits, ClosingFits
    <2> QED
      BY <1>0, <1>4, <2>1, <2>2, <2>5, <2>6, GotoKeepsAlone DEF Alone, RecordJob, histories
  <1>5. CASE Undo(r)
    <2>1. c \in Users /\ c.state = "active" /\ c.password = user.password
      BY <1>0, <1>5, HandlerTyped DEF Undo, CopyFits, Blank, OfActive, Agrees
    <2>2. Save(c) /\ UNCHANGED rows /\ UNCHANGED histories
      BY <1>5 DEF Undo, Goto
    <2>3. user' = c /\ user'.password \notin retired' /\ sessions' \intersect revoked' = {} /\ LinkFits' /\ ClosingFits'
      BY <1>0, <2>1, <2>2, SaveAlone
    <2> QED
      BY <1>5, <2>3, GotoKeepsAlone DEF Undo
  <1> QED
    BY <1>1, <1>2, <1>3, <1>4, <1>5

\* Handlers that go on do not touch what tells that they overlap.
LEMMA GoingOnKeepsOverlap ==
  ASSUME NEW r \in Requests, Continue(r) \/ Fail(r) \/ Crash(r)
  PROVE  overlapped' = overlapped
  BY DEF Continue, Fail, Crash, Goto, histories, LookupLink, LookupFails, SaveRegistration, SaveLink,
         MailLink, DeleteLink, DeleteLinkFails, IssueSession, ReadForVerify, SaveActivated, CheckCooldown,
         SaveFreshLink, SaveEdit, CountRecent, SaveReset, MailReset, ReadForReset, SavePassword,
         MarkConsumed, PurgeSessions, RunTimer, HasRunningTimer, SaveClosed, RecordJob, Undo

LEMMA StepKeepsAlone == AccountIInv /\ [AccountNext]_accountVars => AccountIInv'
  <1> SUFFICES ASSUME AccountIInv, [AccountNext]_accountVars, ~overlapped' PROVE Alone'
    BY StepKeepsTypes DEF AccountIInv
  <1>0. TypeInv /\ (~overlapped => Alone)
    BY DEF AccountIInv
  <1>1. ASSUME NEW r \in Requests, Begin(r) PROVE Alone'
    BY <1>1, BeginAlone
  <1>2. ASSUME NEW r \in Requests, Continue(r) PROVE Alone'
    BY <1>2, GoingOnKeepsOverlap, SignupAlone, LinkAlone, ResetAlone, ClosingAlone DEF Continue
  <1>3. ASSUME NEW r \in Requests, Fail(r) PROVE Alone'
    <2>1. ~overlapped
      BY <1>3, GoingOnKeepsOverlap
    <2> QED
      BY <1>3, <2>1, LabelsAre, QuietKeepsAlone DEF Fail
  <1>4. ASSUME NEW r \in Requests, Crash(r) PROVE Alone'
    <2>1. ~overlapped /\ call[r].at # "idle" /\ Alone
      BY <1>0, <1>4, GoingOnKeepsOverlap DEF Crash, At
    <2>2. Moved(r, "idle", NoAccount)
      BY <1>0, <1>4, IdleTyped, HandlerTyped DEF Crash, Moved, CallType, Idle
    <2>3. call'[r].at = "idle"
      BY <2>2 DEF Moved
    <2>4. OneHandler'
      BY <1>0, <2>1, <2>2, <2>3, HandlerAlone, OnlyOneMoves DEF Agrees, Current, OfSignup, OfPending
    <2>5. UNCHANGED <<user, retired, link, sessions, revoked, misread>> /\ crashed'
      BY <1>4, <2>1 DEF Crash, UserUnchanged, rows
    <2>6. LinkFits' /\ ClosingFits'
      BY <2>1, <2>5 DEF Alone, LinkFits, Dead, ClosingFits
    <2> QED
      BY <2>1, <2>4, <2>5, <2>6 DEF Alone
  \* Time, the user's logout, and a timer that is stopped between handlers.
  <1>5. ASSUME UNCHANGED <<user, retired, call, job, revoked, crashed, misread>>, ~overlapped,
               link'.seed = link.seed, Dead => Dead', timer' => timer,
               sessions' \subseteq sessions
        PROVE  Alone'
    <2>1. ASSUME NEW r \in Requests PROVE Agrees(call[r].at, call[r].copy)'
      BY <1>0, <1>5, HandlerAlone DEF Agrees, Unseen
    <2>2. OneHandler'
      BY <1>0, <1>5, <2>1 DEF Alone, OneHandler
    <2>3. LinkFits' /\ ClosingFits'
      BY <1>0, <1>5 DEF Alone, LinkFits, ClosingFits
    <2> QED
      BY <1>0, <1>5, <2>2, <2>3 DEF Alone
  <1>6. CASE LinkAges
    <2>1. link'.seed = link.seed /\ (Dead => Dead')
      BY <1>0, <1>6 DEF LinkAges, Dead, TypeInv, RowsTyped
    <2> QED
      BY <1>5, <1>6, <2>1 DEF LinkAges, UserUnchanged, histories
  <1>7. CASE HourPasses
    BY <1>5, <1>7 DEF HourPasses, UserUnchanged, histories, Dead
  <1>8. CASE Logout
    BY <1>5, <1>8 DEF Logout, UserUnchanged, histories, Dead
  <1>9. CASE StopTimer
    BY <1>5, <1>9 DEF StopTimer, UserUnchanged, histories, Dead, Overlap
  <1>10. CASE UNCHANGED accountVars
    BY <1>5, <1>10 DEF accountVars, rows, histories, Dead
  <1> QED
    BY <1>1, <1>2, <1>3, <1>4, <1>6, <1>7, <1>8, <1>9, <1>10 DEF AccountNext

LEMMA AccountInvariant == AccountSpec => []AccountIInv
  BY AloneInitially, StepKeepsAlone, PTL DEF AccountSpec

\* A verification link that can still be clicked confirms the credentials it
\* was mailed for, as long as handlers do not overlap and no lookup fails.
THEOREM LinksMatchCredentials == AccountSpec => []LinkMatchesCredentials
  <1>1. AccountIInv => LinkMatchesCredentials
    BY DEF AccountIInv, Alone, LinkFits, Dead, LinkMatchesCredentials
  <1> QED
    BY <1>1, AccountInvariant, PTL

\* A password reset that has reported success leaves no session of an older
\* password.
THEOREM ResetsRevokeSessions == AccountSpec => []ResetRevokesSessions
  <1>1. AccountIInv => ResetRevokesSessions
    BY DEF AccountIInv, Alone, ResetRevokesSessions
  <1> QED
    BY <1>1, AccountInvariant, PTL

\* An account is closed together with the handoff of its running timer.
THEOREM ClosedTimersHaveJobs == AccountSpec => []ClosedTimerHasJob
  <1>1. AccountIInv => ClosedTimerHasJob
    BY DEF AccountIInv, Alone, ClosingFits, ClosedTimerHasJob, At
  <1> QED
    BY <1>1, AccountInvariant, PTL
-----------------------------------------------------------------------------
(***************************************************************************)
(* The limit of reset links: the handlers that are about to save one count *)
(* as if they had.                                                         *)
(***************************************************************************)
Issuing == {r \in Requests : call[r].at = "token"}

Bound == ResetLimit + IF overlapped THEN Cardinality(Requests) - 1 ELSE 0

LimitInv ==
  /\ Cardinality(Recent) + Cardinality(Issuing) <= Bound
  /\ Issuing # {} => ResetLimit > 0

LEMMA Counts ==
  /\ IsFiniteSet(Recent) /\ IsFiniteSet(Issuing)
  /\ Cardinality(Recent) \in Nat /\ Cardinality(Issuing) \in Nat /\ Cardinality(Requests) \in Nat
  /\ Cardinality(Issuing) <= Cardinality(Requests)
  <1>1. IsFiniteSet(Resets)
    BY AccountAssumption, FS_Interval DEF Resets
  <1>2. Recent \subseteq Resets /\ Issuing \subseteq Requests
    BY DEF Recent, Issuing
  <1> HIDE DEF Recent, Issuing, Resets
  <1> QED
    BY <1>1, <1>2, AccountAssumption, FS_Subset, FS_CardinalityType

LEMMA CountsNext ==
  /\ IsFiniteSet(Recent') /\ IsFiniteSet(Issuing')
  /\ Cardinality(Recent') \in Nat /\ Cardinality(Issuing') \in Nat
  /\ Cardinality(Issuing') <= Cardinality(Requests)
  <1>1. IsFiniteSet(Resets)
    BY AccountAssumption, FS_Interval DEF Resets
  <1>2. Recent' \subseteq Resets /\ Issuing' \subseteq Requests
    BY DEF Recent, Issuing, Resets
  <1> HIDE DEF Recent, Issuing, Resets
  <1> QED
    BY <1>1, <1>2, AccountAssumption, FS_Subset, FS_CardinalityType

LEMMA OneRequestAtLeast == Requests # {} => Cardinality(Requests) >= 1
  BY AccountAssumption, Counts, FS_EmptySet

\* Steps after which no link and no handler counts that did not count before.
LEMMA NothingIssued ==
  ASSUME TypeInv, LimitInv, Recent' \subseteq Recent, Issuing' \subseteq Issuing,
         overlapped' = overlapped \/ (overlapped' /\ Requests # {})
  PROVE  LimitInv'
  <1>1. Cardinality(Recent') <= Cardinality(Recent) /\ Cardinality(Issuing') <= Cardinality(Issuing)
    BY Counts, FS_Subset
  <1>2. Bound' \in Int /\ Bound \in Int /\ Bound' >= Bound
    BY AccountAssumption, Counts, OneRequestAtLeast DEF Bound, TypeInv, HistoriesTyped
  <1>3. Issuing' # {} => Issuing # {}
    OBVIOUS
  <1> HIDE DEF Bound, Issuing, Recent
  <1>4. Cardinality(Recent') + Cardinality(Issuing') <= Bound'
    BY <1>1, <1>2, Counts, CountsNext DEF LimitInv
  <1> QED
    BY <1>3, <1>4 DEF LimitInv

LEMMA MovedIssuing ==
  ASSUME NEW r \in Requests, NEW label, NEW copy, Moved(r, label, copy)
  PROVE  /\ label # "token" => Issuing' \subseteq Issuing \ {r}
         /\ label = "token" => Issuing' = Issuing \union {r}
  BY DEF Moved, Issuing

LEMMA GotoIssuing ==
  ASSUME TypeInv, NEW r \in Requests, NEW label \in Labels, Goto(r, label), label # "token"
  PROVE  Issuing' \subseteq Issuing \ {r} /\ overlapped' = overlapped
  BY HandlerTyped, GotoMoves, MovedIssuing DEF Goto, histories

LEMMA BeginIssuing ==
  ASSUME TypeInv, NEW r \in Requests, Begin(r)
  PROVE  /\ Issuing' \subseteq Issuing
         /\ overlapped' = overlapped \/ (overlapped' /\ Requests # {})
         /\ Recent' = Recent
  <1>1. UNCHANGED rows
    BY DEF Begin, Register, VerifyEmail, ResendVerificationEmail, LoginBasic, Edit,
           RequestPasswordReset, ResetPassword, StartTimer, Deactivate
  <1>2. ASSUME NEW label, NEW copy, NEW i, BeginAt(r, label, copy, i), label # "token"
        PROVE  /\ Issuing' \subseteq Issuing
               /\ overlapped' = overlapped \/ (overlapped' /\ Requests # {})
    <2>1. \A s \in Requests : call'[s].at = "token" => call[s].at = "token"
      BY <1>2, HandlerTyped DEF BeginAt, CallType
    <2> QED
      BY <1>2, <2>1 DEF Issuing, BeginAt, histories, Overlap
  <1>3. ASSUME NEW p, NEW needs, NEW trusted, Register(r, p, needs, trusted)
        PROVE  \E label \in OfSignup : BeginAt(r, label, Seeded(p, needs), 0)
    BY <1>3 DEF Register, OfSignup
  <1>4. \A label \in OfSignup : label # "token"
    BY DEF OfSignup
  <1>5. \/ \E p, needs, trusted : Register(r, p, needs, trusted)
        \/ BeginAt(r, "verify", NoAccount, 0) \/ BeginAt(r, "cooldown", user, 0)
        \/ BeginAt(r, "session", user, 0) \/ BeginAt(r, "count", user, 0)
        \/ BeginAt(r, "timer", user, 0) \/ BeginAt(r, "hasTimer", user, 0)
        \/ \E p : BeginAt(r, "edit", [user EXCEPT !.password = p], 0)
        \/ \E i : BeginAt(r, "resetUser", NoAccount, i)
    <2> HIDE DEF BeginAt, Register
    <2> QED
      BY DEF Begin, VerifyEmail, ResendVerificationEmail, LoginBasic, Edit,
             RequestPasswordReset, ResetPassword, StartTimer, Deactivate
  <1>6. /\ Issuing' \subseteq Issuing
        /\ overlapped' = overlapped \/ (overlapped' /\ Requests # {})
    BY <1>2, <1>3, <1>4, <1>5
  <1> QED
    BY <1>1, <1>6 DEF Recent, rows

\* Going on without a token issues nothing.
LEMMA GoingOnIssues ==
  ASSUME TypeInv, LimitInv, NEW r \in Requests, NEW label \in Labels, Goto(r, label), label # "token",
         UNCHANGED resets
  PROVE  LimitInv'
  BY GotoIssuing, NothingIssued DEF Recent

LEMMA CountKeepsLimit ==
  ASSUME AccountIInv, LimitInv, NEW r \in Requests, CountRecent(r)
  PROVE  LimitInv'
  <1> USE LabelsAre
  <1>0. TypeInv /\ UNCHANGED resets /\ UNCHANGED overlapped /\ call[r].at = "count"
    BY DEF AccountIInv, CountRecent, At, rows, Goto, histories
  <1>1. CASE RecentCount >= ResetLimit
    BY <1>0, <1>1, GoingOnIssues DEF CountRecent
  <1>2. CASE RecentCount < ResetLimit
    <2>1. Goto(r, "token") /\ Recent' = Recent
      BY <1>0, <1>2, AccountAssumption, Counts DEF CountRecent, RecentCount, Recent
    <2>2. Issuing' = Issuing \union {r}
      BY <1>0, <2>1, HandlerTyped, GotoMoves, MovedIssuing
    <2>3. ~overlapped => Issuing = {}
      BY <1>0, HandlerAlone DEF Issuing
    <2>4. Cardinality({r}) = 1
      BY FS_Singleton
    <2>5. ~overlapped => Cardinality(Issuing') = 1
      BY <2>2, <2>3, <2>4
    <2>6. Cardinality(Recent') < ResetLimit
      BY <1>2, <2>1 DEF RecentCount
    <2>7. overlapped \in BOOLEAN /\ overlapped' = overlapped
      BY <1>0 DEF TypeInv, HistoriesTyped
    <2> HIDE DEF Issuing, Recent
    <2>8. Cardinality(Recent') + Cardinality(Issuing') <= Bound'
      <3>1. CASE overlapped
        BY <2>6, <2>7, <3>1, AccountAssumption, Counts, CountsNext DEF Bound
      <3>2. CASE ~overlapped
        BY <2>5, <2>6, <2>7, <3>2, AccountAssumption, Counts, CountsNext DEF Bound
      <3> QED
        BY <3>1, <3>2
    <2> QED
      BY <2>6, <2>8, AccountAssumption, CountsNext DEF LimitInv
  <1> QED
    BY <1>1, <1>2, AccountAssumption, Counts DEF RecentCount

\* The link that is saved was counted in with its handler.
LEMMA SaveKeepsLimit ==
  ASSUME AccountIInv, LimitInv, NEW r \in Requests, SaveReset(r)
  PROVE  LimitInv'
  <1> USE LabelsAre
  <1>0. TypeInv /\ UNCHANGED overlapped /\ call[r].at = "token"
    BY DEF AccountIInv, SaveReset, At, histories
  <1>1. PICK i \in Resets :
          /\ resets[i] = "none" /\ resets' = [resets EXCEPT ![i] = "unused"]
          /\ call' = [call EXCEPT ![r].at = "resetMail", ![r].reset = i]
    BY DEF SaveReset
  <1>2. Recent' = Recent \union {i} /\ i \notin Recent
    BY <1>0, <1>1 DEF Recent, TypeInv, RowsTyped
  <1>3. Moved(r, "resetMail", call[r].copy)
    BY <1>0, <1>1, HandlerTyped DEF Moved, CallType
  <1>4. Issuing' = Issuing \ {r}
    BY <1>3, MovedIssuing DEF Moved, Issuing
  <1>5. r \in Issuing
    BY <1>0 DEF Issuing
  <1>6. Bound' = Bound
    BY <1>0 DEF Bound
  <1> HIDE DEF Issuing, Recent, Bound
  <1>7. Cardinality(Recent') = Cardinality(Recent) + 1
    BY <1>2, Counts, FS_AddElement
  <1>8. Cardinality(Issuing') = Cardinality(Issuing) - 1
    BY <1>4, <1>5, Counts, FS_RemoveElement
  <1>9. Cardinality(Recent') + Cardinality(Issuing') <= Bound'
    BY <1>6, <1>7, <1>8, Counts DEF LimitInv
  <1> QED
    BY <1>4, <1>5, <1>9 DEF LimitInv

LEMMA OtherStepsKeepLimit ==
  ASSUME TypeInv, LimitInv, NEW r \in Requests, Continue(r) \/ Fail(r), ~CountRecent(r), ~SaveReset(r)
  PROVE  LimitInv'
  <1> USE LabelsAre DEF At
  <1>1. ASSUME UNCHANGED resets,
               \E label \in Labels \ {"token"} : Goto(r, label)
        PROVE  LimitInv'
    BY <1>1, GoingOnIssues
  <1>2. CASE \/ LookupLink(r) \/ SaveRegistration(r) \/ SaveLink(r) \/ MailLink(r)
             \/ DeleteLink(r) \/ DeleteLinkFails(r) \/ IssueSession(r)
    <2>1. UNCHANGED resets
      BY <1>2 DEF LookupLink, SaveRegistration, SaveLink, MailLink, DeleteLink, DeleteLinkFails, IssueSession, rows
    <2>2. \E label \in {"idle", "reclaim", "link", "clear", "session", "mail", "discard", "resend"} : Goto(r, label)
      BY <1>2 DEF LookupLink, SaveRegistration, AfterSave, SaveLink, MailLink, DeleteLink,
                  DeleteLinkFails, IssueSession
    <2> QED
      BY <1>1, <2>1, <2>2
  <1>3. CASE LookupFails(r)
    <2>1. UNCHANGED <<resets, overlapped>>
      BY <1>3 DEF LookupFails, rows
    <2>2. \A s \in Requests : call'[s].at = "token" => call[s].at = "token"
      BY <1>3, HandlerTyped DEF LookupFails, CallType
    <2> QED
      BY <2>1, <2>2, NothingIssued DEF Recent, Issuing
  <1>4. CASE ReadForVerify(r) \/ ReadForReset(r)
    <2>1. UNCHANGED resets
      BY <1>4 DEF ReadForVerify, ReadForReset, rows
    <2>2. CASE Goto(r, "idle")
      BY <1>1, <2>1, <2>2
    <2>3. ASSUME UNCHANGED histories,
                 \E label \in {"activate", "resetSave"} : \E copy :
                   call' = [call EXCEPT ![r].at = label, ![r].copy = copy]
          PROVE  LimitInv'
      <3>1. \A s \in Requests : call'[s].at = "token" => call[s].at = "token"
        BY <2>3, HandlerTyped DEF CallType
      <3> QED
        BY <2>1, <2>3, <3>1, NothingIssued DEF Recent, Issuing, histories
    <2> QED
      BY <1>4, <2>2, <2>3 DEF ReadForVerify, ReadForReset
  <1>5. CASE \/ SaveActivated(r) \/ CheckCooldown(r) \/ SaveFreshLink(r) \/ SaveEdit(r) \/ SavePassword(r)
             \/ RunTimer(r) \/ HasRunningTimer(r) \/ SaveClosed(r) \/ RecordJob(r) \/ Undo(r) \/ Fail(r)
    <2>1. UNCHANGED resets
      BY <1>5 DEF SaveActivated, CheckCooldown, SaveFreshLink, SaveEdit, SavePassword, RunTimer,
                  HasRunningTimer, SaveClosed, RecordJob, Undo, Fail, rows
    <2>2. \E label \in {"idle", "clear", "rotate", "consume", "close", "closeRunning", "record", "undo"} : Goto(r, label)
      BY <1>5 DEF SaveActivated, CheckCooldown, SaveFreshLink, SaveEdit, SavePassword, RunTimer,
                  HasRunningTimer, SaveClosed, RecordJob, AfterFailedRecord, Undo, Fail
    <2> QED
      BY <1>1, <2>1, <2>2
  <1>6. CASE MailReset(r) \/ MarkConsumed(r)
    <2>1. Recent' \subseteq Recent
      BY <1>6 DEF MailReset, MarkConsumed, Recent, TypeInv, RowsTyped
    <2>2. \E label \in {"idle", "purge"} : Goto(r, label)
      BY <1>6 DEF MailReset, MarkConsumed
    <2> QED
      BY <2>1, <2>2, GotoIssuing, NothingIssued
  <1>7. CASE PurgeSessions(r)
    <2>1. UNCHANGED <<resets, overlapped>>
      BY <1>7 DEF PurgeSessions
    <2>2. \A s \in Requests : call'[s].at = "token" => call[s].at = "token"
      BY <1>7, HandlerTyped DEF PurgeSessions, CallType, Idle
    <2> QED
      BY <2>1, <2>2, NothingIssued DEF Recent, Issuing
  <1> QED
    BY <1>2, <1>3, <1>4, <1>5, <1>6, <1>7 DEF Continue

LEMMA StepKeepsLimit == AccountIInv /\ LimitInv /\ [AccountNext]_accountVars => LimitInv'
  <1> SUFFICES ASSUME AccountIInv, LimitInv, [AccountNext]_accountVars PROVE LimitInv'
    OBVIOUS
  <1>0. TypeInv
    BY DEF AccountIInv
  <1>1. ASSUME NEW r \in Requests, Begin(r) PROVE LimitInv'
    BY <1>0, <1>1, BeginIssuing, NothingIssued
  <1>2. ASSUME NEW r \in Requests, Continue(r) \/ Fail(r) PROVE LimitInv'
    BY <1>0, <1>2, CountKeepsLimit, SaveKeepsLimit, OtherStepsKeepLimit
  <1>3. ASSUME NEW r \in Requests, Crash(r) PROVE LimitInv'
    <2>1. UNCHANGED <<resets, overlapped>>
      BY <1>3 DEF Crash, rows
    <2>2. \A s \in Requests : call'[s].at = "token" => call[s].at = "token"
      BY <1>0, <1>3, HandlerTyped DEF Crash, CallType, Idle
    <2> QED
      BY <1>0, <2>1, <2>2, NothingIssued DEF Recent, Issuing
  <1>4. ASSUME UNCHANGED <<resets, call>>, overlapped' = overlapped \/ (overlapped' /\ Requests # {})
        PROVE  LimitInv'
    BY <1>0, <1>4, NothingIssued DEF Recent, Issuing
  <1>5. CASE LinkAges
    BY <1>4, <1>5 DEF LinkAges, histories
  <1>6. CASE HourPasses
    <2>1. Recent' \subseteq Recent /\ Issuing' = Issuing
      BY <1>6 DEF HourPasses, Recent, Issuing
    <2> QED
      BY <1>0, <1>6, <2>1, NothingIssued DEF HourPasses, histories
  <1>7. CASE Logout
    BY <1>4, <1>7 DEF Logout, histories
  <1>8. CASE StopTimer
    BY <1>4, <1>8 DEF StopTimer, histories, Overlap
  <1>9. CASE UNCHANGED accountVars
    BY <1>4, <1>9 DEF accountVars, rows, histories
  <1> QED
    BY <1>1, <1>2, <1>3, <1>5, <1>6, <1>7, <1>8, <1>9 DEF AccountNext

LEMMA LimitInitially == AccountInit => LimitInv
  <1> SUFFICES ASSUME AccountInit PROVE LimitInv
    OBVIOUS
  <1>1. Recent = {} /\ Issuing = {} /\ ~overlapped
    BY DEF AccountInit, Recent, Issuing, Idle
  <1>2. Cardinality({}) = 0
    BY FS_EmptySet
  <1> HIDE DEF Recent, Issuing
  <1> QED
    BY <1>1, <1>2, AccountAssumption DEF LimitInv, Bound

\* An hour has at most ResetLimit reset links, and one more for each handler
\* that overlaps another one at the check.
THEOREM ResetsStayLimited == AccountSpec => []ResetsAreLimited
  <1>1. LimitInv => ResetsAreLimited
    <2> SUFFICES ASSUME LimitInv PROVE Cardinality(Recent) <= Bound
      BY DEF ResetsAreLimited, Bound
    <2> HIDE DEF Recent, Issuing
    <2> QED
      BY Counts, AccountAssumption DEF LimitInv, Bound
  <1>2. AccountSpec => []LimitInv
    BY LimitInitially, AloneInitially, StepKeepsAlone, StepKeepsLimit, PTL DEF AccountSpec
  <1> QED
    BY <1>1, <1>2, PTL
-----------------------------------------------------------------------------
(***************************************************************************)
(* Alone, every step is one of AccountLife, or changes nothing there.      *)
(***************************************************************************)
LifeState == IF Closing THEN "closing" ELSE user.state

LEMMA LifeForm ==
  ASSUME user \in Users
  PROVE  [user EXCEPT !.state = IF Closing THEN "closing" ELSE @] = [state |-> LifeState, password |-> user.password]
  BY DEF Users, LifeState

LEMMA LifeFormNext ==
  ASSUME user' \in Users
  PROVE  [user EXCEPT !.state = IF Closing THEN "closing" ELSE @]' = [state |-> LifeState', password |-> user'.password]
  BY DEF Users, LifeState

KeepsPassword == user'.password = user.password /\ retired' = retired

TakesNewPassword ==
  /\ user'.password \in Passwords /\ Unseen(user'.password)
  /\ retired' = retired \union {user.password}

LEMMA LifeSteps ==
  ASSUME user \in Users, user' \in Users,
         \/ LifeState = "none" /\ LifeState' \in {"pending", "active"} /\ user'.password \in Passwords /\ retired' = retired
         \/ LifeState = "pending" /\ LifeState' \in {"pending", "active"} /\ TakesNewPassword
         \/ LifeState = "pending" /\ LifeState' = "active" /\ KeepsPassword
         \/ LifeState = "active" /\ LifeState' = "active" /\ TakesNewPassword
         \/ LifeState = "active" /\ LifeState' \in {"closing", "deactivated"} /\ KeepsPassword
         \/ LifeState = "closing" /\ LifeState' \in {"deactivated", "active"} /\ KeepsPassword
  PROVE  Life!LifeNext
  <1> DEFINE u == [user EXCEPT !.state = IF Closing THEN "closing" ELSE @]
  <1>1. u = [state |-> LifeState, password |-> user.password]
    BY LifeForm
  <1>2. u' = [state |-> LifeState', password |-> user'.password]
    BY LifeFormNext
  <1>3. Life!LifeNext <=>
          \/ /\ u.state = "none"
             /\ \E s \in {"pending", "active"}, p \in Passwords : u' = [state |-> s, password |-> p]
             /\ UNCHANGED retired
          \/ /\ u.state = "pending"
             /\ \E s \in {"pending", "active"}, p \in Passwords :
                  /\ p \in Passwords \ (retired \union {u.password})
                  /\ retired' = retired \union {u.password}
                  /\ u' = [state |-> s, password |-> p]
          \/ /\ u.state = "pending" /\ u' = [u EXCEPT !.state = "active"] /\ UNCHANGED retired
          \/ /\ u.state = "active"
             /\ \E p \in Passwords :
                  /\ p \in Passwords \ (retired \union {u.password})
                  /\ retired' = retired \union {u.password}
                  /\ u' = [u EXCEPT !.password = p]
          \/ /\ u.state = "active"
             /\ \E s \in {"closing", "deactivated"} : u' = [u EXCEPT !.state = s]
             /\ UNCHANGED retired
          \/ /\ u.state = "closing"
             /\ \E s \in {"deactivated", "active"} : u' = [u EXCEPT !.state = s]
             /\ UNCHANGED retired
    BY DEF Life!LifeNext, Life!SignUp, Life!SignUpAgain, Life!Confirm, Life!ChangePassword, Life!Close,
           Life!Settle, Life!NewPassword
  <1> HIDE DEF u, LifeState
  <1> QED
    BY <1>1, <1>2, <1>3 DEF KeepsPassword, TakesNewPassword, Unseen

LEMMA LifeStutters ==
  ASSUME user \in Users, user' \in Users, LifeState' = LifeState, KeepsPassword
  PROVE  UNCHANGED Life!lifeVars
  BY LifeForm, LifeFormNext DEF Life!lifeVars, KeepsPassword

\* The state that Life sees, when one handler at most is under way.
LEMMA ClosingAt ==
  ASSUME AccountIInv, ~overlapped, NEW r \in Requests, call[r].at # "idle"
  PROVE  Closing <=> user.state = "deactivated" /\ call[r].at \in {"record", "undo"}
  BY HandlerAlone DEF Closing, At

LEMMA ClosingAfter ==
  ASSUME AccountIInv, ~overlapped, NEW r \in Requests, call[r].at # "idle",
         NEW label, NEW copy, Moved(r, label, copy)
  PROVE  Closing' <=> user'.state = "deactivated" /\ label \in {"record", "undo"}
  <1>1. \A s \in Requests \ {r} : call'[s].at = "idle"
    BY HandlerAlone DEF Moved
  <1> QED
    BY <1>1 DEF Closing, At, Moved

LEMMA SaveLives ==
  ASSUME AccountIInv, AccountIInv', ~overlapped, NEW r \in Requests, ~overlapped',
         \/ SaveRegistration(r) \/ SaveActivated(r) \/ SaveEdit(r) \/ SavePassword(r)
         \/ SaveClosed(r) \/ Undo(r)
  PROVE  Life!LifeNext \/ UNCHANGED Life!lifeVars
  <1> USE LabelsAre DEF At
  <1> DEFINE c == call[r].copy
  <1>0. TypeInv /\ user \in Users /\ user' \in Users /\ Alone /\ Agrees(call[r].at, c)
    BY HandlerAlone DEF AccountIInv, TypeInv, UserTyped
  <1>1. call[r].at \notin Blank /\ c \in Users /\ c.password \in Passwords
        /\ (call[r].at \in OfActive => c.state = "active")
        /\ c.state \in {"pending", "active"}
    <2>1. call[r].at \notin Blank
      BY DEF SaveRegistration, SaveActivated, SaveEdit, SavePassword, SaveClosed, Undo, Blank
    <2> QED
      BY <1>0, <2>1, HandlerTyped DEF CopyFits
  <1>2. call[r].at # "idle"
    BY <1>1 DEF Blank
  <1>a. ASSUME NEW label \in Labels, Goto(r, label), label \notin {"record", "undo"}
        PROVE  LifeState' = user'.state
    <2>1. Moved(r, label, IF label = "idle" THEN NoAccount ELSE c)
      BY <1>0, <1>a, HandlerTyped, GotoMoves
    <2> QED
      BY <1>2, <1>a, <2>1, ClosingAfter DEF LifeState
  <1>b. user.state # "deactivated" => LifeState = user.state
    BY DEF LifeState, Closing
  <1>c. ASSUME Save(c), Unseen(c.password), user # NoAccount PROVE TakesNewPassword /\ user' = c
    BY <1>1, <1>c DEF Save, Unseen, TakesNewPassword
  <1>d. ASSUME Save(c), c.password = user.password PROVE KeepsPassword /\ user' = c
    BY <1>d DEF Save, KeepsPassword
  <1>3. CASE SaveRegistration(r)
    <2>1. CASE call[r].at = "insert" /\ user # NoAccount
      BY <1>0, <2>1 DEF Agrees
    <2>2. CASE call[r].at = "insert" /\ user = NoAccount /\ Save(c) /\ Goto(r, AfterSave(r))
      <3>1. PICK label \in {"link", "clear", "session"} : Goto(r, label)
        BY <2>2 DEF AfterSave
      <3>2. LifeState' = user'.state /\ user' = c /\ retired' = retired /\ LifeState = "none"
        BY <1>a, <1>b, <2>2, <3>1 DEF Save, NoAccount
      <3> QED
        BY <1>0, <1>1, <3>2, LifeSteps
    <2>3. CASE call[r].at = "reclaim" /\ Save(c) /\ Goto(r, AfterSave(r))
      <3>1. PICK label \in {"link", "clear", "session"} : Goto(r, label)
        BY <2>3 DEF AfterSave
      <3>2. user.state = "pending" /\ Unseen(c.password) /\ user # NoAccount
        BY <1>0, <2>3 DEF Agrees, OfSignup, NoAccount
      <3>3. LifeState' = user'.state /\ user' = c /\ TakesNewPassword /\ LifeState = "pending"
        BY <1>a, <1>b, <1>c, <2>3, <3>1, <3>2
      <3> QED
        BY <1>0, <1>1, <3>3, LifeSteps
    <2> QED
      BY <1>3, <2>1, <2>2, <2>3 DEF SaveRegistration
  <1>4. CASE SaveActivated(r)
    <2>1. user.state = "pending" /\ c.password = user.password /\ c.state = "active"
      BY <1>0, <1>1, <1>4 DEF SaveActivated, Agrees, OfActive
    <2>2. LifeState' = user'.state /\ KeepsPassword /\ user' = c /\ LifeState = "pending"
      BY <1>4, <1>a, <1>b, <1>d, <2>1 DEF SaveActivated
    <2> QED
      BY <1>0, <2>1, <2>2, LifeSteps
  <1>5. CASE SaveEdit(r) \/ SavePassword(r)
    <2>1. user.state = "active" /\ c.state = "active" /\ (c.password = user.password \/ Unseen(c.password))
          /\ user # NoAccount /\ Save(c)
      BY <1>0, <1>1, <1>5 DEF SaveEdit, SavePassword, Agrees, OfActive, NoAccount
    <2>2. LifeState' = user'.state /\ LifeState = "active"
      BY <1>5, <1>a, <1>b, <2>1 DEF SaveEdit, SavePassword
    <2>3. CASE c.password = user.password
      BY <1>0, <1>d, <2>1, <2>2, <2>3, LifeStutters
    <2>4. CASE Unseen(c.password)
      BY <1>0, <1>c, <2>1, <2>2, <2>4, LifeSteps
    <2> QED
      BY <2>1, <2>3, <2>4
  <1>6. CASE SaveClosed(r)
    <2> DEFINE d == [c EXCEPT !.state = "deactivated"]
    <2>1. user = c /\ c.state = "active" /\ LifeState = "active"
      BY <1>0, <1>1, <1>6, <1>b DEF SaveClosed, Agrees, Current, OfActive
    <2>2. Save(d) /\ d.state = "deactivated" /\ d.password = user.password
      BY <1>1, <1>6, <2>1 DEF SaveClosed, Users
    <2> HIDE DEF d
    <2>3. user' = d /\ KeepsPassword
      BY <2>2 DEF Save, KeepsPassword
    <2>4. LifeState' \in {"closing", "deactivated"}
      BY <2>2, <2>3 DEF LifeState
    <2> QED
      BY <1>0, <2>1, <2>3, <2>4, LifeSteps
  <1>7. CASE Undo(r)
    <2>1. user.state = "deactivated" /\ c.password = user.password /\ c.state = "active"
      BY <1>0, <1>1, <1>7 DEF Undo, Agrees, OfActive
    <2>2. LifeState = "closing"
      BY <1>2, <1>7, <2>1, ClosingAt DEF LifeState, Undo
    <2>3. LifeState' = user'.state /\ KeepsPassword /\ user' = c
      BY <1>7, <1>a, <1>d, <2>1 DEF Undo
    <2> QED
      BY <1>0, <2>1, <2>2, <2>3, LifeSteps
  <1> QED
    BY <1>3, <1>4, <1>5, <1>6, <1>7

\* A step that leaves the row alone is seen only where a closing gets final.
LEMMA OtherwiseLives ==
  ASSUME AccountIInv, AccountIInv', UserUnchanged, Closing' => Closing
  PROVE  Life!LifeNext \/ UNCHANGED Life!lifeVars
  <1>1. user \in Users /\ user' \in Users /\ KeepsPassword /\ user' = user
    BY DEF AccountIInv, TypeInv, UserTyped, UserUnchanged, KeepsPassword
  <1>2. CASE Closing' <=> Closing
    BY <1>1, <1>2, LifeStutters DEF LifeState
  <1>3. CASE Closing /\ ~Closing'
    <2>1. LifeState = "closing" /\ LifeState' = "deactivated"
      BY <1>1, <1>3 DEF LifeState, Closing
    <2> QED
      BY <1>1, <2>1, LifeSteps
  <1> QED
    BY <1>2, <1>3

\* Only SaveClosed leads to where a closing may still be taken back.
LEMMA OthersDoNotClose ==
  ASSUME TypeInv, NEW r \in Requests,
         \/ Begin(r) \/ LookupLink(r) \/ LookupFails(r) \/ SaveLink(r) \/ MailLink(r)
         \/ DeleteLink(r) \/ DeleteLinkFails(r) \/ IssueSession(r)
         \/ ReadForVerify(r) \/ CheckCooldown(r) \/ SaveFreshLink(r)
         \/ CountRecent(r) \/ SaveReset(r) \/ MailReset(r) \/ ReadForReset(r)
         \/ MarkConsumed(r) \/ PurgeSessions(r)
         \/ RunTimer(r) \/ HasRunningTimer(r) \/ RecordJob(r) \/ Fail(r) \/ Crash(r)
  PROVE  UserUnchanged /\ (Closing' => Closing)
  <1> USE LabelsAre DEF At
  <1>1. UserUnchanged
    BY DEF Begin, Register, VerifyEmail, ResendVerificationEmail, LoginBasic, Edit, RequestPasswordReset,
           ResetPassword, StartTimer, Deactivate, LookupLink, LookupFails, SaveLink, MailLink, DeleteLink,
           DeleteLinkFails, IssueSession, ReadForVerify, CheckCooldown, SaveFreshLink, CountRecent,
           SaveReset, MailReset, ReadForReset, MarkConsumed, PurgeSessions, RunTimer, HasRunningTimer,
           RecordJob, Fail, Crash
  <1> SUFFICES Closing' => Closing
    BY <1>1
  <1>2. ASSUME \A s \in Requests : call'[s].at \in {"record", "undo"} => call[s].at \in {"record", "undo"}
        PROVE  Closing' => Closing
    BY <1>1, <1>2 DEF Closing, UserUnchanged
  <1>3. ASSUME NEW label \in Labels \ {"record", "undo"}, NEW copy, Moved(r, label, copy)
        PROVE  Closing' => Closing
    <2>1. \A s \in Requests : call'[s].at \in {"record", "undo"} => call[s].at \in {"record", "undo"}
      BY <1>3 DEF Moved
    <2> QED
      BY <1>2, <2>1
  <1>4. ASSUME NEW label \in Labels \ {"record", "undo"}, Goto(r, label)
        PROVE  Closing' => Closing
    BY <1>3, <1>4, HandlerTyped, GotoMoves
  <1>5. CASE Begin(r)
    <2>1. ASSUME NEW label, label \notin {"record", "undo"}, NEW copy, NEW i, BeginAt(r, label, copy, i)
          PROVE  Closing' => Closing
      <3>1. \A s \in Requests : call'[s].at \in {"record", "undo"} => call[s].at \in {"record", "undo"}
        BY <2>1, HandlerTyped DEF BeginAt, CallType
      <3> QED
        BY <1>2, <3>1
    <2>2. ASSUME NEW p, NEW needs, NEW trusted, Register(r, p, needs, trusted)
          PROVE  \E label \in {"insert", "lookup", "reclaim"} : BeginAt(r, label, Seeded(p, needs), 0)
      BY <2>2 DEF Register
    <2> HIDE DEF Closing
    <2> QED
      BY <1>5, <2>1, <2>2 DEF Begin, VerifyEmail, ResendVerificationEmail, LoginBasic, Edit,
         RequestPasswordReset, ResetPassword, StartTimer, Deactivate
  <1>6. CASE \/ LookupLink(r) \/ SaveLink(r) \/ MailLink(r) \/ DeleteLink(r) \/ DeleteLinkFails(r)
             \/ IssueSession(r) \/ CheckCooldown(r) \/ SaveFreshLink(r) \/ CountRecent(r) \/ MailReset(r)
             \/ MarkConsumed(r) \/ RunTimer(r) \/ HasRunningTimer(r) \/ Fail(r)
    <2>1. \E label \in {"idle", "reclaim", "mail", "discard", "session", "resend", "rotate", "token", "purge",
                        "close", "closeRunning"} : Goto(r, label)
      BY <1>6 DEF LookupLink, SaveLink, MailLink, DeleteLink, DeleteLinkFails, IssueSession, CheckCooldown,
                  SaveFreshLink, CountRecent, MailReset, MarkConsumed, RunTimer, HasRunningTimer, Fail
    <2> QED
      BY <1>4, <2>1
  <1>7. CASE LookupFails(r) \/ SaveReset(r) \/ PurgeSessions(r) \/ Crash(r)
    <2>1. \A s \in Requests : call'[s].at \in {"record", "undo"} => call[s].at \in {"record", "undo"}
      BY <1>7, HandlerTyped DEF LookupFails, SaveReset, PurgeSessions, Crash, CallType, Idle
    <2> QED
      BY <1>2, <2>1
  <1>8. CASE ReadForVerify(r) \/ ReadForReset(r)
    <2>1. CASE Goto(r, "idle")
      BY <1>4, <2>1
    <2>2. ASSUME \E label \in {"activate", "resetSave"} : \E copy :
                   call' = [call EXCEPT ![r].at = label, ![r].copy = copy]
          PROVE  Closing' => Closing
      <3>1. \A s \in Requests : call'[s].at \in {"record", "undo"} => call[s].at \in {"record", "undo"}
        BY <2>2, HandlerTyped DEF CallType
      <3> QED
        BY <1>2, <3>1
    <2> QED
      BY <1>8, <2>1, <2>2 DEF ReadForVerify, ReadForReset
  <1>9. CASE RecordJob(r)
    <2>1. PICK label \in {"idle", "undo"} : Goto(r, label)
      BY <1>9 DEF RecordJob, AfterFailedRecord
    <2>2. Moved(r, label, IF label = "idle" THEN NoAccount ELSE call[r].copy)
      BY <2>1, HandlerTyped, GotoMoves
    <2>3. \A s \in Requests : call'[s].at \in {"record", "undo"} => call[s].at \in {"record", "undo"}
      BY <1>9, <2>2 DEF RecordJob, Moved
    <2> QED
      BY <1>2, <2>3
  <1> QED
    BY <1>5, <1>6, <1>7, <1>8, <1>9

LEMMA StepLives ==
  AccountIInv /\ AccountIInv' /\ [AccountNext]_accountVars =>
    [~overlapped' => Life!LifeNext]_(Life!lifeVars)
  <1> SUFFICES ASSUME AccountIInv, AccountIInv', [AccountNext]_accountVars, ~overlapped'
               PROVE  Life!LifeNext \/ UNCHANGED Life!lifeVars
    OBVIOUS
  <1>0. TypeInv
    BY DEF AccountIInv
  <1>1. ASSUME NEW r \in Requests, Begin(r) \/ Fail(r) \/ Crash(r)
        PROVE  Life!LifeNext \/ UNCHANGED Life!lifeVars
    BY <1>0, <1>1, OthersDoNotClose, OtherwiseLives
  <1>2. ASSUME NEW r \in Requests, Continue(r)
        PROVE  Life!LifeNext \/ UNCHANGED Life!lifeVars
    <2>1. ~overlapped
      BY <1>2, GoingOnKeepsOverlap
    <2>2. CASE \/ SaveRegistration(r) \/ SaveActivated(r) \/ SaveEdit(r) \/ SavePassword(r)
               \/ SaveClosed(r) \/ Undo(r)
      BY <2>1, <2>2, SaveLives
    <2> HIDE DEF Life!LifeNext, Life!lifeVars
    <2> QED
      BY <1>0, <1>2, <2>2, OthersDoNotClose, OtherwiseLives DEF Continue
  <1>3. ASSUME UserUnchanged, UNCHANGED call
        PROVE  Life!LifeNext \/ UNCHANGED Life!lifeVars
    <2>1. Closing' => Closing
      BY <1>3 DEF Closing, At, UserUnchanged
    <2> QED
      BY <1>3, <2>1, OtherwiseLives
  <1>4. LinkAges \/ HourPasses \/ Logout \/ StopTimer \/ UNCHANGED accountVars
          => UserUnchanged /\ UNCHANGED call
    BY DEF LinkAges, HourPasses, Logout, StopTimer, accountVars, UserUnchanged
  <1> QED
    BY <1>1, <1>2, <1>3, <1>4 DEF AccountNext

\* As long as no two handlers overlap, the account lives as AccountLife says:
\* it never falls back to pending, only its own handler takes a closing back,
\* and a password that was replaced never returns.
THEOREM HandlersAloneLive == AccountSpec => AloneItLives
  BY AloneInitially, StepKeepsAlone, StepLives, PTL DEF AccountSpec, AloneItLives
=============================================================================
