----------------------------- MODULE Membership -----------------------------
(***************************************************************************)
(* The rows of one person in membership_workspace_members, one workspace   *)
(* per organization: invites, their acceptance, and the managers' changes, *)
(* statement by statement.  A change saves the whole row it read, except   *)
(* its user.  Role, rates and names are data no property looks at.         *)
(***************************************************************************)
EXTENDS Naturals, FiniteSets

CONSTANTS
  Managers,       \* requests of managers that may run at a time
  Administered,   \* bound: workspaces whose managers are at work
  MaxWorkspaces,  \* bound: organizations that are ever created
  MaxTokens       \* bound: invites that are ever mailed

ASSUME MembershipAssumption == MaxWorkspaces \in Nat \ {0} /\ MaxTokens \in Nat

VARIABLES
  account,    \* identity_users has the person
  exists,     \* the organizations, and their workspaces
  member,     \* the person's row in each workspace
  issued,     \* invites mailed so far; the last is the highest token
  expired,    \* tokens older than WorkspaceInviteTokenTTL
  home,       \* web_user_homes
  request,    \* the handlers
  entered,    \* history: workspaces the person has accepted or was given
  overlapped  \* history: a row was written between a handler's read and its write

rowVars == <<account, exists, member, issued, expired, home>>
membershipVars == <<rowVars, request, entered, overlapped>>

Workspaces == 1..MaxWorkspaces
Shared == 1    \* the workspace of somebody else
Nowhere == 0   \* no workspace
NoToken == 0
NoRow == [state |-> "none", linked |-> FALSE, token |-> NoToken]
Quiet == [at |-> "idle", w |-> Nowhere, copy |-> NoRow]

MembershipInit ==
  /\ account = FALSE
  /\ exists = {Shared}
  /\ member = [w \in Workspaces |-> NoRow]
  /\ issued = 0 /\ expired = {}
  /\ home = Nowhere
  /\ request = [m \in Managers |-> Quiet]
  /\ entered = {} /\ overlapped = FALSE

\* ListWorkspacesByUserID
Listed == {w \in exists : member[w].linked /\ member[w].state # "removed"}

\* requireManager; somebody else manages the shared workspace.
Managed(w) == w \in exists \intersect Administered /\ (w = Shared \/ member[w].state \in {"joined", "restored"})

HandlerRuns == \E m \in Managers : request[m].at # "idle"

BeginRequest(m, label, w, copy) ==
  /\ request[m].at = "idle"
  /\ request' = [request EXCEPT ![m] = [at |-> label, w |-> w, copy |-> copy]]
  /\ overlapped' = (overlapped \/ HandlerRuns)
  /\ UNCHANGED <<rowVars, entered>>

Finish(m) == request' = [request EXCEPT ![m] = Quiet]

NewToken(w, row) ==
  /\ issued < MaxTokens
  /\ issued' = issued + 1
  /\ member' = [member EXCEPT ![w] = [row EXCEPT !.state = "invited", !.token = issued + 1]]
-----------------------------------------------------------------------------
Invite(m, w) ==
  /\ Managed(w)
  /\ \/ member[w] = NoRow /\ BeginRequest(m, "identity", w, NoRow)
     \/ member[w].state \in {"invited", "removed"} /\ BeginRequest(m, "reinvite", w, member[w])

\* lookupIdentityByEmail
LookupIdentity(m) ==
  /\ request[m].at = "identity"
  /\ request' = [request EXCEPT ![m].at = "insert", ![m].copy.linked = account]
  /\ UNCHANGED <<rowVars, entered, overlapped>>

\* The address is unique in a workspace: a second insert is refused.
InsertInvited(m) ==
  LET w == request[m].w IN
  /\ request[m].at = "insert"
  /\ IF w \in exists /\ member[w] = NoRow
     THEN NewToken(w, request[m].copy)
     ELSE UNCHANGED <<member, issued>>
  /\ Finish(m)
  /\ UNCHANGED <<account, exists, expired, home, entered, overlapped>>

Reinvites(w) == member[w].state \in {"invited", "removed"}

\* The recipient must accept again: the user is cleared.
ReinviteWorkspaceMember(m) ==
  LET w == request[m].w IN
  /\ request[m].at = "reinvite"
  /\ IF Reinvites(w)
     THEN NewToken(w, [member[w] EXCEPT !.linked = FALSE])
     ELSE UNCHANGED <<member, issued>>
  /\ Finish(m)
  /\ UNCHANGED <<account, exists, expired, home, entered, overlapped>>

ResendWorkspaceInvite(w) ==
  /\ Managed(w) /\ member[w].state = "invited"
  /\ NewToken(w, member[w])
  /\ overlapped' = (overlapped \/ HandlerRuns)
  /\ UNCHANGED <<account, exists, expired, home, request, entered>>

TokenExpires(t) ==
  /\ t \in 1..issued \ expired
  /\ expired' = expired \union {t}
  /\ UNCHANGED <<account, exists, member, issued, home, request, entered, overlapped>>

\* Mutant: any member that is not active can be restored.
RestoresRemoved(state) == state \in {"disabled", "removed"}

Restores(state) == state = "disabled"

\* The transitions of the aggregate; nobody disables themselves, and an edit
\* of role or rates keeps the state.
Transitions(w) ==
  LET s == member[w].state IN
  (IF s \in {"joined", "restored"} /\ w = Shared THEN {"disabled"} ELSE {})
    \union (IF Restores(s) THEN {"restored"} ELSE {})
    \union {"removed", s}

\* transitionWorkspaceMember, UpdateWorkspaceMember
Change(m, w) ==
  /\ Managed(w) /\ member[w] # NoRow
  /\ \E s \in Transitions(w) : BeginRequest(m, "save", w, [member[w] EXCEPT !.state = s])

\* SaveWorkspaceMember leaves user_id alone.
SaveWorkspaceMember(m) ==
  LET w == request[m].w IN
  /\ request[m].at = "save"
  /\ member' = IF member[w] = NoRow THEN member
               ELSE [member EXCEPT ![w] = [request[m].copy EXCEPT !.linked = member[w].linked]]
  /\ Finish(m)
  /\ UNCHANGED <<account, exists, issued, expired, home, entered, overlapped>>

\* A statement fails, or the process stops.
RequestFails(m) ==
  /\ request[m].at # "idle"
  /\ Finish(m)
  /\ UNCHANGED <<rowVars, entered, overlapped>>
-----------------------------------------------------------------------------
\* FindInviteByToken and the checks of ClaimInvite.
CanAccept(w, t) == t # NoToken /\ member[w].token = t /\ member[w].state = "invited" /\ t \notin expired

\* Mutant: the update looks for the token only.
AcceptsToken(w, t) == t # NoToken /\ member[w].token = t

\* The condition of the update that accepts.
Accepts(w, t) == CanAccept(w, t)

\* AcceptInvite, one transaction.
AcceptInvite(t) ==
  /\ IF \E w \in exists : Accepts(w, t)
     THEN LET w == CHOOSE x \in exists : Accepts(x, t) IN
          /\ member' = [member EXCEPT ![w] = [state |-> "joined", linked |-> TRUE, token |-> NoToken]]
          /\ home' = IF home = Nowhere THEN w ELSE home
          /\ entered' = entered \union {w}
          /\ overlapped' = (overlapped \/ HandlerRuns)
     ELSE UNCHANGED <<member, home, entered, overlapped>>
  /\ UNCHANGED <<account, exists, issued, expired, request>>

\* Mutant: the home is not deleted with its workspace.
DeleteKeepingHome(w) ==
  /\ w \in exists
  /\ w = Shared \/ home = w
  /\ exists' = exists \ {w}
  /\ member' = [member EXCEPT ![w] = NoRow]
  /\ entered' = entered \ {w}
  /\ UNCHANGED <<account, issued, expired, home, request, overlapped>>

\* The rows of an organization go with it.
DeleteOrganization(w) ==
  /\ w \in exists
  /\ w = Shared \/ home = w
  /\ exists' = exists \ {w}
  /\ member' = [member EXCEPT ![w] = NoRow]
  /\ home' = IF home = w THEN Nowhere ELSE home
  /\ entered' = entered \ {w}
  /\ UNCHANGED <<account, issued, expired, request, overlapped>>

ManagerStep(m) ==
  \/ \E w \in Workspaces : Invite(m, w) \/ Change(m, w)
  \/ LookupIdentity(m) \/ InsertInvited(m) \/ ReinviteWorkspaceMember(m)
  \/ SaveWorkspaceMember(m) \/ RequestFails(m)
-----------------------------------------------------------------------------
Rows ==
  [state : {"none", "invited", "joined", "disabled", "restored", "removed"},
   linked : BOOLEAN, token : 0..MaxTokens]

Members == {"joined", "disabled", "restored"}

Life(w) == INSTANCE MemberLife WITH
  state <- member[w].state,
  open <- \E t \in 1..MaxTokens : CanAccept(w, t)

\* As long as nothing is written between the read and the write of a manager's
\* request, every change of a row is one a membership may take.
AloneMembersLive ==
  [][~overlapped' => \A w \in Workspaces :
        Life(w)!MemberNext \/ UNCHANGED Life(w)!memberVars]_membershipVars

\* Nobody is a member of a workspace they have not accepted an invite to, or
\* were given, in whatever order handlers write back the rows they have read.
MembersEntered == \A w \in Workspaces : member[w].state \in Members => w \in entered
=============================================================================
