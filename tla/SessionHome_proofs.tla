------------------------- MODULE SessionHome_proofs -------------------------
(***************************************************************************)
(* What holds of homes and memberships for every number of managers,       *)
(* devices, workspaces and invites.                                        *)
(***************************************************************************)
EXTENDS SessionHome, FiniteSetTheorems, WellFoundedInduction, TLAPS

Labels == {"idle", "identity", "insert", "reinvite", "save"}

RowTypes ==
  /\ member \in [Workspaces -> Rows]
  /\ request \in [Managers -> [at : Labels, w : Workspaces \union {Nowhere}, copy : Rows]]
  /\ created \in Workspaces /\ exists \subseteq 1..created
  /\ issued \in 0..MaxTokens

\* An organization takes its rows with it.
GoneHaveNoRow == \A w \in Workspaces \ exists : member[w] = NoRow

\* A request is about a workspace that was created.
RequestsOfCreated ==
  \A m \in Managers :
    request[m].w <= created /\ (request[m].at # "idle" => request[m].w \in Workspaces)

\* A copy that makes a member was read where the person had entered, or the
\* workspace is gone since and the save finds no row.
CopiesEntered ==
  \A m \in Managers :
    request[m].at = "save" /\ request[m].copy.state \in Members =>
      request[m].w \in entered \/ request[m].w \notin exists

EnteredInv == RowTypes /\ GoneHaveNoRow /\ RequestsOfCreated /\ CopiesEntered /\ MembersEntered

rowsOfInv == <<member, request, created, exists, issued, entered>>

LEMMA EnteredInitially == HomeInit => EnteredInv
  BY MembershipAssumption, HomeAssumption
  DEF HomeInit, MembershipInit, EnteredInv, RowTypes, GoneHaveNoRow, RequestsOfCreated,
      CopiesEntered, MembersEntered, Workspaces, Rows, NoRow, Quiet, Labels, Members, Shared, Nowhere, NoToken

\* Steps of bootstraps that touch no row.
LEMMA OthersKeepEntered ==
  ASSUME EnteredInv, UNCHANGED rowsOfInv
  PROVE  EnteredInv'
  BY DEF EnteredInv, RowTypes, GoneHaveNoRow, RequestsOfCreated, CopiesEntered, MembersEntered,
         rowsOfInv

LEMMA NoRowIsARow == NoRow \in Rows /\ NoRow.state \notin Members
  BY MembershipAssumption DEF NoRow, Rows, Members, NoToken

\* A manager's request begins, with a copy that makes no member anew.
LEMMA BeginKeepsEntered ==
  ASSUME EnteredInv, NEW m \in Managers, NEW label \in Labels, NEW w \in exists, NEW copy \in Rows,
         BeginRequest(m, label, w, copy), UNCHANGED created,
         label = "save" /\ copy.state \in Members => w \in entered
  PROVE  EnteredInv'
  <1> USE DEF EnteredInv, BeginRequest, rowVars
  <1>1. w \in 1..created /\ w \in Workspaces /\ w <= created
    BY MembershipAssumption DEF RowTypes, Workspaces
  <1>2. RowTypes'
    BY <1>1 DEF RowTypes
  <1>3. \A n \in Managers : request'[n] = IF n = m THEN [at |-> label, w |-> w, copy |-> copy] ELSE request[n]
    BY DEF RowTypes
  <1>4. GoneHaveNoRow' /\ MembersEntered'
    BY DEF GoneHaveNoRow, MembersEntered
  <1>5. RequestsOfCreated'
    BY <1>1, <1>3 DEF RequestsOfCreated
  <1>6. CopiesEntered'
    BY <1>3 DEF CopiesEntered
  <1>7. QED
    BY <1>2, <1>4, <1>5, <1>6

\* A request may end with the step.
Ends == request' = request \/ \E m \in Managers : Finish(m)

LEMMA EndedRequests ==
  ASSUME EnteredInv, Ends
  PROVE  /\ request' \in [Managers -> [at : Labels, w : Workspaces \union {Nowhere}, copy : Rows]]
         /\ \A n \in Managers : request'[n] = request[n] \/ request'[n] = Quiet
         /\ Quiet.at = "idle" /\ Quiet.w <= created
  <1>1. Quiet \in [at : Labels, w : Workspaces \union {Nowhere}, copy : Rows] /\ Quiet.at = "idle" /\ Quiet.w <= created
    BY NoRowIsARow, MembershipAssumption DEF Quiet, Labels, Nowhere, EnteredInv, RowTypes, Workspaces
  <1>2. QED
    BY <1>1 DEF Ends, Finish, EnteredInv, RowTypes

\* No row is written.
LEMMA EndKeepsEntered ==
  ASSUME EnteredInv, Ends, UNCHANGED <<member, created, exists, issued, entered>>
  PROVE  EnteredInv'
  <1>1. RowTypes'
    BY EndedRequests DEF EnteredInv, RowTypes
  <1>2. QED
    BY <1>1, EndedRequests
    DEF EnteredInv, GoneHaveNoRow, MembersEntered, RequestsOfCreated, CopiesEntered

\* A row is written that makes a member only where the person has entered.
LEMMA RowKeepsEntered ==
  ASSUME EnteredInv, Ends, NEW w \in exists, NEW row \in Rows,
         member' = [member EXCEPT ![w] = row],
         row.state \in Members => w \in entered',
         entered \subseteq entered', issued' \in 0..MaxTokens,
         UNCHANGED <<created, exists>>
  PROVE  EnteredInv'
  <1> USE DEF EnteredInv
  <1>1. w \in Workspaces
    BY MembershipAssumption DEF RowTypes, Workspaces
  <1>2. \A v \in Workspaces : member'[v] = IF v = w THEN row ELSE member[v]
    BY DEF RowTypes
  <1>3. RowTypes'
    BY <1>1, EndedRequests DEF RowTypes
  <1>4. MembersEntered' /\ GoneHaveNoRow'
    BY <1>2 DEF MembersEntered, GoneHaveNoRow
  <1>5. RequestsOfCreated' /\ CopiesEntered'
    BY EndedRequests DEF RequestsOfCreated, CopiesEntered
  <1>6. QED
    BY <1>3, <1>4, <1>5

\* An invite makes nobody a member.
LEMMA NewTokenKeepsEntered ==
  ASSUME EnteredInv, Ends, NEW w \in exists, NEW row \in Rows, NewToken(w, row),
         UNCHANGED <<created, exists, entered>>
  PROVE  EnteredInv'
  <1> DEFINE invited == [row EXCEPT !.state = "invited", !.token = issued + 1]
  <1>1. issued + 1 \in 0..MaxTokens /\ issued' = issued + 1
    BY MembershipAssumption DEF EnteredInv, RowTypes, NewToken
  <1>2. \A t \in 0..MaxTokens :
          /\ [row EXCEPT !.state = "invited", !.token = t] \in Rows
          /\ [row EXCEPT !.state = "invited", !.token = t].state = "invited"
    BY DEF Rows
  <1>3. invited \in Rows /\ invited.state \notin Members
    BY <1>1, <1>2 DEF Rows, Members
  <1>4. QED
    BY <1>1, <1>3, RowKeepsEntered DEF NewToken

\* The row a workspace of the request has.
LEMMA RowsOfExisting ==
  ASSUME EnteredInv
  PROVE  /\ \A w \in exists : w \in Workspaces /\ w <= created /\ member[w] \in Rows
         /\ \A m \in Managers : request[m].copy \in Rows /\ request[m].w \in Workspaces \union {Nowhere}
  BY MembershipAssumption DEF EnteredInv, RowTypes, Workspaces

LEMMA InviteKeepsEntered ==
  ASSUME EnteredInv, NEW m \in Managers, NEW w \in Workspaces, Invite(m, w), UNCHANGED created
  PROVE  EnteredInv'
  <1>1. w \in exists
    BY DEF Invite, Managed
  <1>2. "identity" \in Labels /\ "reinvite" \in Labels
    BY DEF Labels
  <1>3. QED
    BY <1>1, <1>2, NoRowIsARow, RowsOfExisting, BeginKeepsEntered DEF Invite

LEMMA LookupKeepsEntered ==
  ASSUME EnteredInv, NEW m \in Managers, LookupIdentity(m), account \in BOOLEAN, UNCHANGED created
  PROVE  EnteredInv'
  <1> DEFINE read == request[m]
             copy == [read.copy EXCEPT !.linked = account]
             known == [read EXCEPT !.at = "insert", !.copy = copy]
  <1>1. read \in [at : Labels, w : Workspaces \union {Nowhere}, copy : Rows]
    BY DEF EnteredInv, RowTypes
  <1>2. read.copy \in Rows
    BY <1>1
  <1>3. copy \in Rows
    BY <1>2 DEF Rows
  <1>4. known \in [at : Labels, w : Workspaces \union {Nowhere}, copy : Rows] /\ known.at = "insert" /\ known.w = read.w
    <2> HIDE DEF copy
    <2>1. QED
      BY <1>1, <1>3 DEF Labels
  <1>5. request' = [request EXCEPT ![m] = known]
    BY DEF LookupIdentity
  <1>6. \A n \in Managers : request'[n] = IF n = m THEN known ELSE request[n]
    BY <1>5 DEF EnteredInv, RowTypes
  <1>7. UNCHANGED <<member, created, exists, issued, entered>>
    BY DEF LookupIdentity, rowVars
  <1>8. RowTypes'
    BY <1>4, <1>5, <1>7 DEF EnteredInv, RowTypes
  <1> HIDE DEF known
  <1>9. RequestsOfCreated'
    BY <1>4, <1>6, <1>7 DEF EnteredInv, RequestsOfCreated, LookupIdentity
  <1>10. CopiesEntered'
    BY <1>4, <1>6, <1>7 DEF EnteredInv, CopiesEntered
  <1>11. QED
    BY <1>7, <1>8, <1>9, <1>10 DEF EnteredInv, GoneHaveNoRow, MembersEntered

LEMMA ChangeKeepsEntered ==
  ASSUME EnteredInv, NEW m \in Managers, NEW w \in Workspaces, Change(m, w), UNCHANGED created
  PROVE  EnteredInv'
  <1>1. w \in exists /\ member[w] \in Rows
    BY RowsOfExisting DEF Change, Managed
  <1>2. PICK s \in Transitions(w) : BeginRequest(m, "save", w, [member[w] EXCEPT !.state = s])
    BY DEF Change
  <1>3. [member[w] EXCEPT !.state = s] \in Rows /\ [member[w] EXCEPT !.state = s].state = s
    BY <1>1, <1>2 DEF Transitions, Rows, Restores
  <1>4. s \in Members => member[w].state \in Members
    BY <1>2 DEF Transitions, Restores, Members
  <1>5. s \in Members => w \in entered
    BY <1>4 DEF EnteredInv, MembersEntered
  <1>6. "save" \in Labels
    BY DEF Labels
  <1>7. QED
    BY <1>1, <1>2, <1>3, <1>5, <1>6, BeginKeepsEntered

\* A save writes a member only where the copy says so, and only over a row.
LEMMA SaveKeepsEntered ==
  ASSUME EnteredInv, NEW m \in Managers, SaveWorkspaceMember(m), UNCHANGED created
  PROVE  EnteredInv'
  <1> DEFINE w == request[m].w
             row == [request[m].copy EXCEPT !.linked = member[w].linked]
  <1>1. Ends
    BY DEF SaveWorkspaceMember, Ends
  <1>2. CASE w \in exists /\ member[w] # NoRow
    <2>1. row \in Rows /\ row.state = request[m].copy.state
      BY <1>2, RowsOfExisting DEF Rows
    <2>2. row.state \in Members => w \in entered
      BY <1>2, <2>1 DEF EnteredInv, CopiesEntered, SaveWorkspaceMember
    <2>3. member' = [member EXCEPT ![w] = row] /\ UNCHANGED <<entered, issued, exists>>
      BY <1>2 DEF SaveWorkspaceMember
    <2>4. issued' \in 0..MaxTokens /\ entered \subseteq entered'
      BY <2>3 DEF EnteredInv, RowTypes
    <2>5. QED
      BY <1>1, <1>2, <2>1, <2>2, <2>3, <2>4, RowKeepsEntered
  <1>3. CASE ~(w \in exists /\ member[w] # NoRow)
    <2>1. member' = member
      <3>1. CASE member[w] = NoRow
        BY <3>1 DEF SaveWorkspaceMember
      <3>2. CASE w \notin exists
        BY <3>2 DEF SaveWorkspaceMember, EnteredInv, RequestsOfCreated, GoneHaveNoRow
      <3>3. QED
        BY <1>3, <3>1, <3>2
    <2>2. QED
      BY <1>1, <2>1, EndKeepsEntered DEF SaveWorkspaceMember
  <1>4. QED
    BY <1>2, <1>3

LEMMA ManagersKeepEntered ==
  ASSUME EnteredInv, account \in BOOLEAN, NEW m \in Managers, ManagerStep(m), UNCHANGED created
  PROVE  EnteredInv'
  <1>1. CASE \E w \in Workspaces : Invite(m, w)
    BY <1>1, InviteKeepsEntered
  <1>2. CASE \E w \in Workspaces : Change(m, w)
    BY <1>2, ChangeKeepsEntered
  <1>3. CASE LookupIdentity(m)
    BY <1>3, LookupKeepsEntered
  <1>4. CASE InsertInvited(m)
    <2>1. Ends /\ UNCHANGED <<created, exists, entered>>
      BY <1>4 DEF InsertInvited, Ends
    <2>2. CASE request[m].w \in exists /\ member[request[m].w] = NoRow
      BY <1>4, <2>1, <2>2, NewTokenKeepsEntered, RowsOfExisting DEF InsertInvited
    <2>3. CASE ~(request[m].w \in exists /\ member[request[m].w] = NoRow)
      BY <1>4, <2>1, <2>3, EndKeepsEntered DEF InsertInvited
    <2>4. QED
      BY <2>2, <2>3
  <1>5. CASE ReinviteWorkspaceMember(m)
    <2> DEFINE w == request[m].w
    <2>1. Ends /\ UNCHANGED <<created, exists, entered>>
      BY <1>5 DEF ReinviteWorkspaceMember, Ends
    <2>2. CASE Reinvites(w)
      <3>1. w \in exists
        BY <1>5, <2>2 DEF ReinviteWorkspaceMember, Reinvites, EnteredInv, RequestsOfCreated, GoneHaveNoRow, NoRow
      <3>2. [member[w] EXCEPT !.linked = FALSE] \in Rows
        <4>1. member[w] \in Rows
          BY <3>1, RowsOfExisting
        <4> HIDE DEF w
        <4>2. QED
          BY <4>1 DEF Rows
      <3>3. QED
        BY <1>5, <2>1, <2>2, <3>1, <3>2, NewTokenKeepsEntered DEF ReinviteWorkspaceMember
    <2>3. CASE ~Reinvites(w)
      BY <1>5, <2>1, <2>3, EndKeepsEntered DEF ReinviteWorkspaceMember
    <2>4. QED
      BY <2>2, <2>3
  <1>6. CASE SaveWorkspaceMember(m)
    BY <1>6, SaveKeepsEntered
  <1>7. CASE RequestFails(m)
    BY <1>7, EndKeepsEntered DEF RequestFails, Ends, rowVars
  <1>8. QED
    BY <1>1, <1>2, <1>3, <1>4, <1>5, <1>6, <1>7 DEF ManagerStep

LEMMA ResendKeepsEntered ==
  ASSUME EnteredInv, NEW w \in Workspaces, ResendWorkspaceInvite(w), UNCHANGED created
  PROVE  EnteredInv'
  <1>1. w \in exists /\ member[w] \in Rows
    BY RowsOfExisting DEF ResendWorkspaceInvite, Managed
  <1>2. Ends
    BY DEF ResendWorkspaceInvite, Ends
  <1>3. QED
    BY <1>1, <1>2, NewTokenKeepsEntered DEF ResendWorkspaceInvite

\* The person accepts an invite: this is how one enters.
LEMMA AcceptKeepsEntered ==
  ASSUME EnteredInv, NEW t, AcceptInvite(t), UNCHANGED created
  PROVE  EnteredInv'
  <1>1. Ends
    BY DEF AcceptInvite, Ends
  <1>2. CASE \E w \in exists : Accepts(w, t)
    <2> DEFINE w == CHOOSE x \in exists : Accepts(x, t)
               joined == [state |-> "joined", linked |-> TRUE, token |-> NoToken]
    <2>1. w \in exists
      BY <1>2
    <2>2. joined \in Rows
      BY MembershipAssumption DEF Rows, NoToken
    <2>3. member' = [member EXCEPT ![w] = joined] /\ entered' = entered \union {w} /\ UNCHANGED <<exists, issued>>
      BY <1>2 DEF AcceptInvite
    <2>4. issued' \in 0..MaxTokens
      BY <2>3 DEF EnteredInv, RowTypes
    <2> HIDE DEF w
    <2>5. QED
      BY <1>1, <2>1, <2>2, <2>3, <2>4, RowKeepsEntered
  <1>3. CASE ~\E w \in exists : Accepts(w, t)
    BY <1>1, <1>3, EndKeepsEntered DEF AcceptInvite
  <1>4. QED
    BY <1>2, <1>3

LEMMA DeleteKeepsEntered ==
  ASSUME EnteredInv, NEW w \in Workspaces, DeleteOrganization(w), UNCHANGED created
  PROVE  EnteredInv'
  <1> USE DEF EnteredInv, DeleteOrganization
  <1>1. \A v \in Workspaces : member'[v] = IF v = w THEN NoRow ELSE member[v]
    BY DEF RowTypes
  <1>2. RowTypes'
    BY NoRowIsARow DEF RowTypes
  <1>3. GoneHaveNoRow' /\ RequestsOfCreated'
    BY <1>1 DEF GoneHaveNoRow, RequestsOfCreated
  <1>4. CopiesEntered'
    BY DEF CopiesEntered
  <1>5. MembersEntered'
    BY <1>1, NoRowIsARow DEF MembersEntered
  <1>6. QED
    BY <1>2, <1>3, <1>4, <1>5

\* A new organization is one no request has read.
LEMMA CreateKeepsEntered ==
  ASSUME EnteredInv, created < MaxWorkspaces, created' = created + 1,
         exists' = exists \union {created + 1}, UNCHANGED <<member, request, issued, entered>>
  PROVE  EnteredInv'
  <1> USE MembershipAssumption DEF EnteredInv
  <1>1. created \in Nat /\ created' \in Workspaces /\ exists' \subseteq 1..created'
    BY DEF RowTypes, Workspaces
  <1>2. \A m \in Managers : request[m].w \in Nat
    BY DEF RowTypes, Workspaces, Nowhere
  <1>3. RowTypes' /\ GoneHaveNoRow' /\ MembersEntered'
    BY <1>1 DEF RowTypes, GoneHaveNoRow, MembersEntered
  <1>4. RequestsOfCreated' /\ CopiesEntered'
    BY <1>1, <1>2 DEF RequestsOfCreated, CopiesEntered
  <1>5. QED
    BY <1>3, <1>4

LEMMA BootsKeepEntered ==
  ASSUME EnteredInv, NEW d \in Devices, BootStep(d)
  PROVE  EnteredInv'
  <1>1. CASE EnterHome(d)
    BY <1>1, OthersKeepEntered DEF EnterHome, membershipVars, rowVars, rowsOfInv
  <1>2. CASE FindHome(d)
    BY <1>2, OthersKeepEntered DEF FindHome, membershipVars, rowVars, rowsOfInv
  <1>3. CASE SaveHome(d)
    BY <1>3, OthersKeepEntered DEF SaveHome, rowsOfInv
  <1>4. CASE SaveDefault(d)
    BY <1>4, OthersKeepEntered DEF SaveDefault, membershipVars, rowVars, rowsOfInv
  <1>5. CASE CreateOrganization(d)
    BY <1>5, CreateKeepsEntered DEF CreateOrganization
  <1>6. CASE EnsureOwner(d)
    <2> DEFINE w == boot[d].chosen
               owner == [state |-> "joined", linked |-> TRUE, token |-> NoToken]
    <2>1. w \in exists /\ member' = [member EXCEPT ![w] = owner] /\ entered' = entered \union {w}
      BY <1>6 DEF EnsureOwner
    <2>2. owner \in Rows
      BY MembershipAssumption DEF Rows, NoToken
    <2>3. Ends /\ UNCHANGED <<created, exists, issued>>
      BY <1>6 DEF EnsureOwner, Ends
    <2>4. issued' \in 0..MaxTokens
      BY <2>3 DEF EnteredInv, RowTypes
    <2>5. QED
      BY <2>1, <2>2, <2>3, <2>4, RowKeepsEntered
  <1>7. CASE BootFails(d)
    <2>1. CASE UNCHANGED <<created, exists>>
      BY <1>7, <2>1, OthersKeepEntered DEF BootFails, rowsOfInv
    <2>2. CASE ~UNCHANGED <<created, exists>>
      BY <1>7, <2>2, CreateKeepsEntered DEF BootFails
    <2>3. QED
      BY <2>1, <2>2
  <1>8. QED
    BY <1>1, <1>2, <1>3, <1>4, <1>5, <1>6, <1>7 DEF BootStep

LEMMA StepsKeepEntered ==
  ASSUME EnteredInv, account \in BOOLEAN, HomeNext
  PROVE  EnteredInv' /\ account' \in BOOLEAN
  <1>1. CASE OthersStep
    <2>1. account' = account /\ created' = created
      BY <1>1 DEF OthersStep, ManagerStep, Invite, Change, BeginRequest, LookupIdentity, InsertInvited,
                  ReinviteWorkspaceMember, SaveWorkspaceMember, RequestFails, ResendWorkspaceInvite,
                  DeleteOrganization, TokenExpires, rowVars
    <2>2. CASE \E m \in Managers : ManagerStep(m)
      BY <2>1, <2>2, ManagersKeepEntered
    <2>3. CASE \E w \in Workspaces : ResendWorkspaceInvite(w) \/ DeleteOrganization(w)
      BY <2>1, <2>3, ResendKeepsEntered, DeleteKeepsEntered
    <2>4. CASE \E t \in 1..MaxTokens : TokenExpires(t)
      BY <2>1, <2>4, OthersKeepEntered DEF TokenExpires, rowsOfInv
    <2>5. QED
      BY <1>1, <2>1, <2>2, <2>3, <2>4 DEF OthersStep
  <1>2. ASSUME NEW d \in Devices, Login(d) \/ (\E t \in 0..MaxTokens : SignUp(d, t))
                                   \/ (\E t \in 1..MaxTokens : ClaimInvite(d, t)) \/ ClaimRefused(d)
        PROVE  EnteredInv' /\ account' \in BOOLEAN
    BY <1>2, OthersKeepEntered
    DEF Login, SignUp, ClaimInvite, ClaimRefused, membershipVars, rowVars, rowsOfInv
  <1>3. ASSUME NEW d \in Devices, ClaimAccepted(d)
        PROVE  EnteredInv' /\ account' \in BOOLEAN
    <2>1. AcceptInvite(boot[d].token) /\ created' = created
      BY <1>3 DEF ClaimAccepted
    <2>2. account' = account
      BY <2>1 DEF AcceptInvite
    <2>3. QED
      BY <2>1, <2>2, AcceptKeepsEntered
  <1>4. ASSUME NEW d \in Devices, BootStep(d)
        PROVE  EnteredInv' /\ account' \in BOOLEAN
    <2>1. account' = account
      BY <1>4 DEF BootStep, EnterHome, FindHome, SaveHome, SaveDefault, CreateOrganization, EnsureOwner,
                  BootFails, membershipVars, rowVars
    <2>2. QED
      BY <1>4, <2>1, BootsKeepEntered
  <1>5. QED
    BY <1>1, <1>2, <1>3, <1>4 DEF HomeNext

\* However requests of managers, claims, bootstraps and deletions interleave,
\* nobody is a member of a workspace they did not accept and were not given: a
\* save of a row read earlier may take back a removal, but makes no member of
\* somebody who never entered.
THEOREM MembersHaveEntered == HomeSpec => []MembersEntered
  <1> DEFINE Inv == EnteredInv /\ account \in BOOLEAN
  <1>1. HomeInit => Inv
    BY EnteredInitially DEF HomeInit, MembershipInit
  <1>2. Inv /\ [HomeNext]_homeVars => Inv'
    <2>1. ASSUME Inv, UNCHANGED homeVars PROVE Inv'
      BY <2>1, OthersKeepEntered DEF homeVars, membershipVars, rowVars, rowsOfInv
    <2>2. QED
      BY <2>1, StepsKeepEntered
  <1>3. Inv => MembersEntered
    BY DEF EnteredInv
  <1> HIDE DEF Inv
  <1>4. QED
    BY <1>1, <1>2, <1>3, PTL DEF HomeSpec
-----------------------------------------------------------------------------
(***************************************************************************)
(* Types of the bootstraps, and of what the managers' requests leave alone.*)
(***************************************************************************)
Boots ==
  [at : InLock \union {"idle", "wait", "claim", "accept"},
   listed : SUBSET Workspaces, default : Workspaces \union {Nowhere},
   chosen : Workspaces \union {Nowhere}, token : 0..MaxTokens]

SharedTypes ==
  /\ expired \subseteq 1..issued
  /\ home \in exists \union {Nowhere}
  /\ entered \subseteq exists
  /\ overlapped \in BOOLEAN

BootTypes ==
  /\ boot \in [Devices -> Boots]
  /\ default \in Workspaces \union {Nowhere}
  /\ failures \in 0..MaxFailures
  /\ disturbed \subseteq Devices /\ settled \in BOOLEAN

TypeInv == EnteredInv /\ account \in BOOLEAN /\ SharedTypes /\ BootTypes

LEMMA TypeInvSuffices == TypeInv => HomeTypeOK
  BY DEF TypeInv, EnteredInv, RowTypes, GoneHaveNoRow, SharedTypes, BootTypes, Boots, Labels, HomeTypeOK

\* A workspace a bootstrap chooses is one it has listed.
LEMMA HasLeast ==
  ASSUME NEW T, T \subseteq Nat, T # {}
  PROVE  \E x \in T : \A y \in T : x <= y
  <1> DEFINE R == OpToRel(<, Nat)
  <1>1. IsWellFoundedOn(R, Nat)
    BY NatLessThanWellFounded
  <1>2. \A x, y \in Nat : <<y, x>> \notin R => x <= y
    <2>1. SUFFICES ASSUME NEW x \in Nat, NEW y \in Nat, ~(x <= y)
                   PROVE  <<y, x>> \in R
      OBVIOUS
    <2>2. y < x
      BY <2>1
    <2>3. QED
      BY <2>2, Zenon DEF OpToRel
  <1> HIDE DEF R
  <1>3. \E x \in T : \A y \in T : ~ (<<y, x>> \in R)
    BY <1>1, WFMin
  <1>4. QED
    BY <1>2, <1>3

LEMMA SelectedIsListed ==
  ASSUME BootTypes, NEW d \in Devices, boot[d].listed # {}
  PROVE  Selected(d) \in boot[d].listed
  <1>1. boot[d].listed \subseteq Nat
    BY MembershipAssumption DEF BootTypes, Boots, Workspaces
  <1>2. \E w \in boot[d].listed : \A v \in boot[d].listed : w <= v
    BY <1>1, HasLeast
  <1>3. QED
    BY <1>2 DEF Selected

LEMMA TypesInitially == HomeInit => TypeInv
  <1>1. NoBoot \in Boots
    BY MembershipAssumption DEF NoBoot, Boots, NoToken, Nowhere
  <1>2. HomeInit => SharedTypes
    BY DEF HomeInit, MembershipInit, SharedTypes
  <1>3. HomeInit => BootTypes
    <2>1. HomeInit => boot \in [Devices -> Boots]
      BY <1>1 DEF HomeInit
    <2>2. HomeInit => default \in Workspaces \union {Nowhere} /\ failures \in 0..MaxFailures
      BY HomeAssumption DEF HomeInit
    <2>3. HomeInit => disturbed \subseteq Devices /\ settled \in BOOLEAN
      BY DEF HomeInit
    <2>4. QED
      BY <2>1, <2>2, <2>3 DEF BootTypes
  <1>4. QED
    BY <1>2, <1>3, EnteredInitially DEF HomeInit, MembershipInit, TypeInv

LEMMA DisturbTypes ==
  ASSUME Disturb, disturbed \subseteq Devices, settled \in BOOLEAN
  PROVE  disturbed' \subseteq Devices /\ settled' \in BOOLEAN
  BY DEF Disturb

LEMMA ManagersKeepTypes ==
  ASSUME TypeInv, NEW m \in Managers, ManagerStep(m)
  PROVE  SharedTypes'
  <1>1. UNCHANGED <<exists, expired, home, entered>>
    BY DEF ManagerStep, Invite, Change, BeginRequest, LookupIdentity, InsertInvited,
           ReinviteWorkspaceMember, SaveWorkspaceMember, RequestFails, rowVars
  <1>2. issued' = issued \/ issued' = issued + 1
    BY DEF ManagerStep, Invite, Change, BeginRequest, LookupIdentity, InsertInvited,
           ReinviteWorkspaceMember, SaveWorkspaceMember, RequestFails, rowVars, NewToken
  <1>3. overlapped' \in BOOLEAN
    BY DEF ManagerStep, Invite, Change, BeginRequest, LookupIdentity, InsertInvited,
           ReinviteWorkspaceMember, SaveWorkspaceMember, RequestFails, rowVars, TypeInv, SharedTypes
  <1>4. issued \in Nat
    BY MembershipAssumption DEF TypeInv, EnteredInv, RowTypes
  <1>5. QED
    BY <1>1, <1>2, <1>3, <1>4 DEF TypeInv, SharedTypes

LEMMA OthersKeepTypes ==
  ASSUME TypeInv, OthersStep
  PROVE  SharedTypes' /\ BootTypes'
  <1>1. BootTypes'
    BY DisturbTypes DEF OthersStep, TypeInv, BootTypes
  <1>2. CASE \E m \in Managers : ManagerStep(m)
    BY <1>1, <1>2, ManagersKeepTypes
  <1>3. issued \in Nat
    BY MembershipAssumption DEF TypeInv, EnteredInv, RowTypes
  <1>4. ASSUME NEW w \in Workspaces, ResendWorkspaceInvite(w) PROVE SharedTypes'
    <2>1. overlapped' \in BOOLEAN
      BY <1>4 DEF ResendWorkspaceInvite, TypeInv, SharedTypes
    <2>2. QED
      BY <1>3, <1>4, <2>1 DEF ResendWorkspaceInvite, NewToken, TypeInv, SharedTypes
  <1>5. ASSUME NEW w \in Workspaces, DeleteOrganization(w) PROVE SharedTypes'
    BY <1>5 DEF DeleteOrganization, TypeInv, SharedTypes
  <1>6. ASSUME NEW t \in 1..MaxTokens, TokenExpires(t) PROVE SharedTypes'
    BY <1>6 DEF TokenExpires, TypeInv, SharedTypes
  <1>7. QED
    BY <1>1, <1>2, <1>4, <1>5, <1>6 DEF OthersStep

\* The fields of a bootstrap a step may write.
LEMMA BootFields ==
  ASSUME BootTypes, NEW d \in Devices
  PROVE  /\ boot[d] \in Boots /\ NoBoot \in Boots
         /\ \A label \in InLock \union {"idle", "wait", "claim", "accept"} :
              [boot[d] EXCEPT !.at = label] \in Boots
         /\ \A t \in 0..MaxTokens :
              /\ [NoBoot EXCEPT !.at = "wait", !.token = t] \in Boots
              /\ [NoBoot EXCEPT !.at = "claim", !.token = t] \in Boots
              /\ [NoBoot EXCEPT !.at = "accept", !.token = t] \in Boots
         /\ \A w \in Workspaces \union {Nowhere} : [NoBoot EXCEPT !.at = "wait", !.default = w] \in Boots
         /\ \A label \in InLock, w \in Workspaces : [boot[d] EXCEPT !.at = label, !.chosen = w] \in Boots
         /\ \A l \in SUBSET Workspaces : [boot[d] EXCEPT !.at = "find", !.listed = l] \in Boots
  <1>1. boot[d] \in Boots
    BY DEF BootTypes
  <1>2. NoBoot \in Boots
    BY MembershipAssumption DEF NoBoot, Boots, NoToken, Nowhere
  <1> USE <1>1, <1>2
  <1>3. \A label \in InLock \union {"idle", "wait", "claim", "accept"} : [boot[d] EXCEPT !.at = label] \in Boots
    BY DEF Boots
  <1>4. \A t \in 0..MaxTokens :
          /\ [NoBoot EXCEPT !.at = "wait", !.token = t] \in Boots
          /\ [NoBoot EXCEPT !.at = "claim", !.token = t] \in Boots
          /\ [NoBoot EXCEPT !.at = "accept", !.token = t] \in Boots
    BY DEF Boots
  <1>5. \A w \in Workspaces \union {Nowhere} : [NoBoot EXCEPT !.at = "wait", !.default = w] \in Boots
    BY DEF Boots
  <1>6. \A label \in InLock, w \in Workspaces : [boot[d] EXCEPT !.at = label, !.chosen = w] \in Boots
    BY DEF Boots
  <1>7. \A l \in SUBSET Workspaces : [boot[d] EXCEPT !.at = "find", !.listed = l] \in Boots
    BY DEF Boots, InLock
  <1>8. QED
    BY <1>3, <1>4, <1>5, <1>6, <1>7

LEMMA EndTypes ==
  ASSUME BootTypes, NEW d \in Devices, End(d), UNCHANGED failures, default' \in Workspaces \union {Nowhere}
  PROVE  BootTypes'
  <1>1. boot[d].token \in 0..MaxTokens
    BY DEF BootTypes, Boots
  <1>2. boot' \in [Devices -> Boots]
    BY <1>1, BootFields DEF End, BootTypes
  <1>3. QED
    BY <1>2 DEF End, BootTypes

LEMMA AtTypes ==
  ASSUME BootTypes, NEW d \in Devices, NEW label \in InLock, BootAt(d, label),
         UNCHANGED <<failures, disturbed, settled>>, default' \in Workspaces \union {Nowhere}
  PROVE  BootTypes'
  BY BootFields DEF BootAt, BootTypes

LEMMA LoginKeepsTypes ==
  ASSUME TypeInv, NEW d \in Devices, Login(d)
  PROVE  SharedTypes' /\ BootTypes'
  <1>1. [NoBoot EXCEPT !.at = "wait", !.default = default] \in Boots
    BY BootFields DEF TypeInv, BootTypes
  <1>2. BootTypes'
    BY <1>1 DEF Login, Begin, TypeInv, BootTypes
  <1>3. QED
    BY <1>2 DEF Login, membershipVars, rowVars, TypeInv, SharedTypes

LEMMA SignUpKeepsTypes ==
  ASSUME TypeInv, NEW d \in Devices, NEW t \in 0..MaxTokens, SignUp(d, t)
  PROVE  SharedTypes' /\ BootTypes'
  <1>1. [NoBoot EXCEPT !.at = "wait", !.token = t] \in Boots
    BY BootFields DEF TypeInv
  <1>2. BootTypes'
    BY <1>1 DEF SignUp, Begin, TypeInv, BootTypes
  <1>3. QED
    BY <1>2 DEF SignUp, TypeInv, SharedTypes

LEMMA ClaimsKeepTypes ==
  ASSUME TypeInv, NEW d \in Devices,
         (\E t \in 1..MaxTokens : ClaimInvite(d, t)) \/ ClaimRefused(d) \/ ClaimAccepted(d)
  PROVE  SharedTypes' /\ BootTypes'
  <1> USE DEF TypeInv
  <1>1. ASSUME NEW t \in 1..MaxTokens, ClaimInvite(d, t) PROVE SharedTypes' /\ BootTypes'
    <2>1. [NoBoot EXCEPT !.at = "accept", !.token = t] \in Boots
      <3>1. t \in 0..MaxTokens
        BY MembershipAssumption
      <3>2. QED
        BY <3>1, BootFields
    <2>2. BootTypes'
      BY <1>1, <2>1 DEF ClaimInvite, BootTypes
    <2>3. QED
      BY <1>1, <2>2 DEF ClaimInvite, membershipVars, rowVars, SharedTypes
  <1>2. CASE ClaimRefused(d)
    <2>1. BootTypes'
      BY <1>2, BootFields DEF ClaimRefused, BootTypes
    <2>2. QED
      BY <1>2, <2>1 DEF ClaimRefused, membershipVars, rowVars, SharedTypes
  <1>3. CASE ClaimAccepted(d)
    <2>1. AcceptInvite(boot[d].token)
      BY <1>3 DEF ClaimAccepted
    <2>2. BootTypes'
      BY <1>3, BootFields, DisturbTypes DEF ClaimAccepted, BootTypes
    <2>3. CASE \E w \in exists : Accepts(w, boot[d].token)
      <3>1. (CHOOSE x \in exists : Accepts(x, boot[d].token)) \in exists
        BY <2>3
      <3>2. overlapped' \in BOOLEAN
        BY <2>1, <2>3 DEF AcceptInvite, SharedTypes
      <3>3. QED
        BY <2>1, <2>2, <2>3, <3>1, <3>2 DEF AcceptInvite, SharedTypes
    <2>4. CASE ~\E w \in exists : Accepts(w, boot[d].token)
      BY <2>1, <2>2, <2>4 DEF AcceptInvite, SharedTypes
    <2>5. QED
      BY <2>3, <2>4
  <1>4. QED
    BY <1>1, <1>2, <1>3

LEMMA BootsKeepTypes ==
  ASSUME TypeInv, NEW d \in Devices, BootStep(d)
  PROVE  SharedTypes' /\ BootTypes'
  <1> USE DEF TypeInv
  <1>1. boot[d].listed \subseteq Workspaces /\ boot[d].chosen \in Workspaces \union {Nowhere}
    BY DEF BootTypes, Boots
  <1>2. exists \subseteq Workspaces
    BY RowsOfExisting
  <1>3. "find" \in InLock /\ "save" \in InLock /\ "default" \in InLock /\ "create" \in InLock
          /\ "saveNew" \in InLock /\ "owner" \in InLock
    BY DEF InLock
  <1>4. default \in Workspaces \union {Nowhere}
    BY DEF BootTypes
  <1>5. CASE EnterHome(d)
    <2>1. Listed \in SUBSET Workspaces
      BY <1>2 DEF Listed
    <2>2. [boot[d] EXCEPT !.at = "find", !.listed = Listed] \in Boots
      BY <2>1, BootFields
    <2>3. BootTypes'
      BY <1>5, <2>2 DEF EnterHome, BootTypes
    <2>4. QED
      BY <1>5, <2>3 DEF EnterHome, membershipVars, rowVars, SharedTypes
  <1>6. CASE FindHome(d)
    <2>1. SharedTypes' /\ failures' = failures /\ default' = default
      BY <1>6 DEF FindHome, membershipVars, rowVars, SharedTypes
    <2>2. CASE boot[d].listed = {}
      BY <1>3, <1>4, <1>6, <2>1, <2>2, AtTypes DEF FindHome
    <2>3. CASE boot[d].listed # {} /\ Selected(d) = home /\ DefaultKept(d)
      BY <1>4, <1>6, <2>1, <2>3, EndTypes DEF FindHome
    <2>4. CASE boot[d].listed # {} /\ ~(Selected(d) = home /\ DefaultKept(d))
      <3>1. Selected(d) \in Workspaces
        BY <1>1, <2>4, SelectedIsListed
      <3> DEFINE label == IF Selected(d) = home THEN "default" ELSE "save"
      <3>2. [boot[d] EXCEPT !.at = label, !.chosen = Selected(d)] \in Boots
        BY <1>3, <3>1, BootFields
      <3>3. boot' = [boot EXCEPT ![d].chosen = Selected(d), ![d].at = label]
              /\ UNCHANGED <<disturbed, settled>>
        BY <1>6, <2>4 DEF FindHome
      <3>4. boot' = [boot EXCEPT ![d] = [boot[d] EXCEPT !.at = label, !.chosen = Selected(d)]]
        <4> HIDE DEF label
        <4>1. QED
          BY <3>3 DEF BootTypes, Boots
      <3>5. QED
        BY <1>4, <2>1, <3>2, <3>3, <3>4 DEF BootTypes
    <2>5. QED
      BY <2>2, <2>3, <2>4
  <1>7. CASE SaveHome(d)
    <2>1. SharedTypes' /\ failures' = failures /\ default' = default
      BY <1>7 DEF SaveHome, SharedTypes
    <2>2. AfterSaveHome(d) \in InLock
      BY <1>3 DEF AfterSaveHome
    <2>3. QED
      BY <1>4, <1>7, <2>1, <2>2, AtTypes, EndTypes DEF SaveHome
  <1>8. CASE SaveDefault(d)
    <2>1. SharedTypes'
      BY <1>8 DEF SaveDefault, membershipVars, rowVars, SharedTypes
    <2>2. QED
      BY <1>1, <1>8, <2>1, EndTypes DEF SaveDefault
  <1>9. CASE CreateOrganization(d)
    <2>1. created + 1 \in Workspaces
      BY <1>9, MembershipAssumption DEF CreateOrganization, EnteredInv, RowTypes, Workspaces
    <2>2. [boot[d] EXCEPT !.at = "saveNew", !.chosen = created + 1] \in Boots
      BY <1>3, <2>1, BootFields
    <2>3. BootTypes'
      BY <1>9, <2>2 DEF CreateOrganization, BootTypes
    <2>4. QED
      BY <1>9, <2>3 DEF CreateOrganization, SharedTypes
  <1>10. CASE EnsureOwner(d)
    <2>1. BootTypes'
      BY <1>3, <1>4, <1>10, AtTypes DEF EnsureOwner
    <2>2. QED
      BY <1>10, <2>1 DEF EnsureOwner, SharedTypes
  <1>11. CASE BootFails(d)
    <2>1. exists \subseteq exists'
      BY <1>11 DEF BootFails
    <2>2. failures' \in 0..MaxFailures
      BY <1>11, HomeAssumption DEF BootFails, BootTypes
    <2>3. BootTypes'
      BY <1>11, <2>2, BootFields DEF BootFails, BootTypes
    <2>4. QED
      BY <1>11, <2>1, <2>3 DEF BootFails, SharedTypes
  <1>12. QED
    BY <1>5, <1>6, <1>7, <1>8, <1>9, <1>10, <1>11 DEF BootStep

LEMMA StepsKeepTypes ==
  ASSUME TypeInv, [HomeNext]_homeVars
  PROVE  TypeInv'
  <1>1. CASE UNCHANGED homeVars
    BY <1>1, OthersKeepEntered
    DEF TypeInv, SharedTypes, BootTypes, homeVars, membershipVars, rowVars, rowsOfInv
  <1>2. CASE HomeNext
    <2>1. EnteredInv' /\ account' \in BOOLEAN
      BY <1>2, StepsKeepEntered DEF TypeInv
    <2>2. SharedTypes' /\ BootTypes'
      BY <1>2, OthersKeepTypes, LoginKeepsTypes, SignUpKeepsTypes, ClaimsKeepTypes, BootsKeepTypes DEF HomeNext
    <2>3. QED
      BY <2>1, <2>2 DEF TypeInv
  <1>3. QED
    BY <1>1, <1>2

\* The home is always a workspace that exists, a workspace that is gone has no
\* row, and every bootstrap works on workspaces: also what CHOOSE finds among
\* the listed ones.
THEOREM HomeTypeCorrect == HomeSpec => []HomeTypeOK
  <1>1. HomeSpec => []TypeInv
    BY TypesInitially, StepsKeepTypes, PTL DEF HomeSpec
  <1>2. QED
    BY <1>1, TypeInvSuffices, PTL
-----------------------------------------------------------------------------
(***************************************************************************)
(* What bootstraps know of each other and of the person's workspaces.      *)
(***************************************************************************)
UnderWay == InLock \union {"wait"}

\* The mutex.
OneInLock == \A d, e \in Devices : boot[d].at \in InLock /\ boot[e].at \in InLock => d = e

\* A write by somebody else disturbs every bootstrap under way.
DisturbedTogether ==
  /\ disturbed # {} => \A d \in Devices : boot[d].at \in UnderWay => d \in disturbed
  /\ settled => disturbed = {}

\* What an undisturbed bootstrap has read is still true.
Knows(d) ==
  /\ boot[d].at \in UnderWay => default = boot[d].default \/ default \in Listed
  /\ boot[d].at \in {"find", "save"} => boot[d].listed = Listed
  /\ boot[d].at = "save" => boot[d].chosen \in Listed
  /\ boot[d].at = "default" => home = boot[d].chosen /\ home \in Listed
  /\ boot[d].at \in {"create", "saveNew", "owner"} => Listed = {}
  /\ boot[d].at = "owner" => home = boot[d].chosen

UndisturbedKnow == \A d \in Devices \ disturbed : Knows(d)

\* Nothing is under way for somebody who has no account.
Unregistered == ~account => default = Nowhere /\ \A d \in Devices : boot[d].at = "idle"

HomeInv == OneInLock /\ DisturbedTogether /\ UndisturbedKnow /\ Unregistered /\ HomeIsReachable

LEMMA HomeHoldsInitially == HomeInit => HomeInv
  BY DEF HomeInit, MembershipInit, HomeInv, OneInLock, DisturbedTogether, UndisturbedKnow, Knows,
         Unregistered, HomeIsReachable, UnderWay, InLock, NoBoot

\* A step of others either changes nothing a bootstrap reads, or disturbs all of them.
LEMMA DisturbKeepsHome ==
  ASSUME HomeInv, Disturb, UNCHANGED <<default, account>>,
         \A d \in Devices : boot'[d] = boot[d] \/ (account /\ boot'[d].at \notin UnderWay)
  PROVE  HomeInv'
  <1> USE DEF HomeInv
  <1>1. OneInLock' /\ Unregistered'
    BY DEF OneInLock, Unregistered, UnderWay
  <1>2. CASE UNCHANGED <<exists, member, home>>
    <2>1. Listed' = Listed /\ disturbed' = disturbed /\ settled' = settled /\ home' = home
      BY <1>2 DEF Listed, Disturb
    <2>2. DisturbedTogether' /\ HomeIsReachable'
      BY <2>1 DEF DisturbedTogether, HomeIsReachable
    <2>3. UndisturbedKnow'
      <3>1. SUFFICES ASSUME NEW d \in Devices, d \notin disturbed PROVE Knows(d)'
        BY <2>1 DEF UndisturbedKnow
      <3>2. CASE boot'[d] = boot[d]
        BY <2>1, <3>1, <3>2 DEF UndisturbedKnow, Knows
      <3>3. CASE boot'[d].at \notin UnderWay
        BY <3>3 DEF Knows, UnderWay, InLock
      <3>4. QED
        BY <3>2, <3>3
    <2>4. QED
      BY <1>1, <2>2, <2>3
  <1>3. CASE ~UNCHANGED <<exists, member, home>>
    <2>1. disturbed' = {d \in Devices : boot[d].at \in UnderWay} /\ settled' = FALSE
      BY <1>3 DEF Disturb, UnderWay
    <2>2. DisturbedTogether' /\ HomeIsReachable'
      BY <2>1 DEF DisturbedTogether, HomeIsReachable
    <2>3. UndisturbedKnow'
      <3>1. SUFFICES ASSUME NEW d \in Devices, boot'[d].at \notin UnderWay PROVE Knows(d)'
        BY <2>1 DEF UndisturbedKnow
      <3>2. QED
        BY <3>1 DEF Knows, UnderWay, InLock
    <2>4. QED
      BY <1>1, <2>2, <2>3
  <1>4. QED
    BY <1>2, <1>3

\* A bootstrap begins with the default of that moment.
LEMMA BeginKeepsHome ==
  ASSUME HomeInv, NEW d \in Devices, Begin(d), boot[d].at = "idle", account',
         boot'[d].at = "wait", boot'[d].default = default,
         \A e \in Devices \ {d} : boot'[e] = boot[e],
         UNCHANGED <<default, home, exists, member, settled>>
  PROVE  HomeInv'
  <1> USE DEF HomeInv
  <1>1. Listed' = Listed
    BY DEF Listed
  <1>2. OneInLock'
    BY DEF OneInLock, InLock
  <1>3. DisturbedTogether'
    BY DEF DisturbedTogether, Begin
  <1>4. UndisturbedKnow'
    <2>1. SUFFICES ASSUME NEW e \in Devices, e \notin disturbed' PROVE Knows(e)'
      BY DEF UndisturbedKnow
    <2>2. CASE e = d
      BY <2>2 DEF Knows
    <2>3. CASE e # d
      BY <1>1, <2>1, <2>3 DEF UndisturbedKnow, Knows, Begin
    <2>4. QED
      BY <2>2, <2>3
  <1>5. Unregistered' /\ HomeIsReachable'
    BY <1>1 DEF Unregistered, HomeIsReachable
  <1>6. QED
    BY <1>2, <1>3, <1>4, <1>5

\* A step of the bootstrap that holds the mutex: the others only wait.
LEMMA LockStepKeepsHome ==
  ASSUME HomeInv, NEW d \in Devices, boot[d].at \in InLock, account' = account,
         \A e \in Devices \ {d} : boot'[e] = boot[e],
         \/ boot'[d].at \in InLock /\ disturbed' = disturbed
         \/ boot'[d].at \notin UnderWay /\ disturbed' = disturbed \ {d},
         settled' => settled \/ d \notin disturbed,
         d \notin disturbed =>
           /\ (default' = default /\ Listed \subseteq Listed') \/ default' \in Listed'
           /\ boot'[d].at \in InLock => Knows(d)'
           /\ settled' => home' \in Listed' /\ default' \in Listed'
  PROVE  HomeInv'
  <1> USE DEF HomeInv
  <1>1. InLock \subseteq UnderWay /\ boot[d].at \in UnderWay /\ boot[d].at # "idle"
    BY DEF UnderWay, InLock
  <1>2. disturbed # {} => d \in disturbed
    BY <1>1 DEF DisturbedTogether
  <1>3. OneInLock'
    BY <1>1 DEF OneInLock
  <1>4. settled' => disturbed = {}
    BY <1>2 DEF DisturbedTogether
  <1>5. DisturbedTogether'
    BY <1>1, <1>4 DEF DisturbedTogether
  <1>6. UndisturbedKnow'
    <2>1. SUFFICES ASSUME NEW e \in Devices, e \notin disturbed' PROVE Knows(e)'
      BY DEF UndisturbedKnow
    <2>2. CASE boot'[e].at \notin UnderWay
      BY <2>2 DEF Knows, UnderWay, InLock
    <2>3. CASE e = d /\ boot'[e].at \in UnderWay
      BY <1>1, <2>1, <2>3
    <2>4. CASE e # d /\ boot'[e].at \in UnderWay
      <3>1. boot'[e] = boot[e] /\ e \notin disturbed
        BY <2>1, <2>4
      <3>2. boot[e].at = "wait"
        BY <2>4, <3>1 DEF OneInLock, UnderWay
      <3>3. d \notin disturbed
        BY <2>4, <3>1, <3>2 DEF DisturbedTogether
      <3>4. default = boot[e].default \/ default \in Listed
        BY <2>4, <3>1 DEF UndisturbedKnow, Knows
      <3>5. default' = boot'[e].default \/ default' \in Listed'
        BY <3>1, <3>3, <3>4
      <3>6. QED
        BY <3>1, <3>2, <3>5 DEF Knows
    <2>5. QED
      BY <2>2, <2>3, <2>4
  <1>7. Unregistered'
    BY <1>1 DEF Unregistered
  <1>8. HomeIsReachable'
    BY <1>4 DEF HomeIsReachable
  <1>9. QED
    BY <1>3, <1>5, <1>6, <1>7, <1>8

\* A bootstrap ends with a home and a default that are the person's.
LEMMA EndKeepsHome ==
  ASSUME HomeInv, TypeInv, NEW d \in Devices, boot[d].at \in InLock, account' = account, End(d),
         d \notin disturbed =>
           /\ (default' = default /\ Listed \subseteq Listed') \/ default' \in Listed'
           /\ home' \in Listed' /\ default' \in Listed'
  PROVE  HomeInv'
  <1>1. \A e \in Devices \ {d} : boot'[e] = boot[e]
    BY DEF End, TypeInv, BootTypes
  <1>2. boot'[d].at \in {"idle", "claim"}
    BY DEF End, TypeInv, BootTypes, NoBoot
  <1>3. boot'[d].at \notin UnderWay /\ boot'[d].at \notin InLock
    BY <1>2 DEF UnderWay, InLock
  <1>4. disturbed' = disturbed \ {d} /\ (settled' => settled \/ d \notin disturbed)
    BY DEF End
  <1>5. QED
    BY <1>1, <1>3, <1>4, LockStepKeepsHome

LEMMA EnterKeepsHome ==
  ASSUME HomeInv, TypeInv, NEW d \in Devices, EnterHome(d)
  PROVE  HomeInv'
  <1> USE DEF HomeInv, EnterHome
  <1>1. UNCHANGED <<account, exists, member, home, default, disturbed, settled>>
    BY DEF membershipVars, rowVars
  <1>2. Listed' = Listed
    BY <1>1 DEF Listed
  <1>3. boot'[d].at = "find" /\ boot'[d].listed = Listed /\ boot'[d].default = boot[d].default
    BY DEF TypeInv, BootTypes, Boots
  <1>4. \A e \in Devices \ {d} : boot'[e] = boot[e]
    BY DEF TypeInv, BootTypes
  <1>5. OneInLock'
    BY <1>4 DEF OneInLock, MutexFree
  <1>6. DisturbedTogether' /\ HomeIsReachable' /\ Unregistered'
    <2>1. boot[d].at \in UnderWay /\ boot[d].at # "idle"
      BY DEF UnderWay
    <2>2. DisturbedTogether'
      <3>1. disturbed # {} => \A e \in Devices : boot[e].at \in UnderWay => e \in disturbed
        BY DEF DisturbedTogether
      <3>2. ASSUME disturbed # {}, NEW e \in Devices, boot'[e].at \in UnderWay PROVE e \in disturbed
        <4>1. CASE e = d
          BY <2>1, <3>1, <3>2, <4>1
        <4>2. CASE e # d
          BY <1>4, <3>1, <3>2, <4>2
        <4>3. QED
          BY <4>1, <4>2
      <3>3. settled => disturbed = {}
        BY DEF DisturbedTogether
      <3>4. disturbed' = disturbed /\ settled' = settled
        BY <1>1
      <3> HIDE DEF EnterHome, HomeInv
      <3>5. QED
        BY <3>2, <3>3, <3>4 DEF DisturbedTogether
    <2>3. HomeIsReachable'
      BY <1>1, <1>2 DEF HomeIsReachable
    <2>4. Unregistered'
      BY <1>1, <2>1 DEF Unregistered
    <2>5. QED
      BY <2>2, <2>3, <2>4
  <1>7. UndisturbedKnow'
    <2>1. SUFFICES ASSUME NEW e \in Devices, e \notin disturbed PROVE Knows(e)'
      BY <1>1 DEF UndisturbedKnow
    <2>2. CASE e = d
      <3>1. default = boot[d].default \/ default \in Listed
        BY <2>1, <2>2 DEF UndisturbedKnow, Knows, UnderWay
      <3>2. QED
        BY <1>1, <1>2, <1>3, <2>2, <3>1 DEF Knows
    <2>3. CASE e # d
      BY <1>1, <1>2, <1>4, <2>1, <2>3 DEF UndisturbedKnow, Knows
    <2>4. QED
      BY <2>2, <2>3
  <1>8. QED
    BY <1>5, <1>6, <1>7

LEMMA FindKeepsHome ==
  ASSUME HomeInv, TypeInv, NEW d \in Devices, FindHome(d)
  PROVE  HomeInv'
  <1>1. UNCHANGED <<account, exists, member, home, default>>
    BY DEF FindHome, membershipVars, rowVars
  <1>2. Listed' = Listed /\ boot[d].at = "find" /\ boot[d].at \in InLock /\ boot[d] \in Boots
    BY <1>1 DEF Listed, FindHome, InLock, TypeInv, BootTypes
  <1>3. d \notin disturbed =>
          boot[d].listed = Listed /\ (default = boot[d].default \/ default \in Listed)
    BY <1>2 DEF HomeInv, UndisturbedKnow, Knows, UnderWay
  <1>4. CASE boot[d].listed = {}
    <2>1. BootAt(d, "create") /\ UNCHANGED <<disturbed, settled>>
      BY <1>4 DEF FindHome
    <2>2. boot'[d] = [boot[d] EXCEPT !.at = "create"] /\ \A e \in Devices \ {d} : boot'[e] = boot[e]
      BY <2>1 DEF BootAt, TypeInv, BootTypes
    <2>3. boot'[d].at = "create" /\ boot'[d].default = boot[d].default /\ "create" \in InLock
      BY <1>2, <2>2 DEF Boots, InLock
    <2>4. d \notin disturbed => Knows(d)'
      BY <1>1, <1>2, <1>3, <1>4, <2>3 DEF Knows
    <2>5. settled /\ d \notin disturbed => home \in Listed /\ default \in Listed
      BY DEF HomeInv, HomeIsReachable
    <2>6. QED
      BY <1>1, <1>2, <2>1, <2>2, <2>3, <2>4, <2>5, LockStepKeepsHome
  <1>5. CASE boot[d].listed # {}
    <2>1. Selected(d) \in boot[d].listed
      BY <1>5, SelectedIsListed DEF TypeInv
    <2>2. CASE Selected(d) = home /\ DefaultKept(d)
      <3>1. End(d)
        BY <1>5, <2>2 DEF FindHome
      <3>2. d \notin disturbed => home \in Listed /\ default \in Listed
        BY <1>3, <2>1, <2>2 DEF DefaultKept
      <3>3. QED
        BY <1>1, <1>2, <3>1, <3>2, EndKeepsHome
    <2>3. CASE ~(Selected(d) = home /\ DefaultKept(d))
      <3> DEFINE label == IF Selected(d) = home THEN "default" ELSE "save"
      <3>1. boot' = [boot EXCEPT ![d].chosen = Selected(d), ![d].at = label] /\ UNCHANGED <<disturbed, settled>>
        BY <1>5, <2>3 DEF FindHome
      <3>2. boot' = [boot EXCEPT ![d] = [boot[d] EXCEPT !.at = label, !.chosen = Selected(d)]]
        <4> HIDE DEF label
        <4>1. QED
          BY <3>1 DEF TypeInv, BootTypes, Boots
      <3>3. \A e \in Devices \ {d} : boot'[e] = boot[e]
        BY <3>2 DEF TypeInv, BootTypes
      <3>4. /\ boot'[d].at = label /\ boot'[d].chosen = Selected(d)
            /\ boot'[d].default = boot[d].default /\ boot'[d].listed = boot[d].listed
        <4>1. boot'[d] = [boot[d] EXCEPT !.at = label, !.chosen = Selected(d)]
          BY <3>2 DEF TypeInv, BootTypes
        <4> HIDE DEF label
        <4>2. QED
          BY <1>2, <4>1 DEF Boots
      <3>5. label \in InLock
        BY DEF InLock
      <3>6. d \notin disturbed => Knows(d)'
        BY <1>1, <1>2, <1>3, <2>1, <3>4 DEF Knows
      <3>7. settled /\ d \notin disturbed => home \in Listed /\ default \in Listed
        BY DEF HomeInv, HomeIsReachable
      <3>8. QED
        BY <1>1, <1>2, <3>1, <3>3, <3>4, <3>5, <3>6, <3>7, LockStepKeepsHome
    <2>4. QED
      BY <2>2, <2>3
  <1>6. QED
    BY <1>4, <1>5

LEMMA SaveHomeKeepsHome ==
  ASSUME HomeInv, TypeInv, NEW d \in Devices, SaveHome(d)
  PROVE  HomeInv'
  <1>1. UNCHANGED <<account, exists, member, default>> /\ home' = boot[d].chosen
    BY DEF SaveHome
  <1>2. Listed' = Listed /\ boot[d].at \in {"save", "saveNew"} /\ boot[d].at \in InLock /\ boot[d] \in Boots
    BY <1>1 DEF Listed, SaveHome, InLock, TypeInv, BootTypes
  <1>3. d \notin disturbed => Knows(d)
    BY DEF HomeInv, UndisturbedKnow
  <1>4. d \notin disturbed => default = boot[d].default \/ default \in Listed
    BY <1>2, <1>3 DEF Knows, UnderWay
  <1>5. CASE boot[d].at = "save" /\ DefaultKept(d)
    <2>1. End(d)
      BY <1>5 DEF SaveHome
    <2>2. d \notin disturbed => home' \in Listed /\ default \in Listed
      BY <1>1, <1>3, <1>4, <1>5 DEF Knows, DefaultKept
    <2>3. QED
      BY <1>1, <1>2, <2>1, <2>2, EndKeepsHome
  <1>6. CASE ~(boot[d].at = "save" /\ DefaultKept(d))
    <2> DEFINE label == AfterSaveHome(d)
    <2>1. BootAt(d, label) /\ UNCHANGED <<disturbed, settled>>
      BY <1>6 DEF SaveHome
    <2>2. boot'[d] = [boot[d] EXCEPT !.at = label] /\ \A e \in Devices \ {d} : boot'[e] = boot[e]
      BY <2>1 DEF BootAt, TypeInv, BootTypes
    <2>3. /\ boot'[d].at = label /\ boot'[d].chosen = boot[d].chosen
          /\ boot'[d].default = boot[d].default
      <3> HIDE DEF label
      <3>1. QED
        BY <1>2, <2>2 DEF Boots
    <2>4. label = (IF boot[d].at = "save" THEN "default" ELSE "owner") /\ label \in InLock
      BY DEF AfterSaveHome, InLock
    <2>5. d \notin disturbed => Knows(d)'
      BY <1>1, <1>2, <1>3, <1>4, <2>3, <2>4 DEF Knows
    <2>6. settled /\ d \notin disturbed => home' \in Listed /\ default \in Listed
      BY <1>1, <1>2, <1>3 DEF HomeInv, HomeIsReachable, Knows
    <2>7. QED
      BY <1>1, <1>2, <2>1, <2>2, <2>3, <2>4, <2>5, <2>6, LockStepKeepsHome
  <1>7. QED
    BY <1>5, <1>6

LEMMA SaveDefaultKeepsHome ==
  ASSUME HomeInv, TypeInv, NEW d \in Devices, SaveDefault(d)
  PROVE  HomeInv'
  <1>1. UNCHANGED <<account, exists, member, home>> /\ default' = boot[d].chosen /\ End(d)
    BY DEF SaveDefault, membershipVars, rowVars
  <1>2. Listed' = Listed /\ boot[d].at = "default" /\ boot[d].at \in InLock
    BY <1>1 DEF Listed, SaveDefault, InLock
  <1>3. d \notin disturbed => home \in Listed /\ default' \in Listed
    BY <1>1, <1>2 DEF HomeInv, UndisturbedKnow, Knows
  <1>4. QED
    BY <1>1, <1>2, <1>3, EndKeepsHome

\* A new organization has no row, so nobody lists it.
LEMMA NewIsNotListed ==
  ASSUME TypeInv, exists' = exists \union {created + 1}, created < MaxWorkspaces, UNCHANGED member
  PROVE  Listed' = Listed
  <1>1. created + 1 \in Workspaces \ exists
    BY MembershipAssumption DEF TypeInv, EnteredInv, RowTypes, Workspaces
  <1>2. ~member[created + 1].linked
    BY <1>1 DEF TypeInv, EnteredInv, GoneHaveNoRow, NoRow
  <1>3. QED
    BY <1>2 DEF Listed

LEMMA CreateKeepsHome ==
  ASSUME HomeInv, TypeInv, NEW d \in Devices, CreateOrganization(d)
  PROVE  HomeInv'
  <1>1. UNCHANGED <<account, member, home, default, disturbed, settled>> /\ Listed' = Listed
    BY NewIsNotListed DEF CreateOrganization
  <1>2. boot[d].at = "create" /\ boot[d].at \in InLock /\ boot[d] \in Boots
    BY DEF CreateOrganization, InLock, TypeInv, BootTypes
  <1>3. boot'[d] = [boot[d] EXCEPT !.at = "saveNew", !.chosen = created + 1] /\ \A e \in Devices \ {d} : boot'[e] = boot[e]
    BY DEF CreateOrganization, TypeInv, BootTypes
  <1>4. boot'[d].at = "saveNew" /\ boot'[d].default = boot[d].default /\ "saveNew" \in InLock
    BY <1>2, <1>3 DEF Boots, InLock
  <1>5. d \notin disturbed => Knows(d)
    BY DEF HomeInv, UndisturbedKnow
  <1>6. d \notin disturbed => Knows(d)'
    BY <1>1, <1>2, <1>4, <1>5 DEF Knows, UnderWay
  <1>7. settled => home \in Listed /\ default \in Listed
    BY DEF HomeInv, HomeIsReachable
  <1>8. QED
    BY <1>1, <1>2, <1>3, <1>4, <1>6, <1>7, LockStepKeepsHome

LEMMA OwnerKeepsHome ==
  ASSUME HomeInv, TypeInv, NEW d \in Devices, EnsureOwner(d)
  PROVE  HomeInv'
  <1> DEFINE w == boot[d].chosen
  <1>1. UNCHANGED <<account, exists, home, default, disturbed, settled>> /\ w \in exists /\ w \in Workspaces
    BY RowsOfExisting DEF EnsureOwner, TypeInv
  <1>2. boot[d].at = "owner" /\ boot[d].at \in InLock /\ boot[d] \in Boots
    BY DEF EnsureOwner, InLock, TypeInv, BootTypes
  <1>3. boot'[d] = [boot[d] EXCEPT !.at = "default"] /\ \A e \in Devices \ {d} : boot'[e] = boot[e]
    BY DEF EnsureOwner, BootAt, TypeInv, BootTypes
  <1>4. /\ boot'[d].at = "default" /\ boot'[d].default = boot[d].default
        /\ boot'[d].chosen = w /\ "default" \in InLock
    BY <1>2, <1>3 DEF Boots, InLock
  <1>5. \A v \in Workspaces :
          member'[v] = IF v = w THEN [state |-> "joined", linked |-> TRUE, token |-> NoToken] ELSE member[v]
    BY DEF EnsureOwner, TypeInv, EnteredInv, RowTypes
  <1>6. Listed' = Listed \union {w}
    BY <1>1, <1>5, RowsOfExisting DEF Listed, TypeInv
  <1>7. d \notin disturbed => Knows(d)
    BY DEF HomeInv, UndisturbedKnow
  <1>8. d \notin disturbed => Knows(d)'
    BY <1>1, <1>2, <1>4, <1>6, <1>7 DEF Knows, UnderWay
  <1>9. settled => home \in Listed /\ default \in Listed
    BY DEF HomeInv, HomeIsReachable
  <1>10. QED
    BY <1>1, <1>2, <1>3, <1>4, <1>6, <1>8, <1>9, LockStepKeepsHome

LEMMA FailureKeepsHome ==
  ASSUME HomeInv, TypeInv, NEW d \in Devices, BootFails(d)
  PROVE  HomeInv'
  <1> USE DEF HomeInv
  <1>1. UNCHANGED <<account, member, home, default, settled>> /\ disturbed' = disturbed \ {d}
    BY DEF BootFails
  <1>2. Listed' = Listed
    <2>1. CASE exists' = exists
      BY <1>1, <2>1 DEF Listed
    <2>2. CASE exists' # exists
      BY <1>1, <2>2, NewIsNotListed DEF BootFails
    <2>3. QED
      BY <2>1, <2>2
  <1>3. boot'[d] = NoBoot /\ \A e \in Devices \ {d} : boot'[e] = boot[e]
    BY DEF BootFails, TypeInv, BootTypes
  <1>4. boot'[d].at = "idle"
    BY <1>3 DEF NoBoot
  <1>5. OneInLock' /\ Unregistered' /\ HomeIsReachable'
    BY <1>1, <1>2, <1>3, <1>4 DEF OneInLock, Unregistered, HomeIsReachable, InLock
  <1>6. DisturbedTogether'
    BY <1>1, <1>3, <1>4 DEF DisturbedTogether, UnderWay, InLock
  <1>7. UndisturbedKnow'
    <2>1. SUFFICES ASSUME NEW e \in Devices, e \notin disturbed' PROVE Knows(e)'
      BY DEF UndisturbedKnow
    <2>2. CASE e = d
      BY <1>4, <2>2 DEF Knows, UnderWay, InLock
    <2>3. CASE e # d
      BY <1>1, <1>2, <1>3, <2>1, <2>3 DEF UndisturbedKnow, Knows
    <2>4. QED
      BY <2>2, <2>3
  <1>8. QED
    BY <1>5, <1>6, <1>7

LEMMA OthersKeepHome ==
  ASSUME HomeInv, OthersStep
  PROVE  HomeInv'
  <1>1. account' = account
    BY DEF OthersStep, ManagerStep, Invite, Change, BeginRequest, LookupIdentity, InsertInvited,
           ReinviteWorkspaceMember, SaveWorkspaceMember, RequestFails, ResendWorkspaceInvite,
           DeleteOrganization, TokenExpires, rowVars
  <1>2. Disturb /\ default' = default /\ boot' = boot
    BY DEF OthersStep
  <1>3. QED
    BY <1>1, <1>2, DisturbKeepsHome

\* A claim ends, or goes on, outside the bootstrap, and only for somebody registered.
LEMMA ClaimsKeepHome ==
  ASSUME HomeInv, TypeInv, NEW d \in Devices,
         (\E t \in 1..MaxTokens : ClaimInvite(d, t)) \/ ClaimRefused(d) \/ ClaimAccepted(d)
  PROVE  HomeInv'
  <1>1. UNCHANGED <<default, account>>
    BY DEF ClaimInvite, ClaimRefused, ClaimAccepted, AcceptInvite, membershipVars, rowVars
  <1>2. account
    BY DEF HomeInv, Unregistered, ClaimInvite, ClaimRefused, ClaimAccepted
  <1>3. Disturb
    <2>1. CASE ClaimAccepted(d)
      BY <2>1 DEF ClaimAccepted
    <2>2. CASE (\E t \in 1..MaxTokens : ClaimInvite(d, t)) \/ ClaimRefused(d)
      BY <2>2 DEF ClaimInvite, ClaimRefused, Disturb, membershipVars, rowVars
    <2>3. QED
      BY <2>1, <2>2
  <1>4. /\ boot'[d].at \in {"idle", "accept"}
        /\ \A e \in Devices \ {d} : boot'[e] = boot[e]
    <2>1. CASE ClaimRefused(d) \/ ClaimAccepted(d)
      BY <2>1 DEF ClaimRefused, ClaimAccepted, TypeInv, BootTypes, NoBoot
    <2>2. CASE \E t \in 1..MaxTokens : ClaimInvite(d, t)
      <3>1. PICK t \in 1..MaxTokens : boot' = [boot EXCEPT ![d] = [NoBoot EXCEPT !.at = "accept", !.token = t]]
        BY <2>2 DEF ClaimInvite
      <3>2. boot'[d].at = "accept"
        BY <3>1 DEF TypeInv, BootTypes, NoBoot
      <3>3. QED
        BY <3>1, <3>2 DEF TypeInv, BootTypes
    <2>3. QED
      BY <2>1, <2>2
  <1>5. boot'[d].at \notin UnderWay
    BY <1>4 DEF UnderWay, InLock
  <1>6. QED
    BY <1>1, <1>2, <1>3, <1>4, <1>5, DisturbKeepsHome

LEMMA ArrivalsKeepHome ==
  ASSUME HomeInv, TypeInv, NEW d \in Devices, Login(d) \/ \E t \in 0..MaxTokens : SignUp(d, t)
  PROVE  HomeInv'
  <1>1. CASE Login(d)
    <2>1. /\ boot'[d] = [NoBoot EXCEPT !.at = "wait", !.default = default]
          /\ \A e \in Devices \ {d} : boot'[e] = boot[e]
      BY <1>1 DEF Login, TypeInv, BootTypes
    <2>2. /\ Begin(d) /\ boot[d].at = "idle" /\ account'
          /\ UNCHANGED <<default, home, exists, member, settled>>
      BY <1>1 DEF Login, membershipVars, rowVars
    <2>3. boot'[d].at = "wait" /\ boot'[d].default = default
      BY <2>1 DEF NoBoot
    <2>4. QED
      BY <2>1, <2>2, <2>3, BeginKeepsHome
  <1>2. CASE \E t \in 0..MaxTokens : SignUp(d, t)
    <2>1. PICK t \in 0..MaxTokens : SignUp(d, t)
      BY <1>2
    <2>2. default = Nowhere
      BY <2>1 DEF SignUp, HomeInv, Unregistered
    <2>3. /\ boot'[d].at = "wait" /\ boot'[d].default = Nowhere
          /\ \A e \in Devices \ {d} : boot'[e] = boot[e]
      BY <2>1 DEF SignUp, TypeInv, BootTypes, NoBoot
    <2>4. /\ Begin(d) /\ boot[d].at = "idle" /\ account'
          /\ UNCHANGED <<default, home, exists, member, settled>>
      BY <2>1 DEF SignUp
    <2>5. QED
      BY <2>2, <2>3, <2>4, BeginKeepsHome
  <1>3. QED
    BY <1>1, <1>2

LEMMA StepsKeepHome ==
  ASSUME HomeInv, TypeInv, [HomeNext]_homeVars
  PROVE  HomeInv'
  <1>1. CASE UNCHANGED homeVars
    <2>1. Disturb /\ UNCHANGED <<default, account, boot>>
      BY <1>1 DEF Disturb, homeVars, membershipVars, rowVars
    <2>2. QED
      BY <2>1, DisturbKeepsHome
  <1>2. ASSUME NEW d \in Devices, BootStep(d) PROVE HomeInv'
    BY <1>2, EnterKeepsHome, FindKeepsHome, SaveHomeKeepsHome, SaveDefaultKeepsHome, CreateKeepsHome,
       OwnerKeepsHome, FailureKeepsHome DEF BootStep
  <1>3. QED
    BY <1>1, <1>2, OthersKeepHome, ClaimsKeepHome, ArrivalsKeepHome DEF HomeNext

\* For any number of devices, managers and workspaces: once a bootstrap has
\* ended that no other write interfered with, the home and the default
\* workspace are among the person's workspaces and stay so until somebody else
\* changes the memberships.  A bootstrap that decided on an older list, or an
\* older default, never undoes it, because the mutex makes it wait and it lists
\* afterwards what the one before it wrote.
THEOREM HomeStaysReachable == HomeSpec => []HomeIsReachable
  <1>1. HomeInit => TypeInv /\ HomeInv
    BY TypesInitially, HomeHoldsInitially
  <1>2. TypeInv /\ HomeInv /\ [HomeNext]_homeVars => TypeInv' /\ HomeInv'
    BY StepsKeepTypes, StepsKeepHome
  <1>3. HomeInv => HomeIsReachable
    BY DEF HomeInv
  <1>4. QED
    BY <1>1, <1>2, <1>3, PTL DEF HomeSpec

\* For any number of devices: a bootstrap provisions an organization only when
\* the person has no workspace, unless others wrote during it; two devices that
\* sign in at once never provision two.
THEOREM OnlyTheHomelessAreProvisioned == HomeSpec => ProvisionsOnlyTheHomeless
  <1> DEFINE Provisioning ==
        \A d \in Devices :
          boot[d].at = "create" /\ boot'[d].at = "saveNew" /\ d \notin disturbed => Listed = {}
  <1>1. HomeInit => TypeInv /\ HomeInv
    BY TypesInitially, HomeHoldsInitially
  <1>2. TypeInv /\ HomeInv /\ [HomeNext]_homeVars => TypeInv' /\ HomeInv'
    BY StepsKeepTypes, StepsKeepHome
  <1>3. HomeInv => Provisioning
    BY DEF HomeInv, UndisturbedKnow, Knows
  <1>4. HomeSpec => [](TypeInv /\ HomeInv)
    BY <1>1, <1>2, PTL DEF HomeSpec
  <1>5. QED
    BY <1>3, <1>4, PTL DEF ProvisionsOnlyTheHomeless
-----------------------------------------------------------------------------
(***************************************************************************)
(* Organizations without an owner.                                         *)
(***************************************************************************)
Orphans == {w \in exists \ {Shared} : member[w] = NoRow}
Making == {d \in Devices : boot[d].at \in {"saveNew", "owner"}}

\* The orphans no bootstrap is about to give their owner.
Abandoned == {w \in Orphans : \A d \in Making : boot[d].chosen # w}

\* A row is never made empty, nor read as such by a request that saves it.
RowsStay ==
  /\ \A w \in Workspaces : member[w].state = "none" => member[w] = NoRow
  /\ \A m \in Managers : request[m].at = "save" => request[m].copy.state # "none"

\* A row goes only with its organization.
NoneReverts == \A w \in exists' : member'[w] = NoRow => member[w] = NoRow

OrphanInv == RowsStay /\ Cardinality(Abandoned) <= failures

LEMMA OrphansInitially == HomeInit => OrphanInv
  <1>1. SUFFICES ASSUME HomeInit PROVE OrphanInv
    OBVIOUS
  <1>2. /\ member = [w \in Workspaces |-> NoRow] /\ request = [m \in Managers |-> Quiet]
        /\ exists = {Shared} /\ failures = 0
    BY <1>1 DEF HomeInit, MembershipInit
  <1>3. RowsStay
    BY <1>2 DEF RowsStay, Quiet
  <1>4. Abandoned = {}
    BY <1>2 DEF Abandoned, Orphans
  <1>5. QED
    BY <1>2, <1>3, <1>4, FS_EmptySet DEF OrphanInv

LEMMA AbandonedIsFinite ==
  ASSUME EnteredInv
  PROVE  /\ IsFiniteSet(Abandoned) /\ Cardinality(Abandoned) \in Nat
         /\ IsFiniteSet(Orphans) /\ Cardinality(Orphans) \in Nat
  <1>1. created \in Nat /\ exists \subseteq 1..created
    BY MembershipAssumption DEF EnteredInv, RowTypes, Workspaces
  <1>2. IsFiniteSet(1..created)
    BY <1>1, FS_Interval
  <1>3. IsFiniteSet(exists)
    BY <1>1, <1>2, FS_Subset
  <1>4. Orphans \subseteq exists /\ Abandoned \subseteq exists
    BY DEF Orphans, Abandoned
  <1>5. IsFiniteSet(Orphans) /\ IsFiniteSet(Abandoned)
    BY <1>3, <1>4, FS_Subset
  <1>6. QED
    BY <1>5, FS_CardinalityType

LEMMA OneMore ==
  ASSUME NEW S, IsFiniteSet(S), NEW x
  PROVE  /\ IsFiniteSet(S \union {x}) /\ Cardinality(S \union {x}) \in Nat
         /\ Cardinality(S \union {x}) <= Cardinality(S) + 1
  <1>1. Cardinality(S) \in Nat /\ IsFiniteSet(S \union {x})
    BY FS_CardinalityType, FS_AddElement
  <1>2. Cardinality(S \union {x}) = IF x \in S THEN Cardinality(S) ELSE Cardinality(S) + 1
    BY FS_AddElement
  <1>3. QED
    BY <1>1, <1>2

\* No request writes, or one ends.
LEMMA NoWriteKeepsRows ==
  ASSUME EnteredInv, RowsStay, Ends, UNCHANGED member
  PROVE  RowsStay' /\ NoneReverts
  <1>1. \A m \in Managers : request'[m] = request[m] \/ request'[m].at # "save"
    BY EndedRequests
  <1>2. QED
    BY <1>1 DEF RowsStay, NoneReverts

LEMMA BeginKeepsRows ==
  ASSUME EnteredInv, RowsStay, NEW m \in Managers, NEW label, NEW w, NEW copy,
         BeginRequest(m, label, w, copy), label = "save" => copy.state # "none"
  PROVE  RowsStay' /\ NoneReverts
  <1>1. UNCHANGED <<member, exists>>
    BY DEF BeginRequest, rowVars
  <1>2. \A n \in Managers : request'[n] = IF n = m THEN [at |-> label, w |-> w, copy |-> copy] ELSE request[n]
    BY DEF BeginRequest, EnteredInv, RowTypes
  <1>3. QED
    BY <1>1, <1>2 DEF RowsStay, NoneReverts

LEMMA RowKeepsRows ==
  ASSUME EnteredInv, RowsStay, Ends, NEW w, NEW row, row.state # "none",
         member' = [member EXCEPT ![w] = row], exists' \subseteq exists
  PROVE  RowsStay' /\ NoneReverts
  <1>1. \A v \in Workspaces : member'[v] = IF v = w THEN row ELSE member[v]
    BY DEF EnteredInv, RowTypes
  <1>2. row # NoRow
    BY DEF NoRow
  <1>3. exists' \subseteq Workspaces
    BY RowsOfExisting
  <1>4. QED
    BY <1>1, <1>2, <1>3, EndedRequests DEF RowsStay, NoneReverts

LEMMA NewTokenKeepsRows ==
  ASSUME EnteredInv, RowsStay, Ends, NEW w, NEW row \in Rows, NewToken(w, row), exists' \subseteq exists
  PROVE  RowsStay' /\ NoneReverts
  <1>1. [row EXCEPT !.state = "invited", !.token = issued + 1].state # "none"
    BY DEF Rows
  <1>2. QED
    BY <1>1, RowKeepsRows DEF NewToken

LEMMA ManagersKeepRows ==
  ASSUME EnteredInv, RowsStay, NEW m \in Managers, ManagerStep(m)
  PROVE  RowsStay' /\ NoneReverts
  <1>1. exists' \subseteq exists
    BY DEF ManagerStep, Invite, Change, BeginRequest, LookupIdentity, InsertInvited,
           ReinviteWorkspaceMember, SaveWorkspaceMember, RequestFails, rowVars
  <1>2. CASE \E w \in Workspaces : Invite(m, w)
    BY <1>2, BeginKeepsRows DEF Invite
  <1>3. CASE \E w \in Workspaces : Change(m, w)
    <2>1. PICK w \in Workspaces : Change(m, w)
      BY <1>3
    <2>2. PICK s \in Transitions(w) : BeginRequest(m, "save", w, [member[w] EXCEPT !.state = s])
      BY <2>1 DEF Change
    <2>3. member[w] \in Rows /\ member[w].state # "none"
      BY <2>1, RowsOfExisting DEF Change, Managed, RowsStay
    <2>4. [member[w] EXCEPT !.state = s].state # "none"
      BY <2>2, <2>3 DEF Transitions, Rows
    <2>5. QED
      BY <2>2, <2>4, BeginKeepsRows
  <1>4. CASE LookupIdentity(m)
    <2>1. UNCHANGED member /\ \A n \in Managers : n # m => request'[n] = request[n]
      BY <1>4 DEF LookupIdentity, rowVars, EnteredInv, RowTypes
    <2>2. request'[m].at = "insert"
      BY <1>4 DEF LookupIdentity, EnteredInv, RowTypes
    <2>3. QED
      BY <1>1, <2>1, <2>2 DEF RowsStay, NoneReverts
  <1>5. CASE InsertInvited(m)
    <2>1. Ends
      BY <1>5 DEF InsertInvited, Ends
    <2>2. NewToken(request[m].w, request[m].copy) \/ UNCHANGED member
      BY <1>5 DEF InsertInvited
    <2>3. QED
      BY <1>1, <2>1, <2>2, NoWriteKeepsRows, NewTokenKeepsRows, RowsOfExisting
  <1>6. CASE ReinviteWorkspaceMember(m)
    <2> DEFINE w == request[m].w
    <2>1. Ends
      BY <1>6 DEF ReinviteWorkspaceMember, Ends
    <2>2. CASE Reinvites(w)
      <3>1. w \in exists
        BY <1>6, <2>2 DEF ReinviteWorkspaceMember, Reinvites, EnteredInv, RequestsOfCreated, GoneHaveNoRow, NoRow
      <3>2. [member[w] EXCEPT !.linked = FALSE] \in Rows
        BY <3>1, RowsOfExisting DEF Rows
      <3>3. QED
        BY <1>1, <1>6, <2>1, <2>2, <3>2, NewTokenKeepsRows DEF ReinviteWorkspaceMember
    <2>3. CASE ~Reinvites(w)
      BY <1>1, <1>6, <2>1, <2>3, NoWriteKeepsRows DEF ReinviteWorkspaceMember
    <2>4. QED
      BY <2>2, <2>3
  <1>7. CASE SaveWorkspaceMember(m)
    <2> DEFINE row == [request[m].copy EXCEPT !.linked = member[request[m].w].linked]
    <2>1. Ends
      BY <1>7 DEF SaveWorkspaceMember, Ends
    <2>2. request[m].copy \in Rows /\ request[m].copy.state # "none"
      BY <1>7, RowsOfExisting DEF SaveWorkspaceMember, RowsStay
    <2>3. row.state # "none"
      BY <2>2 DEF Rows
    <2>4. UNCHANGED member \/ member' = [member EXCEPT ![request[m].w] = row]
      BY <1>7 DEF SaveWorkspaceMember
    <2> HIDE DEF row
    <2>5. QED
      BY <1>1, <2>1, <2>3, <2>4, RowKeepsRows, NoWriteKeepsRows
  <1>8. CASE RequestFails(m)
    BY <1>1, <1>8, NoWriteKeepsRows DEF RequestFails, Ends, rowVars
  <1>9. QED
    BY <1>2, <1>3, <1>4, <1>5, <1>6, <1>7, <1>8 DEF ManagerStep

LEMMA AcceptKeepsRows ==
  ASSUME EnteredInv, RowsStay, NEW t, AcceptInvite(t)
  PROVE  RowsStay' /\ NoneReverts
  <1> DEFINE joined == [state |-> "joined", linked |-> TRUE, token |-> NoToken]
  <1>1. Ends /\ exists' = exists
    BY DEF AcceptInvite, Ends
  <1>2. UNCHANGED member \/ \E w : member' = [member EXCEPT ![w] = joined]
    BY DEF AcceptInvite
  <1>3. joined.state # "none"
    OBVIOUS
  <1> HIDE DEF joined
  <1>4. QED
    BY <1>1, <1>2, <1>3, NoWriteKeepsRows, RowKeepsRows

LEMMA OthersKeepRows ==
  ASSUME EnteredInv, RowsStay, OthersStep
  PROVE  RowsStay' /\ NoneReverts /\ exists' \subseteq exists /\ UNCHANGED <<boot, failures>>
  <1>1. exists' \subseteq exists /\ UNCHANGED <<boot, failures>>
    BY DEF OthersStep, ManagerStep, Invite, Change, BeginRequest, LookupIdentity, InsertInvited,
           ReinviteWorkspaceMember, SaveWorkspaceMember, RequestFails, ResendWorkspaceInvite,
           DeleteOrganization, TokenExpires, rowVars
  <1>2. CASE \E m \in Managers : ManagerStep(m)
    BY <1>1, <1>2, ManagersKeepRows
  <1>3. ASSUME NEW w \in Workspaces, ResendWorkspaceInvite(w)
        PROVE  RowsStay' /\ NoneReverts
    <2>1. Ends /\ NewToken(w, member[w]) /\ member[w] \in Rows
      BY <1>3, RowsOfExisting DEF ResendWorkspaceInvite, Managed, Ends
    <2>2. QED
      BY <1>1, <2>1, NewTokenKeepsRows
  <1>4. ASSUME NEW w \in Workspaces, DeleteOrganization(w)
        PROVE  RowsStay' /\ NoneReverts
    <2>1. \A v \in Workspaces : member'[v] = IF v = w THEN NoRow ELSE member[v]
      BY <1>4 DEF DeleteOrganization, EnteredInv, RowTypes
    <2>2. request' = request /\ exists' = exists \ {w}
      BY <1>4 DEF DeleteOrganization
    <2>3. QED
      BY <2>1, <2>2, RowsOfExisting DEF RowsStay, NoneReverts
  <1>5. CASE \E t \in 1..MaxTokens : TokenExpires(t)
    BY <1>1, <1>5, NoWriteKeepsRows DEF TokenExpires, Ends
  <1>6. QED
    BY <1>1, <1>2, <1>3, <1>4, <1>5 DEF OthersStep

\* No orphan is abandoned by a step after which every bootstrap that gives a
\* workspace its owner still gives it to the same one, or has given it.
LEMMA NoneAbandoned ==
  ASSUME EnteredInv, EnteredInv', OrphanInv, RowsStay', NoneReverts, failures \in Nat,
         failures' \in Nat, failures <= failures',
         \A w \in exists' : w \in exists \/ \E d \in Making' : boot'[d].chosen = w,
         \A d \in Making : \/ d \in Making' /\ boot'[d].chosen = boot[d].chosen
                           \/ boot[d].chosen \notin exists' \/ member'[boot[d].chosen] # NoRow
  PROVE  OrphanInv'
  <1>1. Abandoned' \subseteq Abandoned
    BY DEF Abandoned, Orphans, NoneReverts
  <1>2. Cardinality(Abandoned') <= Cardinality(Abandoned)
    BY <1>1, AbandonedIsFinite, FS_Subset
  <1>3. Cardinality(Abandoned) \in Nat /\ Cardinality(Abandoned') \in Nat
    BY <1>1, AbandonedIsFinite, FS_Subset, FS_CardinalityType
  <1>4. QED
    BY <1>2, <1>3 DEF OrphanInv

\* A failure abandons one at most.
LEMMA FailureAbandonsOne ==
  ASSUME EnteredInv, EnteredInv', OrphanInv, RowsStay', failures \in Nat,
         failures' = failures + 1, NEW w, Abandoned' \subseteq Abandoned \union {w}
  PROVE  OrphanInv'
  <1>1. IsFiniteSet(Abandoned) /\ Cardinality(Abandoned) \in Nat
    BY AbandonedIsFinite
  <1>2. IsFiniteSet(Abandoned \union {w}) /\ Cardinality(Abandoned \union {w}) <= Cardinality(Abandoned) + 1
        /\ Cardinality(Abandoned \union {w}) \in Nat
    BY <1>1, OneMore
  <1>3. Cardinality(Abandoned') <= Cardinality(Abandoned \union {w}) /\ Cardinality(Abandoned') \in Nat
    BY <1>2, FS_Subset, FS_CardinalityType
  <1>4. QED
    BY <1>1, <1>2, <1>3 DEF OrphanInv

\* The steps of a bootstrap, by what they do to the workspaces it provisions.
LEMMA BootsKeepRows ==
  ASSUME EnteredInv, RowsStay, NEW d \in Devices, BootStep(d)
  PROVE  RowsStay' /\ (exists' \subseteq exists => NoneReverts)
         /\ (~EnsureOwner(d) => UNCHANGED member)
  <1>1. CASE ~EnsureOwner(d)
    <2>1. UNCHANGED <<member, request>>
      BY <1>1 DEF BootStep, EnterHome, FindHome, SaveHome, SaveDefault, CreateOrganization, BootFails,
                  membershipVars, rowVars
    <2>2. QED
      BY <1>1, <2>1 DEF RowsStay, NoneReverts
  <1>2. CASE EnsureOwner(d)
    <2> DEFINE owner == [state |-> "joined", linked |-> TRUE, token |-> NoToken]
    <2>1. member' = [member EXCEPT ![boot[d].chosen] = owner] /\ Ends /\ exists' = exists /\ owner.state # "none"
      BY <1>2 DEF EnsureOwner, Ends
    <2> HIDE DEF owner
    <2>2. QED
      BY <1>2, <2>1, RowKeepsRows
  <1>3. QED
    BY <1>1, <1>2

LEMMA BootsKeepOrphans ==
  ASSUME TypeInv, TypeInv', OrphanInv, NEW d \in Devices, BootStep(d)
  PROVE  OrphanInv'
  <1> DEFINE w == boot[d].chosen
  <1>1. EnteredInv /\ EnteredInv' /\ RowsStay /\ failures \in Nat /\ failures' \in Nat
    BY HomeAssumption DEF TypeInv, BootTypes, OrphanInv
  <1>2. RowsStay' /\ (exists' \subseteq exists => NoneReverts) /\ (~EnsureOwner(d) => UNCHANGED member)
    BY <1>1, BootsKeepRows
  <1>3. \A e \in Devices \ {d} : boot'[e] = boot[e]
    BY DEF TypeInv, BootTypes, BootStep, EnterHome, FindHome, SaveHome, SaveDefault, CreateOrganization,
           EnsureOwner, BootFails, BootAt, End
  <1>4. CASE EnterHome(d) \/ FindHome(d) \/ SaveDefault(d)
    <2>1. d \notin Making /\ UNCHANGED <<exists, failures>>
      BY <1>4 DEF Making, EnterHome, FindHome, SaveDefault, membershipVars, rowVars
    <2>2. QED
      BY <1>1, <1>2, <1>3, <2>1, NoneAbandoned DEF Making
  <1>5. CASE SaveHome(d)
    <2>1. UNCHANGED <<exists, failures>>
      BY <1>5 DEF SaveHome
    <2>2. d \in Making => boot'[d] = [boot[d] EXCEPT !.at = "owner"]
      BY <1>5 DEF SaveHome, Making, BootAt, AfterSaveHome, TypeInv, BootTypes
    <2>3. boot[d] \in Boots
      BY DEF TypeInv, BootTypes
    <2>4. d \in Making => boot'[d].at = "owner" /\ boot'[d].chosen = boot[d].chosen
      BY <2>2, <2>3 DEF Boots
    <2>5. QED
      BY <1>1, <1>2, <1>3, <2>1, <2>4, NoneAbandoned DEF Making
  <1>6. CASE CreateOrganization(d)
    <2>1. boot'[d] = [boot[d] EXCEPT !.at = "saveNew", !.chosen = created + 1] /\ d \notin Making
      BY <1>6 DEF CreateOrganization, TypeInv, BootTypes, Making
    <2>2. boot[d] \in Boots
      BY DEF TypeInv, BootTypes
    <2>3. boot'[d].at = "saveNew" /\ boot'[d].chosen = created + 1
      BY <2>1, <2>2 DEF Boots
    <2>4. d \in Making' /\ exists' = exists \union {created + 1} /\ UNCHANGED <<failures, member>>
      BY <1>6, <2>3 DEF CreateOrganization, Making
    <2>5. NoneReverts
      BY <2>4 DEF NoneReverts
    <2>6. \A e \in Making : e \in Making' /\ boot'[e].chosen = boot[e].chosen
      BY <1>3, <2>1 DEF Making
    <2>7. \A v \in exists' : v \in exists \/ \E e \in Making' : boot'[e].chosen = v
      BY <2>3, <2>4
    <2>8. QED
      BY <1>1, <1>2, <2>4, <2>5, <2>6, <2>7, NoneAbandoned
  <1>7. CASE EnsureOwner(d)
    <2>1. UNCHANGED <<exists, failures>> /\ member'[w] # NoRow
      <3>1. w \in Workspaces
        BY <1>1, <1>7, RowsOfExisting DEF EnsureOwner
      <3>2. QED
        BY <1>1, <1>7, <3>1 DEF EnsureOwner, EnteredInv, RowTypes, NoRow
    <2>2. QED
      BY <1>1, <1>2, <1>3, <2>1, NoneAbandoned DEF Making
  <1>8. CASE BootFails(d)
    <2>1. boot'[d] = NoBoot /\ UNCHANGED member /\ NoBoot.at = "idle"
      BY <1>8 DEF BootFails, TypeInv, BootTypes, NoBoot
    <2>2. d \notin Making' /\ NoneReverts
      BY <2>1 DEF Making, NoneReverts
    <2>3. CASE failures' = failures + 1 /\ exists' = exists
      <3>1. Abandoned' \subseteq Abandoned \union {w}
        BY <1>3, <2>1, <2>3 DEF Abandoned, Orphans, Making
      <3>2. QED
        BY <1>1, <1>2, <2>3, <3>1, FailureAbandonsOne
    <2>4. CASE failures' = failures + 1 /\ exists' = exists \union {created + 1} /\ boot[d].at = "create"
      <3>1. Abandoned' \subseteq Abandoned \union {created + 1}
        BY <1>3, <2>1, <2>2, <2>4 DEF Abandoned, Orphans, Making
      <3>2. QED
        BY <1>1, <1>2, <2>4, <3>1, FailureAbandonsOne
    <2>5. CASE UNCHANGED <<failures, exists>> /\ (w \notin exists \/ boot[d].at = "create")
      BY <1>1, <1>2, <1>3, <2>2, <2>5, NoneAbandoned DEF Making
    <2>6. QED
      BY <1>8, <2>3, <2>4, <2>5 DEF BootFails
  <1>9. QED
    BY <1>4, <1>5, <1>6, <1>7, <1>8 DEF BootStep

\* What a sign-in, a signup or a claim does to a bootstrap that is not under way.
LEMMA ArrivalsKeepOrphans ==
  ASSUME TypeInv, TypeInv', OrphanInv, NEW d \in Devices,
         Login(d) \/ (\E t \in 0..MaxTokens : SignUp(d, t))
           \/ (\E t \in 1..MaxTokens : ClaimInvite(d, t)) \/ ClaimRefused(d) \/ ClaimAccepted(d)
  PROVE  OrphanInv'
  <1>1. EnteredInv /\ EnteredInv' /\ RowsStay /\ failures \in Nat /\ failures' \in Nat
    BY HomeAssumption DEF TypeInv, BootTypes, OrphanInv
  <1>2. d \notin Making /\ (\A e \in Devices \ {d} : boot'[e] = boot[e]) /\ failures' = failures
    BY DEF Login, SignUp, ClaimInvite, ClaimRefused, ClaimAccepted, TypeInv, BootTypes, Making
  <1>3. exists' = exists
    BY DEF Login, SignUp, ClaimInvite, ClaimRefused, ClaimAccepted, AcceptInvite, membershipVars, rowVars
  <1>4. RowsStay' /\ NoneReverts
    <2>1. CASE ClaimAccepted(d)
      BY <1>1, <2>1, AcceptKeepsRows DEF ClaimAccepted
    <2>2. CASE ~ClaimAccepted(d)
      <3>1. UNCHANGED <<member, request>>
        BY <2>2 DEF Login, SignUp, ClaimInvite, ClaimRefused, membershipVars, rowVars
      <3>2. QED
        BY <1>1, <3>1, NoWriteKeepsRows DEF Ends
    <2>3. QED
      BY <2>1, <2>2
  <1>5. QED
    BY <1>1, <1>2, <1>3, <1>4, NoneAbandoned DEF Making

LEMMA StepsKeepOrphans ==
  ASSUME TypeInv, TypeInv', OrphanInv, [HomeNext]_homeVars
  PROVE  OrphanInv'
  <1>1. CASE UNCHANGED homeVars
    BY <1>1 DEF OrphanInv, RowsStay, Abandoned, Orphans, Making, homeVars, membershipVars, rowVars
  <1>2. CASE OthersStep
    <2>1. EnteredInv /\ EnteredInv' /\ RowsStay /\ failures \in Nat
      BY HomeAssumption DEF TypeInv, BootTypes, OrphanInv
    <2>2. RowsStay' /\ NoneReverts /\ exists' \subseteq exists /\ UNCHANGED <<boot, failures>>
      BY <1>2, <2>1, OthersKeepRows
    <2>3. QED
      BY <2>1, <2>2, NoneAbandoned DEF Making
  <1>3. QED
    BY <1>1, <1>2, BootsKeepOrphans, ArrivalsKeepOrphans DEF HomeNext

\* The mutex lets one bootstrap provision at a time, so that the orphans are
\* the abandoned ones and at most the one it is making.
LEMMA OrphansCounted ==
  ASSUME TypeInv, HomeInv, OrphanInv
  PROVE  OrphansAreFailures
  <1>1. IsFiniteSet(Abandoned) /\ Cardinality(Abandoned) \in Nat /\ Cardinality(Orphans) \in Nat
    BY AbandonedIsFinite DEF TypeInv
  <1>2. failures \in Nat /\ Cardinality(Abandoned) <= failures
    BY HomeAssumption DEF TypeInv, BootTypes, OrphanInv
  <1>3. CASE Making = {}
    <2>1. Orphans \subseteq Abandoned
      BY <1>3 DEF Abandoned
    <2>2. Cardinality(Orphans) <= Cardinality(Abandoned)
      BY <1>1, <2>1, FS_Subset
    <2>3. Cardinality(Making) = 0
      BY <1>3, FS_EmptySet
    <2>4. QED
      BY <1>1, <1>2, <2>2, <2>3 DEF OrphansAreFailures, Orphans, Making
  <1>4. ASSUME NEW d \in Making
        PROVE  OrphansAreFailures
    <2>1. Making = {d}
      BY <1>4 DEF Making, HomeInv, OneInLock, InLock
    <2>2. Cardinality(Making) = 1
      BY <2>1, FS_Singleton
    <2>3. Orphans \subseteq Abandoned \union {boot[d].chosen}
      BY <2>1 DEF Abandoned
    <2>4. /\ IsFiniteSet(Abandoned \union {boot[d].chosen})
          /\ Cardinality(Abandoned \union {boot[d].chosen}) <= Cardinality(Abandoned) + 1
          /\ Cardinality(Abandoned \union {boot[d].chosen}) \in Nat
      BY <1>1, OneMore
    <2>5. Cardinality(Orphans) <= Cardinality(Abandoned \union {boot[d].chosen})
      BY <2>3, <2>4, FS_Subset
    <2>6. QED
      BY <1>1, <1>2, <2>2, <2>4, <2>5 DEF OrphansAreFailures, Orphans, Making
  <1>5. QED
    BY <1>3, <1>4

\* For any number of devices, managers and workspaces: there are never more
\* organizations without their owner than bootstraps that failed, but for the
\* one that a bootstrap is about to give its owner: whatever is deleted,
\* removed or claimed in between, only a bootstrap that failed leaves one.
THEOREM OrphansComeFromFailures == HomeSpec => []OrphansAreFailures
  <1>1. HomeInit => OrphanInv
    BY OrphansInitially
  <1>2. HomeInit => TypeInv /\ HomeInv
    BY TypesInitially, HomeHoldsInitially
  <1>3. TypeInv /\ HomeInv /\ OrphanInv /\ [HomeNext]_homeVars => TypeInv' /\ HomeInv' /\ OrphanInv'
    BY StepsKeepTypes, StepsKeepHome, StepsKeepOrphans
  <1>4. TypeInv /\ HomeInv /\ OrphanInv => OrphansAreFailures
    BY OrphansCounted
  <1>5. QED
    BY <1>1, <1>2, <1>3, <1>4, PTL DEF HomeSpec
-----------------------------------------------------------------------------
(***************************************************************************)
(* The life of a membership, as long as no request overlaps another write. *)
(***************************************************************************)
Open(w) == \E t \in 1..MaxTokens : CanAccept(w, t)

LivesOn(w) == Life(w)!MemberNext \/ UNCHANGED Life(w)!memberVars
Lives == ~overlapped' => \A w \in Workspaces : LivesOn(w)

\* What a request may make of the state it has read.
MayBecome(s, t) ==
  \/ t \in {"removed", s}
  \/ s \in {"joined", "restored"} /\ t = "disabled"
  \/ s = "disabled" /\ t = "restored"

SavesFit(row, copy) == row = NoRow \/ (copy.token = row.token /\ MayBecome(row.state, copy.state))

\* Who has not entered a workspace of their own has no row there, and no request
\* is about it.
UnenteredAreEmpty ==
  \A w \in exists \ {Shared} : w \notin entered =>
    member[w] = NoRow /\ \A m \in Managers : request[m].at # "idle" => request[m].w # w

OwnersAreDue == \A d \in Making : boot[d].chosen \notin entered \union {Shared}

\* A request that saves has read what is still there, or the row is gone.
SavesAreFresh == ~overlapped =>
  /\ \A m, n \in Managers : request[m].at # "idle" /\ request[n].at # "idle" => m = n
  /\ \A m \in Managers : request[m].at = "save" => SavesFit(member[request[m].w], request[m].copy)

LifeInv == UnenteredAreEmpty /\ OwnersAreDue /\ SavesAreFresh

LEMMA NotOpen ==
  ASSUME NEW w
  PROVE  /\ member[w].state # "invited" => ~Open(w)
         /\ member'[w].state # "invited" => ~Open(w)'
  BY DEF Open, CanAccept

LEMMA LifeInvites ==
  ASSUME NEW w \in Workspaces, member[w].state \in {"none", "invited", "removed"},
         member'[w].state = "invited", Open(w)'
  PROVE  LivesOn(w)
  BY DEF LivesOn, Life!MemberNext, Life!Invite, Open

LEMMA LifeKeeps ==
  ASSUME NEW w \in Workspaces, member'[w].state = member[w].state, Open(w)' => Open(w)
  PROVE  LivesOn(w)
  BY DEF LivesOn, Life!MemberNext, Life!Lapse, Life!memberVars, Open

LEMMA LifeJoins ==
  ASSUME NEW w \in Workspaces, member[w].state = "invited", Open(w), member'[w].state = "joined"
  PROVE  LivesOn(w)
  <1>1. ~Open(w)'
    BY NotOpen
  <1>2. QED
    BY <1>1 DEF LivesOn, Life!MemberNext, Life!Join, Open

LEMMA LifeProvides ==
  ASSUME NEW w \in Workspaces, member[w].state = "none", member'[w].state = "joined"
  PROVE  LivesOn(w)
  <1>1. ~Open(w) /\ ~Open(w)'
    BY NotOpen
  <1>2. QED
    BY <1>1 DEF LivesOn, Life!MemberNext, Life!Provision, Open

LEMMA LifeVanishes ==
  ASSUME NEW w \in Workspaces, member'[w] = NoRow
  PROVE  LivesOn(w)
  <1>1. member'[w].state = "none" /\ ~Open(w)'
    BY NotOpen DEF NoRow
  <1>2. QED
    BY <1>1 DEF LivesOn, Life!MemberNext, Life!Vanish, Open

LEMMA LifeRemoves ==
  ASSUME NEW w \in Workspaces, member[w].state \notin {"none", "removed"}, member'[w].state = "removed"
  PROVE  LivesOn(w)
  <1>1. ~Open(w)'
    BY NotOpen
  <1>2. QED
    BY <1>1 DEF LivesOn, Life!MemberNext, Life!Remove, Open

LEMMA LifeDisables ==
  ASSUME NEW w \in Workspaces, member[w].state \in {"joined", "restored"}, member'[w].state = "disabled"
  PROVE  LivesOn(w)
  <1>1. ~Open(w) /\ ~Open(w)'
    BY NotOpen
  <1>2. QED
    BY <1>1 DEF LivesOn, Life!MemberNext, Life!Disable, Open

LEMMA LifeRestores ==
  ASSUME NEW w \in Workspaces, member[w].state = "disabled", member'[w].state = "restored"
  PROVE  LivesOn(w)
  <1>1. ~Open(w) /\ ~Open(w)'
    BY NotOpen
  <1>2. QED
    BY <1>1 DEF LivesOn, Life!MemberNext, Life!Restore, Open

LEMMA RowLives ==
  ASSUME NEW w \in Workspaces, member'[w] = member[w], expired \subseteq expired'
  PROVE  LivesOn(w)
  <1>1. Open(w)' => Open(w)
    BY DEF Open, CanAccept
  <1>2. QED
    BY <1>1, LifeKeeps

LEMMA SavedRowLives ==
  ASSUME NEW w \in Workspaces, member[w].state # "none", expired' = expired,
         member'[w].token = member[w].token, MayBecome(member[w].state, member'[w].state)
  PROVE  LivesOn(w)
  <1>1. CASE member'[w].state = member[w].state
    <2>1. Open(w)' => Open(w)
      BY <1>1 DEF Open, CanAccept
    <2>2. QED
      BY <1>1, <2>1, LifeKeeps
  <1>2. CASE member'[w].state = "removed" /\ member[w].state # "removed"
    BY <1>2, LifeRemoves
  <1>3. CASE member[w].state \in {"joined", "restored"} /\ member'[w].state = "disabled"
    BY <1>3, LifeDisables
  <1>4. CASE member[w].state = "disabled" /\ member'[w].state = "restored"
    BY <1>4, LifeRestores
  <1>5. QED
    BY <1>1, <1>2, <1>3, <1>4 DEF MayBecome

LEMMA NoRowWrittenLives ==
  ASSUME UNCHANGED member, expired \subseteq expired'
  PROVE  Lives
  BY RowLives DEF Lives

LEMMA OneRowLives ==
  ASSUME EnteredInv, NEW w \in Workspaces, NEW row, member' = [member EXCEPT ![w] = row],
         UNCHANGED expired, ~overlapped' => LivesOn(w)
  PROVE  Lives
  <1>1. \A v \in Workspaces : v # w => member'[v] = member[v]
    BY DEF EnteredInv, RowTypes
  <1>2. QED
    BY <1>1, RowLives DEF Lives
-----------------------------------------------------------------------------
(***************************************************************************)
(* What keeps the requests fresh.                                          *)
(***************************************************************************)
\* No bootstrap goes on to provision.
MakingStays == \A d \in Making' : d \in Making /\ boot'[d].chosen = boot[d].chosen

LEMMA EndKeepsLife ==
  ASSUME TypeInv, LifeInv, Ends, UNCHANGED <<member, exists, entered>>, MakingStays, overlapped => overlapped'
  PROVE  LifeInv'
  <1>1. \A m \in Managers : request'[m] = request[m] \/ request'[m].at = "idle"
    BY EndedRequests DEF TypeInv
  <1>2. UnenteredAreEmpty'
    BY <1>1 DEF LifeInv, UnenteredAreEmpty
  <1>3. OwnersAreDue'
    BY DEF LifeInv, OwnersAreDue, MakingStays
  <1>4. SavesAreFresh'
    BY <1>1 DEF LifeInv, SavesAreFresh
  <1>5. QED
    BY <1>2, <1>3, <1>4 DEF LifeInv

\* A row is written, when no request is left that has not met another write.
LEMMA RowKeepsLife ==
  ASSUME TypeInv, LifeInv, Ends, NEW w \in exists, w \in entered \union {Shared}, NEW row,
         member' = [member EXCEPT ![w] = row], entered \subseteq entered', entered' \subseteq entered \union {w},
         UNCHANGED exists, MakingStays,
         ~overlapped' => \A m \in Managers : request'[m].at = "idle"
  PROVE  LifeInv'
  <1>1. \A m \in Managers : request'[m] = request[m] \/ request'[m].at = "idle"
    BY EndedRequests DEF TypeInv
  <1>2. \A v \in Workspaces : v # w => member'[v] = member[v]
    BY DEF TypeInv, EnteredInv, RowTypes
  <1>3. exists \subseteq Workspaces
    BY RowsOfExisting DEF TypeInv
  <1>4. UnenteredAreEmpty'
    BY <1>1, <1>2, <1>3 DEF LifeInv, UnenteredAreEmpty
  <1>5. OwnersAreDue'
    BY DEF LifeInv, OwnersAreDue, MakingStays
  <1>6. SavesAreFresh'
    BY DEF SavesAreFresh
  <1>7. QED
    BY <1>4, <1>5, <1>6 DEF LifeInv

LEMMA BeginKeepsLife ==
  ASSUME TypeInv, LifeInv, NEW m \in Managers, NEW label, NEW w, NEW copy,
         BeginRequest(m, label, w, copy), w \in entered \union {Shared}, UNCHANGED boot,
         label = "save" => SavesFit(member[w], copy)
  PROVE  LifeInv' /\ Lives
  <1>1. /\ UNCHANGED <<member, exists, expired, entered>> /\ request[m].at = "idle"
        /\ overlapped' = (overlapped \/ HandlerRuns)
    BY DEF BeginRequest, rowVars
  <1>2. \A n \in Managers : request'[n] = IF n = m THEN [at |-> label, w |-> w, copy |-> copy] ELSE request[n]
    BY DEF BeginRequest, TypeInv, EnteredInv, RowTypes
  <1>3. UnenteredAreEmpty'
    BY <1>1, <1>2 DEF LifeInv, UnenteredAreEmpty
  <1>4. OwnersAreDue'
    BY <1>1 DEF LifeInv, OwnersAreDue, Making
  <1>5. SavesAreFresh'
    <2>1. SUFFICES ASSUME ~overlapped' PROVE SavesAreFresh'
      BY DEF SavesAreFresh
    <2>2. \A n \in Managers : request[n].at = "idle"
      BY <1>1, <2>1 DEF HandlerRuns
    <2>3. \A n \in Managers : n # m => request'[n].at = "idle"
      BY <1>2, <2>2
    <2>4. request'[m].at = "save" => SavesFit(member'[request'[m].w], request'[m].copy)
      BY <1>1, <1>2
    <2>5. QED
      BY <2>3, <2>4 DEF SavesAreFresh
  <1>6. Lives
    BY <1>1, NoRowWrittenLives
  <1>7. QED
    BY <1>3, <1>4, <1>5, <1>6 DEF LifeInv

\* A workspace somebody manages is entered, or it is the shared one; and so is
\* one that a request is about or that has a row.
LEMMA ManagedIsEntered ==
  ASSUME LifeInv
  PROVE  /\ \A w : Managed(w) => w \in exists /\ w \in entered \union {Shared}
         /\ \A w \in exists : member[w] # NoRow => w \in entered \union {Shared}
         /\ \A m \in Managers : request[m].at # "idle" /\ request[m].w \in exists =>
              request[m].w \in entered \union {Shared}
  <1>1. \A w \in exists : member[w] # NoRow => w \in entered \union {Shared}
    BY DEF LifeInv, UnenteredAreEmpty
  <1>2. \A m \in Managers : request[m].at # "idle" /\ request[m].w \in exists =>
          request[m].w \in entered \union {Shared}
    BY DEF LifeInv, UnenteredAreEmpty
  <1>3. \A w : Managed(w) => w \in exists /\ (w = Shared \/ member[w] # NoRow)
    BY DEF Managed, NoRow
  <1>4. QED
    BY <1>1, <1>2, <1>3

\* The one request that is under way ends.
LEMMA LastEnds ==
  ASSUME EnteredInv, LifeInv, NEW m \in Managers, request[m].at # "idle", Finish(m), UNCHANGED overlapped
  PROVE  ~overlapped' => \A n \in Managers : request'[n].at = "idle"
  BY DEF LifeInv, SavesAreFresh, Finish, Quiet, EnteredInv, RowTypes

LEMMA NewTokenOpens ==
  ASSUME TypeInv, NEW w \in Workspaces, NEW row \in Rows, NewToken(w, row), UNCHANGED expired,
         member[w].state \in {"none", "invited", "removed"}
  PROVE  LivesOn(w) /\ Lives
         /\ \E new : member' = [member EXCEPT ![w] = new]
  <1> DEFINE new == [row EXCEPT !.state = "invited", !.token = issued + 1]
  <1>1. new.state = "invited" /\ new.token = issued + 1
    BY DEF Rows
  <1>2. issued + 1 \in 1..MaxTokens /\ issued + 1 \notin expired /\ issued + 1 # NoToken
    BY MembershipAssumption DEF NewToken, TypeInv, EnteredInv, RowTypes, SharedTypes, NoToken
  <1>3. member' = [member EXCEPT ![w] = new]
    BY DEF NewToken
  <1> HIDE DEF new
  <1>4. member'[w] = new
    BY <1>3 DEF TypeInv, EnteredInv, RowTypes
  <1>5. Open(w)'
    <2>1. \E t \in 1..MaxTokens : t # NoToken /\ member'[w].token = t /\ member'[w].state = "invited" /\ t \notin expired'
      BY <1>1, <1>2, <1>4
    <2>2. QED
      BY <2>1 DEF Open, CanAccept
  <1>6. LivesOn(w)
    BY <1>1, <1>4, <1>5, LifeInvites
  <1>7. QED
    BY <1>3, <1>6, OneRowLives DEF TypeInv
-----------------------------------------------------------------------------
LEMMA InviteLives ==
  ASSUME TypeInv, LifeInv, NEW m \in Managers, NEW w \in Workspaces, Invite(m, w), UNCHANGED boot
  PROVE  LifeInv' /\ Lives
  <1>1. w \in entered \union {Shared}
    BY ManagedIsEntered DEF Invite
  <1>2. BeginRequest(m, "identity", w, NoRow) \/ BeginRequest(m, "reinvite", w, member[w])
    BY DEF Invite
  <1>3. QED
    BY <1>1, <1>2, BeginKeepsLife

LEMMA ChangeLives ==
  ASSUME TypeInv, LifeInv, NEW m \in Managers, NEW w \in Workspaces, Change(m, w), UNCHANGED boot
  PROVE  LifeInv' /\ Lives
  <1>1. w \in entered \union {Shared}
    BY ManagedIsEntered DEF Change
  <1>2. PICK s \in Transitions(w) : BeginRequest(m, "save", w, [member[w] EXCEPT !.state = s])
    BY DEF Change
  <1>3. member[w] \in Rows
    BY DEF TypeInv, EnteredInv, RowTypes
  <1>4. MayBecome(member[w].state, s)
    BY <1>2 DEF Transitions, Restores, MayBecome
  <1>5. SavesFit(member[w], [member[w] EXCEPT !.state = s])
    BY <1>3, <1>4 DEF SavesFit, Rows
  <1>6. QED
    BY <1>1, <1>2, <1>5, BeginKeepsLife

LEMMA LookupLives ==
  ASSUME TypeInv, LifeInv, NEW m \in Managers, LookupIdentity(m), UNCHANGED boot
  PROVE  LifeInv' /\ Lives
  <1>1. /\ request[m].at = "identity" /\ UNCHANGED <<member, exists, expired, entered, overlapped>>
        /\ request' = [request EXCEPT ![m].at = "insert", ![m].copy.linked = account]
    BY DEF LookupIdentity, rowVars
  <1>2. /\ \A n \in Managers : n # m => request'[n] = request[n]
        /\ request'[m].at = "insert" /\ request'[m].w = request[m].w
    <2>1. request \in [Managers -> [at : Labels, w : Workspaces \union {Nowhere}, copy : Rows]]
      BY DEF TypeInv, EnteredInv, RowTypes
    <2>2. \A n \in Managers : n # m => request'[n] = request[n]
      BY <1>1, <2>1
    <2>3. request'[m].at = "insert"
      BY <1>1, <2>1
    <2>4. request'[m].w = request[m].w
      BY <1>1, <2>1
    <2>5. QED
      BY <2>2, <2>3, <2>4
  <1>3. UnenteredAreEmpty'
    <2>1. \A n \in Managers : request'[n].w = request[n].w /\ (request'[n].at # "idle" => request[n].at # "idle")
      BY <1>1, <1>2
    <2>2. QED
      BY <1>1, <2>1 DEF LifeInv, UnenteredAreEmpty
  <1>4. OwnersAreDue'
    BY <1>1 DEF LifeInv, OwnersAreDue, Making
  <1>5. SavesAreFresh'
    BY <1>1, <1>2 DEF LifeInv, SavesAreFresh
  <1>6. Lives
    BY <1>1, NoRowWrittenLives
  <1>7. QED
    BY <1>3, <1>4, <1>5, <1>6 DEF LifeInv

\* A request ends and has written nothing.
LEMMA EndLives ==
  ASSUME TypeInv, LifeInv, Ends, UNCHANGED <<member, exists, expired, entered, boot, overlapped>>
  PROVE  LifeInv' /\ Lives
  BY EndKeepsLife, NoRowWrittenLives DEF MakingStays, Making

\* A request ends with a new invite.
LEMMA TokenLives ==
  ASSUME TypeInv, LifeInv, NEW m \in Managers, request[m].at # "idle", Finish(m),
         request[m].w \in exists, NEW row \in Rows, NewToken(request[m].w, row),
         member[request[m].w].state \in {"none", "invited", "removed"},
         UNCHANGED <<exists, expired, entered, boot, overlapped>>
  PROVE  LifeInv' /\ Lives
  <1> DEFINE w == request[m].w
  <1>1. w \in Workspaces /\ w \in entered \union {Shared}
    BY RowsOfExisting, ManagedIsEntered DEF TypeInv
  <1>2. Lives /\ \E new : member' = [member EXCEPT ![w] = new]
    BY <1>1, NewTokenOpens
  <1>3. Ends /\ MakingStays /\ ~overlapped' => \A n \in Managers : request'[n].at = "idle"
    BY LastEnds DEF TypeInv
  <1>4. Ends /\ MakingStays
    BY DEF Ends, MakingStays, Making
  <1>5. LifeInv'
    BY <1>1, <1>2, <1>3, <1>4, RowKeepsLife
  <1>6. QED
    BY <1>2, <1>5

LEMMA InsertLives ==
  ASSUME TypeInv, LifeInv, NEW m \in Managers, InsertInvited(m), UNCHANGED boot
  PROVE  LifeInv' /\ Lives
  <1>1. request[m].at = "insert" /\ Finish(m) /\ Ends /\ UNCHANGED <<exists, expired, entered, overlapped>>
    BY DEF InsertInvited, Ends
  <1>2. CASE request[m].w \in exists /\ member[request[m].w] = NoRow
    <2>1. NewToken(request[m].w, request[m].copy) /\ request[m].copy \in Rows /\ member[request[m].w].state = "none"
      BY <1>2, RowsOfExisting DEF InsertInvited, NoRow, TypeInv
    <2>2. QED
      BY <1>1, <1>2, <2>1, TokenLives
  <1>3. CASE ~(request[m].w \in exists /\ member[request[m].w] = NoRow)
    BY <1>1, <1>3, EndLives DEF InsertInvited
  <1>4. QED
    BY <1>2, <1>3

LEMMA ReinviteLives ==
  ASSUME TypeInv, LifeInv, NEW m \in Managers, ReinviteWorkspaceMember(m), UNCHANGED boot
  PROVE  LifeInv' /\ Lives
  <1> DEFINE w == request[m].w
  <1>1. request[m].at = "reinvite" /\ Finish(m) /\ Ends /\ UNCHANGED <<exists, expired, entered, overlapped>>
    BY DEF ReinviteWorkspaceMember, Ends
  <1>2. CASE Reinvites(w)
    <2>1. w \in exists
      BY <1>1, <1>2 DEF Reinvites, TypeInv, EnteredInv, RequestsOfCreated, GoneHaveNoRow, NoRow
    <2>2. [member[w] EXCEPT !.linked = FALSE] \in Rows
      BY <2>1, RowsOfExisting DEF Rows, TypeInv
    <2>3. NewToken(w, [member[w] EXCEPT !.linked = FALSE]) /\ member[w].state \in {"none", "invited", "removed"}
      BY <1>2 DEF ReinviteWorkspaceMember, Reinvites
    <2>4. QED
      BY <1>1, <2>1, <2>2, <2>3, TokenLives
  <1>3. CASE ~Reinvites(w)
    BY <1>1, <1>3, EndLives DEF ReinviteWorkspaceMember
  <1>4. QED
    BY <1>2, <1>3

LEMMA SaveLives ==
  ASSUME TypeInv, RowsStay, LifeInv, NEW m \in Managers, SaveWorkspaceMember(m), UNCHANGED boot
  PROVE  LifeInv' /\ Lives
  <1>1. request[m].at = "save" /\ Finish(m) /\ Ends /\ UNCHANGED <<exists, expired, entered, overlapped>>
    BY DEF SaveWorkspaceMember, Ends
  <1>2. PICK w \in Workspaces : w = request[m].w
    BY <1>1 DEF TypeInv, EnteredInv, RequestsOfCreated
  <1>3. CASE member[w] = NoRow
    BY <1>1, <1>2, <1>3, EndLives DEF SaveWorkspaceMember
  <1>4. CASE member[w] # NoRow
    <2>1. w \in exists /\ w \in entered \union {Shared}
      <3>1. w \in exists
        BY <1>4 DEF TypeInv, EnteredInv, GoneHaveNoRow
      <3>2. QED
        BY <1>4, <3>1, ManagedIsEntered
    <2>2. PICK row : /\ row = [request[m].copy EXCEPT !.linked = member[w].linked]
                     /\ member' = [member EXCEPT ![w] = row]
      BY <1>2, <1>4 DEF SaveWorkspaceMember
    <2>3. row.token = request[m].copy.token /\ row.state = request[m].copy.state
      BY <2>2, RowsOfExisting DEF Rows, TypeInv
    <2>4. member'[w] = row
      BY <2>2 DEF TypeInv, EnteredInv, RowTypes
    <2>5. ASSUME ~overlapped' PROVE LivesOn(w)
      <3>1. SavesFit(member[w], request[m].copy)
        BY <1>1, <1>2, <2>5 DEF LifeInv, SavesAreFresh
      <3>2. row.token = member[w].token /\ MayBecome(member[w].state, row.state)
        BY <1>4, <2>3, <3>1 DEF SavesFit
      <3>3. member[w].state # "none"
        BY <1>4 DEF RowsStay
      <3>4. QED
        BY <1>1, <2>4, <3>2, <3>3, SavedRowLives
    <2>6. ~overlapped' => \A n \in Managers : request'[n].at = "idle"
      BY <1>1, LastEnds DEF TypeInv
    <2>7. MakingStays
      BY DEF MakingStays, Making
    <2>8. LifeInv'
      BY <1>1, <2>1, <2>2, <2>6, <2>7, RowKeepsLife
    <2>9. Lives
      BY <1>1, <2>2, <2>5, OneRowLives DEF TypeInv
    <2>10. QED
      BY <2>8, <2>9
  <1>5. QED
    BY <1>3, <1>4

LEMMA ManagersLive ==
  ASSUME TypeInv, RowsStay, LifeInv, NEW m \in Managers, ManagerStep(m), UNCHANGED boot
  PROVE  LifeInv' /\ Lives
  <1>1. ASSUME RequestFails(m) PROVE LifeInv' /\ Lives
    BY <1>1, EndLives DEF RequestFails, Ends, rowVars
  <1>2. QED
    BY <1>1, InviteLives, ChangeLives, LookupLives, InsertLives, ReinviteLives, SaveLives DEF ManagerStep
-----------------------------------------------------------------------------
LEMMA ResendLives ==
  ASSUME TypeInv, LifeInv, NEW w \in Workspaces, ResendWorkspaceInvite(w), UNCHANGED boot
  PROVE  LifeInv' /\ Lives
  <1>1. /\ NewToken(w, member[w]) /\ member[w] \in Rows /\ member[w].state = "invited"
        /\ w \in exists /\ w \in entered \union {Shared}
        /\ UNCHANGED <<exists, expired, request, entered>> /\ overlapped' = (overlapped \/ HandlerRuns)
    BY ManagedIsEntered DEF ResendWorkspaceInvite, TypeInv, EnteredInv, RowTypes
  <1>2. Lives /\ \E new : member' = [member EXCEPT ![w] = new]
    BY <1>1, NewTokenOpens
  <1>3. ~overlapped' => \A m \in Managers : request'[m].at = "idle"
    BY <1>1 DEF HandlerRuns
  <1>4. Ends /\ MakingStays
    BY <1>1 DEF Ends, MakingStays, Making
  <1>5. LifeInv'
    BY <1>1, <1>2, <1>3, <1>4, RowKeepsLife
  <1>6. QED
    BY <1>2, <1>5

LEMMA AcceptLives ==
  ASSUME TypeInv, LifeInv, NEW t \in 0..MaxTokens, AcceptInvite(t), MakingStays
  PROVE  LifeInv' /\ Lives
  <1> DEFINE joined == [state |-> "joined", linked |-> TRUE, token |-> NoToken]
  <1>1. UNCHANGED <<exists, expired, request>> /\ Ends
    BY DEF AcceptInvite, Ends
  <1>2. CASE \E w \in exists : Accepts(w, t)
    <2>1. PICK w \in exists : /\ Accepts(w, t) /\ member' = [member EXCEPT ![w] = joined]
                              /\ entered' = entered \union {w} /\ overlapped' = (overlapped \/ HandlerRuns)
      BY <1>2 DEF AcceptInvite
    <2>2. w \in Workspaces /\ member[w].state = "invited" /\ w \in entered \union {Shared}
      BY <2>1, RowsOfExisting, ManagedIsEntered DEF Accepts, CanAccept, NoRow, TypeInv
    <2>3. Open(w)
      BY <2>1, MembershipAssumption DEF Accepts, CanAccept, Open, NoToken
    <2>4. member'[w].state = "joined"
      BY <2>1, <2>2 DEF TypeInv, EnteredInv, RowTypes
    <2> HIDE DEF joined
    <2>5. Lives
      BY <1>1, <2>1, <2>2, <2>3, <2>4, LifeJoins, OneRowLives DEF TypeInv
    <2>6. ~overlapped' => \A m \in Managers : request'[m].at = "idle"
      BY <1>1, <2>1 DEF HandlerRuns
    <2>7. LifeInv'
      BY <1>1, <2>1, <2>2, <2>6, RowKeepsLife
    <2>8. QED
      BY <2>5, <2>7
  <1>3. CASE ~\E w \in exists : Accepts(w, t)
    <2>1. UNCHANGED <<member, entered, overlapped>>
      BY <1>3 DEF AcceptInvite
    <2>2. QED
      BY <1>1, <2>1, EndKeepsLife, NoRowWrittenLives
  <1>4. QED
    BY <1>2, <1>3

LEMMA DeleteLives ==
  ASSUME TypeInv, LifeInv, NEW w \in Workspaces, DeleteOrganization(w), UNCHANGED boot
  PROVE  LifeInv' /\ Lives
  <1>1. /\ member' = [member EXCEPT ![w] = NoRow] /\ UNCHANGED <<expired, request, overlapped>>
        /\ exists' = exists \ {w} /\ entered' = entered \ {w}
    BY DEF DeleteOrganization
  <1>2. \A v \in Workspaces : member'[v] = IF v = w THEN NoRow ELSE member[v]
    BY <1>1 DEF TypeInv, EnteredInv, RowTypes
  <1>3. exists \subseteq Workspaces /\ \A m \in Managers : request[m].at # "idle" => request[m].w \in Workspaces
    BY RowsOfExisting DEF TypeInv, EnteredInv, RequestsOfCreated
  <1>4. UnenteredAreEmpty'
    BY <1>1, <1>2, <1>3 DEF LifeInv, UnenteredAreEmpty
  <1>5. OwnersAreDue'
    BY <1>1 DEF LifeInv, OwnersAreDue, Making
  <1>6. SavesAreFresh'
    <2>1. SUFFICES ASSUME ~overlapped PROVE SavesAreFresh'
      BY <1>1 DEF SavesAreFresh
    <2>2. ASSUME NEW m \in Managers, request[m].at = "save"
          PROVE  SavesFit(member'[request[m].w], request[m].copy)
      <3>1. SavesFit(member[request[m].w], request[m].copy) /\ request[m].w \in Workspaces
        BY <1>3, <2>1, <2>2 DEF LifeInv, SavesAreFresh
      <3>2. QED
        BY <1>2, <3>1 DEF SavesFit
    <2>3. QED
      BY <1>1, <2>1, <2>2 DEF LifeInv, SavesAreFresh
  <1>7. Lives
    BY <1>1, <1>2, LifeVanishes, OneRowLives DEF TypeInv
  <1>8. QED
    BY <1>4, <1>5, <1>6, <1>7 DEF LifeInv

LEMMA ExpiryLives ==
  ASSUME TypeInv, LifeInv, NEW t, TokenExpires(t), UNCHANGED boot
  PROVE  LifeInv' /\ Lives
  <1>1. /\ UNCHANGED <<member, exists, entered, request, overlapped>> /\ expired \subseteq expired'
    BY DEF TokenExpires
  <1>2. QED
    BY <1>1, EndKeepsLife, NoRowWrittenLives DEF Ends, MakingStays, Making
-----------------------------------------------------------------------------
(***************************************************************************)
(* The bootstraps.                                                         *)
(***************************************************************************)
\* A workspace is created, or none.
LEMMA CreatedKeepsLife ==
  ASSUME TypeInv, LifeInv, UNCHANGED <<member, request, entered, overlapped>>,
         exists' \subseteq Workspaces, exists' \subseteq exists \union {created + 1},
         \A d \in Making' : \/ d \in Making /\ boot'[d].chosen = boot[d].chosen
                            \/ boot'[d].chosen = created + 1
  PROVE  LifeInv'
  <1>1. /\ created \in Nat /\ created >= 1 /\ exists \subseteq 1..created
        /\ \A m \in Managers : request[m].w <= created /\ request[m].w \in Nat
    BY MembershipAssumption DEF TypeInv, EnteredInv, RowTypes, RequestsOfCreated, Workspaces, Nowhere
  <1>2. created + 1 \notin exists /\ created + 1 \notin entered /\ created + 1 # Shared
        /\ \A m \in Managers : request[m].w # created + 1
    BY <1>1 DEF TypeInv, SharedTypes, Shared
  <1>3. created + 1 \in Workspaces => member[created + 1] = NoRow
    BY <1>2 DEF TypeInv, EnteredInv, GoneHaveNoRow
  <1>4. UnenteredAreEmpty'
    <2>1. \A w \in exists' : w \in exists \/ w = created + 1
      OBVIOUS
    <2>2. QED
      BY <1>2, <1>3, <2>1 DEF LifeInv, UnenteredAreEmpty
  <1>5. OwnersAreDue'
    BY <1>2 DEF LifeInv, OwnersAreDue
  <1>6. SavesAreFresh'
    BY DEF LifeInv, SavesAreFresh
  <1>7. QED
    BY <1>4, <1>5, <1>6 DEF LifeInv

LEMMA OwnerLives ==
  ASSUME TypeInv, HomeInv, LifeInv, NEW d \in Devices, EnsureOwner(d)
  PROVE  LifeInv' /\ Lives
  <1>1. PICK w \in exists : w = boot[d].chosen
    BY DEF EnsureOwner
  <1>2. PICK owner : /\ owner = [state |-> "joined", linked |-> TRUE, token |-> NoToken]
                     /\ member' = [member EXCEPT ![w] = owner]
    BY <1>1 DEF EnsureOwner
  <1>3. /\ UNCHANGED <<exists, expired, request, overlapped>> /\ entered' = entered \union {w}
        /\ boot[d].at = "owner" /\ boot' = [boot EXCEPT ![d].at = "default"] /\ w \in Workspaces
    BY <1>1, RowsOfExisting DEF EnsureOwner, BootAt, TypeInv
  <1>4. w \notin entered /\ w # Shared
    BY <1>1, <1>3 DEF LifeInv, OwnersAreDue, Making
  <1>5. member[w] = NoRow /\ \A m \in Managers : request[m].at # "idle" => request[m].w # w
    BY <1>4 DEF LifeInv, UnenteredAreEmpty
  <1>6. \A v \in Workspaces : member'[v] = IF v = w THEN owner ELSE member[v]
    BY <1>2 DEF TypeInv, EnteredInv, RowTypes
  <1>7. exists \subseteq Workspaces /\ \A m \in Managers : request[m].at # "idle" => request[m].w \in Workspaces
    BY RowsOfExisting DEF TypeInv, EnteredInv, RequestsOfCreated
  <1>8. UnenteredAreEmpty'
    BY <1>3, <1>6, <1>7 DEF LifeInv, UnenteredAreEmpty
  <1>9. OwnersAreDue'
    <2>1. \A e \in Devices \ {d} : boot[e].at \notin InLock
      BY <1>3 DEF HomeInv, OneInLock, InLock
    <2>2. \A e \in Devices : boot'[e].at \notin {"saveNew", "owner"}
      BY <1>3, <2>1 DEF TypeInv, BootTypes, Boots, InLock
    <2>3. QED
      BY <2>2 DEF OwnersAreDue, Making
  <1>10. SavesAreFresh'
    <2>1. \A m \in Managers : request[m].at = "save" => member'[request[m].w] = member[request[m].w]
      BY <1>5, <1>6, <1>7
    <2>2. QED
      BY <1>3, <2>1 DEF LifeInv, SavesAreFresh
  <1>11. member[w].state = "none" /\ member'[w].state = "joined"
    BY <1>2, <1>3, <1>5, <1>6 DEF NoRow
  <1>12. Lives
    BY <1>2, <1>3, <1>11, LifeProvides, OneRowLives DEF TypeInv
  <1>13. QED
    BY <1>8, <1>9, <1>10, <1>12 DEF LifeInv

LEMMA EndIsOutside ==
  ASSUME BootTypes, NEW d \in Devices, End(d)
  PROVE  boot'[d].at \in {"idle", "claim"}
  BY DEF End, BootTypes, NoBoot

LEMMA AtKeepsChosen ==
  ASSUME BootTypes, NEW d \in Devices, NEW label \in InLock, BootAt(d, label)
  PROVE  boot'[d].at = label /\ boot'[d].chosen = boot[d].chosen
  BY DEF BootAt, BootTypes, Boots

LEMMA BootsLive ==
  ASSUME TypeInv, TypeInv', HomeInv, LifeInv, NEW d \in Devices, BootStep(d)
  PROVE  LifeInv' /\ Lives
  <1>1. \A e \in Devices \ {d} : boot'[e] = boot[e]
    BY DEF TypeInv, BootTypes, BootStep, EnterHome, FindHome, SaveHome, SaveDefault, CreateOrganization,
           EnsureOwner, BootFails, BootAt, End
  <1>2. boot[d] \in Boots
    BY DEF TypeInv, BootTypes
  <1>3. exists' \subseteq Workspaces
    BY MembershipAssumption DEF TypeInv, EnteredInv, RowTypes, Workspaces
  <1>4. CASE EnterHome(d) \/ FindHome(d) \/ SaveHome(d) \/ SaveDefault(d)
    <2>1. /\ UNCHANGED <<member, request, expired, exists, entered, overlapped>>
      BY <1>4 DEF EnterHome, FindHome, SaveHome, SaveDefault, membershipVars, rowVars
    <2>2. d \in Making' => d \in Making /\ boot'[d].chosen = boot[d].chosen
      <3>1. ASSUME End(d) PROVE d \notin Making'
        BY <3>1, EndIsOutside DEF Making, TypeInv
      <3>2. ASSUME EnterHome(d) PROVE d \notin Making'
        BY <1>2, <3>2 DEF EnterHome, Making, TypeInv, BootTypes, Boots
      <3>3. ASSUME FindHome(d) PROVE d \notin Making'
        <4>1. CASE End(d)
          BY <3>1, <4>1
        <4>2. CASE BootAt(d, "create")
          BY <4>2, AtKeepsChosen DEF Making, TypeInv, InLock
        <4>3. CASE boot' = [boot EXCEPT ![d].chosen = Selected(d), ![d].at = IF Selected(d) = home THEN "default" ELSE "save"]
          BY <1>2, <4>3 DEF Making, TypeInv, BootTypes, Boots
        <4>4. QED
          BY <3>3, <4>1, <4>2, <4>3 DEF FindHome
      <3>4. ASSUME SaveHome(d) PROVE End(d) \/ d \notin Making' \/ (d \in Making /\ boot'[d].chosen = boot[d].chosen)
        <4>1. CASE boot[d].at = "save"
          <5>1. End(d) \/ BootAt(d, "default")
            BY <3>4, <4>1 DEF SaveHome, AfterSaveHome
          <5>2. QED
            BY <5>1, AtKeepsChosen DEF Making, TypeInv, InLock
        <4>2. CASE boot[d].at = "saveNew"
          <5>1. BootAt(d, "owner") /\ d \in Making
            BY <3>4, <4>2 DEF SaveHome, AfterSaveHome, Making
          <5>2. QED
            BY <5>1, AtKeepsChosen DEF TypeInv, InLock
        <4>3. QED
          BY <3>4, <4>1, <4>2 DEF SaveHome
      <3>5. ASSUME SaveDefault(d) PROVE End(d)
        BY <3>5 DEF SaveDefault
      <3>6. QED
        BY <1>4, <3>1, <3>2, <3>3, <3>4, <3>5
    <2>3. MakingStays
      BY <1>1, <2>2 DEF MakingStays, Making
    <2>4. QED
      BY <2>1, <2>3, EndKeepsLife, NoRowWrittenLives DEF Ends
  <1>5. CASE CreateOrganization(d)
    <2>1. boot'[d].chosen = created + 1 /\ exists' = exists \union {created + 1}
      BY <1>2, <1>5 DEF CreateOrganization, TypeInv, BootTypes, Boots
    <2>2. UNCHANGED <<member, request, expired, entered, overlapped>>
      BY <1>5 DEF CreateOrganization
    <2>3. QED
      BY <1>1, <1>3, <2>1, <2>2, CreatedKeepsLife, NoRowWrittenLives DEF Making
  <1>6. CASE BootFails(d)
    <2>1. d \notin Making' /\ exists' \subseteq exists \union {created + 1}
      BY <1>6 DEF BootFails, TypeInv, BootTypes, NoBoot, Making
    <2>2. UNCHANGED <<member, request, expired, entered, overlapped>>
      BY <1>6 DEF BootFails
    <2>3. QED
      BY <1>1, <1>3, <2>1, <2>2, CreatedKeepsLife, NoRowWrittenLives DEF Making
  <1>7. QED
    BY <1>4, <1>5, <1>6, OwnerLives DEF BootStep

LEMMA ArrivalsLive ==
  ASSUME TypeInv, LifeInv, NEW d \in Devices,
         Login(d) \/ (\E t \in 0..MaxTokens : SignUp(d, t))
           \/ (\E t \in 1..MaxTokens : ClaimInvite(d, t)) \/ ClaimRefused(d) \/ ClaimAccepted(d)
  PROVE  LifeInv' /\ Lives
  <1>1. MakingStays
    <2>1. \A e \in Devices \ {d} : boot'[e] = boot[e]
      BY DEF Login, SignUp, ClaimInvite, ClaimRefused, ClaimAccepted, TypeInv, BootTypes
    <2>2. boot'[d].at \in {"wait", "accept", "idle"}
      <3>1. boot \in [Devices -> Boots]
        BY DEF TypeInv, BootTypes
      <3>2. ASSUME Login(d) PROVE boot'[d].at = "wait"
        BY <3>1, <3>2 DEF Login, NoBoot
      <3>3. ASSUME NEW t, SignUp(d, t) PROVE boot'[d].at = "wait"
        BY <3>1, <3>3 DEF SignUp, NoBoot
      <3>4. ASSUME NEW t, ClaimInvite(d, t) PROVE boot'[d].at = "accept"
        BY <3>1, <3>4 DEF ClaimInvite, NoBoot
      <3>5. ASSUME ClaimRefused(d) \/ ClaimAccepted(d) PROVE boot'[d].at = "idle"
        BY <3>1, <3>5 DEF ClaimRefused, ClaimAccepted, NoBoot
      <3>6. QED
        BY <3>2, <3>3, <3>4, <3>5
    <2>3. QED
      BY <2>1, <2>2 DEF MakingStays, Making
  <1>2. CASE ClaimAccepted(d)
    <2>1. PICK t \in 0..MaxTokens : t = boot[d].token /\ AcceptInvite(t)
      BY <1>2 DEF ClaimAccepted, TypeInv, BootTypes, Boots
    <2>2. QED
      BY <1>1, <2>1, AcceptLives
  <1>3. CASE ~ClaimAccepted(d)
    <2>1. UNCHANGED <<member, exists, expired, request, entered, overlapped>>
      BY <1>3 DEF Login, SignUp, ClaimInvite, ClaimRefused, membershipVars, rowVars
    <2>2. QED
      BY <1>1, <2>1, EndKeepsLife, NoRowWrittenLives DEF Ends
  <1>4. QED
    BY <1>2, <1>3

LEMMA StepsLive ==
  ASSUME TypeInv, TypeInv', HomeInv, RowsStay, LifeInv, [HomeNext]_homeVars
  PROVE  LifeInv' /\ Lives
  <1>1. CASE UNCHANGED homeVars
    BY <1>1, EndKeepsLife, NoRowWrittenLives DEF Ends, MakingStays, Making, homeVars, membershipVars, rowVars
  <1>2. CASE OthersStep
    <2>1. UNCHANGED boot
      BY <1>2 DEF OthersStep
    <2>2. QED
      BY <1>2, <2>1, ManagersLive, ResendLives, DeleteLives, ExpiryLives DEF OthersStep
  <1>3. QED
    BY <1>1, <1>2, BootsLive, ArrivalsLive DEF HomeNext

\* For any number of managers, devices, workspaces and invites: as long as
\* nothing is written between the read and the write of a manager's request,
\* each step does to the row of every workspace what a membership allows, or
\* leaves it as it was, also a step of a bootstrap or of a deletion.
THEOREM MembershipsLive == HomeSpec => AloneMembersLive
  <1> DEFINE Inv == TypeInv /\ HomeInv /\ OrphanInv /\ LifeInv
  <1>1. HomeInit => Inv
    <2>1. HomeInit => TypeInv /\ HomeInv /\ OrphanInv
      BY TypesInitially, HomeHoldsInitially, OrphansInitially
    <2>2. HomeInit => LifeInv
      <3>1. SUFFICES ASSUME HomeInit PROVE LifeInv
        OBVIOUS
      <3>2. /\ request = [m \in Managers |-> Quiet] /\ exists = {Shared}
            /\ boot = [d \in Devices |-> NoBoot] /\ NoBoot.at = "idle" /\ Quiet.at = "idle"
        BY <3>1 DEF HomeInit, MembershipInit, NoBoot, Quiet
      <3>3. QED
        BY <3>2 DEF LifeInv, UnenteredAreEmpty, OwnersAreDue, Making, SavesAreFresh
    <2>3. QED
      BY <2>1, <2>2
  <1>2. Inv /\ [HomeNext]_homeVars => Inv'
    <2>1. TypeInv /\ HomeInv /\ OrphanInv /\ [HomeNext]_homeVars => TypeInv' /\ HomeInv' /\ OrphanInv'
      BY StepsKeepTypes, StepsKeepHome, StepsKeepOrphans
    <2>2. QED
      BY <2>1, StepsLive DEF OrphanInv
  <1>3. Inv /\ [HomeNext]_homeVars => Lives
    <2>1. TypeInv /\ HomeInv /\ [HomeNext]_homeVars => TypeInv'
      BY StepsKeepTypes
    <2>2. QED
      BY <2>1, StepsLive DEF OrphanInv
  <1> HIDE DEF Inv
  <1>4. QED
    BY <1>1, <1>2, <1>3, PTL DEF HomeSpec, AloneMembersLive, Lives, LivesOn
=============================================================================
