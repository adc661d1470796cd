---------------------------- MODULE SessionHome -----------------------------
(***************************************************************************)
(* The session bootstrap of a person with several devices: under a mutex,  *)
(* ensureHome picks a home among the person's workspaces, or provisions    *)
(* an organization when there is none, one statement after the other, and  *)
(* repairs the default workspace of the user it was called with.           *)
(***************************************************************************)
EXTENDS Membership

CONSTANTS
  Devices,
  MaxFailures  \* bound: bootstraps that fail

ASSUME HomeAssumption == MaxFailures \in Nat

VARIABLES
  default,    \* default_workspace_id of the user
  boot,       \* the bootstrap, or claim, of each device
  created,    \* organizations created so far
  failures,   \* bootstraps that failed
  disturbed,  \* history: bootstraps under way since whose begin others have written, or that met one
  settled     \* history: an undisturbed bootstrap has ended, nothing was written since

homeVars == <<membershipVars, default, boot, created, failures, disturbed, settled>>

NoBoot == [at |-> "idle", listed |-> {}, default |-> Nowhere, chosen |-> Nowhere, token |-> NoToken]

HomeInit ==
  /\ MembershipInit
  /\ default = Nowhere
  /\ boot = [d \in Devices |-> NoBoot]
  /\ created = 1 /\ failures = 0
  /\ disturbed = {} /\ settled = FALSE

InLock == {"find", "save", "default", "create", "saveNew", "owner"}

\* A statement by somebody else.
Disturb ==
  IF UNCHANGED <<exists, member, home>>
  THEN UNCHANGED <<disturbed, settled>>
  ELSE disturbed' = {d \in Devices : boot[d].at \in InLock \union {"wait"}} /\ settled' = FALSE

BootAt(d, label) == boot' = [boot EXCEPT ![d].at = label]

\* The bootstrap ends; a signup by an invite goes on to claim it.
End(d) ==
  /\ LET t == boot[d].token IN
     boot' = [boot EXCEPT ![d] = IF t = NoToken THEN NoBoot ELSE [NoBoot EXCEPT !.at = "claim", !.token = t]]
  /\ settled' = (settled \/ d \notin disturbed)
  /\ disturbed' = disturbed \ {d}

\* A disturbed bootstrap under way may still write what is no longer true.
Begin(d) == disturbed' = IF disturbed = {} THEN {} ELSE disturbed \union {d}

\* The caller has resolved the user, with its default workspace.
Login(d) ==
  /\ account
  /\ boot[d].at = "idle"
  /\ boot' = [boot EXCEPT ![d] = [NoBoot EXCEPT !.at = "wait", !.default = default]]
  /\ Begin(d)
  /\ UNCHANGED <<membershipVars, default, created, failures, settled>>

\* A registration, or acceptInviteSignup with a pending invite.
SignUp(d, t) ==
  /\ ~account
  /\ boot[d].at = "idle"
  /\ t # NoToken => \E w \in exists : CanAccept(w, t)
  /\ account' = TRUE
  /\ boot' = [boot EXCEPT ![d] = [NoBoot EXCEPT !.at = "wait", !.token = t]]
  /\ Begin(d)
  /\ UNCHANGED <<exists, member, issued, expired, home, request, entered, overlapped>>
  /\ UNCHANGED <<default, created, failures, settled>>

\* ClaimInvite reads the invite and accepts it in a second step.
ClaimInvite(d, t) ==
  /\ account
  /\ \/ boot[d].at = "idle" \/ (boot[d].at = "claim" /\ boot[d].token = t)
  /\ \E w \in exists : CanAccept(w, t)
  /\ boot' = [boot EXCEPT ![d] = [NoBoot EXCEPT !.at = "accept", !.token = t]]
  /\ UNCHANGED <<membershipVars, default, created, failures, disturbed, settled>>

ClaimRefused(d) ==
  /\ boot[d].at = "claim"
  /\ ~\E w \in exists : CanAccept(w, boot[d].token)
  /\ boot' = [boot EXCEPT ![d] = NoBoot]
  /\ UNCHANGED <<membershipVars, default, created, failures, disturbed, settled>>

ClaimAccepted(d) ==
  /\ boot[d].at = "accept"
  /\ AcceptInvite(boot[d].token)
  /\ boot' = [boot EXCEPT ![d] = NoBoot]
  /\ Disturb
  /\ UNCHANGED <<default, created, failures>>
-----------------------------------------------------------------------------
(***************************************************************************)
(* ensureHome.                                                             *)
(***************************************************************************)

\* Mutant: no mutex.
NoMutex == TRUE

MutexFree == \A d \in Devices : boot[d].at \notin InLock

EnterHome(d) ==
  /\ boot[d].at = "wait"
  /\ MutexFree
  /\ boot' = [boot EXCEPT ![d].at = "find", ![d].listed = Listed]
  /\ UNCHANGED <<membershipVars, default, created, failures, disturbed, settled>>

\* A home that is listed, or the default, or the first.
Selected(d) ==
  LET listed == boot[d].listed IN
  IF home \in listed THEN home
  ELSE IF boot[d].default \in listed THEN boot[d].default
  ELSE CHOOSE w \in listed : \A v \in listed : w <= v

\* Mutant: a default that exists is kept.
DefaultStays(d) == boot[d].default # Nowhere

\* ensureDefaultWorkspace looks at the user it was called with.
DefaultKept(d) == boot[d].default \in boot[d].listed

FindHome(d) ==
  /\ boot[d].at = "find"
  /\ IF boot[d].listed = {}
     THEN BootAt(d, "create") /\ UNCHANGED <<disturbed, settled>>
     ELSE LET w == Selected(d) IN
          IF w = home /\ DefaultKept(d) THEN End(d)
          ELSE /\ boot' = [boot EXCEPT ![d].chosen = w, ![d].at = IF w = home THEN "default" ELSE "save"]
               /\ UNCHANGED <<disturbed, settled>>
  /\ UNCHANGED <<membershipVars, default, created, failures>>

\* Mutant: a saved home is the end of the bootstrap's work on memberships.
NoOwner(d) == "default"

AfterSaveHome(d) == IF boot[d].at = "save" THEN "default" ELSE "owner"

\* The home refers to a workspace that exists, or the statement fails.
SaveHome(d) ==
  LET w == boot[d].chosen IN
  /\ boot[d].at \in {"save", "saveNew"} /\ w \in exists
  /\ home' = w
  /\ IF boot[d].at = "save" /\ DefaultKept(d)
     THEN End(d)
     ELSE BootAt(d, AfterSaveHome(d)) /\ UNCHANGED <<disturbed, settled>>
  /\ UNCHANGED <<account, exists, member, issued, expired, request, entered, overlapped>>
  /\ UNCHANGED <<default, created, failures>>

\* UpdateProfile reads the user again and saves the whole row; of what it reads,
\* nothing is kept that a property looks at, so one step stands for both.
SaveDefault(d) ==
  /\ boot[d].at = "default"
  /\ default' = boot[d].chosen
  /\ End(d)
  /\ UNCHANGED <<membershipVars, created, failures>>

CreateOrganization(d) ==
  /\ boot[d].at = "create" /\ created < MaxWorkspaces
  /\ created' = created + 1
  /\ exists' = exists \union {created + 1}
  /\ boot' = [boot EXCEPT ![d].at = "saveNew", ![d].chosen = created + 1]
  /\ UNCHANGED <<account, member, issued, expired, home, request, entered, overlapped>>
  /\ UNCHANGED <<default, failures, disturbed, settled>>

\* EnsureOrganizationMember, EnsureWorkspaceOwner
EnsureOwner(d) ==
  LET w == boot[d].chosen IN
  /\ boot[d].at = "owner" /\ w \in exists
  /\ member' = [member EXCEPT ![w] = [state |-> "joined", linked |-> TRUE, token |-> NoToken]]
  /\ entered' = entered \union {w}
  /\ BootAt(d, "default")
  /\ UNCHANGED <<account, exists, issued, expired, home, request, overlapped>>
  /\ UNCHANGED <<default, created, failures, disturbed, settled>>

\* A statement fails or refers to what is gone: the mutex is released, and
\* what was written stays, also the organization whose cleanup failed.
BootFails(d) ==
  LET gone == boot[d].at \in {"save", "saveNew", "owner"} /\ boot[d].chosen \notin exists IN
  /\ boot[d].at \in InLock \union {"wait", "accept"}
  /\ \/ gone /\ UNCHANGED <<failures, created, exists>>
     \/ /\ failures < MaxFailures
        /\ failures' = failures + 1
        /\ \/ UNCHANGED <<created, exists>>
           \/ /\ boot[d].at = "create" /\ created < MaxWorkspaces
              /\ created' = created + 1
              /\ exists' = exists \union {created + 1}
     \* bound: no organization is left to create
     \/ boot[d].at = "create" /\ created = MaxWorkspaces /\ UNCHANGED <<failures, created, exists>>
  /\ boot' = [boot EXCEPT ![d] = NoBoot]
  /\ disturbed' = disturbed \ {d}
  /\ UNCHANGED <<account, member, issued, expired, home, request, entered, overlapped>>
  /\ UNCHANGED <<default, settled>>

BootStep(d) ==
  \/ EnterHome(d) \/ FindHome(d) \/ SaveHome(d) \/ SaveDefault(d)
  \/ CreateOrganization(d) \/ EnsureOwner(d) \/ BootFails(d)

OthersStep ==
  /\ \/ \E m \in Managers : ManagerStep(m)
     \/ \E w \in Workspaces : ResendWorkspaceInvite(w) \/ DeleteOrganization(w)
     \/ \E t \in 1..MaxTokens : TokenExpires(t)
  /\ Disturb
  /\ UNCHANGED <<default, boot, created, failures>>

HomeNext ==
  \/ OthersStep
  \/ \E d \in Devices :
       \/ Login(d) \/ BootStep(d)
       \/ \E t \in 0..MaxTokens : SignUp(d, t)
       \/ \E t \in 1..MaxTokens : ClaimInvite(d, t)
       \/ ClaimRefused(d) \/ ClaimAccepted(d)

HomeSpec == HomeInit /\ [][HomeNext]_homeVars

-----------------------------------------------------------------------------
HomeTypeOK ==
  /\ account \in BOOLEAN /\ exists \subseteq 1..created
  /\ member \in [Workspaces -> Rows] /\ \A w \in Workspaces \ exists : member[w] = NoRow
  /\ issued \in 0..MaxTokens /\ expired \subseteq 1..issued
  /\ home \in exists \union {Nowhere} /\ default \in Workspaces \union {Nowhere}
  /\ request \in [Managers -> [at : {"idle", "identity", "insert", "reinvite", "save"},
                               w : Workspaces \union {Nowhere}, copy : Rows]]
  /\ boot \in [Devices -> [at : InLock \union {"idle", "wait", "claim", "accept"},
                           listed : SUBSET Workspaces, default : Workspaces \union {Nowhere},
                           chosen : Workspaces \union {Nowhere}, token : 0..MaxTokens]]
  /\ entered \subseteq exists /\ overlapped \in BOOLEAN
  /\ created \in Workspaces /\ failures \in 0..MaxFailures
  /\ disturbed \subseteq Devices /\ settled \in BOOLEAN

\* Once a bootstrap has ended undisturbed, the home and the default workspace
\* are workspaces of the person, until somebody else changes the memberships;
\* the bootstraps of other devices do not undo it.  (A profile saved by the
\* person with another default workspace is not in the model.)
HomeIsReachable == settled => home \in Listed /\ default \in Listed

\* An organization without its owner is left only by a bootstrap that failed.
OrphansAreFailures ==
  Cardinality({w \in exists \ {Shared} : member[w] = NoRow})
    <= failures + Cardinality({d \in Devices : boot[d].at \in {"saveNew", "owner"}})

\* An organization is provisioned only for somebody without a workspace, unless
\* others write during the bootstrap: two devices never provision two.
ProvisionsOnlyTheHomeless ==
  [][\A d \in Devices :
       boot[d].at = "create" /\ boot'[d].at = "saveNew" /\ d \notin disturbed
         => Listed = {}]_homeVars
=============================================================================
