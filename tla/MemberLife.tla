----------------------------- MODULE MemberLife -----------------------------
(***************************************************************************)
(* What the handlers of a membership promise together about one row: a     *)
(* person joins only by an open invite, is disabled and restored only as a *)
(* member, and once removed comes back only by another invite.             *)
(***************************************************************************)
VARIABLES
  state,  \* "none", "invited", "joined", "disabled", "restored" or "removed"
  open    \* an invite can be accepted

memberVars == <<state, open>>

MemberInit == state = "none" /\ open = FALSE

Invite == state \in {"none", "invited", "removed"} /\ state' = "invited" /\ open' = TRUE

Lapse == open /\ open' = FALSE /\ UNCHANGED state

Join == state = "invited" /\ open /\ state' = "joined" /\ open' = FALSE

\* The workspace was made for the person.
Provision == state = "none" /\ state' = "joined" /\ UNCHANGED open

Disable == state \in {"joined", "restored"} /\ state' = "disabled" /\ UNCHANGED open

Restore == state = "disabled" /\ state' = "restored" /\ UNCHANGED open

Remove == state \notin {"none", "removed"} /\ state' = "removed" /\ open' = FALSE

\* The workspace is deleted.
Vanish == state' = "none" /\ open' = FALSE

MemberNext == Invite \/ Lapse \/ Join \/ Provision \/ Disable \/ Restore \/ Remove \/ Vanish

MemberSpec == MemberInit /\ [][MemberNext]_memberVars
=============================================================================
