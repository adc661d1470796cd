---------------------------- MODULE AccountLife -----------------------------
(***************************************************************************)
(* What the handlers of an account promise together: the account goes from *)
(* pending to active to closed and never back, unless a closing is taken   *)
(* back, and a password that was replaced never returns.                   *)
(***************************************************************************)
CONSTANTS Passwords, NoPassword

VARIABLES
  user,    \* state and password of the account
  retired  \* the passwords it had before

lifeVars == <<user, retired>>

LifeInit == user = [state |-> "none", password |-> NoPassword] /\ retired = {}

SignUp ==
  /\ user.state = "none"
  /\ \E s \in {"pending", "active"}, p \in Passwords : user' = [state |-> s, password |-> p]
  /\ UNCHANGED retired

NewPassword(p) ==
  /\ p \in Passwords \ (retired \union {user.password})
  /\ retired' = retired \union {user.password}

\* Somebody takes over a signup that nobody confirmed.
SignUpAgain ==
  /\ user.state = "pending"
  /\ \E s \in {"pending", "active"}, p \in Passwords :
       NewPassword(p) /\ user' = [state |-> s, password |-> p]

Confirm ==
  /\ user.state = "pending"
  /\ user' = [user EXCEPT !.state = "active"]
  /\ UNCHANGED retired

ChangePassword ==
  /\ user.state = "active"
  /\ \E p \in Passwords : NewPassword(p) /\ user' = [user EXCEPT !.password = p]

Close ==
  /\ user.state = "active"
  /\ \E s \in {"closing", "deactivated"} : user' = [user EXCEPT !.state = s]
  /\ UNCHANGED retired

\* The closing is final, or it failed half-way and is taken back.
Settle ==
  /\ user.state = "closing"
  /\ \E s \in {"deactivated", "active"} : user' = [user EXCEPT !.state = s]
  /\ UNCHANGED retired

LifeNext == SignUp \/ SignUpAgain \/ Confirm \/ ChangePassword \/ Close \/ Settle

LifeSpec == LifeInit /\ [][LifeNext]_lifeVars
=============================================================================
