-------------------------- MODULE MCClientWrites ---------------------------
(***************************************************************************)
(* Small instances of ClientWrites for TLC: two writes of one entity.      *)
(***************************************************************************)
EXTENDS ClientWrites
CONSTANT client

MCKeyOf == [w \in Writes |-> client]
=============================================================================
