---------------------------- MODULE MCBulkWrites ----------------------------
(***************************************************************************)
(* A small instance of BulkWrites for TLC.                                 *)
(***************************************************************************)
EXTENDS BulkWrites

MCWrites == Batches \X Ids
MCKeyOf == [w \in MCWrites |-> w[2]]
=============================================================================
