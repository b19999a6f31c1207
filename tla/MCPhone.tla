------------------------------ MODULE MCPhone ------------------------------
(***************************************************************************)
(* Instances of Phone for TLC.                                             *)
(***************************************************************************)
EXTENDS Phone

NoFaults == {}
=============================================================================
