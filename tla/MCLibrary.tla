------------------------------ MODULE MCLibrary ------------------------------
(* Instance of Library for TLC. *)
EXTENDS Library

CONSTANTS l1, l2
MCListener == {l1, l2}
=============================================================================
