----------------------------- MODULE MCLibrary -----------------------------
(* Instances of Library for TLC: a client that two users log in with.       *)
EXTENDS Library

MCUsers == {"ana", "ion"}
=============================================================================
