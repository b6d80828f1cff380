----------------------------- MODULE MCControl -----------------------------
(***************************************************************************)
(* Instances of Control for TLC; the configurations give every constant.   *)
(***************************************************************************)
EXTENDS Control
=============================================================================
