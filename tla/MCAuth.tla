------------------------------- MODULE MCAuth -------------------------------
(***************************************************************************)
(* Instances of Auth for TLC; the configurations give every constant.      *)
(***************************************************************************)
EXTENDS Auth
=============================================================================
