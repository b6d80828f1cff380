------------------------------ MODULE MCImaging ------------------------------
(***************************************************************************)
(* Instances of Imaging for TLC; the configurations give every constant.   *)
(***************************************************************************)
EXTENDS Imaging
=============================================================================
