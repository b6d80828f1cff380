------------------------------ MODULE MCFleet ------------------------------
(***************************************************************************)
(* One telescope that is added twice; the first client may reconnect.      *)
(***************************************************************************)
EXTENDS Fleet

MCMaxConns == <<2, 0>>
=============================================================================
