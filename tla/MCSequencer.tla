----------------------------- MODULE MCSequencer -----------------------------
(* Sequencer for TLC: the constants come from the configurations.           *)
EXTENDS Sequencer
=============================================================================
