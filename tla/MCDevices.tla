----------------------------- MODULE MCDevices -----------------------------
(***************************************************************************)
(* Two users and a channel of one slot.                                    *)
(***************************************************************************)
EXTENDS Devices

One(name) == <<[names |-> <<name>>, stop_on_error |-> TRUE]>>
\* A nested sequence that goes on after an error, inside a sequence that does not.
Night == <<[names |-> <<"GoToTarget">>, stop_on_error |-> FALSE],
           [names |-> <<"park">>, stop_on_error |-> TRUE]>>
MCUsers == 1..2
MCPlans == {One("jog"), Night}
\* The first user calls again while what it left behind is still on its way.
MCMaxCalls == <<2, 1>>
=============================================================================
