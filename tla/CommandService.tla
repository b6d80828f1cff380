--------------------------- MODULE CommandService ---------------------------
(***************************************************************************)
(* What SeestarClient::send_command promises its callers, with no task,    *)
(* channel, registry or connection in sight: a call ends at most once, in  *)
(* Ok, Disconnected or Timeout; Ok means that the telescope answered this  *)
(* very command; the telescope gets a command at most once, possibly after *)
(* its caller has given up.                                                *)
(***************************************************************************)
CONSTANT Callers

VARIABLES
    outcome,   \* "idle", "open", then how the call ended
    executed   \* the calls whose command the telescope received

serviceVars == <<outcome, executed>>

Init == outcome = [c \in Callers |-> "idle"] /\ executed = {}

Begin(c) ==
    /\ outcome[c] = "idle"
    /\ outcome' = [outcome EXCEPT ![c] = "open"]
    /\ UNCHANGED executed

\* The command may reach the telescope when nobody waits for it any more.
Execute(c) ==
    /\ outcome[c] # "idle"
    /\ c \notin executed
    /\ executed' = executed \union {c}
    /\ UNCHANGED outcome

Respond(c) ==
    /\ outcome[c] = "open"
    /\ c \in executed
    /\ outcome' = [outcome EXCEPT ![c] = "ok"]
    /\ UNCHANGED executed

GiveUp(c) ==
    /\ outcome[c] = "open"
    /\ outcome' = [outcome EXCEPT ![c] = "timeout"]
    /\ UNCHANGED executed

\* Losing a connection fails any number of open calls at once.
Disconnect(S) ==
    /\ \A c \in S : outcome[c] = "open"
    /\ outcome' = [c \in Callers |-> IF c \in S THEN "disconnected" ELSE outcome[c]]
    /\ UNCHANGED executed

Next ==
    \/ \E c \in Callers : Begin(c) \/ Execute(c) \/ Respond(c) \/ GiveUp(c)
    \/ \E S \in SUBSET Callers : Disconnect(S)

Spec == Init /\ [][Next]_serviceVars
=============================================================================
