------------------------------ MODULE Devices ------------------------------
(***************************************************************************)
(* The operations a user calls on a telescope: the Mount and Camera        *)
(* adapters (backend/seestar), the helpers of SeestarClient, the commands  *)
(* of a sequence (sequencer/command.rs) and the command line.  Each one is *)
(* a program of steps, and a step that sends a command waits for its       *)
(* answer with a timeout.                                                  *)
(*                                                                         *)
(* The control connection is what Control shows it to be: a bounded        *)
(* channel and then the wire, first in first out, out of which a loss of   *)
(* the connection takes what was on the wire; a writer of a lost           *)
(* connection may still take a request and have it executed.  A request    *)
(* whose caller has given up stays where it is.                            *)
(***************************************************************************)
EXTENDS Integers, Sequences

CONSTANTS
    Users,       \* tasks that call operations
    Plans,       \* what they may ask for: see Program
    Capacity,    \* of the channel of requests
    MaxCalls,    \* bound: operations each user begins
    MaxLosses    \* bound: losses of the connection

-----------------------------------------------------------------------------
(* Programs                                                                *)

\* A step that fails ends its program, or is followed by the step `skip` further on.
Abort == -1
Step(kind, name) == [kind |-> kind, name |-> name, skip |-> Abort]

Validated(cmd) == Step("validated", cmd)    \* send_and_validate: a refusal is an error
Sent(cmd)      == Step("sent", cmd)         \* send_command: a refusal is an answer
Check(what)    == Step("check", what)       \* sends nothing, may fail
Wait(what)     == Step("wait", what)        \* sends nothing

Kinds == {"validated", "sent", "check", "wait"}
StepRecord == [kind : Kinds, name : STRING, skip : Nat \cup {Abort}]

\* The errors of p are dropped, by a match, ok() or unwrap_or: what follows p is next.
Lenient(p) ==
    [i \in DOMAIN p |-> IF p[i].skip = Abort THEN [p[i] EXCEPT !.skip = Len(p) - i] ELSE p[i]]

\* Programs one after the other; without stopOnError each is followed by the next.
Chain(programs, stopOnError) ==
    LET upTo[n \in 0..Len(programs)] ==
            IF n = 0 THEN <<>>
            ELSE upTo[n - 1] \o (IF stopOnError THEN programs[n] ELSE Lenient(programs[n]))
    IN  upTo[Len(programs)]

\* connect, disconnect, get_status, is_connected and capabilities send nothing.
GetCoordinates == <<Validated("scope_get_equ_coord"), Check("coordinates")>>
IsTracking == <<Validated("get_device_state")>>
MountOps == [
    connect |-> <<>>,
    get_coordinates |-> GetCoordinates,
    slew_to_coordinates |-> <<Validated("goto_target")>>,
    abort_slew |-> <<Validated("iscope_stop_view")>>,
    park |-> <<Validated("scope_park")>>,
    set_tracking |-> <<Validated("scope_set_track_state")>>,
    is_tracking |-> IsTracking,
    get_mount_status |-> Chain(<<GetCoordinates, IsTracking>>, FALSE)]

StartExposure(gain) ==
    <<Validated("iscope_start_view")>>
    \o (IF gain THEN <<Validated("set_control_value")>> ELSE <<>>)
    \o <<Validated("iscope_start_stack")>>
IsExposing == <<Validated("get_view_state")>>
CameraOps == [
    start_exposure |-> StartExposure(FALSE),
    start_exposure_gain |-> StartExposure(TRUE),
    abort_exposure |-> <<Validated("iscope_stop_view")>>,
    is_exposing |-> IsExposing,
    get_camera_status |-> Chain(<<IsExposing>>, FALSE)]

ClientOps == [
    jog |-> <<Sent("scope_speed_move")>>,
    stop_jog |-> <<Sent("scope_speed_move")>>,
    start_auto_focus |-> <<Sent("start_auto_focuse")>>,
    stop_auto_focus |-> <<Sent("stop_auto_focuse")>>,
    startup |-> <<Validated("pi_set_time"), Validated("set_user_location"), Sent("pi_is_verified")>>,
    start_polar_align |-> <<Sent("start_polar_align")>>]

\* The context may have no camera; a wait ends when its time has come.
SequencerOps == [
    GoToTarget |-> <<Check("coordinates")>> \o MountOps.slew_to_coordinates,
    StartImaging |-> <<Check("camera")>> \o StartExposure(FALSE),
    StopImaging |-> <<Check("camera")>> \o CameraOps.abort_exposure,
    WaitMinutes |-> <<Wait("minutes")>>,
    WaitUntilTime |-> <<Wait("time")>>]

CliGoto   == <<Check("coordinates"), Check("connection"), Sent("goto_target")>>
CliPark   == <<Check("connection"), Sent("scope_park")>>
CliStatus == <<Check("connection"), Sent("get_device_state"), Check("device state")>>
CliOps == [goto |-> CliGoto, cli_park |-> CliPark, status |-> CliStatus]

Operation(name) ==
    IF name \in DOMAIN MountOps THEN MountOps[name]
    ELSE IF name \in DOMAIN CameraOps THEN CameraOps[name]
    ELSE IF name \in DOMAIN ClientOps THEN ClientOps[name]
    ELSE IF name \in DOMAIN SequencerOps THEN SequencerOps[name]
    ELSE CliOps[name]

\* A plan lists groups of operations; a group is SequencerCommand::Sequence, and the
\* plan itself stops at the first error.  One operation is a plan of one group of one.
Group(g) == Chain([i \in DOMAIN g.names |-> Operation(g.names[i])], g.stop_on_error)
Program(plan) == Chain([i \in DOMAIN plan |-> Group(plan[i])], TRUE)

NoPlan == <<>>      \* of a user that has asked for nothing
Programs == [p \in Plans \cup {NoPlan} |-> Program(p)]

ASSUME DevicesAssumption ==
    /\ Capacity \in Nat \ {0}
    /\ MaxCalls \in [Users -> Nat]
    /\ MaxLosses \in Nat
    /\ \A p \in Plans \cup {NoPlan} : Programs[p] \in Seq(StepRecord)
\* What an error skips belongs to the group whose errors are dropped.
ASSUME SkipAssumption ==
    \A p \in Plans \cup {NoPlan} : \A i, j \in DOMAIN Programs[p] :
        Programs[p][i].skip # Abort /\ j \in i..(i + Programs[p][i].skip) => Programs[p][j].skip # Abort

-----------------------------------------------------------------------------

VARIABLES
    plan,       \* what each user last asked for
    status,     \* "idle", "ready" for the next step, or "waiting" for an answer
    pc,         \* the step it is at; where the operation failed; one past the end
    result,     \* of its last operation
    calls,      \* operations it has begun
    heard,      \* the last command it sent was answered
    link,       \* requests on their way: those on the wire, then the channel
    wire,       \* how many of them are on the wire
    strays,     \* requests in the hands of lost connections
    losses,     \* connections lost
    accepted    \* history: steps of the user's operation that the telescope accepted

userVars == <<plan, status, pc, result, calls>>
linkVars == <<link, wire, strays, losses>>
vars == <<userVars, heard, linkVars, accepted>>

Steps(u) == Programs[plan[u]]
At(u) == Steps(u)[pc[u]]
Current(u) == [user |-> u, call |-> calls[u], step |-> pc[u]]
Channel == Len(link) - wire

Init ==
    /\ plan = [u \in Users |-> NoPlan]
    /\ status = [u \in Users |-> "idle"]
    /\ pc = [u \in Users |-> 1]
    /\ result = [u \in Users |-> "none"]
    /\ calls = [u \in Users |-> 0]
    /\ heard = [u \in Users |-> TRUE]
    /\ link = <<>>
    /\ wire = 0
    /\ strays = {}
    /\ losses = 0
    /\ accepted = [u \in Users |-> {}]

-----------------------------------------------------------------------------
(* Users                                                                   *)

\* Go on with step n of program p, or return Ok.
Proceed(u, p, n) ==
    /\ pc' = [pc EXCEPT ![u] = n]
    /\ IF n > Len(p)
       THEN status' = [status EXCEPT ![u] = "idle"] /\ result' = [result EXCEPT ![u] = "ok"]
       ELSE status' = [status EXCEPT ![u] = "ready"] /\ UNCHANGED result

\* The step is over: what a `?`, a match or an unwrap_or makes of it.
Resolve(u, ok) ==
    /\ IF ok THEN Proceed(u, Steps(u), pc[u] + 1)
       ELSE IF At(u).skip # Abort THEN Proceed(u, Steps(u), pc[u] + 1 + At(u).skip)
       ELSE /\ status' = [status EXCEPT ![u] = "idle"]
            /\ result' = [result EXCEPT ![u] = "err"]
            /\ UNCHANGED pc
    /\ UNCHANGED <<plan, calls>>

Begin(u, p) ==
    /\ status[u] = "idle"
    /\ calls[u] < MaxCalls[u]
    /\ plan' = [plan EXCEPT ![u] = p]
    /\ calls' = [calls EXCEPT ![u] = @ + 1]
    /\ accepted' = [accepted EXCEPT ![u] = {}]
    /\ Proceed(u, Programs[p], 1)
    /\ UNCHANGED <<heard, linkVars>>

LocalStep(u) ==
    /\ status[u] = "ready"
    /\ At(u).kind \in {"check", "wait"}
    /\ \/ Resolve(u, TRUE)
       \/ At(u).kind = "check" /\ Resolve(u, FALSE)
    /\ UNCHANGED <<heard, linkVars, accepted>>

\* request_tx.send waits for a slot, with no timeout.
Send(u) ==
    /\ status[u] = "ready"
    /\ At(u).kind \in {"validated", "sent"}
    /\ Channel < Capacity
    /\ link' = Append(link, Current(u))
    /\ status' = [status EXCEPT ![u] = "waiting"]
    /\ heard' = [heard EXCEPT ![u] = FALSE]
    /\ UNCHANGED <<plan, pc, result, calls, wire, strays, losses, accepted>>

GiveUpRetries(u) ==          \* Mutant: a command that timed out is sent again
    /\ status[u] = "waiting"
    /\ status' = [status EXCEPT ![u] = "ready"]
    /\ UNCHANGED <<plan, pc, result, calls, heard, linkVars, accepted>>

\* The response timeout, or Disconnected when the connection drops the call; a request
\* that is queued stays queued.
GiveUp(u) ==
    /\ status[u] = "waiting"
    /\ Resolve(u, FALSE)
    /\ UNCHANGED <<heard, linkVars, accepted>>

-----------------------------------------------------------------------------
(* The connection                                                          *)

\* The writer takes the oldest request and writes it.
Take ==
    /\ Channel > 0
    /\ wire' = wire + 1
    /\ UNCHANGED <<userVars, heard, link, strays, losses, accepted>>

\* The telescope accepts e, and this is still the operation that e belongs to.
Effect(e, accept) ==
    accepted' = [accepted EXCEPT ![e.user] =
                    IF accept /\ e.call = calls[e.user] THEN @ \cup {e.step} ELSE @]

AnsweredByUser(e, accept) == \* Mutant: a late answer is taken for the current one
    IF status[e.user] = "waiting"
    THEN /\ Resolve(e.user, accept \/ At(e.user).kind = "sent")
         /\ heard' = [heard EXCEPT ![e.user] = TRUE]
    ELSE UNCHANGED <<userVars, heard>>

\* The registry gives the answer to e to the call that sent e, if it still waits.
Answered(e, accept) ==
    IF status[e.user] = "waiting" /\ e = Current(e.user)
    THEN /\ Resolve(e.user, accept \/ At(e.user).kind = "sent")
         /\ heard' = [heard EXCEPT ![e.user] = TRUE]
    ELSE UNCHANGED <<userVars, heard>>

\* The telescope executes the oldest command on the wire; its answer arrives, or is lost
\* or does not deserialize.
Execute ==
    /\ wire > 0
    /\ wire' = wire - 1
    /\ link' = Tail(link)
    /\ \E accept \in BOOLEAN :
          /\ Effect(link[1], accept)
          /\ Answered(link[1], accept) \/ UNCHANGED <<userVars, heard>>
    /\ UNCHANGED <<strays, losses>>

DisconnectRetries ==         \* Mutant: what was on the wire is queued again
    /\ losses < MaxLosses
    /\ losses' = losses + 1
    /\ link' = SubSeq(link, wire + 1, Len(link)) \o SubSeq(link, 1, wire)
    /\ wire' = 0
    /\ UNCHANGED <<userVars, heard, strays, accepted>>

\* What is on the wire never arrives, or arrives later.
Disconnect ==
    /\ losses < MaxLosses
    /\ losses' = losses + 1
    /\ \E arriving \in SUBSET {link[i] : i \in 1..wire} : strays' = strays \cup arriving
    /\ link' = SubSeq(link, wire + 1, Len(link))
    /\ wire' = 0
    /\ UNCHANGED <<userVars, heard, accepted>>

\* A writer left behind by a lost connection takes the oldest request of the channel.
TakenByFormerWriter ==
    /\ losses > 0
    /\ Channel > 0
    /\ strays' = strays \cup {link[wire + 1]}
    /\ link' = [i \in 1..(Len(link) - 1) |-> IF i <= wire THEN link[i] ELSE link[i + 1]]
    /\ UNCHANGED <<userVars, heard, wire, losses, accepted>>

\* It is executed after all, or lost; nobody reads that connection.
StrayEnds(e) ==
    /\ strays' = strays \ {e}
    /\ \/ Effect(e, TRUE)
       \/ UNCHANGED accepted
    /\ UNCHANGED <<userVars, heard, link, wire, losses>>

-----------------------------------------------------------------------------

Done ==
    /\ \A u \in Users : status[u] = "idle" /\ calls[u] = MaxCalls[u]
    /\ link = <<>> /\ strays = {}
    /\ UNCHANGED vars

User(u) ==
    \/ \E p \in Plans : Begin(u, p)
    \/ LocalStep(u)
    \/ Send(u)
    \/ GiveUp(u)

Next ==
    \/ \E u \in Users : User(u)
    \/ Take
    \/ Execute
    \/ Disconnect
    \/ TakenByFormerWriter
    \/ \E e \in strays : StrayEnds(e)
    \/ Done

Spec == Init /\ [][Next]_vars

\* The telescope is reached again after each loss and executes what it is sent; the
\* channel serves the tasks that wait for a slot in turn; timers fire.
FairSpec ==
    /\ Spec
    /\ WF_vars(Take) /\ WF_vars(Execute)
    /\ \A u \in Users : WF_vars(LocalStep(u) \/ GiveUp(u)) /\ SF_vars(Send(u))

-----------------------------------------------------------------------------
(* Properties                                                              *)

TypeOK ==
    /\ plan \in [Users -> Plans \cup {NoPlan}]
    /\ status \in [Users -> {"idle", "ready", "waiting"}]
    /\ pc \in [Users -> Nat \ {0}]
    /\ result \in [Users -> {"none", "ok", "err"}]
    /\ calls \in [Users -> Nat]
    /\ heard \in [Users -> BOOLEAN]
    /\ link \in Seq([user : Users, call : Nat, step : Nat \ {0}])
    /\ wire \in 0..Len(link)
    /\ strays \subseteq [user : Users, call : Nat, step : Nat \ {0}]
    /\ losses \in Nat
    /\ accepted \in [Users -> SUBSET Nat]

\* control.rs:337: a request outlives the call that made it, and may be executed long
\* after.  But once a user has the answer to its last command, none of its earlier ones
\* is queued or on the wire: only a lost connection can still surprise it.
Settled ==
    \A u \in Users : heard[u] => \A i \in DOMAIN link : link[i].user # u

\* The steps before n that cannot have failed if the operation got to n.
Required(u, n) ==
    {i \in 1..(n - 1) : i <= Len(Steps(u)) /\ Steps(u)[i].kind = "validated" /\ Steps(u)[i].skip = Abort}

\* camera.rs:51, client.rs:328, command.rs:189: an operation of several commands that
\* returns Ok had every one accepted, and one that fails leaves the telescope with those
\* before the failing step, which itself may be executed later, and with none after it.
EffectsKnown ==
    \A u \in Users :
        /\ Required(u, pc[u]) \subseteq accepted[u]
        /\ accepted[u] \subseteq 1..(IF status[u] = "ready" THEN pc[u] - 1 ELSE pc[u])

\* client.rs:203: every operation returns, though a full channel blocks it with no
\* timeout and answers are lost, as long as the telescope is reached again.
OperationsEnd == \A u \in Users : status[u] # "idle" ~> status[u] = "idle"
=============================================================================
