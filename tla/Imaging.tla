------------------------------- MODULE Imaging -------------------------------
(***************************************************************************)
(* The imaging connection of scopinator-seestar (connection/imaging.rs):   *)
(* commands queued by SeestarClient::send_imaging_command, the run task    *)
(* that connects, writes them and reconnects, one reader task per          *)
(* connection that turns the stream into frames, the broadcast that hands  *)
(* the frames to subscribers, and one subscriber, the get_image call of    *)
(* the camera adapter (backend/seestar/camera.rs).                         *)
(*                                                                         *)
(* Unlike the control connection, the run task writes itself and aborts    *)
(* the reader when it leaves a connection; it does not wait for the abort. *)
(* The telescope sends frames of any kind at any time.  The backoff is the *)
(* policy of module Control; here only that the task sleeps matters.       *)
(***************************************************************************)
EXTENDS Integers, Sequences

CONSTANTS
    Commands,    \* the calls of send_imaging_command; each is made at most once
    NoCommand,   \* no command
    CmdCap,      \* capacity of the command channel (64 in the code)
    FrameCap,    \* capacity of the frame broadcast (32 in the code)
    MaxConns,    \* bound: connections that can be established
    MaxFrames,   \* bound: frames the telescope sends over one connection
    Headers      \* bound: the headers it sends

ASSUME ImagingAssumption ==
    /\ NoCommand \notin Commands
    /\ CmdCap \in Nat \ {0}
    /\ FrameCap \in Nat \ {0}
    /\ MaxConns \in Nat
    /\ MaxFrames \in Nat
    /\ Headers \subseteq {"preview", "stack", "status", "toolarge"}

Conns == 1..MaxConns

\* FrameKind; a header "toolarge" announces more than MAX_PAYLOAD_SIZE.
Kinds  == {"preview", "stack", "status"}
Frames == [conn : Conns, n : 1..MaxFrames, kind : Kinds]

VARIABLES
    cmd,        \* what each caller sees of its call
    cmdQ,       \* the command channel
    queued,     \* history: the commands in the order they entered the channel
    run,        \* where the run task is
    conn,       \* the connection established last, 0 before the first
    hand,       \* the command the run task writes
    shutdown,   \* the shutdown watch channel
    reader,     \* the reader task of each connection
    frame,      \* the frame each reader has read, while it is at "got"
    aborted,    \* abort was called on the reader's handle
    peer,       \* the telescope's end of each connection
    sent,       \* the frames the telescope sent over each connection
    wire,       \* how many of them each reader has taken from the stream
    executed,   \* history: commands in the order the telescope received them
    published,  \* history: the frames sent into the broadcast
    shot,       \* where the get_image call is
    began,      \* history: number of frames published when get_image began
    next,       \* the receiver's position in the broadcast
    image       \* the kind of the frame get_image returned

cmdVars  == <<cmd, cmdQ, queued>>
runVars  == <<run, conn, hand>>
readVars == <<reader, frame, aborted, wire>>
netVars  == <<peer, sent, executed>>
shotVars == <<shot, began, next, image>>
vars == <<cmdVars, runVars, shutdown, readVars, netVars, published, shotVars>>

NoFrame == [conn |-> 0, n |-> 0, kind |-> "none"]

Init ==
    /\ cmd = [c \in Commands |-> "idle"]
    /\ cmdQ = <<>>
    /\ queued = <<>>
    /\ run = "check"
    /\ conn = 0
    /\ hand = NoCommand
    /\ shutdown = FALSE
    /\ reader = [k \in Conns |-> "off"]
    /\ frame = [k \in Conns |-> NoFrame]
    /\ aborted = [k \in Conns |-> FALSE]
    /\ peer = [k \in Conns |-> "off"]
    /\ sent = [k \in Conns |-> <<>>]
    /\ wire = [k \in Conns |-> 0]
    /\ executed = <<>>
    /\ published = <<>>
    /\ shot = "idle"
    /\ began = 0
    /\ next = 0
    /\ image = "none"

-----------------------------------------------------------------------------
(* Callers *)

SendImagingCommand(c) ==
    /\ cmd[c] = "idle"
    /\ cmd' = [cmd EXCEPT ![c] = "sending"]
    /\ UNCHANGED <<cmdQ, queued, runVars, shutdown, readVars, netVars, published, shotVars>>

QueueOverCapacity(c) ==     \* Mutant: an unbounded channel
    /\ cmd[c] = "sending"
    /\ run # "exited"
    /\ cmd' = [cmd EXCEPT ![c] = "queued"]
    /\ cmdQ' = Append(cmdQ, c)
    /\ queued' = Append(queued, c)
    /\ UNCHANGED <<runVars, shutdown, readVars, netVars, published, shotVars>>

\* The receiver belongs to the run task: the channel closes when it exits.
\* Fire-and-forget: the call returns as soon as the command is queued.
QueueCommand(c) ==
    /\ cmd[c] = "sending"
    /\ run # "exited"
    /\ Len(cmdQ) < CmdCap
    /\ cmd' = [cmd EXCEPT ![c] = "queued"]
    /\ cmdQ' = Append(cmdQ, c)
    /\ queued' = Append(queued, c)
    /\ UNCHANGED <<runVars, shutdown, readVars, netVars, published, shotVars>>

CommandRefused(c) ==
    /\ cmd[c] = "sending"
    /\ run = "exited"
    /\ cmd' = [cmd EXCEPT ![c] = "disconnected"]
    /\ UNCHANGED <<cmdQ, queued, runVars, shutdown, readVars, netVars, published, shotVars>>

Shutdown ==
    /\ ~shutdown
    /\ shutdown' = TRUE
    /\ UNCHANGED <<cmdVars, runVars, readVars, netVars, published, shotVars>>

-----------------------------------------------------------------------------
(* The run task *)

RunCheck ==
    /\ run = "check"
    /\ run' = IF shutdown THEN "exited" ELSE "connecting"
    /\ UNCHANGED <<cmdVars, conn, hand, shutdown, readVars, netVars, published, shotVars>>

Connect ==
    /\ run = "connecting"
    /\ conn < MaxConns
    /\ run' = "connected"
    /\ conn' = conn + 1
    /\ reader' = [reader EXCEPT ![conn + 1] = "reading"]
    /\ peer' = [peer EXCEPT ![conn + 1] = "up"]
    /\ UNCHANGED <<cmdVars, hand, shutdown, frame, aborted, wire, sent, executed, published,
                   shotVars>>

ConnectFails ==
    /\ run = "connecting"
    /\ run' = "sleep"
    /\ UNCHANGED <<cmdVars, conn, hand, shutdown, readVars, netVars, published, shotVars>>

SleepEnds ==
    /\ run = "sleep"
    /\ run' = "check"
    /\ UNCHANGED <<cmdVars, conn, hand, shutdown, readVars, netVars, published, shotVars>>

\* reader_handle.abort(), and out of run_imaging_connected.
Leave ==
    /\ run' = "sleep"
    /\ hand' = NoCommand
    /\ aborted' = [aborted EXCEPT ![conn] = TRUE]
    /\ UNCHANGED <<cmdVars, conn, shutdown, reader, frame, wire, netVars, published, shotVars>>

TakeCancelsRead ==      \* Mutant: frames read in the same select! as commands
    /\ run = "connected"
    /\ cmdQ # <<>>
    /\ run' = "write"
    /\ hand' = Head(cmdQ)
    /\ cmdQ' = Tail(cmdQ)
    /\ wire' = [wire EXCEPT ![conn] = IF reader[conn] = "reading" THEN Len(sent[conn]) ELSE @]
    /\ UNCHANGED <<cmd, queued, conn, shutdown, reader, frame, aborted, netVars, published,
                   shotVars>>

\* select! branch: a command is received.
TakeCommand ==
    /\ run = "connected"
    /\ cmdQ # <<>>
    /\ run' = "write"
    /\ hand' = Head(cmdQ)
    /\ cmdQ' = Tail(cmdQ)
    /\ UNCHANGED <<cmd, queued, conn, shutdown, readVars, netVars, published, shotVars>>

\* write_all returns Ok; nobody receives the line when the peer is gone.
WriteOk ==
    /\ run = "write"
    /\ run' = "connected"
    /\ hand' = NoCommand
    /\ executed' = IF peer[conn] = "up" THEN Append(executed, hand) ELSE executed
    /\ UNCHANGED <<cmdVars, conn, shutdown, readVars, peer, sent, published, shotVars>>

RequeueAndLeave ==      \* Mutant: the failed command goes back to the channel's end
    /\ run = "write"
    /\ peer[conn] = "gone"
    /\ run' = "sleep"
    /\ hand' = NoCommand
    /\ cmdQ' = Append(cmdQ, hand)
    /\ aborted' = [aborted EXCEPT ![conn] = TRUE]
    /\ UNCHANGED <<cmd, queued, conn, shutdown, reader, frame, wire, netVars, published, shotVars>>

\* The command in hand is lost.
WriteFails ==
    /\ run = "write"
    /\ peer[conn] = "gone"
    /\ Leave

HeartbeatFails ==
    /\ run = "connected"
    /\ peer[conn] = "gone"
    /\ Leave

SeeShutdown ==
    /\ run = "connected"
    /\ shutdown
    /\ Leave

SeeReaderEnd ==
    /\ run = "connected"
    /\ reader[conn] = "done"
    /\ Leave

-----------------------------------------------------------------------------
(* The reader task of connection k: reader_loop, read_frame *)

Unread(k) == wire[k] < Len(sent[k])

ReadFrame(k) ==
    /\ reader[k] = "reading"
    /\ Unread(k)
    /\ LET n == wire[k] + 1
       IN  IF sent[k][n] = "toolarge"
           THEN /\ reader' = [reader EXCEPT ![k] = "done"]
                /\ UNCHANGED frame
           ELSE /\ reader' = [reader EXCEPT ![k] = "got"]
                /\ frame' = [frame EXCEPT ![k] = [conn |-> k, n |-> n, kind |-> sent[k][n]]]
    /\ wire' = [wire EXCEPT ![k] = @ + 1]
    /\ UNCHANGED <<cmdVars, runVars, shutdown, aborted, netVars, published, shotVars>>

\* frame_tx.send: nothing to await, so an abort does not come between.
Publish(k) ==
    /\ reader[k] = "got"
    /\ published' = Append(published, frame[k])
    /\ frame' = [frame EXCEPT ![k] = NoFrame]
    /\ reader' = [reader EXCEPT ![k] = "reading"]
    /\ UNCHANGED <<cmdVars, runVars, shutdown, aborted, wire, netVars, shotVars>>

EofOnly(k) == peer[k] = "gone"      \* Mutant: a reader as on the control connection

\* EOF, a read error or a frame cut short when the peer is gone; shutdown; abort.
MayStop(k) == peer[k] = "gone" \/ shutdown \/ aborted[k]

ReaderEnds(k) ==
    /\ reader[k] = "reading"
    /\ MayStop(k)
    /\ reader' = [reader EXCEPT ![k] = "done"]
    /\ UNCHANGED <<cmdVars, runVars, shutdown, frame, aborted, wire, netVars, published, shotVars>>

-----------------------------------------------------------------------------
(* The camera adapter: get_image *)

SubscribeFrames ==
    /\ shot = "idle"
    /\ shot' = "subscribed"
    /\ began' = Len(published)
    /\ next' = Len(published)
    /\ UNCHANGED <<cmdVars, runVars, shutdown, readVars, netVars, published, image>>

SubscribeLate ==        \* Mutant: subscribe after the request
    /\ shot = "subscribed"
    /\ shot' = "waiting"
    /\ next' = Len(published)
    /\ UNCHANGED <<cmdVars, runVars, shutdown, readVars, netVars, published, began, image>>

\* send_command(GetStackedImage) returned Ok; its code is not looked at.
ImageRequested ==
    /\ shot = "subscribed"
    /\ shot' = "waiting"
    /\ UNCHANGED <<cmdVars, runVars, shutdown, readVars, netVars, published, began, next, image>>

ImageRequestFails ==
    /\ shot = "subscribed"
    /\ shot' = "failed"
    /\ UNCHANGED <<cmdVars, runVars, shutdown, readVars, netVars, published, began, next, image>>

\* rx.recv(): the oldest frame not yet received, whatever its kind, unless the
\* receiver lags behind the broadcast; Lagged is reported as a closed channel.
ImageReceived ==
    /\ shot = "waiting"
    /\ next < Len(published)
    /\ IF Len(published) - next > FrameCap
       THEN shot' = "closed" /\ UNCHANGED <<next, image>>
       ELSE /\ shot' = "ok"
            /\ image' = published[next + 1].kind
            /\ next' = next + 1
    /\ UNCHANGED <<cmdVars, runVars, shutdown, readVars, netVars, published, began>>

ImageTimeout ==
    /\ shot = "waiting"
    /\ next = Len(published)
    /\ shot' = "timeout"
    /\ UNCHANGED <<cmdVars, runVars, shutdown, readVars, netVars, published, began, next, image>>

-----------------------------------------------------------------------------
(* The telescope *)

SendFrame(k) ==
    /\ peer[k] = "up"
    /\ Len(sent[k]) < MaxFrames
    /\ \E h \in Headers : sent' = [sent EXCEPT ![k] = Append(@, h)]
    /\ UNCHANGED <<cmdVars, runVars, shutdown, readVars, peer, executed, published, shotVars>>

PeerGone(k) ==
    /\ peer[k] = "up"
    /\ peer' = [peer EXCEPT ![k] = "gone"]
    /\ UNCHANGED <<cmdVars, runVars, shutdown, readVars, sent, executed, published, shotVars>>

-----------------------------------------------------------------------------
Finished ==
    /\ run = "exited"
    /\ \A k \in Conns : reader[k] \in {"off", "done"}
    /\ UNCHANGED vars

Caller(c) == SendImagingCommand(c) \/ QueueCommand(c) \/ CommandRefused(c)
Run       == RunCheck \/ Connect \/ ConnectFails \/ SleepEnds \/ TakeCommand \/ WriteOk
                \/ WriteFails \/ HeartbeatFails \/ SeeShutdown \/ SeeReaderEnd
Reader(k) == ReadFrame(k) \/ Publish(k) \/ ReaderEnds(k)
GetImage  == SubscribeFrames \/ ImageRequested \/ ImageRequestFails \/ ImageReceived
                \/ ImageTimeout

Next ==
    \/ \E c \in Commands : Caller(c)
    \/ Shutdown
    \/ Run
    \/ \E k \in Conns : Reader(k) \/ SendFrame(k) \/ PeerGone(k)
    \/ GetImage
    \/ Finished

Spec == Init /\ [][Next]_vars

\* Tasks that can run are polled, select! is random among its ready branches, and
\* connects, sleeps and writes end.  Nothing is assumed of callers and telescope.
Fairness ==
    /\ WF_vars(Run)
    /\ SF_vars(SeeShutdown)
    /\ \A k \in Conns : WF_vars(ReadFrame(k) \/ Publish(k)) /\ SF_vars(ReaderEnds(k))

FairSpec == Spec /\ Fairness

-----------------------------------------------------------------------------
(* Properties *)

\* Every variable stays in its type, the channel within its capacity.
TypeOK ==
    /\ cmd \in [Commands -> {"idle", "sending", "queued", "disconnected"}]
    /\ cmdQ \in Seq(Commands) /\ Len(cmdQ) <= CmdCap
    /\ queued \in Seq(Commands)
    /\ run \in {"check", "connecting", "connected", "write", "sleep", "exited"}
    /\ conn \in 0..MaxConns
    /\ hand \in Commands \union {NoCommand}
    /\ shutdown \in BOOLEAN
    /\ reader \in [Conns -> {"off", "reading", "got", "done"}]
    /\ frame \in [Conns -> Frames \union {NoFrame}]
    /\ aborted \in [Conns -> BOOLEAN]
    /\ peer \in [Conns -> {"off", "up", "gone"}]
    /\ sent \in [Conns -> Seq(Headers)]
    /\ wire \in [Conns -> 0..MaxFrames]
    /\ executed \in Seq(Commands)
    /\ published \in Seq(Frames)
    /\ shot \in {"idle", "subscribed", "waiting", "ok", "closed", "timeout", "failed"}
    /\ began \in Nat /\ next \in Nat
    /\ image \in Kinds \union {"none"}

\* The telescope receives imaging commands in the order they were queued, each at
\* most once, over all connections; some may be lost with a connection.
CommandsInOrder ==
    \A i, j \in DOMAIN executed : i < j =>
        /\ executed[i] # executed[j]
        /\ \E a, b \in DOMAIN queued : a < b /\ queued[a] = executed[i] /\ queued[b] = executed[j]

\* imaging.rs: "Spawns a reader task (so frame reads are never mid-cancelled by
\* write events)".  The frames of a connection are published without gaps, in
\* order and once, whatever commands are written and readers aborted meanwhile.
FramesComplete ==
    \A i \in DOMAIN published :
        LET f == published[i]
            Before(n) == \E j \in 1..(i - 1) : published[j].conn = f.conn /\ published[j].n = n
        IN  /\ f.kind = sent[f.conn][f.n]
            /\ f.n > 1 => Before(f.n - 1)
            /\ ~Before(f.n)

\* get_image times out only if no frame was published since it was called: the
\* answer to its request cannot slip by between request and wait.
TimeoutMeansNoFrame ==
    [][shot # "timeout" /\ shot' = "timeout" => Len(published) = began]_vars

\* After shutdown the run task exits and every reader ends, and with them the
\* sockets close, even when the telescope keeps sending.
ShutdownEndsTasks ==
    \A k \in Conns : shutdown ~> (run = "exited" /\ reader[k] \in {"off", "done"})

\* camera.rs, of get_image: "Get the latest stacked image via the imaging port".
\* A call that returns an image returns a stacked one.
ImageIsStacked == shot = "ok" => image = "stack"
=============================================================================
