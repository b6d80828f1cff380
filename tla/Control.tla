------------------------------- MODULE Control -------------------------------
(***************************************************************************)
(* The control connection of scopinator-seestar: user code calling         *)
(* SeestarClient::send_command, the bounded request channel, the `run`     *)
(* task that connects, authenticates, waits and reconnects, and for every  *)
(* TCP connection it establishes one reader task and one writer task.      *)
(*                                                                         *)
(* The tasks of a connection are not joined: run_connected returns when    *)
(* the FIRST of them ends and drops the other's JoinHandle, which detaches *)
(* it.  Reader and writer are therefore indexed by connection, and those   *)
(* of an old connection may still be running when a new one is up.         *)
(*                                                                         *)
(* The telescope is the environment: it may answer a line it received at   *)
(* any time, in any order, several times or never, and may go away at any  *)
(* time.  Event lines and heartbeat answers change nothing of this state.  *)
(***************************************************************************)
EXTENDS Integers, Sequences, FiniteSets, Functions

CONSTANTS
    Callers,      \* the calls of send_command; a member is one call, made at most once
    Probes,       \* the calls whose command is get_device_state
    Nobody,       \* no caller
    MaxConns,     \* bound: TCP connections that can be established
    ChannelCap,   \* capacity of the request channel (256 in the code)
    MinBackoff,   \* ReconnectPolicy::min_backoff
    MaxBackoff,   \* ReconnectPolicy::max_backoff
    InteropKey    \* whether an interop key is configured

ASSUME ControlAssumption ==
    /\ Probes \subseteq Callers
    /\ Nobody \notin Callers
    /\ MaxConns \in Nat \ {0}
    /\ ChannelCap \in Nat \ {0}
    /\ MinBackoff \in Nat \ {0}
    /\ MaxBackoff \in Nat
    /\ MinBackoff <= MaxBackoff
    /\ InteropKey \in BOOLEAN

Conns == 1..MaxConns

VARIABLES
    call,      \* what each caller sees of its call: Stages
    answer,    \* for a call that returned Ok: the call its response answers
    queue,     \* the request channel
    pending,   \* Registry.map: entries [id, caller]
    nextId,    \* Registry.next_id
    run,       \* where the run task is
    conn,      \* the connection established last, 0 before the first
    backoff,   \* ReconnectPolicy.backoff
    shutdown,  \* the shutdown watch channel
    reader,    \* the reader task of each connection
    writer,    \* the writer task of each connection
    hand,      \* the request each writer took from the channel: [id, caller, verify]
    lockQ,     \* tokio Mutex around the receiver: its holder, then the waiting writers
    peer,      \* the telescope's end of each connection
    lines,     \* command lines the telescope received: [conn, id, caller, verify]
    fw,        \* ControlState.firmware_version
    fwOn       \* the firmware the telescope runs at each connection

callVars == <<call, answer>>
runVars  == <<run, conn, backoff>>
taskVars == <<reader, writer, hand, lockQ>>
netVars  == <<peer, lines, fwOn>>
vars == <<call, answer, queue, pending, nextId, run, conn, backoff, shutdown,
          reader, writer, hand, lockQ, peer, lines, fw, fwOn>>

Stages     == {"idle", "sending", "waiting", "ok", "disconnected", "timeout"}
Resolved   == {"ok", "disconnected", "timeout"}
Firmwares  == {"old", "new"}          \* below / at or above the verify threshold

EmptyHand  == [id |-> 0, caller |-> Nobody, verify |-> FALSE]

Init ==
    /\ call = [c \in Callers |-> "idle"]
    /\ answer = [c \in Callers |-> Nobody]
    /\ queue = <<>>
    /\ pending = {}
    /\ nextId = 1
    /\ run = "check"
    /\ conn = 0
    /\ backoff = MinBackoff
    /\ shutdown = FALSE
    /\ reader = [k \in Conns |-> "off"]
    /\ writer = [k \in Conns |-> "off"]
    /\ hand = [k \in Conns |-> EmptyHand]
    /\ lockQ = <<>>
    /\ peer = [k \in Conns |-> "off"]
    /\ lines = {}
    /\ fw = "unknown"
    /\ fwOn = [k \in Conns |-> "unknown"]

-----------------------------------------------------------------------------
(* Registry and reconnect policy *)

\* Oneshot senders of the entries E are used with outcome o: a caller that no
\* longer waits (it timed out) is not disturbed.
TellEveryone(E, o) ==       \* Mutant: outcomes overwrite a timeout
    [c \in Callers |-> IF \E e \in E : e.caller = c THEN o ELSE call[c]]

Tell(E, o) ==
    [c \in Callers |-> IF call[c] = "waiting" /\ \E e \in E : e.caller = c
                       THEN o ELSE call[c]]

OldestEntry(id) == {e \in pending : \A f \in pending : e.id <= f.id}  \* Mutant: FIFO matching
Entry(id) == {e \in pending : e.id = id}                               \* Registry::take

UncappedBackoff == 2 * backoff                                         \* Mutant: no cap
NextBackoff == IF 2 * backoff > MaxBackoff THEN MaxBackoff ELSE 2 * backoff

-----------------------------------------------------------------------------
(* Callers: SeestarClient::send_command *)

\* The receiver of the channel is dropped with the last of its owners: the
\* run task and the writer tasks.
ChannelStaysOpen == FALSE       \* Mutant: somebody else keeps the receiver
ChannelClosed == run = "exited" /\ \A k \in Conns : writer[k] \in {"off", "done"}

\* The oneshot sender of c is dropped unused: still in the closed channel, or
\* in the registry when every task that shares ControlState is gone.
Abandoned(c) ==
    /\ ChannelClosed
    /\ \/ c \in Range(queue)
       \/ /\ \E e \in pending : e.caller = c
          /\ \A k \in Conns : reader[k] # "reading"

SendCommand(c) ==
    /\ call[c] = "idle"
    /\ call' = [call EXCEPT ![c] = "sending"]
    /\ UNCHANGED <<answer, queue, pending, nextId, shutdown, fw, runVars, taskVars, netVars>>

\* request_tx.send(request).await waits for a free slot; no timeout covers it.
Enqueue(c) ==
    /\ call[c] = "sending"
    /\ ~ChannelClosed
    /\ Len(queue) < ChannelCap
    /\ call' = [call EXCEPT ![c] = "waiting"]
    /\ queue' = Append(queue, c)
    /\ UNCHANGED <<answer, pending, nextId, shutdown, fw, runVars, taskVars, netVars>>

\* The channel is closed at send, or the sender was dropped with its entry.
CallDropped(c) ==
    /\ \/ call[c] = "sending" /\ ChannelClosed
       \/ call[c] = "waiting" /\ Abandoned(c)
    /\ call' = [call EXCEPT ![c] = "disconnected"]
    /\ pending' = {e \in pending : e.caller # c}
    /\ UNCHANGED <<answer, queue, nextId, shutdown, fw, runVars, taskVars, netVars>>

\* tokio::time::timeout polls the oneshot first, so a call whose response or
\* error is already there does not time out.  The request stays where it is.
ResponseTimeout(c) ==
    /\ call[c] = "waiting"
    /\ ~Abandoned(c)
    /\ call' = [call EXCEPT ![c] = "timeout"]
    /\ UNCHANGED <<answer, queue, pending, nextId, shutdown, fw, runVars, taskVars, netVars>>

\* SeestarClient::shutdown, or dropping the client.
Shutdown ==
    /\ ~shutdown
    /\ shutdown' = TRUE
    /\ UNCHANGED <<call, answer, queue, pending, nextId, fw, runVars, taskVars, netVars>>

-----------------------------------------------------------------------------
(* The run task *)

RunCheck ==
    /\ run = "check"
    /\ run' = IF shutdown THEN "exited" ELSE "connecting"
    /\ UNCHANGED <<callVars, queue, pending, nextId, conn, backoff, shutdown, fw, taskVars, netVars>>

\* connected.store(true), policy.reset(), and run_connected's spawns.  The
\* telescope may have been upgraded since the last connection, not downgraded.
Establish ==
    /\ conn < MaxConns
    /\ run' = "connected"
    /\ conn' = conn + 1
    /\ backoff' = MinBackoff
    /\ reader' = [reader EXCEPT ![conn + 1] = "reading"]
    /\ writer' = [writer EXCEPT ![conn + 1] = "lock"]
    /\ lockQ' = Append(lockQ, conn + 1)
    /\ peer' = [peer EXCEPT ![conn + 1] = "up"]
    /\ \E f \in Firmwares :
         /\ (\E k \in 1..conn : fwOn[k] = "new") => f = "new"
         /\ fwOn' = [fwOn EXCEPT ![conn + 1] = f]
    /\ UNCHANGED <<callVars, queue, pending, nextId, shutdown, hand, lines, fw>>

FlushAndResend ==       \* Mutant: what was in flight is queued again
    /\ queue' = IF pending = {} THEN queue
                ELSE Append(queue, (CHOOSE e \in pending : TRUE).caller)
    /\ pending' = {}
    /\ backoff' = NextBackoff
    /\ run' = "sleep"
    /\ UNCHANGED <<callVars, nextId, conn, shutdown, fw, taskVars, netVars>>

\* flush_pending, next_backoff and the start of the sleep.
FlushAndBackOff ==
    /\ call' = Tell(pending, "disconnected")
    /\ pending' = {}
    /\ backoff' = NextBackoff
    /\ run' = "sleep"
    /\ UNCHANGED <<answer, queue, nextId, conn, shutdown, fw, taskVars, netVars>>

Connect ==
    /\ run = "connecting"
    /\ IF InteropKey
       THEN /\ conn < MaxConns
            /\ run' = "auth"
            /\ UNCHANGED <<callVars, queue, pending, nextId, conn, backoff, shutdown, fw,
                           taskVars, netVars>>
       ELSE Establish

ConnectFails    == run = "connecting" /\ FlushAndBackOff
AuthSucceeds    == run = "auth" /\ Establish
AuthFails       == run = "auth" /\ FlushAndBackOff

\* run_connected's select!: one of the two handles has completed.
ConnectionLost ==
    /\ run = "connected"
    /\ reader[conn] = "done" \/ writer[conn] = "done"
    /\ FlushAndBackOff

SleepEnds ==
    /\ run = "sleep"
    /\ run' = "check"
    /\ UNCHANGED <<callVars, queue, pending, nextId, conn, backoff, shutdown, fw, taskVars, netVars>>

-----------------------------------------------------------------------------
(* The writer task of connection k *)

Holds(k) == lockQ # <<>> /\ Head(lockQ) = k
VerifyIfKnown == fw = "new"      \* Mutant: is_some_and for is_none_or
Verify   == fw # "old"           \* unknown firmware counts as requiring verify

\* select! branch: a request is received, and the lock released before work.
TakeRequest(k) ==
    /\ Holds(k)
    /\ queue # <<>>
    /\ hand' = [hand EXCEPT ![k] = [id |-> 0, caller |-> Head(queue), verify |-> FALSE]]
    /\ queue' = Tail(queue)
    /\ lockQ' = Tail(lockQ)
    /\ writer' = [writer EXCEPT ![k] = "took"]
    /\ UNCHANGED <<callVars, pending, nextId, shutdown, fw, reader, runVars, netVars>>

\* Read the firmware, register the response sender, serialize.
RegisterRequest(k) ==
    /\ writer[k] = "took"
    /\ pending' = pending \union {[id |-> nextId, caller |-> hand[k].caller]}
    /\ nextId' = nextId + 1
    /\ hand' = [hand EXCEPT ![k] = [id |-> nextId, caller |-> hand[k].caller, verify |-> Verify]]
    /\ writer' = [writer EXCEPT ![k] = "write"]
    /\ UNCHANGED <<callVars, queue, shutdown, fw, reader, lockQ, runVars, netVars>>

\* write_all returns Ok; the line may still be lost when the peer is gone.
\* The loop then queues for the lock again.
WriteOk(k) ==
    /\ writer[k] = "write"
    /\ lines' = IF peer[k] = "up"
                THEN lines \union {[conn |-> k, id |-> hand[k].id, caller |-> hand[k].caller,
                                    verify |-> hand[k].verify]}
                ELSE lines
    /\ hand' = [hand EXCEPT ![k] = EmptyHand]
    /\ writer' = [writer EXCEPT ![k] = "lock"]
    /\ lockQ' = Append(lockQ, k)
    /\ UNCHANGED <<callVars, queue, pending, nextId, shutdown, fw, reader, runVars, peer, fwOn>>

WriteFailsForAll(k) ==      \* Mutant: drain for take
    /\ writer[k] = "write"
    /\ peer[k] = "gone"
    /\ call' = Tell(pending, "disconnected")
    /\ pending' = {}
    /\ hand' = [hand EXCEPT ![k] = EmptyHand]
    /\ writer' = [writer EXCEPT ![k] = "done"]
    /\ UNCHANGED <<answer, queue, nextId, shutdown, fw, reader, lockQ, runVars, netVars>>

\* write_all fails: the entry, if still there, is told Disconnected.
WriteFails(k) ==
    /\ writer[k] = "write"
    /\ peer[k] = "gone"
    /\ call' = Tell(Entry(hand[k].id), "disconnected")
    /\ pending' = pending \ Entry(hand[k].id)
    /\ hand' = [hand EXCEPT ![k] = EmptyHand]
    /\ writer' = [writer EXCEPT ![k] = "done"]
    /\ UNCHANGED <<answer, queue, nextId, shutdown, fw, reader, lockQ, runVars, netVars>>

NoHeartbeat(k) == FALSE     \* Mutant: heartbeats stop

\* select! branch: a heartbeat line, written outside the lock like a request.
TakeHeartbeat(k) ==
    /\ Holds(k)
    /\ lockQ' = Tail(lockQ)
    /\ writer' = [writer EXCEPT ![k] = "beat"]
    /\ UNCHANGED <<callVars, queue, pending, nextId, shutdown, fw, reader, hand, runVars, netVars>>

HeartbeatOk(k) ==
    /\ writer[k] = "beat"
    /\ writer' = [writer EXCEPT ![k] = "lock"]
    /\ lockQ' = Append(lockQ, k)
    /\ UNCHANGED <<callVars, queue, pending, nextId, shutdown, fw, reader, hand, runVars, netVars>>

HeartbeatFails(k) ==
    /\ writer[k] = "beat"
    /\ peer[k] = "gone"
    /\ writer' = [writer EXCEPT ![k] = "done"]
    /\ UNCHANGED <<callVars, queue, pending, nextId, shutdown, fw, reader, hand, lockQ, runVars,
                   netVars>>

WriterIgnoresShutdown(k) ==     \* Mutant: no shutdown branch
    /\ Holds(k)
    /\ reader[k] = "done"
    /\ lockQ' = Tail(lockQ)
    /\ writer' = [writer EXCEPT ![k] = "done"]
    /\ UNCHANGED <<callVars, queue, pending, nextId, shutdown, fw, reader, hand, runVars, netVars>>

\* select! branches: the reader died, or shutdown changed.  Both are seen only
\* while this writer holds the lock.
WriterExits(k) ==
    /\ Holds(k)
    /\ reader[k] = "done" \/ shutdown
    /\ lockQ' = Tail(lockQ)
    /\ writer' = [writer EXCEPT ![k] = "done"]
    /\ UNCHANGED <<callVars, queue, pending, nextId, shutdown, fw, reader, hand, runVars, netVars>>

-----------------------------------------------------------------------------
(* The reader task of connection k *)

\* The firmware of a get_device_state response is stored before delivery.
FirmwareReported(l) == IF l.caller \in Probes THEN fwOn[l.conn] ELSE fw

\* handle_response: the telescope's answer to line l, which carries l.id.
HandleResponse(k) ==
    /\ reader[k] = "reading"
    /\ \E l \in lines :
         /\ l.conn = k
         /\ fw' = FirmwareReported(l)
         /\ call' = Tell(Entry(l.id), "ok")
         /\ answer' = [c \in Callers |-> IF call'[c] # call[c] THEN l.caller ELSE answer[c]]
         /\ pending' = pending \ Entry(l.id)
    /\ UNCHANGED <<queue, nextId, shutdown, runVars, taskVars, netVars>>

TakeThenReject(k) ==    \* Mutant: the entry is taken before the response is parsed
    /\ reader[k] = "reading"
    /\ \E l \in lines :
         /\ l.conn = k
         /\ fw' = FirmwareReported(l)
         /\ pending' = pending \ Entry(l.id)
    /\ UNCHANGED <<callVars, queue, nextId, shutdown, runVars, taskVars, netVars>>

\* The response does not deserialize: the firmware is stored all the same.
RejectResponse(k) ==
    /\ reader[k] = "reading"
    /\ \E l \in lines : l.conn = k /\ fw' = FirmwareReported(l)
    /\ UNCHANGED <<callVars, queue, pending, nextId, shutdown, runVars, taskVars, netVars>>

\* EOF or a read error on a connection whose peer is gone.
ReaderEof(k) ==
    /\ reader[k] = "reading"
    /\ peer[k] = "gone"
    /\ reader' = [reader EXCEPT ![k] = "done"]
    /\ UNCHANGED <<callVars, queue, pending, nextId, shutdown, fw, writer, hand, lockQ, runVars,
                   netVars>>

\* A line over MAX_LINE_BYTES, or not UTF-8: the reader gives up, the peer is up.
ReaderGivesUp(k) ==
    /\ reader[k] = "reading"
    /\ peer[k] = "up"
    /\ reader' = [reader EXCEPT ![k] = "done"]
    /\ UNCHANGED <<callVars, queue, pending, nextId, shutdown, fw, writer, hand, lockQ, runVars,
                   netVars>>

-----------------------------------------------------------------------------
\* The telescope closes connection k, or the network breaks it.
PeerGone(k) ==
    /\ peer[k] = "up"
    /\ peer' = [peer EXCEPT ![k] = "gone"]
    /\ UNCHANGED <<callVars, queue, pending, nextId, shutdown, fw, runVars, taskVars, lines, fwOn>>

\* Every task has ended and every call returned: nothing is left to do.
Finished ==
    /\ ChannelClosed
    /\ \A k \in Conns : reader[k] # "reading" /\ peer[k] # "up"
    /\ \A c \in Callers : call[c] \in Resolved
    /\ UNCHANGED vars

Caller(c) == SendCommand(c) \/ Enqueue(c) \/ CallDropped(c) \/ ResponseTimeout(c)
Run       == RunCheck \/ Connect \/ ConnectFails \/ AuthSucceeds \/ AuthFails
                \/ ConnectionLost \/ SleepEnds
Writer(k) == TakeRequest(k) \/ RegisterRequest(k) \/ WriteOk(k) \/ WriteFails(k)
                \/ TakeHeartbeat(k) \/ HeartbeatOk(k) \/ HeartbeatFails(k) \/ WriterExits(k)
Reader(k) == HandleResponse(k) \/ RejectResponse(k) \/ ReaderEof(k) \/ ReaderGivesUp(k)

Next ==
    \/ \E c \in Callers : Caller(c)
    \/ Shutdown
    \/ Run
    \/ \E k \in Conns : Writer(k) \/ Reader(k) \/ PeerGone(k)
    \/ Finished

Spec == Init /\ [][Next]_vars

\* The tokio scheduler polls every ready task again and again (WF), and select!
\* picks among its ready branches at random, so a branch that is ready each time
\* the writer gets there is taken in the end (SF).  write_all returns: the
\* telescope reads, or TCP gives up.  Heartbeats come every 5 s until shutdown.
\* No fairness for the telescope, for user code, or for readers giving up.
Fairness ==
    /\ WF_vars(Run)
    /\ \A k \in Conns :
         /\ WF_vars(RegisterRequest(k))
         /\ WF_vars(WriteOk(k) \/ WriteFails(k))
         /\ WF_vars(HeartbeatOk(k) \/ HeartbeatFails(k))
         /\ WF_vars(~shutdown /\ TakeHeartbeat(k))
         /\ SF_vars(WriterExits(k))
         /\ WF_vars(ReaderEof(k))
    /\ \A c \in Callers :
         /\ SF_vars(Enqueue(c))
         /\ WF_vars(CallDropped(c))
         /\ WF_vars(ResponseTimeout(c))

FairSpec == Spec /\ Fairness

-----------------------------------------------------------------------------
(* Properties *)

Entries == [id : Nat, caller : Callers]
Lines   == [conn : Conns, id : Nat, caller : Callers, verify : BOOLEAN]
Hands   == [id : Nat, caller : Callers \union {Nobody}, verify : BOOLEAN]

\* Every variable stays in its type.
TypeOK ==
    /\ call \in [Callers -> Stages]
    /\ answer \in [Callers -> Callers \union {Nobody}]
    /\ queue \in Seq(Callers)
    /\ pending \subseteq Entries
    /\ nextId \in Nat \ {0}
    /\ run \in {"check", "connecting", "auth", "connected", "sleep", "exited"}
    /\ conn \in 0..MaxConns
    /\ backoff \in MinBackoff..MaxBackoff
    /\ shutdown \in BOOLEAN
    /\ reader \in [Conns -> {"off", "reading", "done"}]
    /\ writer \in [Conns -> {"off", "lock", "took", "write", "beat", "done"}]
    /\ hand \in [Conns -> Hands]
    /\ lockQ \in Seq(Conns)
    /\ peer \in [Conns -> {"off", "up", "gone"}]
    /\ lines \subseteq Lines
    /\ fw \in {"unknown"} \union Firmwares
    /\ fwOn \in [Conns -> {"unknown"} \union Firmwares]

\* A call that returns Ok returns the telescope's response to that very call,
\* whatever the interleaving of old and new readers, timeouts and reconnections
\* (test: concurrent_commands_have_no_crosstalk, for one connection only).
NoCrosstalk == \A c \in Callers : call[c] = "ok" => answer[c] = c

\* A command reaches the telescope at most once over all connections: neither a
\* reconnection nor a failed write sends it again.
AtMostOnceOnWire == \A l, m \in lines : l.caller = m.caller => l = m

\* The oneshot sender of a call that waits is never dropped unused while somebody
\* could still use it: its request is in the channel, in the hand of a writer
\* about to register it, or in the registry.
NoLostCall ==
    \A c \in Callers : call[c] = "waiting" =>
        \/ c \in Range(queue)
        \/ \E k \in Conns : writer[k] = "took" /\ hand[k].caller = c
        \/ \E e \in pending : e.caller = c

\* A command goes to new firmware without "verify" only if an earlier connection
\* reported old firmware: never because the firmware is not known yet.
VerifyOmittedOnlyIfReportedOld ==
    \A l \in lines : fwOn[l.conn] = "new" /\ ~l.verify =>
        \E m \in lines : m.conn < l.conn /\ m.caller \in Probes /\ fwOn[m.conn] = "old"

\* The request of call c travels on connection k.
CarriedOn(c, k) == hand[k].caller = c \/ \E l \in lines : l.conn = k /\ l.caller = c

\* A call is told Disconnected only if the connection carrying its request has
\* lost a task: never while both tasks of that connection are well.
NoFalseDisconnect ==
    [][\A c \in Callers, k \in Conns :
         call[c] = "waiting" /\ call'[c] = "disconnected" /\ CarriedOn(c, k)
            => reader'[k] = "done" \/ writer'[k] = "done"]_vars

\* After shutdown the run task ends, and every call made returns, those blocked
\* on a full channel too.
ShutdownStopsRun == shutdown ~> run = "exited"

ShutdownReleasesCallers ==
    \A c \in Callers : (shutdown /\ call[c] \in {"sending", "waiting"}) ~> call[c] \in Resolved

\* The writer of a connection whose reader died ends, though it may have to get
\* the receiver lock from the writer of the next connection first.
DetachedWriterEnds == \A k \in Conns : reader[k] = "done" ~> writer[k] = "done"

\* registry.rs: "On disconnect the registry is drained so all pending senders
\* can be notified of the failure"; control_integration.rs: "the in-flight send
\* must resolve to Disconnected, not hang".  Once run has flushed and sleeps, no
\* registered call still waits.
InFlightResolvedOnDisconnect ==
    run = "sleep" => \A e \in pending : call[e.caller] # "waiting"

\* client.rs, of SeestarClient::shutdown: "Shut down all connections gracefully."
\* The socket of connection k is open until both halves are dropped.
SocketOpen(k) == reader[k] = "reading" \/ writer[k] \notin {"off", "done"}

ShutdownClosesConnections == \A k \in Conns : shutdown ~> ~SocketOpen(k)

\* A call seen from outside: where its request is does not matter, and an Ok with
\* the response of another call is no Ok.
CallSeen(c) ==
    CASE call[c] \in {"sending", "waiting"}    -> "open"
      [] call[c] = "ok" /\ answer[c] # c       -> "misrouted"
      [] OTHER                                 -> call[c]

Service == INSTANCE CommandService WITH
    outcome  <- [c \in Callers |-> CallSeen(c)],
    executed <- {l.caller : l \in lines}

\* The control connection with its tasks, registry and reconnections implements
\* the contract of send_command.
ImplementsService == Service!Spec
=============================================================================
