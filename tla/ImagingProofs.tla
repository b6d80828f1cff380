--------------------------- MODULE ImagingProofs ---------------------------
(***************************************************************************)
(* Imaging for any commands, capacities, connections and frames: its type  *)
(* invariant, CommandsInOrder, FramesComplete and TimeoutMeansNoFrame.     *)
(***************************************************************************)
EXTENDS Imaging, SequenceTheorems, TLAPS

\* A reader has read only frames the telescope sent, and holds the last of them
\* until it has published it.
ReadInv ==
    \A k \in Conns :
        /\ Len(sent[k]) <= MaxFrames
        /\ wire[k] <= Len(sent[k])
        /\ reader[k] = "got" =>
              /\ wire[k] >= 1
              /\ sent[k][wire[k]] \in Kinds
              /\ frame[k] = [conn |-> k, n |-> wire[k], kind |-> sent[k][wire[k]]]

\* What is written is a command.
HandInv == run = "write" => hand \in Commands

TInv == TypeOK /\ ReadInv /\ HandInv

\* The channel holds the end of what was queued, the run task what comes just before it,
\* and what the telescope has received comes before both.
Taken == Len(queued) - Len(cmdQ)
Written == IF run = "write" THEN Taken - 1 ELSE Taken
OrderInv ==
    /\ Taken >= 0
    /\ \A i \in DOMAIN cmdQ : cmdQ[i] = queued[Taken + i]
    /\ run = "write" => Taken >= 1 /\ hand = queued[Taken]
    /\ \A i \in DOMAIN executed : \E a \in 1..Written : queued[a] = executed[i]

\* A command is queued by its one call.
QueuedOnce ==
    /\ \A a \in DOMAIN queued : cmd[queued[a]] = "queued"
    /\ \A a, b \in DOMAIN queued : queued[a] = queued[b] => a = b

\* Of each connection the frames up to the one the reader holds are published.
Top(k) == IF reader[k] = "got" THEN wire[k] - 1 ELSE wire[k]
StreamInv ==
    /\ \A k \in Conns : k > conn => reader[k] = "off"
    /\ \A i \in DOMAIN published : published[i].n <= Top(published[i].conn)
    /\ \A k \in Conns : reader[k] # "done" =>
          \A n \in 1..Top(k) : \E i \in DOMAIN published : published[i].conn = k /\ published[i].n = n

\* While get_image has received nothing its position is where it began.
ShotInv == shot \in {"subscribed", "waiting"} => next = began

IInv == TInv /\ QueuedOnce /\ OrderInv /\ CommandsInOrder /\ StreamInv /\ FramesComplete /\ ShotInv

-----------------------------------------------------------------------------
(* Types                                                                   *)

LEMMA TypesInit == Init => TInv
<1> SUFFICES ASSUME Init PROVE TInv
  OBVIOUS
<1> USE ImagingAssumption DEF Init
<1>1. TypeOK
  <2>1. /\ cmd \in [Commands -> {"idle", "sending", "queued", "disconnected"}]
        /\ cmdQ \in Seq(Commands) /\ Len(cmdQ) <= CmdCap
        /\ queued \in Seq(Commands) /\ executed \in Seq(Commands) /\ published \in Seq(Frames)
        /\ conn \in 0..MaxConns /\ hand \in Commands \union {NoCommand}
    OBVIOUS
  <2>2. /\ reader \in [Conns -> {"off", "reading", "got", "done"}]
        /\ frame \in [Conns -> Frames \union {NoFrame}]
        /\ aborted \in [Conns -> BOOLEAN]
        /\ peer \in [Conns -> {"off", "up", "gone"}]
        /\ wire \in [Conns -> 0..MaxFrames]
    OBVIOUS
  <2>3. sent \in [Conns -> Seq(Headers)]
    OBVIOUS
  <2>4. QED
    BY <2>1, <2>2, <2>3 DEF TypeOK
<1>2. ReadInv /\ HandInv
  BY DEF ReadInv, HandInv
<1>3. QED
  BY <1>1, <1>2 DEF TInv

LEMMA TypesNext == TInv /\ [Next]_vars => TInv'
<1> SUFFICES ASSUME TInv, [Next]_vars PROVE TInv'
  OBVIOUS
<1> USE ImagingAssumption DEF TInv
<1>1. ASSUME NEW c \in Commands, Caller(c) PROVE TInv'
  <2>1. Append(cmdQ, c) \in Seq(Commands) /\ Append(queued, c) \in Seq(Commands)
        /\ Len(Append(cmdQ, c)) = Len(cmdQ) + 1
    BY DEF TypeOK
  <2>2. TypeOK'
    <3>1. CASE SendImagingCommand(c) \/ CommandRefused(c)
      BY <3>1 DEF SendImagingCommand, CommandRefused, TypeOK, runVars, readVars, netVars, shotVars
    <3>2. CASE QueueCommand(c)
      BY <2>1, <3>2 DEF QueueCommand, TypeOK, runVars, readVars, netVars, shotVars
    <3>3. QED
      BY <1>1, <3>1, <3>2 DEF Caller
  <2>3. ReadInv' /\ HandInv'
    BY <1>1 DEF Caller, SendImagingCommand, QueueCommand, CommandRefused, ReadInv, HandInv, runVars,
       readVars, netVars
  <2>4. QED
    BY <2>2, <2>3
<1>2. CASE Shutdown
  BY <1>2 DEF Shutdown, TypeOK, ReadInv, HandInv, cmdVars, runVars, readVars, netVars, shotVars
<1>3. CASE RunCheck \/ ConnectFails \/ SleepEnds
  BY <1>3 DEF RunCheck, ConnectFails, SleepEnds, TypeOK, ReadInv, HandInv, cmdVars, readVars, netVars,
     shotVars
<1>4. CASE Connect
  BY <1>4 DEF Connect, TypeOK, ReadInv, HandInv, cmdVars, shotVars, Conns
<1>5. CASE TakeCommand
  <2>1. cmdQ # <<>> /\ cmdQ \in Seq(Commands)
    BY <1>5 DEF TakeCommand, TypeOK
  <2>2. Head(cmdQ) \in Commands /\ Tail(cmdQ) \in Seq(Commands) /\ Len(Tail(cmdQ)) = Len(cmdQ) - 1
    BY <2>1
  <2>3. QED
    BY <1>5, <2>2 DEF TakeCommand, TypeOK, ReadInv, HandInv, readVars, netVars, shotVars
<1>6. CASE WriteOk
  <2>1. Append(executed, hand) \in Seq(Commands)
    BY <1>6 DEF WriteOk, TypeOK, HandInv
  <2>2. QED
    BY <1>6, <2>1 DEF WriteOk, TypeOK, ReadInv, HandInv, cmdVars, readVars, shotVars
<1>7. CASE WriteFails \/ HeartbeatFails \/ SeeShutdown \/ SeeReaderEnd
  BY <1>7 DEF WriteFails, HeartbeatFails, SeeShutdown, SeeReaderEnd, Leave, TypeOK, ReadInv, HandInv,
     cmdVars, netVars, shotVars
<1>8. ASSUME NEW k \in Conns, ReadFrame(k) PROVE TInv'
  <2> DEFINE n == wire[k] + 1
             f == [conn |-> k, n |-> n, kind |-> sent[k][n]]
  <2>1. n \in 1..MaxFrames /\ n <= Len(sent[k]) /\ sent[k][n] \in Headers
    BY <1>8 DEF ReadFrame, Unread, TypeOK, ReadInv
  <2>2. sent[k][n] # "toolarge" => sent[k][n] \in Kinds /\ f \in Frames
    BY <2>1 DEF Frames, Kinds
  <2>3. /\ reader' \in [Conns -> {"off", "reading", "got", "done"}]
        /\ frame' \in [Conns -> Frames \union {NoFrame}]
        /\ wire' \in [Conns -> 0..MaxFrames]
    <3>1. wire' = [wire EXCEPT ![k] = n] /\ n \in 0..MaxFrames
      BY <1>8, <2>1 DEF ReadFrame
    <3>2. CASE sent[k][n] = "toolarge"
      <4>1. reader' = [reader EXCEPT ![k] = "done"] /\ frame' = frame
        BY <1>8, <3>2 DEF ReadFrame
      <4>2. QED
        BY <3>1, <4>1 DEF TypeOK
    <3>3. CASE sent[k][n] # "toolarge"
      <4>1. reader' = [reader EXCEPT ![k] = "got"] /\ frame' = [frame EXCEPT ![k] = f]
        BY <1>8, <3>3 DEF ReadFrame
      <4>2. QED
        BY <2>2, <3>1, <3>3, <4>1 DEF TypeOK
    <3>4. QED
      BY <3>2, <3>3
  <2>4. TypeOK' /\ HandInv'
    BY <1>8, <2>3 DEF ReadFrame, TypeOK, HandInv, cmdVars, runVars, netVars, shotVars
  <2>5. ReadInv'
    <3>1. CASE sent[k][n] = "toolarge"
      BY <1>8, <2>1, <3>1 DEF ReadFrame, TypeOK, ReadInv, netVars
    <3>2. CASE sent[k][n] # "toolarge"
      BY <1>8, <2>1, <2>2, <3>2 DEF ReadFrame, TypeOK, ReadInv, netVars
    <3>3. QED
      BY <3>1, <3>2
  <2>6. QED
    BY <2>4, <2>5
<1>9. ASSUME NEW k \in Conns, Publish(k) PROVE TInv'
  <2>1. frame[k] \in Frames
    <3>1. wire[k] \in 1..MaxFrames /\ frame[k] = [conn |-> k, n |-> wire[k], kind |-> sent[k][wire[k]]]
          /\ sent[k][wire[k]] \in Kinds
      BY <1>9 DEF Publish, TypeOK, ReadInv
    <3>2. QED
      BY <3>1 DEF Frames
  <2>2. Append(published, frame[k]) \in Seq(Frames)
    BY <2>1 DEF TypeOK
  <2>3. QED
    BY <1>9, <2>2 DEF Publish, TypeOK, ReadInv, HandInv, cmdVars, runVars, netVars, shotVars
<1>10. ASSUME NEW k \in Conns, ReaderEnds(k) PROVE TInv'
  BY <1>10 DEF ReaderEnds, TypeOK, ReadInv, HandInv, cmdVars, runVars, netVars, shotVars
<1>11. ASSUME NEW k \in Conns, SendFrame(k) PROVE TInv'
  <2>1. PICK h \in Headers : sent' = [sent EXCEPT ![k] = Append(@, h)]
    BY <1>11 DEF SendFrame
  <2>2. Append(sent[k], h) \in Seq(Headers) /\ Len(Append(sent[k], h)) = Len(sent[k]) + 1
        /\ \A i \in 1..Len(sent[k]) : Append(sent[k], h)[i] = sent[k][i]
    BY DEF TypeOK
  <2>3. TypeOK' /\ HandInv'
    BY <1>11, <2>1, <2>2 DEF SendFrame, TypeOK, HandInv, cmdVars, runVars, readVars, shotVars
  <2>4. ReadInv'
    BY <1>11, <2>1, <2>2 DEF SendFrame, TypeOK, ReadInv, readVars
  <2>5. QED
    BY <2>3, <2>4
<1>12. ASSUME NEW k \in Conns, PeerGone(k) PROVE TInv'
  BY <1>12 DEF PeerGone, TypeOK, ReadInv, HandInv, cmdVars, runVars, readVars, shotVars
<1>13. CASE GetImage
  <2>1. Len(published) \in Nat
    BY DEF TypeOK
  <2>2. next < Len(published) => published[next + 1] \in Frames
    BY <2>1 DEF TypeOK
  <2>3. next < Len(published) => published[next + 1].kind \in Kinds
    BY <2>2 DEF Frames
  <2>4. TypeOK'
    BY <1>13, <2>1, <2>3 DEF GetImage, SubscribeFrames, ImageRequested, ImageRequestFails, ImageReceived,
       ImageTimeout, TypeOK, cmdVars, runVars, readVars, netVars
  <2>5. ReadInv' /\ HandInv'
    BY <1>13 DEF GetImage, SubscribeFrames, ImageRequested, ImageRequestFails, ImageReceived,
       ImageTimeout, ReadInv, HandInv, cmdVars, runVars, readVars, netVars
  <2>6. QED
    BY <2>4, <2>5
<1>14. CASE UNCHANGED vars
  BY <1>14 DEF vars, TypeOK, ReadInv, HandInv, cmdVars, runVars, readVars, netVars, shotVars
<1>15. QED
  BY <1>1, <1>2, <1>3, <1>4, <1>5, <1>6, <1>7, <1>8, <1>9, <1>10, <1>11, <1>12, <1>13, <1>14
     DEF Next, Run, Reader, Finished

-----------------------------------------------------------------------------
(* Commands                                                                *)

LEMMA OnceNext == TInv /\ QueuedOnce /\ [Next]_vars => QueuedOnce'
<1> SUFFICES ASSUME TInv, QueuedOnce, [Next]_vars PROVE QueuedOnce'
  OBVIOUS
<1>1. ASSUME NEW c \in Commands, QueueCommand(c) PROVE QueuedOnce'
  <2>1. cmd[c] # "queued" /\ cmd' = [cmd EXCEPT ![c] = "queued"] /\ queued' = Append(queued, c)
    BY <1>1 DEF QueueCommand
  <2>2. queued \in Seq(Commands) /\ cmd \in [Commands -> {"idle", "sending", "queued", "disconnected"}]
    BY DEF TInv, TypeOK
  <2>3. /\ DOMAIN queued' = 1..(Len(queued) + 1)
        /\ queued'[Len(queued) + 1] = c
        /\ \A a \in 1..Len(queued) : queued'[a] = queued[a] /\ queued[a] \in Commands
    BY <2>1, <2>2
  <2>4. \A a \in DOMAIN queued' : cmd'[queued'[a]] = "queued"
    BY <2>1, <2>2, <2>3 DEF QueuedOnce
  <2>5. \A a \in 1..Len(queued) : queued[a] # c
    BY <2>1, <2>2 DEF QueuedOnce
  <2>6. \A a, b \in DOMAIN queued' : queued'[a] = queued'[b] => a = b
    BY <2>2, <2>3, <2>5 DEF QueuedOnce
  <2>7. QED
    BY <2>4, <2>6 DEF QueuedOnce
<1>2. ASSUME NEW c \in Commands, SendImagingCommand(c) \/ CommandRefused(c) PROVE QueuedOnce'
  <2>1. PICK v : cmd' = [cmd EXCEPT ![c] = v] /\ queued' = queued /\ cmd[c] # "queued"
    BY <1>2 DEF SendImagingCommand, CommandRefused
  <2>2. queued \in Seq(Commands) /\ cmd \in [Commands -> {"idle", "sending", "queued", "disconnected"}]
    BY DEF TInv, TypeOK
  <2>3. QED
    BY <2>1, <2>2 DEF QueuedOnce
<1>3. CASE UNCHANGED <<cmd, queued>>
  BY <1>3 DEF QueuedOnce
<1>4. QED
  BY <1>1, <1>2, <1>3 DEF Next, Caller, Shutdown, Run, RunCheck, Connect, ConnectFails, SleepEnds,
     TakeCommand, WriteOk, WriteFails, HeartbeatFails, SeeShutdown, SeeReaderEnd, Leave, Reader,
     ReadFrame, Publish, ReaderEnds, SendFrame, PeerGone, GetImage, SubscribeFrames, ImageRequested,
     ImageRequestFails, ImageReceived, ImageTimeout, Finished, vars, cmdVars

LEMMA OrderNext ==
    TInv /\ QueuedOnce /\ OrderInv /\ CommandsInOrder /\ [Next]_vars => OrderInv' /\ CommandsInOrder'
<1> SUFFICES ASSUME TInv, QueuedOnce, OrderInv, CommandsInOrder, [Next]_vars
             PROVE  OrderInv' /\ CommandsInOrder'
  OBVIOUS
<1>1. /\ cmdQ \in Seq(Commands) /\ queued \in Seq(Commands) /\ executed \in Seq(Commands)
      /\ Len(cmdQ) \in Nat /\ Len(queued) \in Nat /\ Len(executed) \in Nat
  BY DEF TInv, TypeOK
<1>2. Taken \in Nat /\ Taken <= Len(queued) /\ Written \in Nat /\ Written <= Taken
  BY <1>1 DEF OrderInv, Taken, Written
<1>3. ASSUME NEW c \in Commands, QueueCommand(c) PROVE OrderInv' /\ CommandsInOrder'
  <2>1. cmdQ' = Append(cmdQ, c) /\ queued' = Append(queued, c) /\ run' = run /\ hand' = hand
        /\ executed' = executed
    BY <1>3 DEF QueueCommand, runVars, netVars
  <2>2. /\ Len(cmdQ') = Len(cmdQ) + 1 /\ Len(queued') = Len(queued) + 1
        /\ cmdQ'[Len(cmdQ) + 1] = c /\ queued'[Len(queued) + 1] = c
        /\ \A i \in 1..Len(cmdQ) : cmdQ'[i] = cmdQ[i]
        /\ \A i \in 1..Len(queued) : queued'[i] = queued[i]
        /\ DOMAIN cmdQ' = 1..Len(cmdQ') /\ DOMAIN queued' = 1..Len(queued')
    BY <1>1, <2>1
  <2>3. Taken' = Taken /\ Written' = Written
    BY <1>1, <2>1, <2>2 DEF Taken, Written
  <2>4. \A i \in DOMAIN cmdQ' : cmdQ'[i] = queued'[Taken + i]
    <3> SUFFICES ASSUME NEW i \in 1..(Len(cmdQ) + 1) PROVE cmdQ'[i] = queued'[Taken + i]
      BY <2>2
    <3>1. CASE i = Len(cmdQ) + 1
      BY <1>1, <2>2, <3>1 DEF Taken
    <3>2. CASE i \in 1..Len(cmdQ)
      <4>1. Taken + i \in 1..Len(queued)
        BY <1>1, <1>2, <3>2 DEF Taken
      <4>2. QED
        BY <1>1, <2>2, <3>2, <4>1 DEF OrderInv
    <3>3. QED
      BY <1>1, <3>1, <3>2
  <2>5. run' = "write" => Taken' >= 1 /\ hand' = queued'[Taken']
    BY <1>1, <1>2, <2>1, <2>2, <2>3 DEF OrderInv
  <2>6. \A i \in DOMAIN executed' : \E a \in 1..Written' : queued'[a] = executed'[i]
    BY <1>1, <1>2, <2>1, <2>2, <2>3 DEF OrderInv
  <2>7. CommandsInOrder'
    <3> SUFFICES ASSUME NEW i \in DOMAIN executed, NEW j \in DOMAIN executed, i < j
                 PROVE  /\ executed[i] # executed[j]
                        /\ \E a, b \in DOMAIN queued' :
                              a < b /\ queued'[a] = executed[i] /\ queued'[b] = executed[j]
      BY <2>1 DEF CommandsInOrder
    <3>1. PICK a, b \in DOMAIN queued : a < b /\ queued[a] = executed[i] /\ queued[b] = executed[j]
      BY DEF CommandsInOrder
    <3>2. a \in 1..Len(queued) /\ b \in 1..Len(queued)
      BY <1>1
    <3>3. a \in DOMAIN queued' /\ b \in DOMAIN queued' /\ queued'[a] = queued[a] /\ queued'[b] = queued[b]
      BY <1>1, <2>2, <3>2
    <3>4. QED
      BY <3>1, <3>3 DEF CommandsInOrder
  <2>8. QED
    BY <1>2, <2>3, <2>4, <2>5, <2>6, <2>7 DEF OrderInv
<1>4. CASE TakeCommand
  <2>1. /\ run = "connected" /\ cmdQ # <<>> /\ run' = "write" /\ hand' = Head(cmdQ)
        /\ cmdQ' = Tail(cmdQ) /\ queued' = queued /\ executed' = executed
    BY <1>4 DEF TakeCommand, netVars
  <2>2. /\ Len(cmdQ) >= 1 /\ Len(cmdQ') = Len(cmdQ) - 1 /\ hand' = cmdQ[1]
        /\ DOMAIN cmdQ' = 1..(Len(cmdQ) - 1)
        /\ \A i \in 1..(Len(cmdQ) - 1) : cmdQ'[i] = cmdQ[i + 1]
    BY <1>1, <2>1
  <2>3. Taken' = Taken + 1 /\ Written' = Taken /\ Written = Taken
    BY <1>1, <2>1, <2>2 DEF Taken, Written
  <2>4. \A i \in DOMAIN cmdQ' : cmdQ'[i] = queued'[Taken' + i]
    BY <1>1, <1>2, <2>1, <2>2, <2>3 DEF OrderInv
  <2>5. hand' = queued'[Taken']
    BY <1>1, <2>1, <2>2, <2>3 DEF OrderInv
  <2>6. \A i \in DOMAIN executed' : \E a \in 1..Written' : queued'[a] = executed'[i]
    BY <2>1, <2>3 DEF OrderInv
  <2>7. QED
    BY <1>2, <2>1, <2>3, <2>4, <2>5, <2>6 DEF OrderInv, CommandsInOrder
<1>5. CASE WriteOk
  <2>1. run = "write" /\ run' = "connected" /\ cmdQ' = cmdQ /\ queued' = queued
    BY <1>5 DEF WriteOk, cmdVars
  <2>2. Taken' = Taken /\ Written' = Taken /\ Written = Taken - 1 /\ Taken >= 1 /\ hand = queued[Taken]
    BY <2>1 DEF Taken, Written, OrderInv
  <2>3. CASE executed' = executed
    BY <1>2, <2>1, <2>2, <2>3 DEF OrderInv, CommandsInOrder
  <2>4. CASE executed' = Append(executed, hand)
    <3>1. /\ Len(executed') = Len(executed) + 1 /\ DOMAIN executed' = 1..(Len(executed) + 1)
          /\ executed'[Len(executed) + 1] = hand
          /\ \A i \in 1..Len(executed) : executed'[i] = executed[i]
      BY <1>1, <2>4
    <3>2. \A i \in 1..Len(executed) : \E a \in 1..(Taken - 1) : queued[a] = executed[i]
      BY <1>1, <2>2 DEF OrderInv
    <3>3. \A i \in DOMAIN executed' : \E a \in 1..Written' : queued'[a] = executed'[i]
      <4> SUFFICES ASSUME NEW i \in 1..(Len(executed) + 1)
                   PROVE  \E a \in 1..Taken : queued[a] = executed'[i]
        BY <2>1, <2>2, <3>1
      <4>1. CASE i = Len(executed) + 1
        BY <1>2, <2>2, <3>1, <4>1
      <4>2. CASE i \in 1..Len(executed)
        <5>1. PICK a \in 1..(Taken - 1) : queued[a] = executed[i]
          BY <3>2, <4>2
        <5>2. a \in 1..Taken
          BY <1>2
        <5>3. QED
          BY <3>1, <4>2, <5>1, <5>2
      <4>3. QED
        BY <1>1, <4>1, <4>2
    <3>4. OrderInv'
      BY <1>2, <2>1, <2>2, <3>3 DEF OrderInv
    <3>5. ASSUME NEW i \in 1..Len(executed)
          PROVE  /\ executed[i] # hand
                 /\ \E a, b \in DOMAIN queued : a < b /\ queued[a] = executed[i] /\ queued[b] = hand
      <4>1. PICK a \in 1..(Taken - 1) : queued[a] = executed[i]
        BY <3>2
      <4>2. a \in DOMAIN queued /\ Taken \in DOMAIN queued /\ a < Taken
        BY <1>1, <1>2, <2>2
      <4>3. QED
        BY <2>2, <4>1, <4>2 DEF QueuedOnce
    <3>6. CommandsInOrder'
      <4> SUFFICES ASSUME NEW i \in DOMAIN executed', NEW j \in DOMAIN executed', i < j
                   PROVE  /\ executed'[i] # executed'[j]
                          /\ \E a, b \in DOMAIN queued :
                                a < b /\ queued[a] = executed'[i] /\ queued[b] = executed'[j]
        BY <2>1 DEF CommandsInOrder
      <4>1. i \in 1..Len(executed) /\ j \in 1..(Len(executed) + 1) /\ executed'[i] = executed[i]
        BY <1>1, <3>1
      <4>2. CASE j = Len(executed) + 1
        BY <3>1, <3>5, <4>1, <4>2
      <4>3. CASE j \in 1..Len(executed)
        <5>1. executed'[j] = executed[j] /\ i \in DOMAIN executed /\ j \in DOMAIN executed
          BY <1>1, <3>1, <4>1, <4>3
        <5>2. QED
          BY <4>1, <5>1 DEF CommandsInOrder
      <4>4. QED
        BY <1>1, <4>1, <4>2, <4>3
    <3>7. QED
      BY <3>4, <3>6
  <2>5. QED
    BY <1>5, <2>3, <2>4 DEF WriteOk
<1>6. CASE WriteFails \/ HeartbeatFails \/ SeeShutdown \/ SeeReaderEnd
  <2>1. run' = "sleep" /\ cmdQ' = cmdQ /\ queued' = queued /\ executed' = executed
    BY <1>6 DEF WriteFails, HeartbeatFails, SeeShutdown, SeeReaderEnd, Leave, cmdVars, netVars
  <2>2. Taken' = Taken /\ Written' = Taken /\ Written \in 0..Taken
    BY <1>2, <2>1 DEF Taken, Written
  <2>3. QED
    BY <1>2, <2>1, <2>2 DEF OrderInv, CommandsInOrder
<1>7. CASE /\ UNCHANGED <<cmdQ, queued, executed>>
           /\ \/ run' = run /\ hand' = hand
              \/ run # "write" /\ run' # "write"
  <2>1. Taken' = Taken /\ Written' = Written
    BY <1>7 DEF Taken, Written
  <2>2. QED
    BY <1>7, <2>1 DEF OrderInv, CommandsInOrder
<1>8. QED
  BY <1>3, <1>4, <1>5, <1>6, <1>7 DEF Next, Caller, SendImagingCommand, CommandRefused, Shutdown, Run,
     RunCheck, Connect, ConnectFails, SleepEnds, Reader, ReadFrame, Publish, ReaderEnds, SendFrame,
     PeerGone, GetImage, SubscribeFrames, ImageRequested, ImageRequestFails, ImageReceived,
     ImageTimeout, Finished, vars, cmdVars, runVars, netVars

-----------------------------------------------------------------------------
(* Frames                                                                  *)

LEMMA StreamNext == TInv /\ StreamInv /\ FramesComplete /\ [Next]_vars => StreamInv' /\ FramesComplete'
<1> SUFFICES ASSUME TInv, StreamInv, FramesComplete, [Next]_vars PROVE StreamInv' /\ FramesComplete'
  OBVIOUS
<1> USE ImagingAssumption DEF Conns
<1> DEFINE After(l) == IF reader'[l] = "got" THEN wire'[l] - 1 ELSE wire'[l]
<1>1. /\ published \in Seq(Frames) /\ Len(published) \in Nat /\ DOMAIN published = 1..Len(published)
      /\ \A i \in DOMAIN published : /\ published[i] \in Frames
                                     /\ published[i].conn \in Conns /\ published[i].n \in 1..MaxFrames
  <2>1. published \in Seq(Frames) /\ Len(published) \in Nat /\ DOMAIN published = 1..Len(published)
        /\ \A i \in DOMAIN published : published[i] \in Frames
    BY DEF TInv, TypeOK
  <2>2. QED
    BY <2>1 DEF Frames
<1>2. /\ wire \in [Conns -> Nat]
      /\ reader \in [Conns -> {"off", "reading", "got", "done"}]
      /\ \A k \in Conns : Top(k) \in Int /\ Top(k) <= wire[k] /\ wire[k] <= Len(sent[k])
  BY DEF TInv, TypeOK, ReadInv, Top
<1>3. ASSUME NEW k \in Conns, ReadFrame(k) PROVE StreamInv' /\ FramesComplete'
  <2>1. /\ reader[k] = "reading" /\ wire' = [wire EXCEPT ![k] = @ + 1] /\ conn' = conn
        /\ published' = published /\ sent' = sent
        /\ \/ reader' = [reader EXCEPT ![k] = "done"]
           \/ reader' = [reader EXCEPT ![k] = "got"]
    BY <1>3 DEF ReadFrame, netVars, runVars
  <2>2. /\ k <= conn
        /\ \A l \in Conns :
              /\ After(l) \in Int /\ After(l) >= Top(l)
              /\ reader'[l] # "done" => After(l) = Top(l) /\ reader[l] # "done"
    <3>1. k <= conn
      BY <2>1 DEF StreamInv, TInv, TypeOK
    <3>2. /\ wire'[k] = wire[k] + 1 /\ wire[k] \in Int /\ reader'[k] \in {"done", "got"}
          /\ \A l \in Conns \ {k} : wire'[l] = wire[l] /\ reader'[l] = reader[l]
      BY <1>2, <2>1
    <3>3. ASSUME NEW l \in Conns
          PROVE  /\ After(l) \in Int /\ After(l) >= Top(l)
                 /\ reader'[l] # "done" => After(l) = Top(l) /\ reader[l] # "done"
      <4>1. CASE l = k
        BY <2>1, <3>2, <4>1 DEF Top
      <4>2. CASE l # k
        BY <1>2, <3>2, <4>2 DEF Top
      <4>3. QED
        BY <4>1, <4>2
    <3>4. QED
      BY <3>1, <3>3
  <2>3. \A i \in DOMAIN published : published[i].n <= After(published[i].conn)
    <3> SUFFICES ASSUME NEW i \in DOMAIN published PROVE published[i].n <= After(published[i].conn)
      OBVIOUS
    <3>1. published[i].conn \in Conns /\ published[i].n \in Int /\ published[i].n <= Top(published[i].conn)
      BY <1>1 DEF StreamInv
    <3>2. Top(published[i].conn) \in Int /\ After(published[i].conn) \in Int
          /\ Top(published[i].conn) <= After(published[i].conn)
      BY <1>2, <2>2, <3>1
    <3> HIDE DEF After
    <3>3. QED
      BY <3>1, <3>2
  <2>4. \A l \in Conns : reader'[l] # "done" =>
           \A n \in 1..After(l) : \E i \in DOMAIN published : published[i].conn = l /\ published[i].n = n
    BY <2>2 DEF StreamInv
  <2>5. \A l \in Conns : l > conn => reader'[l] = "off"
    BY <1>2, <2>1, <2>2 DEF StreamInv, TInv, TypeOK
  <2>6. QED
    BY <2>1, <2>3, <2>4, <2>5 DEF StreamInv, FramesComplete, Top
<1>4. ASSUME NEW k \in Conns, Publish(k) PROVE StreamInv' /\ FramesComplete'
  <2> DEFINE f == [conn |-> k, n |-> wire[k], kind |-> sent[k][wire[k]]]
  <2>1. /\ reader[k] = "got" /\ reader' = [reader EXCEPT ![k] = "reading"] /\ conn' = conn
        /\ published' = Append(published, f) /\ wire' = wire /\ sent' = sent /\ wire[k] >= 1
    BY <1>4 DEF Publish, TInv, ReadInv, netVars, runVars
  <2>2. /\ Len(published') = Len(published) + 1 /\ DOMAIN published' = 1..(Len(published) + 1)
        /\ published'[Len(published) + 1] = f
        /\ \A i \in 1..Len(published) : published'[i] = published[i]
    BY <1>1, <2>1
  <2>3. /\ Top(k) = wire[k] - 1 /\ After(k) = wire[k]
        /\ \A l \in Conns \ {k} : After(l) = Top(l) /\ reader'[l] = reader[l]
    BY <1>2, <2>1 DEF Top
  <2>9. \A l \in Conns : After(l) \in Int /\ Top(l) <= After(l)
    <3> SUFFICES ASSUME NEW l \in Conns PROVE After(l) \in Int /\ Top(l) <= After(l)
      OBVIOUS
    <3> HIDE DEF After
    <3>1. CASE l = k
      BY <1>2, <2>3, <3>1
    <3>2. CASE l # k
      BY <1>2, <2>3, <3>2
    <3>3. QED
      BY <3>1, <3>2
  <2>4. \A i \in DOMAIN published' : published'[i].n <= After(published'[i].conn)
    <3> SUFFICES ASSUME NEW i \in 1..(Len(published) + 1)
                 PROVE  published'[i].n <= After(published'[i].conn)
      BY <2>2
    <3>1. CASE i = Len(published) + 1
      BY <1>2, <2>2, <2>3, <3>1
    <3>2. CASE i \in 1..Len(published)
      <4>1. published'[i] = published[i] /\ published[i].conn \in Conns /\ published[i].n \in Int
            /\ published[i].n <= Top(published[i].conn)
        BY <1>1, <2>2, <3>2 DEF StreamInv
      <4>2. Top(published[i].conn) \in Int /\ After(published[i].conn) \in Int
            /\ Top(published[i].conn) <= After(published[i].conn)
        BY <1>2, <2>9, <4>1
      <4> HIDE DEF After
      <4>3. QED
        BY <4>1, <4>2
    <3>3. QED
      BY <1>1, <3>1, <3>2
  <2>5. ASSUME NEW l \in Conns, reader'[l] # "done", NEW n \in 1..After(l)
        PROVE  \E i \in DOMAIN published' : published'[i].conn = l /\ published'[i].n = n
    <3>1. CASE l = k /\ n = wire[k]
      BY <1>1, <2>2, <3>1
    <3>2. CASE ~(l = k /\ n = wire[k])
      <4>1. reader[l] # "done" /\ n \in 1..Top(l)
        BY <1>2, <2>1, <2>3, <2>5, <3>2
      <4>2. PICK i \in DOMAIN published : published[i].conn = l /\ published[i].n = n
        BY <4>1 DEF StreamInv
      <4>3. QED
        BY <1>1, <2>2, <4>2
    <3>3. QED
      BY <3>1, <3>2
  <2>6. \A l \in Conns : l > conn' => reader'[l] = "off"
    BY <1>2, <2>1 DEF StreamInv, TInv, TypeOK
  <2>7. FramesComplete'
    <3> SUFFICES ASSUME NEW i \in 1..(Len(published) + 1)
                 PROVE  LET g == published'[i]
                            Before(n) == \E j \in 1..(i - 1) : published'[j].conn = g.conn /\ published'[j].n = n
                        IN  /\ g.kind = sent'[g.conn][g.n]
                            /\ g.n > 1 => Before(g.n - 1)
                            /\ ~Before(g.n)
      BY <2>2 DEF FramesComplete
    <3>1. CASE i = Len(published) + 1
      <4>1. published'[i] = f
        BY <2>2, <3>1
      <4>2. f.n > 1 => \E j \in 1..(i - 1) : published'[j].conn = k /\ published'[j].n = f.n - 1
        <5> SUFFICES ASSUME f.n > 1
                     PROVE  \E j \in 1..(i - 1) : published'[j].conn = k /\ published'[j].n = f.n - 1
          OBVIOUS
        <5>1. PICK j \in DOMAIN published : published[j].conn = k /\ published[j].n = f.n - 1
          <6>1. f.n - 1 \in 1..Top(k)
            BY <1>2, <2>3
          <6>2. QED
            BY <2>1, <6>1 DEF StreamInv
        <5>2. QED
          BY <1>1, <2>2, <3>1, <5>1
      <4>3. \A j \in 1..(i - 1) : ~(published'[j].conn = k /\ published'[j].n = f.n)
        <5> SUFFICES ASSUME NEW j \in 1..Len(published), published[j].conn = k PROVE published[j].n # f.n
          BY <1>1, <2>2, <3>1
        <5>1. published[j].n <= Top(k) /\ published[j].n \in Int
          BY <1>1 DEF StreamInv
        <5>2. QED
          BY <1>2, <2>3, <5>1
      <4>4. QED
        BY <2>1, <4>1, <4>2, <4>3
    <3>2. CASE i \in 1..Len(published)
      <4>1. \A j \in 1..i : published'[j] = published[j]
        BY <1>1, <2>2, <3>2
      <4>2. i \in DOMAIN published
        BY <1>1, <3>2
      <4>3. QED
        BY <2>1, <3>2, <4>1, <4>2 DEF FramesComplete
    <3>3. QED
      BY <1>1, <3>1, <3>2
  <2>8. QED
    BY <2>4, <2>5, <2>6, <2>7 DEF StreamInv, Top
<1>5. ASSUME NEW k \in Conns, SendFrame(k) PROVE StreamInv' /\ FramesComplete'
  <2>1. PICK h \in Headers : sent' = [sent EXCEPT ![k] = Append(@, h)]
    BY <1>5 DEF SendFrame
  <2>2. UNCHANGED <<reader, wire, published, conn>>
    BY <1>5 DEF SendFrame, readVars, runVars
  <2>3. \A l \in Conns : \A n \in 1..Len(sent[l]) : sent'[l][n] = sent[l][n]
    BY <2>1 DEF TInv, TypeOK
  <2>4. \A i \in DOMAIN published : published[i].n \in 1..Len(sent[published[i].conn])
    <3> SUFFICES ASSUME NEW i \in DOMAIN published
                 PROVE  published[i].n \in 1..Len(sent[published[i].conn])
      OBVIOUS
    <3>1. published[i].conn \in Conns /\ published[i].n \in 1..MaxFrames
          /\ published[i].n <= Top(published[i].conn)
      BY <1>1 DEF StreamInv
    <3>2. Len(sent[published[i].conn]) \in Nat
      BY <3>1 DEF TInv, TypeOK
    <3>3. QED
      BY <1>2, <3>1, <3>2
  <2>5. \A i \in DOMAIN published : published[i].kind = sent'[published[i].conn][published[i].n]
    <3> SUFFICES ASSUME NEW i \in DOMAIN published
                 PROVE  published[i].kind = sent'[published[i].conn][published[i].n]
      OBVIOUS
    <3>1. published[i].kind = sent[published[i].conn][published[i].n]
      BY DEF FramesComplete
    <3>2. published[i].conn \in Conns
      BY <1>1
    <3>3. QED
      BY <2>3, <2>4, <3>1, <3>2
  <2>6. FramesComplete'
    BY <2>2, <2>5 DEF FramesComplete
  <2>7. StreamInv'
    BY <2>2 DEF StreamInv, Top
  <2>8. QED
    BY <2>6, <2>7
<1>6. ASSUME NEW k \in Conns, ReaderEnds(k) PROVE StreamInv' /\ FramesComplete'
  <2>1. /\ reader[k] = "reading" /\ reader' = [reader EXCEPT ![k] = "done"]
        /\ UNCHANGED <<wire, published, sent, conn>>
    BY <1>6 DEF ReaderEnds, netVars, runVars
  <2>2. \A l \in Conns : After(l) = Top(l) /\ (reader'[l] # "done" => reader[l] # "done")
    BY <1>2, <2>1 DEF Top
  <2>3. k <= conn
    BY <2>1 DEF StreamInv, TInv, TypeOK
  <2>4. \A i \in DOMAIN published : published[i].n <= After(published[i].conn)
    BY <1>1, <2>2 DEF StreamInv
  <2>5. \A l \in Conns : l > conn => reader'[l] = "off"
    BY <1>2, <2>1, <2>3 DEF StreamInv, TInv, TypeOK
  <2>6. QED
    BY <2>1, <2>2, <2>4, <2>5 DEF StreamInv, FramesComplete, Top
<1>7. CASE Connect
  <2>1. /\ conn' = conn + 1 /\ conn + 1 \in Conns /\ reader' = [reader EXCEPT ![conn + 1] = "reading"]
        /\ UNCHANGED <<wire, published, sent>>
    BY <1>7 DEF Connect, TInv, TypeOK
  <2>2. reader[conn + 1] = "off"
    BY <2>1 DEF StreamInv, TInv, TypeOK
  <2>3. \A l \in Conns : After(l) = Top(l) /\ (reader'[l] # "done" => reader[l] # "done")
    BY <1>2, <2>1, <2>2 DEF Top
  <2>4. \A i \in DOMAIN published : published[i].n <= After(published[i].conn)
    BY <1>1, <2>3 DEF StreamInv
  <2>5. \A l \in Conns : l > conn' => reader'[l] = "off"
    BY <1>2, <2>1 DEF StreamInv, TInv, TypeOK
  <2>6. QED
    BY <2>1, <2>3, <2>4, <2>5 DEF StreamInv, FramesComplete, Top
<1>8. CASE UNCHANGED <<reader, wire, published, sent, conn>>
  BY <1>8 DEF StreamInv, Top, FramesComplete
<1>9. QED
  BY <1>3, <1>4, <1>5, <1>6, <1>7, <1>8 DEF Next, Caller, SendImagingCommand, QueueCommand, CommandRefused,
     Shutdown, Run, RunCheck, ConnectFails, SleepEnds, TakeCommand, WriteOk, WriteFails, HeartbeatFails,
     SeeShutdown, SeeReaderEnd, Leave, Reader, PeerGone, GetImage, SubscribeFrames, ImageRequested,
     ImageRequestFails, ImageReceived, ImageTimeout, Finished, vars, runVars, readVars, netVars

-----------------------------------------------------------------------------
(* get_image                                                               *)

LEMMA ShotNext == TInv /\ ShotInv /\ [Next]_vars => ShotInv'
<1> SUFFICES ASSUME TInv, ShotInv, [Next]_vars PROVE ShotInv'
  OBVIOUS
<1>1. CASE GetImage
  BY <1>1 DEF GetImage, SubscribeFrames, ImageRequested, ImageRequestFails, ImageReceived, ImageTimeout, ShotInv
<1>2. CASE UNCHANGED shotVars
  BY <1>2 DEF shotVars, ShotInv
<1>3. QED
  BY <1>1, <1>2 DEF Next, Caller, SendImagingCommand, QueueCommand, CommandRefused, Shutdown, Run,
     RunCheck, Connect, ConnectFails, SleepEnds, TakeCommand, WriteOk, WriteFails, HeartbeatFails,
     SeeShutdown, SeeReaderEnd, Leave, Reader, ReadFrame, Publish, ReaderEnds, SendFrame, PeerGone,
     Finished, vars

-----------------------------------------------------------------------------
(* Theorems                                                                *)

LEMMA Inductive == Spec => []IInv
<1>1. Init => IInv
  <2> SUFFICES ASSUME Init PROVE IInv
    OBVIOUS
  <2>1. TInv
    BY TypesInit
  <2>2. QueuedOnce /\ OrderInv /\ CommandsInOrder
    BY DEF Init, QueuedOnce, OrderInv, CommandsInOrder, Taken, Written
  <2>3. StreamInv /\ FramesComplete
    BY DEF Init, StreamInv, FramesComplete, Top, Conns
  <2>4. ShotInv
    BY DEF Init, ShotInv
  <2>5. QED
    BY <2>1, <2>2, <2>3, <2>4 DEF IInv
<1>2. IInv /\ [Next]_vars => IInv'
  BY TypesNext, OnceNext, OrderNext, StreamNext, ShotNext DEF IInv
<1>3. QED
  BY <1>1, <1>2, PTL DEF Spec

\* imaging.rs: every variable of the imaging connection stays in its type, the command
\* channel within its capacity, for any capacities, connections and frames.
THEOREM TypeCorrect == Spec => []TypeOK
<1>1. IInv => TypeOK
  BY DEF IInv, TInv
<1>2. QED
  BY <1>1, Inductive, PTL

\* imaging.rs:110: however often the connection is lost, the telescope receives the
\* commands in the order they were queued and none twice.
THEOREM OrderHolds == Spec => []CommandsInOrder
<1>1. IInv => CommandsInOrder
  BY DEF IInv
<1>2. QED
  BY <1>1, Inductive, PTL

\* imaging.rs:132: whatever is written, aborted or shut down, the frames of a connection
\* are published from its first on, in order, none missing between and none twice.
THEOREM CompleteHolds == Spec => []FramesComplete
<1>1. IInv => FramesComplete
  BY DEF IInv
<1>2. QED
  BY <1>1, Inductive, PTL

\* camera.rs:89: subscribing before asking is enough for no frame to slip by.
THEOREM NoFrameMissed == Spec => TimeoutMeansNoFrame
<1>1. IInv /\ [Next]_vars => [shot # "timeout" /\ shot' = "timeout" => Len(published) = began]_vars
  <2> SUFFICES ASSUME IInv, [Next]_vars, shot # "timeout", shot' = "timeout"
               PROVE  Len(published) = began
    OBVIOUS
  <2>1. ImageTimeout
    BY DEF Next, Caller, SendImagingCommand, QueueCommand, CommandRefused, Shutdown, Run, RunCheck,
       Connect, ConnectFails, SleepEnds, TakeCommand, WriteOk, WriteFails, HeartbeatFails, SeeShutdown,
       SeeReaderEnd, Leave, Reader, ReadFrame, Publish, ReaderEnds, SendFrame, PeerGone, GetImage,
       SubscribeFrames, ImageRequested, ImageRequestFails, ImageReceived, Finished, vars, shotVars
  <2>2. QED
    BY <2>1 DEF ImageTimeout, IInv, ShotInv
<1>2. QED
  BY <1>1, Inductive, PTL DEF Spec, TimeoutMeansNoFrame
=============================================================================
