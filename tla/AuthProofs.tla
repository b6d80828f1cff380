----------------------------- MODULE AuthProofs -----------------------------
(***************************************************************************)
(* Proofs about Auth, for any number of events and every way of cutting    *)
(* the stream.                                                             *)
(***************************************************************************)
EXTENDS Auth, TLAPS

\* A request is outstanding only in the exchange that made it.
AskedInv ==
    /\ asked <= step
    /\ mode = "send" => asked < step
    /\ mode = "ready" => step = 3

\* Answers to the third request are sent only after it, and the challenge once.
AnswerInv ==
    /\ Sent("verified") \/ Sent("unverified") => asked = 3
    /\ Sent("challenge") => answered >= 1
    /\ \A i, j \in DOMAIN lines : lines[i] = "challenge" /\ lines[j] = "challenge" => i = j

\* Once past the first exchange, the challenge is behind the reader, its last tail
\* perhaps excepted.
ChallengeBehind ==
    step >= 2 =>
        /\ answered >= 1
        /\ \A i \in DOMAIN lines : lines[i] = "challenge" => 2 * i <= from + 1

NoStackEvent == ~Sent("stackEvent")

IInv == TypeOK /\ AskedInv /\ AnswerInv /\ ChallengeBehind /\ NoStackEvent /\ ReadyMeansAccepted

\* Nothing the telescope sent or did explains a failure.
NoCause ==
    /\ ~Sent("noChallenge") /\ ~Sent("rejected")
    /\ \A m \in EventKinds : ~Sent(m)

\* Without a cause every line answers one request, and reads end where lines end.
InStep ==
    NoCause =>
        /\ Len(lines) = answered
        /\ \A i \in DOMAIN lines : lines[i] \in Replies(i)
        /\ peer = "up" /\ mode \in {"send", "read"} => from = 2 * (step - 1)

-----------------------------------------------------------------------------
LEMMA InitType == Init => TypeOK /\ AskedInv
<1> SUFFICES ASSUME Init PROVE TypeOK /\ AskedInv
  OBVIOUS
<1>1. lines \in Seq(LineKinds) /\ 2 * Len(lines) = 0
  BY DEF Init
<1>2. arrived \in 0..(2 * Len(lines)) /\ from \in 0..arrived /\ answered \in 0..asked
  BY <1>1 DEF Init
<1>3. AskedInv
  BY DEF Init, AskedInv
<1>4. step \in 1..3 /\ asked \in 0..3
  BY DEF Init
<1>5. mode \in {"send", "read", "ready", "failed"} /\ peer \in {"up", "gone"}
  BY DEF Init
<1>6. timedOut \in BOOLEAN
  BY Zenon DEF Init
<1> QED BY <1>1, <1>2, <1>3, <1>4, <1>5, <1>6 DEF TypeOK

\* Only a line of a step's exchange, or the end of the last one, moves the handshake.
LEMMA HandleType ==
    ASSUME TypeOK, AskedInv, mode = "read", NEW m, Handle(m)
    PROVE  /\ step' \in 1..3 /\ step' >= step
           /\ mode' \in {"send", "ready", "failed"}
           /\ mode' = "send" => step' = step + 1 /\ Continues(m)
           /\ mode' # "send" => step' = step
           /\ mode' = "ready" => step' = 3
           /\ mode' = "failed" => step < 3 /\ ~Continues(m)
BY DEF TypeOK, AskedInv, Handle, Continues, OnError

LEMMA ReplyKinds ==
    ASSUME NEW k \in 1..3, NEW m \in Replies(k)
    PROVE  /\ m \in LineKinds
           /\ m = "challenge" => k = 1
           /\ m \in {"verified", "unverified"} => k = 3
           /\ m \notin EventKinds
           /\ k = 1 => m \in {"challenge", "noChallenge"}
           /\ k = 2 => m \in {"accepted", "rejected"}
BY DEF Replies, LineKinds, EventKinds

\* Every variable stays in its type; no read goes past what has arrived.
THEOREM TypeCorrect == Spec => [](TypeOK /\ AskedInv)
<1>1. TypeOK /\ AskedInv /\ [Next]_vars => TypeOK' /\ AskedInv'
  <2> SUFFICES ASSUME TypeOK, AskedInv, [Next]_vars PROVE TypeOK' /\ AskedInv'
    OBVIOUS
  <2> USE DEF TypeOK, AskedInv
  <2>1. CASE Send
    BY <2>1 DEF Send
  <2>2. CASE SendFails
    BY <2>2 DEF SendFails, OnError
  <2>3. CASE ReadResponse
    <3>1. PICK n \in LineEnd..arrived : from' = n
      BY <2>3 DEF ReadResponse
    <3>2. n \in 0..arrived
      BY <3>1 DEF LineEnd
    <3>3. mode = "read" /\ Handle(LineRead) /\ UNCHANGED <<timedOut, lines, arrived, asked, answered, peer>>
      BY <2>3 DEF ReadResponse
    <3> QED BY <3>1, <3>2, <3>3, HandleType
  <2>11. CASE EofInLine
    <3>1. mode = "read" /\ Handle(LineRead) /\ UNCHANGED <<timedOut, lines, arrived, asked, answered, peer>>
      BY <2>11 DEF EofInLine
    <3>2. from' = arrived
      BY <2>11 DEF EofInLine
    <3> QED BY <3>1, <3>2, HandleType
  <2>4. CASE ReadEnds
    BY <2>4 DEF ReadEnds, OnError
  <2>5. CASE ReadTimeout
    BY <2>5 DEF ReadTimeout, OnError
  <2>6. CASE Reply
    <3>1. PICK m \in Replies(answered + 1) : lines' = Append(lines, m)
      BY <2>6 DEF Reply
    <3>2. answered + 1 \in 1..3 /\ answered < asked
      BY <2>6 DEF Reply
    <3>3. m \in LineKinds
      BY <3>1, <3>2, ReplyKinds
    <3> QED BY <2>6, <3>1, <3>2, <3>3 DEF Reply
  <2>7. CASE SendEvent
    <3>1. PICK m \in Events : lines' = Append(lines, m)
      BY <2>7 DEF SendEvent
    <3>2. m \in LineKinds
      BY AuthAssumption DEF LineKinds
    <3> QED BY <2>7, <3>1, <3>2 DEF SendEvent
  <2>8. CASE Arrive
    BY <2>8 DEF Arrive
  <2>9. CASE PeerGone
    BY <2>9 DEF PeerGone
  <2>10. CASE UNCHANGED vars
    BY <2>10 DEF vars
  <2> QED BY <2>1, <2>2, <2>3, <2>4, <2>5, <2>6, <2>7, <2>8, <2>9, <2>10, <2>11
          DEF Next, Authenticate, Done
<1> QED BY InitType, <1>1, PTL DEF Spec

-----------------------------------------------------------------------------
\* The line a read hands over is one the telescope sent, past from.
LEMMA LineReadIsSent ==
    ASSUME TypeOK, LineEnd <= arrived + 1, LineRead # "garbage"
    PROVE  /\ from % 2 = 0 /\ LineEnd = from + 2
           /\ LineEnd \div 2 \in DOMAIN lines /\ 2 * (LineEnd \div 2) = LineEnd
           /\ LineRead = lines[LineEnd \div 2]
BY DEF TypeOK, LineRead, LineEnd

\* What holds of all lines after one was added.
LEMMA AppendLine ==
    ASSUME TypeOK, NEW m, lines' = Append(lines, m)
    PROVE  /\ DOMAIN lines' = 1..(Len(lines) + 1)
           /\ DOMAIN lines = 1..Len(lines)
           /\ Len(lines) \in Nat
           /\ \A i \in DOMAIN lines : lines'[i] = lines[i]
           /\ lines'[Len(lines) + 1] = m
BY DEF TypeOK

\* Without events that carry code 0, authenticate gets past verify_client only if
\* the telescope accepted the key.
THEOREM AcceptedHolds == "stackEvent" \notin Events /\ Spec => []ReadyMeansAccepted
<1>1. Init => IInv
  <2> SUFFICES ASSUME Init PROVE IInv
    OBVIOUS
  <2>1. DOMAIN lines = {}
    BY DEF Init
  <2> QED BY <2>1, InitType
          DEF Init, IInv, AnswerInv, ChallengeBehind, NoStackEvent, ReadyMeansAccepted, Sent
<1>2. "stackEvent" \notin Events /\ IInv /\ (TypeOK /\ AskedInv)' /\ [Next]_vars => IInv'
  <2> SUFFICES ASSUME "stackEvent" \notin Events, IInv, TypeOK', AskedInv', [Next]_vars
               PROVE  AnswerInv' /\ ChallengeBehind' /\ NoStackEvent' /\ ReadyMeansAccepted'
    BY DEF IInv
  <2> USE DEF IInv
  <2>1. CASE Send
    BY <2>1 DEF Send, TypeOK, AskedInv, AnswerInv, ChallengeBehind, NoStackEvent,
                ReadyMeansAccepted, Sent
  <2>2. ASSUME UNCHANGED <<step, from, lines, asked, answered>>, mode' = "ready" => step = 3
        PROVE  AnswerInv' /\ ChallengeBehind' /\ NoStackEvent' /\ ReadyMeansAccepted'
    BY <2>2 DEF AnswerInv, ChallengeBehind, NoStackEvent, ReadyMeansAccepted, Sent
  <2>3. CASE SendFails \/ ReadEnds \/ ReadTimeout
    BY <2>2, <2>3 DEF SendFails, ReadEnds, ReadTimeout, OnError
  <2>4. CASE Arrive \/ PeerGone \/ UNCHANGED vars
    BY <2>2, <2>4 DEF Arrive, PeerGone, vars, AskedInv
  <2>5. CASE ReadResponse \/ EofInLine
    <3>1. LineEnd <= from' + 1 /\ LineEnd <= arrived + 1 /\ from <= from' /\ from' \in Nat
      <4>1. LineEnd \in Nat /\ from < LineEnd /\ arrived \in Nat /\ from \in Nat
        BY DEF LineEnd, TypeOK
      <4>2. CASE ReadResponse
        <5>1. PICK n \in LineEnd..arrived : from' = n
          BY <4>2 DEF ReadResponse
        <5>2. LineEnd <= n /\ n <= arrived /\ n \in Nat
          BY <4>1, <5>1
        <5> QED BY <4>1, <5>1, <5>2
      <4>3. CASE EofInLine
        <5>1. LineEnd = from + 2 /\ arrived = from + 1 /\ from' = arrived
          BY <4>3 DEF EofInLine, LineEnd
        <5> QED BY <4>1, <5>1
      <4> QED BY <2>5, <4>2, <4>3
    <3>2. mode = "read" /\ Handle(LineRead) /\ UNCHANGED <<lines, asked, answered>>
      BY <2>5 DEF ReadResponse, EofInLine
    <3>3. from <= from'
      BY <3>1
    <3>4. AnswerInv' /\ NoStackEvent'
      BY <3>2 DEF AnswerInv, NoStackEvent, Sent
    <3>5. ChallengeBehind'
      <4>1. CASE mode' = "send" /\ step = 1
        <5>1. LineRead = "challenge"
          BY <3>2, <4>1, HandleType DEF Continues
        <5>2. LineEnd \div 2 \in DOMAIN lines /\ lines[LineEnd \div 2] = "challenge"
              /\ 2 * (LineEnd \div 2) = LineEnd
          BY <3>1, <5>1, LineReadIsSent
        <5>3. answered >= 1 /\ \A i \in DOMAIN lines : lines[i] = "challenge" => 2 * i = LineEnd
          BY <5>2 DEF AnswerInv, Sent
        <5> QED BY <3>1, <3>2, <5>3 DEF ChallengeBehind
      <4>2. CASE ~(mode' = "send" /\ step = 1)
        <5>1. step' >= 2 => step >= 2
          BY <3>2, <4>2, HandleType DEF TypeOK
        <5> QED BY <3>2, <3>3, <5>1 DEF ChallengeBehind, TypeOK
      <4> QED BY <4>1, <4>2
    <3>6. ReadyMeansAccepted'
      <4>1. CASE step = 2 /\ mode' = "send"
        <5>1. Accepts(LineRead) /\ LineRead # "garbage"
          BY <3>2, <4>1, HandleType DEF Continues, Accepts
        <5> DEFINE k == LineEnd \div 2
        <5>2. k \in DOMAIN lines /\ LineRead = lines[k] /\ 2 * k = from + 2
          BY <3>1, <5>1, LineReadIsSent
        <5>3. lines[k] # "challenge"
          BY <4>1, <5>2 DEF ChallengeBehind, TypeOK
        <5>4. asked # 3
          BY <4>1 DEF AskedInv, TypeOK
        <5>5. lines[k] \notin {"verified", "unverified", "stackEvent"}
          BY <5>2, <5>4 DEF AnswerInv, NoStackEvent, Sent
        <5>6. lines[k] = "accepted"
          BY <5>1, <5>2, <5>3, <5>5 DEF Accepts
        <5>7. Sent("accepted")
          BY <5>2, <5>6 DEF Sent
        <5> QED BY <3>2, <5>7 DEF ReadyMeansAccepted, Sent
      <4>2. CASE ~(step = 2 /\ mode' = "send")
        <5>1. step' = 3 \/ mode' = "ready" => step = 3
          BY <3>2, <4>2, HandleType DEF TypeOK
        <5> QED BY <3>2, <5>1 DEF ReadyMeansAccepted, Sent
      <4> QED BY <4>1, <4>2
    <3> QED BY <3>4, <3>5, <3>6
  <2>6. CASE Reply
    <3>1. PICK m \in Replies(answered + 1) : lines' = Append(lines, m)
      BY <2>6 DEF Reply
    <3>2. answered + 1 \in 1..3 /\ answered < asked /\ answered' = answered + 1
          /\ UNCHANGED <<step, mode, from, asked>>
      BY <2>6 DEF Reply, TypeOK
    <3>3. m # "stackEvent" /\ (m = "challenge" => answered = 0)
          /\ (m \in {"verified", "unverified"} => answered = 2)
      BY <3>1, <3>2, ReplyKinds DEF EventKinds, TypeOK
    <3>4. /\ DOMAIN lines' = 1..(Len(lines) + 1) /\ DOMAIN lines = 1..Len(lines)
          /\ Len(lines) \in Nat
          /\ \A i \in DOMAIN lines : lines'[i] = lines[i]
          /\ lines'[Len(lines) + 1] = m
      BY <3>1, AppendLine
    <3>5. asked \in 0..3 /\ answered \in 0..3
      BY DEF TypeOK
    <3>6. AnswerInv'
      BY <3>2, <3>3, <3>4, <3>5 DEF AnswerInv, Sent
    <3>7. ChallengeBehind'
      BY <3>2, <3>3, <3>4, <3>5 DEF ChallengeBehind
    <3>8. NoStackEvent'
      BY <3>3, <3>4 DEF NoStackEvent, Sent
    <3>9. ReadyMeansAccepted'
      BY <3>2, <3>4 DEF ReadyMeansAccepted, Sent
    <3> QED BY <3>6, <3>7, <3>8, <3>9
  <2>7. CASE SendEvent
    <3>1. PICK m \in Events : lines' = Append(lines, m)
      BY <2>7 DEF SendEvent
    <3>2. UNCHANGED <<step, mode, from, asked, answered>> /\ m = "event"
      BY <2>7, AuthAssumption DEF SendEvent, EventKinds
    <3>3. /\ DOMAIN lines' = 1..(Len(lines) + 1) /\ DOMAIN lines = 1..Len(lines)
          /\ Len(lines) \in Nat
          /\ \A i \in DOMAIN lines : lines'[i] = lines[i]
          /\ lines'[Len(lines) + 1] = m
      BY <3>1, AppendLine
    <3>4. AnswerInv' /\ ChallengeBehind'
      BY <3>2, <3>3 DEF AnswerInv, ChallengeBehind, Sent
    <3>5. NoStackEvent' /\ ReadyMeansAccepted'
      BY <3>2, <3>3 DEF NoStackEvent, ReadyMeansAccepted, Sent
    <3> QED BY <3>4, <3>5
  <2> QED BY <2>1, <2>3, <2>4, <2>5, <2>6, <2>7 DEF Next, Authenticate, Done
<1>3. IInv => ReadyMeansAccepted
  BY DEF IInv
<1>4. CASE "stackEvent" \notin Events
  <2>1. IInv /\ (TypeOK /\ AskedInv)' /\ [Next]_vars => IInv'
    BY <1>2, <1>4
  <2> QED BY <1>1, <1>3, <2>1, TypeCorrect, PTL DEF Spec
<1> QED BY <1>4

-----------------------------------------------------------------------------
LEMMA InStepNext ==
    ASSUME TypeOK, AskedInv, InStep, FailureHasCause, [Next]_vars
    PROVE  InStep' /\ FailureHasCause'
<1>1. CASE Send
  BY <1>1 DEF Send, InStep, FailureHasCause, NoCause, Sent
<1>2. CASE SendFails \/ ReadEnds \/ EofInLine
  BY <1>2 DEF SendFails, EofInLine, ReadEnds, OnError, InStep, FailureHasCause, NoCause, Sent
<1>3. CASE ReadTimeout
  BY <1>3 DEF ReadTimeout, OnError, InStep, FailureHasCause, NoCause, Sent
<1>4. CASE Arrive \/ PeerGone \/ UNCHANGED vars
  BY <1>4 DEF Arrive, PeerGone, vars, InStep, FailureHasCause, NoCause, Sent
<1>5. CASE ReadResponse
  <2>1. PICK n \in LineEnd..arrived : from' = n
    BY <1>5 DEF ReadResponse
  <2>2. mode = "read" /\ Complete /\ Handle(LineRead)
        /\ UNCHANGED <<lines, arrived, asked, answered, peer, timedOut>>
    BY <1>5 DEF ReadResponse
  <2>3. CASE ~NoCause
    <3>1. ~NoCause'
      BY <2>2, <2>3 DEF NoCause, Sent
    <3> QED BY <2>3, <3>1, <2>2 DEF InStep, FailureHasCause, NoCause, Sent
  <2>5. CASE peer # "up"
    BY <2>2, <2>5 DEF InStep, FailureHasCause, NoCause, Sent, TypeOK
  <2>4. CASE NoCause /\ peer = "up"
    <3> DEFINE k == LineEnd \div 2
    <3>1. from = 2 * (step - 1) /\ Len(lines) = answered /\ answered <= step
      BY <2>2, <2>4 DEF InStep, AskedInv, TypeOK
    <3>2. from % 2 = 0 /\ LineEnd = 2 * step /\ k = step
      BY <3>1 DEF LineEnd, TypeOK
    <3>3. arrived <= 2 * step /\ from' = 2 * step
      BY <2>1, <3>1, <3>2 DEF TypeOK
    <3>4. step \in DOMAIN lines /\ LineRead = lines[step]
      BY <2>2, <3>2 DEF LineRead, Complete, TypeOK
    <3>5. lines[step] \in Replies(step)
      BY <2>4, <3>4 DEF InStep
    <3>6. LineRead # "noChallenge" /\ LineRead # "rejected"
      BY <2>4, <3>4 DEF NoCause, Sent
    <3>7. step < 3 => Continues(LineRead)
      BY <3>4, <3>5, <3>6, ReplyKinds DEF Continues, Accepts, TypeOK
    <3>8. mode' # "failed" /\ (mode' = "send" => step' = step + 1) /\ mode' # "read"
      BY <2>2, <3>7, HandleType
    <3> QED BY <2>2, <3>3, <3>8, <2>4 DEF InStep, FailureHasCause, NoCause, Sent, TypeOK
  <2> QED BY <2>2, <2>3, <2>4, <2>5 DEF TypeOK
<1>6. CASE Reply
  <2>1. PICK m \in Replies(answered + 1) : lines' = Append(lines, m)
    BY <1>6 DEF Reply
  <2>2. answered + 1 \in 1..3 /\ answered' = answered + 1
        /\ UNCHANGED <<step, mode, timedOut, from, arrived, asked, peer>>
    BY <1>6 DEF Reply, TypeOK
  <2>3. /\ DOMAIN lines' = 1..(Len(lines) + 1) /\ DOMAIN lines = 1..Len(lines)
        /\ Len(lines) \in Nat
        /\ \A i \in DOMAIN lines : lines'[i] = lines[i]
        /\ lines'[Len(lines) + 1] = m
    BY <2>1, AppendLine
  <2>4. \A x : Sent(x) => Sent(x)'
    BY <2>3 DEF Sent
  <2>5. NoCause' => NoCause
    BY <2>4 DEF NoCause
  <2>6. Len(lines') = Len(lines) + 1
    BY <2>1 DEF TypeOK
  <2>7. InStep'
    BY <2>1, <2>2, <2>3, <2>5, <2>6 DEF InStep
  <2>8. FailureHasCause'
    BY <2>2, <2>4 DEF FailureHasCause
  <2> QED BY <2>7, <2>8
<1>7. CASE SendEvent
  <2>1. PICK m \in Events : lines' = Append(lines, m)
    BY <1>7 DEF SendEvent
  <2>2. /\ DOMAIN lines' = 1..(Len(lines) + 1) /\ DOMAIN lines = 1..Len(lines)
        /\ Len(lines) \in Nat
        /\ \A i \in DOMAIN lines : lines'[i] = lines[i]
        /\ lines'[Len(lines) + 1] = m
    BY <2>1, AppendLine
  <2>3. m \in EventKinds /\ Sent(m)'
    BY <2>2, AuthAssumption DEF Sent
  <2> QED BY <2>3 DEF InStep, FailureHasCause, NoCause
<1> QED BY <1>1, <1>2, <1>3, <1>4, <1>5, <1>6, <1>7 DEF Next, Authenticate, Done

\* A handshake fails only if the telescope refused, was late or gone, or an event
\* came between, however the stream is cut.
THEOREM FailureExplained == Spec => []FailureHasCause
<1>1. Init => InStep /\ FailureHasCause
  <2> SUFFICES ASSUME Init PROVE InStep /\ FailureHasCause
    OBVIOUS
  <2>1. DOMAIN lines = {} /\ Len(lines) = 0
    BY DEF Init
  <2> QED BY <2>1 DEF Init, InStep, FailureHasCause
<1>2. TypeOK /\ AskedInv /\ InStep /\ FailureHasCause /\ [Next]_vars
      => InStep' /\ FailureHasCause'
  BY InStepNext
<1> QED BY <1>1, <1>2, TypeCorrect, PTL DEF Spec
=============================================================================
