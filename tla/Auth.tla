-------------------------------- MODULE Auth --------------------------------
(***************************************************************************)
(* The handshake of scopinator-seestar (auth.rs) on one fresh connection:  *)
(* authenticate asks for a challenge, sends the signed challenge, and asks *)
(* whether it is verified; after each request it reads one line and takes  *)
(* it for the answer, whatever its id.  Module Control has this handshake  *)
(* as its two outcomes, AuthSucceeds and AuthFails.                        *)
(*                                                                         *)
(* The telescope answers the requests in order, or not at all, and sends   *)
(* events in between.  TCP delivers a line in two pieces, a head and a     *)
(* tail, which stand for any way of cutting it.  Every read_response makes *)
(* a BufReader of its own and drops it with what it holds past the line.   *)
(***************************************************************************)
EXTENDS Integers, Sequences

CONSTANTS
    Events,      \* the kinds of events the telescope sends
    MaxEvents    \* bound: events it sends during the handshake

\* "event" has no code field; "stackEvent", a completed frame, has code 0.
EventKinds == {"event", "stackEvent"}

ASSUME AuthAssumption ==
    /\ Events \subseteq EventKinds
    /\ MaxEvents \in Nat

Replies(k) ==
    CASE k = 1 -> {"challenge", "noChallenge"}
      [] k = 2 -> {"accepted", "rejected"}
      [] k = 3 -> {"verified", "unverified"}

LineKinds == EventKinds \union UNION {Replies(k) : k \in 1..3}

VARIABLES
    step,      \* the exchange authenticate is in: 1, 2 or 3
    mode,      \* about to send, reading, or how authenticate ended
    timedOut,  \* history: a read ran into AUTH_TIMEOUT
    from,      \* pieces that reads before this one took from the socket
    lines,     \* the lines the telescope sent
    arrived,   \* pieces that arrived; line i has the pieces 2i-1 and 2i
    asked,     \* requests the telescope received
    answered,  \* requests it answered
    peer       \* the telescope's end of the connection

vars == <<step, mode, timedOut, from, lines, arrived, asked, answered, peer>>

Init ==
    /\ step = 1
    /\ mode = "send"
    /\ timedOut = FALSE
    /\ from = 0
    /\ lines = <<>>
    /\ arrived = 0
    /\ asked = 0
    /\ answered = 0
    /\ peer = "up"

-----------------------------------------------------------------------------
(* authenticate *)

\* An error, or a line that does not help, ends the handshake; in the last exchange
\* it does no harm.
OnError == mode' = IF step = 3 THEN "ready" ELSE "failed"

\* A request written to a connection the telescope closed may get lost.
Send ==
    /\ mode = "send"
    /\ mode' = "read"
    /\ asked' = IF peer = "up" THEN step ELSE asked
    /\ UNCHANGED <<step, timedOut, from, lines, arrived, answered, peer>>

SendFails ==
    /\ mode = "send"
    /\ peer = "gone"
    /\ OnError
    /\ UNCHANGED <<step, timedOut, from, lines, arrived, asked, answered, peer>>

\* check_verify_client: the code, or the result, is 0.  The other answers have
\* code 0 as well.
AcceptsUncoded(m) ==    \* Mutant: a missing code counts as 0
    m \notin {"rejected", "garbage"}

Accepts(m) == m \in {"challenge", "accepted", "verified", "unverified", "stackEvent"}

\* The line is what the first two exchanges need to go on.
Continues(m) == (step = 1 /\ m = "challenge") \/ (step = 2 /\ Accepts(m))

HandleAgain(m) ==       \* Mutant: unverified in the last exchange asks once more
    \/ /\ Continues(m) \/ m = "unverified"
       /\ step' = step + 1
       /\ mode' = "send"
    \/ /\ ~Continues(m)
       /\ OnError
       /\ UNCHANGED step

\* What authenticate does with the line it read.
Handle(m) ==
    \/ /\ Continues(m)
       /\ step' = step + 1
       /\ mode' = "send"
    \/ /\ ~Continues(m)
       /\ OnError
       /\ UNCHANGED step

\* read_line ends at the first tail.  After a head was dropped with an earlier
\* reader, what it reads is no JSON.
LineEnd  == IF from % 2 = 0 THEN from + 2 ELSE from + 1
LineRead == IF from % 2 = 0 THEN lines[LineEnd \div 2] ELSE "garbage"
Complete == LineEnd <= arrived

ReadChunk ==            \* Mutant: one read for one line
    /\ mode = "read"
    /\ from < arrived
    /\ IF Complete THEN Handle(LineRead) ELSE Handle("garbage")
    /\ from' = arrived
    /\ UNCHANGED <<timedOut, lines, arrived, asked, answered, peer>>

\* What the reader holds past the line is dropped: all that has arrived, or less
\* when it does not fit.
ReadResponse ==
    /\ mode = "read"
    /\ Complete
    /\ Handle(LineRead)
    /\ \E n \in LineEnd..arrived : from' = n
    /\ UNCHANGED <<timedOut, lines, arrived, asked, answered, peer>>

\* The stream ends in a line that lacks only its newline: it is read like any other.
EofInLine ==
    /\ mode = "read"
    /\ peer = "gone"
    /\ from % 2 = 0 /\ arrived = from + 1
    /\ Handle(LineRead)
    /\ from' = arrived
    /\ UNCHANGED <<timedOut, lines, arrived, asked, answered, peer>>

\* End of stream before a line or earlier in it, or a read error.
ReadEnds ==
    /\ mode = "read"
    /\ peer = "gone"
    /\ OnError
    /\ UNCHANGED <<step, timedOut, from, lines, arrived, asked, answered, peer>>

TimeoutBeforeLine ==    \* Mutant: no timeout once a line has begun
    /\ mode = "read"
    /\ arrived = from
    /\ OnError
    /\ timedOut' = TRUE
    /\ UNCHANGED <<step, from, lines, arrived, asked, answered, peer>>

\* AUTH_TIMEOUT is for the whole line.
ReadTimeout ==
    /\ mode = "read"
    /\ ~Complete
    /\ OnError
    /\ timedOut' = TRUE
    /\ UNCHANGED <<step, from, lines, arrived, asked, answered, peer>>

-----------------------------------------------------------------------------
(* The telescope and the network *)

Reply ==
    /\ peer = "up"
    /\ answered < asked
    /\ \E m \in Replies(answered + 1) : lines' = Append(lines, m)
    /\ answered' = answered + 1
    /\ UNCHANGED <<step, mode, timedOut, from, arrived, asked, peer>>

SendEvent ==
    /\ peer = "up"
    /\ Len(lines) < answered + MaxEvents
    /\ \E m \in Events : lines' = Append(lines, m)
    /\ UNCHANGED <<step, mode, timedOut, from, arrived, asked, answered, peer>>

Arrive ==
    /\ arrived < 2 * Len(lines)
    /\ arrived' = arrived + 1
    /\ UNCHANGED <<step, mode, timedOut, from, lines, asked, answered, peer>>

PeerGone ==
    /\ peer = "up"
    /\ peer' = "gone"
    /\ UNCHANGED <<step, mode, timedOut, from, lines, arrived, asked, answered>>

-----------------------------------------------------------------------------
Ended == mode \in {"ready", "failed"}

Done == Ended /\ UNCHANGED vars

Authenticate ==
    Send \/ SendFails \/ ReadResponse \/ EofInLine \/ ReadEnds \/ ReadTimeout

Next == Authenticate \/ Reply \/ SendEvent \/ Arrive \/ PeerGone \/ Done

Spec == Init /\ [][Next]_vars

\* The task is polled, and timers run out.  Nothing is assumed of the telescope.
FairSpec == Spec /\ WF_vars(Authenticate)

-----------------------------------------------------------------------------
(* Properties *)

\* Every variable stays in its type; no read goes past what has arrived.
TypeOK ==
    /\ step \in 1..3
    /\ mode \in {"send", "read", "ready", "failed"}
    /\ timedOut \in BOOLEAN
    /\ lines \in Seq(LineKinds)
    /\ arrived \in 0..(2 * Len(lines))
    /\ from \in 0..arrived
    /\ asked \in 0..3
    /\ answered \in 0..asked
    /\ peer \in {"up", "gone"}

Sent(m) == \E i \in DOMAIN lines : lines[i] = m

\* auth.rs: "verify_client already succeeded, so the telescope accepted our key".
\* authenticate gets past verify_client only if the telescope accepted the key on
\* this connection: no other line is taken for its answer.
ReadyMeansAccepted == step = 3 \/ mode = "ready" => Sent("accepted")

\* A handshake fails for a reason: the telescope refused, was late or gone, or an
\* event came between.  How TCP cuts the lines, and what the dropped readers held,
\* never makes it fail.
FailureHasCause ==
    mode = "failed" =>
        \/ peer = "gone" \/ timedOut
        \/ Sent("noChallenge") \/ Sent("rejected")
        \/ \E m \in EventKinds : Sent(m)

\* authenticate returns, with a telescope that is silent, slow or gone too.
HandshakeEnds == <>Ended
=============================================================================
