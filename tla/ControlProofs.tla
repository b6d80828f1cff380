---------------------------- MODULE ControlProofs ----------------------------
(***************************************************************************)
(* Proofs about Control, for any number of callers and connections.        *)
(***************************************************************************)
EXTENDS Control, TLAPS

-----------------------------------------------------------------------------
(* Facts about queues without repetition *)

Distinct(s) == \A i, j \in 1..Len(s) : s[i] = s[j] => i = j

\* The elements of a queue after its head is removed.
LEMMA RangeTail ==
    ASSUME NEW S, NEW s \in Seq(S), s # <<>>
    PROVE  /\ Tail(s) \in Seq(S)
           /\ Head(s) \in S
           /\ Head(s) \in Range(s)
           /\ Range(s) = {Head(s)} \union Range(Tail(s))
<1>1. Len(s) \in Nat /\ Len(s) > 0 /\ Head(s) = s[1] /\ Head(s) \in S
  OBVIOUS
<1>2. /\ Tail(s) \in Seq(S)
      /\ Len(Tail(s)) = Len(s) - 1
      /\ \A i \in 1..(Len(s) - 1) : Tail(s)[i] = s[i + 1]
  BY <1>1
<1>3. \A i \in 1..Len(s) : i = 1 \/ (i - 1 \in 1..Len(Tail(s)) /\ s[i] = Tail(s)[i - 1])
  BY <1>1, <1>2
<1>4. DOMAIN s = 1..Len(s) /\ DOMAIN Tail(s) = 1..Len(Tail(s))
  BY <1>1, <1>2
<1>5. Range(s) \subseteq {Head(s)} \union Range(Tail(s))
  BY <1>1, <1>3, <1>4 DEF Range
<1>6. \A i \in 1..Len(Tail(s)) : i + 1 \in 1..Len(s) /\ Tail(s)[i] = s[i + 1]
  BY <1>1, <1>2
<1>7. {Head(s)} \union Range(Tail(s)) \subseteq Range(s)
  BY <1>1, <1>4, <1>6 DEF Range
<1> QED BY <1>1, <1>2, <1>5, <1>7

\* The elements of a queue after an element is appended.
LEMMA RangeAppend ==
    ASSUME NEW S, NEW s \in Seq(S), NEW x \in S
    PROVE  /\ Append(s, x) \in Seq(S)
           /\ Range(Append(s, x)) = Range(s) \union {x}
<1> DEFINE t == Append(s, x)
<1>1. /\ t \in Seq(S)
      /\ Len(t) = Len(s) + 1
      /\ t[Len(s) + 1] = x
      /\ \A i \in 1..Len(s) : t[i] = s[i]
      /\ Len(s) \in Nat
  OBVIOUS
<1>2. DOMAIN s = 1..Len(s) /\ DOMAIN t = 1..(Len(s) + 1)
  BY <1>1
<1>3. Range(t) \subseteq Range(s) \union {x}
  <2> SUFFICES ASSUME NEW i \in 1..(Len(s) + 1)
               PROVE  t[i] \in Range(s) \union {x}
    BY <1>2 DEF Range
  <2>1. CASE i = Len(s) + 1
    BY <2>1, <1>1
  <2>2. CASE i \in 1..Len(s)
    BY <2>2, <1>1, <1>2 DEF Range
  <2> QED BY <2>1, <2>2, <1>1
<1>4. Range(s) \union {x} \subseteq Range(t)
  <2>1. x \in Range(t)
    BY <1>1, <1>2 DEF Range
  <2>2. ASSUME NEW i \in 1..Len(s)
        PROVE  s[i] \in Range(t)
    <3>1. i \in DOMAIN t /\ t[i] = s[i]
      BY <1>1, <1>2
    <3> QED BY <3>1 DEF Range
  <2> QED BY <2>1, <2>2, <1>2 DEF Range
<1> QED BY <1>1, <1>3, <1>4

\* Removing the head of a queue without repetition.
LEMMA DistinctTail ==
    ASSUME NEW S, NEW s \in Seq(S), s # <<>>, Distinct(s)
    PROVE  Distinct(Tail(s)) /\ Head(s) \notin Range(Tail(s))
<1>1. Len(s) \in Nat /\ Len(s) > 0 /\ Head(s) = s[1]
  OBVIOUS
<1>2. /\ Len(Tail(s)) = Len(s) - 1
      /\ DOMAIN Tail(s) = 1..(Len(s) - 1)
      /\ \A i \in 1..(Len(s) - 1) : Tail(s)[i] = s[i + 1]
  BY <1>1
<1>3. \A i, j \in 1..(Len(s) - 1) : s[i + 1] = s[j + 1] => i = j
  BY <1>1 DEF Distinct
<1>4. Distinct(Tail(s))
  BY <1>1, <1>2, <1>3 DEF Distinct
<1>5. \A i \in 1..(Len(s) - 1) : s[i + 1] # s[1]
  BY <1>1 DEF Distinct
<1> QED BY <1>1, <1>2, <1>4, <1>5 DEF Range

\* Appending a new element to a queue without repetition.
LEMMA DistinctAppend ==
    ASSUME NEW S, NEW s \in Seq(S), Distinct(s), NEW x \in S, x \notin Range(s)
    PROVE  Distinct(Append(s, x))
<1> DEFINE t == Append(s, x)
<1>1. /\ Len(t) = Len(s) + 1
      /\ t[Len(s) + 1] = x
      /\ \A i \in 1..Len(s) : t[i] = s[i]
      /\ Len(s) \in Nat
      /\ DOMAIN s = 1..Len(s)
  OBVIOUS
<1>2. \A i \in 1..Len(s) : t[i] # x
  BY <1>1 DEF Range
<1> SUFFICES ASSUME NEW i \in 1..(Len(s) + 1), NEW j \in 1..(Len(s) + 1), t[i] = t[j]
             PROVE  i = j
  BY <1>1 DEF Distinct
<1>3. CASE i \in 1..Len(s) /\ j \in 1..Len(s)
  BY <1>1, <1>3 DEF Distinct
<1>4. CASE i = Len(s) + 1 \/ j = Len(s) + 1
  BY <1>1, <1>2, <1>4
<1> QED BY <1>1, <1>3, <1>4

-----------------------------------------------------------------------------
(* Type correctness *)

Carrying(k) == writer[k] \in {"took", "write"}

\* A writer between receiving a request and having written it holds a request.
HandsFull == \A k \in Conns : Carrying(k) => hand[k].caller \in Callers

TypeInv == TypeOK /\ HandsFull

LEMMA TypeInit == Init => TypeInv
<1> SUFFICES ASSUME Init PROVE TypeInv
  OBVIOUS
<1> USE ControlAssumption
<1>1. hand \in [Conns -> Hands]
  BY DEF Init, EmptyHand, Hands
<1>2. conn \in 0..MaxConns /\ backoff \in MinBackoff..MaxBackoff
  BY DEF Init
<1>3. queue \in Seq(Callers) /\ lockQ \in Seq(Conns)
  BY DEF Init
<1>4. HandsFull
  BY DEF Init, HandsFull, Carrying
<1>5. /\ call \in [Callers -> Stages]
      /\ answer \in [Callers -> Callers \union {Nobody}]
      /\ reader \in [Conns -> {"off", "reading", "done"}]
      /\ writer \in [Conns -> {"off", "lock", "took", "write", "beat", "done"}]
      /\ peer \in [Conns -> {"off", "up", "gone"}]
      /\ fwOn \in [Conns -> {"unknown"} \union Firmwares]
  BY DEF Init, Stages
<1>6. /\ pending \subseteq Entries /\ lines \subseteq Lines
      /\ nextId \in Nat \ {0}
      /\ run \in {"check", "connecting", "auth", "connected", "sleep", "exited"}
      /\ fw \in {"unknown"} \union Firmwares
  BY DEF Init
<1>7. shutdown \in BOOLEAN
  BY DEF Init
<1> QED BY <1>1, <1>2, <1>3, <1>4, <1>5, <1>6, <1>7 DEF TypeInv, TypeOK

LEMMA TellType ==
    ASSUME TypeOK, NEW E, NEW o \in Stages
    PROVE  Tell(E, o) \in [Callers -> Stages]
BY DEF Tell, TypeOK

LEMMA FlushType ==
    ASSUME TypeInv, FlushAndBackOff
    PROVE  TypeInv'
<1> USE ControlAssumption DEF FlushAndBackOff, TypeInv, netVars, taskVars
<1>1. call' \in [Callers -> Stages]
  BY TellType DEF Stages
<1>2. backoff' \in MinBackoff..MaxBackoff
  BY DEF NextBackoff, TypeOK
<1> QED BY <1>1, <1>2 DEF TypeOK, HandsFull, Carrying

LEMMA EstablishType ==
    ASSUME TypeInv, Establish
    PROVE  TypeInv'
<1> USE ControlAssumption DEF Establish, TypeInv, callVars
<1>1. conn + 1 \in Conns
  BY DEF TypeOK, Conns
<1>2. lockQ' \in Seq(Conns)
  BY <1>1 DEF TypeOK
<1>3. /\ reader' \in [Conns -> {"off", "reading", "done"}]
      /\ writer' \in [Conns -> {"off", "lock", "took", "write", "beat", "done"}]
      /\ peer' \in [Conns -> {"off", "up", "gone"}]
      /\ fwOn' \in [Conns -> {"unknown"} \union Firmwares]
  BY <1>1 DEF TypeOK
<1>4. conn' \in 0..MaxConns /\ backoff' \in MinBackoff..MaxBackoff
  BY DEF TypeOK
<1>5. HandsFull'
  BY <1>1 DEF HandsFull, Carrying, TypeOK
<1> QED BY <1>2, <1>3, <1>4, <1>5 DEF TypeOK

LEMMA TypeNext == TypeInv /\ [Next]_vars => TypeInv'
<1> SUFFICES ASSUME TypeInv, [Next]_vars PROVE TypeInv'
  OBVIOUS
<1> USE DEF TypeInv, callVars, runVars, taskVars, netVars
<1>1. ASSUME NEW c \in Callers, SendCommand(c) PROVE TypeInv'
  BY <1>1 DEF SendCommand, TypeOK, HandsFull, Carrying, Stages
<1>2. ASSUME NEW c \in Callers, Enqueue(c) PROVE TypeInv'
  BY <1>2 DEF Enqueue, TypeOK, HandsFull, Carrying, Stages
<1>3. ASSUME NEW c \in Callers, CallDropped(c) PROVE TypeInv'
  BY <1>3 DEF CallDropped, TypeOK, HandsFull, Carrying, Stages
<1>4. ASSUME NEW c \in Callers, ResponseTimeout(c) PROVE TypeInv'
  BY <1>4 DEF ResponseTimeout, TypeOK, HandsFull, Carrying, Stages
<1>5. CASE Shutdown
  BY <1>5 DEF Shutdown, TypeOK, HandsFull, Carrying
<1>6. CASE RunCheck
  BY <1>6 DEF RunCheck, TypeOK, HandsFull, Carrying
<1>7. CASE Connect
  <2>1. CASE InteropKey
    BY <1>7, <2>1 DEF Connect, TypeOK, HandsFull, Carrying
  <2>2. CASE ~InteropKey
    BY <1>7, <2>2, EstablishType DEF Connect
  <2> QED BY <2>1, <2>2
<1>8. CASE ConnectFails
  BY <1>8, FlushType DEF ConnectFails
<1>9. CASE AuthSucceeds
  BY <1>9, EstablishType DEF AuthSucceeds
<1>10. CASE AuthFails
  BY <1>10, FlushType DEF AuthFails
<1>11. CASE ConnectionLost
  BY <1>11, FlushType DEF ConnectionLost
<1>12. CASE SleepEnds
  BY <1>12 DEF SleepEnds, TypeOK, HandsFull, Carrying
<1>13. ASSUME NEW k \in Conns, TakeRequest(k) PROVE TypeInv'
  <2> USE <1>13 DEF TakeRequest
  <2>1. Head(queue) \in Callers /\ Tail(queue) \in Seq(Callers)
    BY RangeTail DEF TypeOK
  <2>2. Tail(lockQ) \in Seq(Conns)
    BY RangeTail DEF TypeOK, Holds
  <2>3. hand' \in [Conns -> Hands] /\ hand'[k].caller \in Callers
    BY <2>1 DEF TypeOK, Hands, EmptyHand
  <2>4. HandsFull'
    BY <2>3 DEF TypeOK, HandsFull, Carrying
  <2> QED BY <2>1, <2>2, <2>3, <2>4 DEF TypeOK
<1>14. ASSUME NEW k \in Conns, RegisterRequest(k) PROVE TypeInv'
  <2> USE <1>14 DEF RegisterRequest
  <2>1. hand[k].caller \in Callers /\ nextId \in Nat
    BY DEF TypeOK, HandsFull, Carrying
  <2>2. pending' \subseteq Entries /\ nextId' \in Nat \ {0}
    BY <2>1 DEF TypeOK, Entries
  <2>3. hand' \in [Conns -> Hands] /\ hand'[k].caller \in Callers
    BY <2>1 DEF TypeOK, Hands, Verify
  <2>4. HandsFull'
    BY <2>3 DEF TypeOK, HandsFull, Carrying
  <2> QED BY <2>2, <2>3, <2>4 DEF TypeOK
<1>15. ASSUME NEW k \in Conns, WriteOk(k) PROVE TypeInv'
  <2> USE <1>15 DEF WriteOk
  <2>1. hand[k].caller \in Callers /\ hand[k] \in Hands
    BY DEF TypeOK, HandsFull, Carrying
  <2>2. lines' \subseteq Lines
    BY <2>1 DEF TypeOK, Lines, Hands
  <2>3. hand' \in [Conns -> Hands]
    BY DEF TypeOK, Hands, EmptyHand
  <2>4. HandsFull'
    BY DEF TypeOK, HandsFull, Carrying
  <2> QED BY <2>2, <2>3, <2>4 DEF TypeOK
<1>16. ASSUME NEW k \in Conns, WriteFails(k) PROVE TypeInv'
  <2> USE <1>16 DEF WriteFails
  <2>1. call' \in [Callers -> Stages]
    BY TellType DEF Stages
  <2>2. hand' \in [Conns -> Hands]
    BY DEF TypeOK, Hands, EmptyHand
  <2>3. HandsFull'
    BY DEF TypeOK, HandsFull, Carrying
  <2> QED BY <2>1, <2>2, <2>3 DEF TypeOK
<1>17. ASSUME NEW k \in Conns, TakeHeartbeat(k) PROVE TypeInv'
  <2>1. Tail(lockQ) \in Seq(Conns)
    BY <1>17, RangeTail DEF TakeHeartbeat, TypeOK, Holds
  <2> QED BY <1>17, <2>1 DEF TakeHeartbeat, TypeOK, HandsFull, Carrying
<1>18. ASSUME NEW k \in Conns, HeartbeatOk(k) PROVE TypeInv'
  BY <1>18 DEF HeartbeatOk, TypeOK, HandsFull, Carrying
<1>19. ASSUME NEW k \in Conns, HeartbeatFails(k) PROVE TypeInv'
  BY <1>19 DEF HeartbeatFails, TypeOK, HandsFull, Carrying
<1>20. ASSUME NEW k \in Conns, WriterExits(k) PROVE TypeInv'
  <2>1. Tail(lockQ) \in Seq(Conns)
    BY <1>20, RangeTail DEF WriterExits, TypeOK, Holds
  <2> QED BY <1>20, <2>1 DEF WriterExits, TypeOK, HandsFull, Carrying
<1>21. ASSUME NEW k \in Conns, HandleResponse(k) PROVE TypeInv'
  <2> USE <1>21 DEF HandleResponse
  <2>1. PICK l \in lines : /\ fw' = FirmwareReported(l)
                           /\ call' = Tell(Entry(l.id), "ok")
                           /\ answer' = [c \in Callers |-> IF call'[c] # call[c]
                                                           THEN l.caller ELSE answer[c]]
    OBVIOUS
  <2>2. l \in Lines
    BY DEF TypeOK
  <2>3. call' \in [Callers -> Stages]
    BY <2>1, TellType DEF Stages
  <2>4. fw' \in {"unknown"} \union Firmwares
    BY <2>1, <2>2 DEF FirmwareReported, TypeOK, Lines
  <2>5. answer' \in [Callers -> Callers \union {Nobody}]
    BY <2>1, <2>2 DEF TypeOK, Lines
  <2> QED BY <2>3, <2>4, <2>5 DEF TypeOK, HandsFull, Carrying
<1>22. ASSUME NEW k \in Conns, RejectResponse(k) PROVE TypeInv'
  <2>1. fw' \in {"unknown"} \union Firmwares
    BY <1>22 DEF RejectResponse, FirmwareReported, TypeOK, Lines
  <2> QED BY <1>22, <2>1 DEF RejectResponse, TypeOK, HandsFull, Carrying
<1>23. ASSUME NEW k \in Conns, ReaderEof(k) PROVE TypeInv'
  BY <1>23 DEF ReaderEof, TypeOK, HandsFull, Carrying
<1>24. ASSUME NEW k \in Conns, ReaderGivesUp(k) PROVE TypeInv'
  BY <1>24 DEF ReaderGivesUp, TypeOK, HandsFull, Carrying
<1>25. ASSUME NEW k \in Conns, PeerGone(k) PROVE TypeInv'
  BY <1>25 DEF PeerGone, TypeOK, HandsFull, Carrying
<1>26. CASE UNCHANGED vars
  BY <1>26 DEF vars, TypeOK, HandsFull, Carrying
<1> QED
  BY <1>1, <1>2, <1>3, <1>4, <1>5, <1>6, <1>7, <1>8, <1>9, <1>10, <1>11, <1>12, <1>13, <1>14,
     <1>15, <1>16, <1>17, <1>18, <1>19, <1>20, <1>21, <1>22, <1>23, <1>24, <1>25, <1>26
     DEF Next, Caller, Run, Writer, Reader, Finished

\* In every reachable state every variable has its type, whatever the number of
\* callers and connections and the capacity of the channel.
THEOREM TypeCorrect == Spec => []TypeOK
<1>1. TypeInv => TypeOK
  BY DEF TypeInv
<1> QED BY TypeInit, TypeNext, <1>1, PTL DEF Spec

-----------------------------------------------------------------------------
(* The steps that matter to the invariants below *)

\* A step is one of the actions named here, or leaves alone every variable the
\* invariants speak of.
LEMMA Step ==
    ASSUME [Next]_vars
    PROVE  \/ \E c \in Callers : SendCommand(c) \/ Enqueue(c) \/ CallDropped(c)
                                   \/ ResponseTimeout(c)
           \/ Establish
           \/ FlushAndBackOff
           \/ \E k \in Conns : \/ TakeRequest(k) \/ RegisterRequest(k)
                               \/ WriteOk(k) \/ WriteFails(k)
                               \/ TakeHeartbeat(k) \/ HeartbeatOk(k) \/ HeartbeatFails(k)
                               \/ WriterExits(k) \/ HandleResponse(k) \/ RejectResponse(k)
           \/ UNCHANGED <<call, answer, queue, pending, nextId, conn, writer, hand, lockQ,
                          lines, fw, fwOn>>
<1> USE DEF callVars, runVars, taskVars, netVars
<1>1. CASE \E c \in Callers : Caller(c)
  BY <1>1 DEF Caller
<1>2. CASE Shutdown
  BY <1>2 DEF Shutdown
<1>3. CASE Run
  BY <1>3 DEF Run, RunCheck, Connect, ConnectFails, AuthSucceeds, AuthFails, ConnectionLost,
              SleepEnds
<1>4. CASE \E k \in Conns : Writer(k) \/ Reader(k) \/ PeerGone(k)
  BY <1>4 DEF Writer, Reader, ReaderEof, ReaderGivesUp, PeerGone
<1>5. CASE Finished \/ UNCHANGED vars
  BY <1>5 DEF Finished, vars
<1> QED BY <1>1, <1>2, <1>3, <1>4, <1>5 DEF Next

-----------------------------------------------------------------------------
(* The receiver lock *)

\* The lock belongs to, and is waited for by, writers at the top of their loop,
\* each once.  Writers of connections not yet established do not exist.
LockInv ==
    /\ Distinct(lockQ)
    /\ \A k \in Range(lockQ) : writer[k] = "lock"
    /\ \A k \in Conns : k > conn => writer[k] = "off"

LEMMA LockRelease ==
    ASSUME TypeOK, LockInv, NEW k \in Conns, Holds(k), lockQ' = Tail(lockQ),
           NEW w, w # "off", writer' = [writer EXCEPT ![k] = w], conn' = conn
    PROVE  LockInv' /\ writer[k] = "lock"
<1>1. lockQ \in Seq(Conns) /\ lockQ # <<>> /\ Head(lockQ) = k
  BY DEF Holds, TypeOK
<1>2. /\ Distinct(lockQ') /\ k \notin Range(lockQ')
      /\ Range(lockQ') \subseteq Range(lockQ) /\ k \in Range(lockQ)
  BY <1>1, RangeTail, DistinctTail DEF LockInv
<1>3. writer[k] = "lock"
  BY <1>2 DEF LockInv
<1>4. Range(lockQ) \subseteq Conns
  BY <1>1 DEF Range
<1> QED BY <1>2, <1>3, <1>4 DEF LockInv, TypeOK

LEMMA LockRequest ==
    ASSUME TypeOK, LockInv, NEW k \in Conns, writer[k] # "lock", k <= conn',
           conn' \in Nat, conn <= conn',
           lockQ' = Append(lockQ, k), writer' = [writer EXCEPT ![k] = "lock"]
    PROVE  LockInv'
<1>1. lockQ \in Seq(Conns) /\ k \notin Range(lockQ)
  BY DEF LockInv, TypeOK
<1>2. Distinct(lockQ') /\ Range(lockQ') = Range(lockQ) \union {k}
  BY <1>1, RangeAppend, DistinctAppend DEF LockInv
<1>3. Range(lockQ) \subseteq Conns
  BY <1>1 DEF Range
<1>4. \A j \in Conns : j > conn' => j > conn /\ j # k
  BY DEF TypeOK, Conns
<1> QED BY <1>2, <1>3, <1>4 DEF LockInv, TypeOK

LEMMA LockNext == TypeInv /\ LockInv /\ [Next]_vars => LockInv'
<1> SUFFICES ASSUME TypeInv, LockInv, [Next]_vars PROVE LockInv'
  OBVIOUS
<1> USE DEF TypeInv, callVars, runVars, taskVars, netVars
<1>1. ASSUME UNCHANGED <<lockQ, writer, conn>> PROVE LockInv'
  BY <1>1 DEF LockInv
<1>2. CASE Establish
  <2>1. conn \in Nat /\ conn + 1 \in Conns
    BY <1>2, ControlAssumption DEF Establish, TypeOK, Conns
  <2>2. writer[conn + 1] # "lock"
    BY <2>1 DEF LockInv
  <2>3. conn' \in Nat /\ conn <= conn' /\ conn + 1 <= conn'
    BY <1>2, <2>1 DEF Establish
  <2>4. lockQ' = Append(lockQ, conn + 1) /\ writer' = [writer EXCEPT ![conn + 1] = "lock"]
    BY <1>2 DEF Establish
  <2> QED BY <2>1, <2>2, <2>3, <2>4, LockRequest
<1>3. ASSUME NEW k \in Conns,
             TakeRequest(k) \/ TakeHeartbeat(k) \/ WriterExits(k)
      PROVE  LockInv'
  BY <1>3, LockRelease DEF TakeRequest, TakeHeartbeat, WriterExits
<1>4. ASSUME NEW k \in Conns, WriteOk(k) \/ HeartbeatOk(k) PROVE LockInv'
  <2>1. conn \in Nat /\ k \in Nat /\ k <= conn
    BY <1>4 DEF WriteOk, HeartbeatOk, LockInv, TypeOK, Conns
  <2> QED BY <1>4, <2>1, LockRequest DEF WriteOk, HeartbeatOk
<1>5. ASSUME NEW k \in Conns, NEW w, w # "off", writer[k] \notin {"lock", "off"},
             writer' = [writer EXCEPT ![k] = w], UNCHANGED <<lockQ, conn>>
      PROVE  LockInv'
  <2>1. Range(lockQ) \subseteq Conns
    BY DEF TypeOK, Range
  <2> QED BY <1>5, <2>1 DEF LockInv, TypeOK
<1>6. ASSUME NEW k \in Conns, RegisterRequest(k) \/ WriteFails(k) \/ HeartbeatFails(k)
      PROVE  LockInv'
  BY <1>5, <1>6 DEF RegisterRequest, WriteFails, HeartbeatFails
<1>7. ASSUME NEW c \in Callers,
             SendCommand(c) \/ Enqueue(c) \/ CallDropped(c) \/ ResponseTimeout(c)
      PROVE  LockInv'
  BY <1>1, <1>7 DEF SendCommand, Enqueue, CallDropped, ResponseTimeout
<1>8. CASE FlushAndBackOff
  BY <1>1, <1>8 DEF FlushAndBackOff
<1>9. ASSUME NEW k \in Conns, HandleResponse(k) \/ RejectResponse(k) PROVE LockInv'
  BY <1>1, <1>9 DEF HandleResponse, RejectResponse
<1> QED BY Step, <1>1, <1>2, <1>3, <1>4, <1>6, <1>7, <1>8, <1>9

-----------------------------------------------------------------------------
(* Request ids and the calls they stand for *)

\* Ids in use are below the next one, and an id stands for one call wherever it
\* occurs: in the registry, on the wire, in the hand of a writer.
IdInv ==
    /\ \A e \in pending : e.id < nextId
    /\ \A l \in lines : l.id < nextId
    /\ \A k \in Conns : hand[k].id < nextId
    /\ \A e, f \in pending : e.id = f.id => e.caller = f.caller
    /\ \A e \in pending, l \in lines : e.id = l.id => e.caller = l.caller
    /\ \A e \in pending, k \in Conns :
         writer[k] = "write" /\ hand[k].id = e.id => hand[k].caller = e.caller

LEMMA IdNext == TypeInv /\ IdInv /\ [Next]_vars => IdInv'
<1> SUFFICES ASSUME TypeInv, IdInv, [Next]_vars PROVE IdInv'
  OBVIOUS
<1> USE DEF TypeInv, callVars, runVars, taskVars, netVars
<1>1. ASSUME pending' \subseteq pending, UNCHANGED <<nextId, lines, hand>>,
             \A k \in Conns : writer'[k] = "write" => writer[k] = "write"
      PROVE  IdInv'
  BY <1>1 DEF IdInv
<1>2. ASSUME NEW c \in Callers,
             SendCommand(c) \/ Enqueue(c) \/ CallDropped(c) \/ ResponseTimeout(c)
      PROVE  IdInv'
  BY <1>1, <1>2 DEF SendCommand, Enqueue, CallDropped, ResponseTimeout
<1>3. CASE Establish
  <2>1. \A k \in Conns : writer'[k] = "write" => writer[k] = "write"
    BY <1>3 DEF Establish, TypeOK
  <2> QED BY <1>1, <1>3, <2>1 DEF Establish
<1>4. CASE FlushAndBackOff
  BY <1>1, <1>4 DEF FlushAndBackOff
<1>5. ASSUME NEW k \in Conns, TakeRequest(k) PROVE IdInv'
  <2>1. nextId \in Nat /\ 0 < nextId
    BY DEF TypeOK
  <2>2. \A j \in Conns : /\ hand'[j].id = IF j = k THEN 0 ELSE hand[j].id
                         /\ writer'[j] = "write" => writer[j] = "write" /\ j # k
    BY <1>5 DEF TakeRequest, TypeOK
  <2>3. \A j \in Conns : j # k => hand'[j] = hand[j]
    BY <1>5 DEF TakeRequest, TypeOK
  <2> QED BY <1>5, <2>1, <2>2, <2>3 DEF TakeRequest, IdInv
<1>6. ASSUME NEW k \in Conns, RegisterRequest(k) PROVE IdInv'
  <2> DEFINE new == [id |-> nextId, caller |-> hand[k].caller]
  <2>1. /\ nextId \in Nat /\ nextId' = nextId + 1
        /\ pending' = pending \union {new}
        /\ lines' = lines
    BY <1>6 DEF RegisterRequest, TypeOK
  <2>2. /\ \A e \in pending : e.id \in Nat
        /\ \A l \in lines : l.id \in Nat
        /\ \A j \in Conns : hand[j].id \in Nat
    BY DEF TypeOK, Entries, Lines, Hands
  <2>3. hand'[k].id = nextId /\ hand'[k].caller = hand[k].caller
    BY <1>6 DEF RegisterRequest, TypeOK
  <2>4. \A j \in Conns : j # k => hand'[j] = hand[j] /\ writer'[j] = writer[j]
    BY <1>6 DEF RegisterRequest, TypeOK
  <2>5. /\ \A e \in pending' : e.id < nextId'
        /\ \A l \in lines' : l.id < nextId'
    BY <2>1, <2>2 DEF IdInv
  <2>6. \A j \in Conns : hand'[j].id < nextId'
    BY <2>1, <2>2, <2>3, <2>4 DEF IdInv
  <2>7. \A e, f \in pending' : e.id = f.id => e.caller = f.caller
    BY <2>1, <2>2 DEF IdInv
  <2>8. \A e \in pending', l \in lines' : e.id = l.id => e.caller = l.caller
    BY <2>1, <2>2 DEF IdInv
  <2>9. ASSUME NEW e \in pending', NEW j \in Conns, writer'[j] = "write",
               hand'[j].id = e.id
        PROVE  hand'[j].caller = e.caller
    BY <2>1, <2>2, <2>3, <2>4, <2>9 DEF IdInv
  <2> QED BY <2>5, <2>6, <2>7, <2>8, <2>9 DEF IdInv
<1>7. ASSUME NEW k \in Conns, WriteOk(k) PROVE IdInv'
  <2>1. nextId \in Nat /\ 0 < nextId
    BY DEF TypeOK
  <2>2. \A j \in Conns : /\ hand'[j].id = IF j = k THEN 0 ELSE hand[j].id
                         /\ writer'[j] = "write" => writer[j] = "write" /\ j # k
                         /\ j # k => hand'[j] = hand[j]
    BY <1>7 DEF WriteOk, EmptyHand, TypeOK
  <2>3. \A l \in lines' : \/ l \in lines
                          \/ l.id = hand[k].id /\ l.caller = hand[k].caller
    BY <1>7 DEF WriteOk
  <2>4. writer[k] = "write" /\ UNCHANGED <<pending, nextId>>
    BY <1>7 DEF WriteOk
  <2> QED BY <2>1, <2>2, <2>3, <2>4 DEF IdInv
<1>8. ASSUME NEW k \in Conns, WriteFails(k) PROVE IdInv'
  <2>1. nextId \in Nat /\ 0 < nextId
    BY DEF TypeOK
  <2>2. \A j \in Conns : /\ hand'[j].id = IF j = k THEN 0 ELSE hand[j].id
                         /\ writer'[j] = "write" => writer[j] = "write" /\ j # k
                         /\ j # k => hand'[j] = hand[j]
    BY <1>8 DEF WriteFails, EmptyHand, TypeOK
  <2>3. pending' \subseteq pending /\ UNCHANGED <<lines, nextId>>
    BY <1>8 DEF WriteFails
  <2> QED BY <2>1, <2>2, <2>3 DEF IdInv
<1>9. ASSUME NEW k \in Conns,
             TakeHeartbeat(k) \/ HeartbeatOk(k) \/ HeartbeatFails(k) \/ WriterExits(k)
      PROVE  IdInv'
  <2>1. \A j \in Conns : writer'[j] = "write" => writer[j] = "write"
    BY <1>9 DEF TakeHeartbeat, HeartbeatOk, HeartbeatFails, WriterExits, TypeOK
  <2> QED BY <1>1, <1>9, <2>1 DEF TakeHeartbeat, HeartbeatOk, HeartbeatFails, WriterExits
<1>10. ASSUME NEW k \in Conns, HandleResponse(k) \/ RejectResponse(k) PROVE IdInv'
  BY <1>1, <1>10 DEF HandleResponse, RejectResponse
<1>11. ASSUME UNCHANGED <<pending, nextId, writer, hand, lines>> PROVE IdInv'
  BY <1>1, <1>11
<1> QED BY Step, <1>2, <1>3, <1>4, <1>5, <1>6, <1>7, <1>8, <1>9, <1>10, <1>11

\* A delivered response answers the call it is delivered to, because the entry
\* taken for its id was registered for the call that the id stands for.
LEMMA CrosstalkNext == TypeInv /\ IdInv /\ NoCrosstalk /\ [Next]_vars => NoCrosstalk'
<1> SUFFICES ASSUME TypeInv, IdInv, NoCrosstalk, [Next]_vars PROVE NoCrosstalk'
  OBVIOUS
<1> USE DEF TypeInv, callVars, runVars, taskVars, netVars
<1>1. ASSUME \A c \in Callers : call'[c] = "ok" => call[c] = "ok", UNCHANGED answer
      PROVE  NoCrosstalk'
  BY <1>1 DEF NoCrosstalk
<1>2. ASSUME NEW c \in Callers,
             SendCommand(c) \/ Enqueue(c) \/ CallDropped(c) \/ ResponseTimeout(c)
      PROVE  NoCrosstalk'
  <2>1. \A d \in Callers : call'[d] = "ok" => call[d] = "ok"
    BY <1>2 DEF SendCommand, Enqueue, CallDropped, ResponseTimeout, TypeOK
  <2> QED BY <1>1, <1>2, <2>1 DEF SendCommand, Enqueue, CallDropped, ResponseTimeout
<1>3. ASSUME NEW E, call' = Tell(E, "disconnected"), UNCHANGED answer PROVE NoCrosstalk'
  BY <1>1, <1>3 DEF Tell
<1>4. ASSUME NEW k \in Conns, HandleResponse(k) PROVE NoCrosstalk'
  <2>1. PICK l \in lines : /\ call' = Tell(Entry(l.id), "ok")
                           /\ answer' = [c \in Callers |-> IF call'[c] # call[c]
                                                           THEN l.caller ELSE answer[c]]
    BY <1>4 DEF HandleResponse
  <2>2. \A e \in Entry(l.id) : e.caller = l.caller
    BY DEF Entry, IdInv
  <2>3. ASSUME NEW c \in Callers, call'[c] = "ok" PROVE answer'[c] = c
    <3>1. CASE call'[c] # call[c]
      BY <2>1, <2>2, <3>1 DEF Tell
    <3>2. CASE call'[c] = call[c]
      BY <2>1, <2>3, <3>2 DEF NoCrosstalk
    <3> QED BY <3>1, <3>2
  <2> QED BY <2>3 DEF NoCrosstalk
<1>5. ASSUME UNCHANGED <<call, answer>> PROVE NoCrosstalk'
  BY <1>1, <1>5
<1> QED
  BY Step, <1>2, <1>3, <1>4, <1>5
     DEF Establish, FlushAndBackOff, TakeRequest, RegisterRequest, WriteOk, WriteFails,
         TakeHeartbeat, HeartbeatOk, HeartbeatFails, WriterExits, RejectResponse

-----------------------------------------------------------------------------
(* The one place where the command of a call is *)

Held(c) == \E k \in Conns : Carrying(k) /\ hand[k].caller = c
Sent(c) == \E l \in lines : l.caller = c

\* The command of a call is in the channel, or in the hand of one writer, or was
\* received by the telescope over one connection under one id; a call that has
\* not got its request into the channel has its command nowhere.
PlaceInv ==
    /\ Distinct(queue)
    /\ \A c \in Range(queue) : ~Held(c) /\ ~Sent(c)
    /\ \A j, k \in Conns :
         Carrying(j) /\ Carrying(k) /\ hand[j].caller = hand[k].caller => j = k
    /\ \A c \in Callers : Held(c) => ~Sent(c)
    /\ AtMostOnceOnWire
    /\ \A c \in Callers :
         call[c] \in {"idle", "sending"} => c \notin Range(queue) /\ ~Held(c) /\ ~Sent(c)

LEMMA PlaceNext == TypeInv /\ LockInv /\ PlaceInv /\ [Next]_vars => PlaceInv'
<1> SUFFICES ASSUME TypeInv, LockInv, PlaceInv, [Next]_vars PROVE PlaceInv'
  OBVIOUS
<1> USE DEF TypeInv, callVars, runVars, taskVars, netVars
<1>0. Range(queue) \subseteq Callers
  BY DEF TypeOK, Range
<1>1. ASSUME UNCHANGED <<queue, lines>>,
             \A k \in Conns : Carrying(k)' => Carrying(k) /\ hand'[k] = hand[k],
             \A c \in Callers : call'[c] \in {"idle", "sending"} => call[c] \in {"idle", "sending"}
      PROVE  PlaceInv'
  <2>1. \A c \in Callers : Held(c)' => Held(c)
    BY <1>1 DEF Held
  <2>2. \A c : Sent(c)' <=> Sent(c)
    BY <1>1 DEF Sent
  <2>3. AtMostOnceOnWire' /\ Distinct(queue)'
    BY <1>1 DEF AtMostOnceOnWire, PlaceInv
  <2>4. \A j, k \in Conns :
          (Carrying(j) /\ Carrying(k) /\ hand[j].caller = hand[k].caller)' => j = k
    BY <1>1 DEF PlaceInv
  <2>5. Range(queue)' = Range(queue)
    BY <1>1
  <2> QED BY <1>0, <1>1, <2>1, <2>2, <2>3, <2>4, <2>5 DEF PlaceInv
<1>2. ASSUME NEW c \in Callers, SendCommand(c) \/ CallDropped(c) \/ ResponseTimeout(c)
      PROVE  PlaceInv'
  <2>1. \A d \in Callers : call'[d] \in {"idle", "sending"} => call[d] \in {"idle", "sending"}
    BY <1>2 DEF SendCommand, CallDropped, ResponseTimeout, TypeOK
  <2> QED BY <1>1, <1>2, <2>1 DEF SendCommand, CallDropped, ResponseTimeout, Carrying
<1>3. ASSUME NEW c \in Callers, Enqueue(c) PROVE PlaceInv'
  <2>1. call[c] = "sending" /\ c \notin Range(queue) /\ ~Held(c) /\ ~Sent(c)
    BY <1>3 DEF Enqueue, PlaceInv
  <2>2. Distinct(queue)' /\ Range(queue)' = Range(queue) \union {c}
    BY <1>3, <2>1, DistinctAppend, RangeAppend DEF Enqueue, TypeOK, PlaceInv
  <2>3. \A d : (Held(d)' <=> Held(d)) /\ (Sent(d)' <=> Sent(d))
    BY <1>3 DEF Enqueue, Held, Sent, Carrying
  <2>4. AtMostOnceOnWire'
    BY <1>3 DEF Enqueue, AtMostOnceOnWire, PlaceInv
  <2>5. \A d \in Callers : call'[d] \in {"idle", "sending"} =>
                             d # c /\ call[d] \in {"idle", "sending"}
    BY <1>3 DEF Enqueue, TypeOK
  <2>6. \A j, k \in Conns :
          (Carrying(j) /\ Carrying(k) /\ hand[j].caller = hand[k].caller)' => j = k
    BY <1>3 DEF Enqueue, Carrying, PlaceInv
  <2> QED BY <2>1, <2>2, <2>3, <2>4, <2>5, <2>6 DEF PlaceInv
<1>4. ASSUME NEW E, NEW o \in Resolved, call' = Tell(E, o), UNCHANGED <<queue, lines>>,
             \A k \in Conns : Carrying(k)' => Carrying(k) /\ hand'[k] = hand[k]
      PROVE  PlaceInv'
  <2>1. \A d \in Callers : call'[d] \in {"idle", "sending"} => call[d] \in {"idle", "sending"}
    BY <1>4 DEF Tell, Resolved
  <2> QED BY <1>1, <1>4, <2>1
<1>5. CASE Establish
  <2>1. \A k \in Conns : Carrying(k)' => Carrying(k) /\ hand'[k] = hand[k]
    BY <1>5 DEF Establish, TypeOK, Carrying
  <2> QED BY <1>1, <1>5, <2>1 DEF Establish
<1>6. CASE FlushAndBackOff
  BY <1>4, <1>6 DEF FlushAndBackOff, Carrying, Resolved
<1>7. ASSUME NEW k \in Conns, TakeRequest(k) PROVE PlaceInv'
  <2> DEFINE c == Head(queue)
  <2>1. /\ c \in Callers
        /\ c \in Range(queue) /\ Range(queue)' \subseteq Range(queue)
        /\ Distinct(queue)' /\ c \notin Range(queue)'
    BY <1>7, RangeTail, DistinctTail DEF TakeRequest, TypeOK, PlaceInv
  <2>2. ~Held(c) /\ ~Sent(c)
    BY <2>1 DEF PlaceInv
  <2>3. \A j \in Conns : Carrying(j)' => \/ j = k /\ hand'[j].caller = c
                                         \/ j # k /\ Carrying(j) /\ hand'[j] = hand[j]
    BY <1>7 DEF TakeRequest, TypeOK, Carrying
  <2>4. \A d \in Callers : Held(d)' => d = c \/ Held(d)
    BY <2>3 DEF Held
  <2>5. \A d : Sent(d)' <=> Sent(d)
    BY <1>7 DEF TakeRequest, Sent
  <2>6. AtMostOnceOnWire'
    BY <1>7 DEF TakeRequest, AtMostOnceOnWire, PlaceInv
  <2>7. \A i, j \in Conns :
          (Carrying(i) /\ Carrying(j) /\ hand[i].caller = hand[j].caller)' => i = j
    BY <2>2, <2>3 DEF Held, PlaceInv
  <2>8. \A d \in Range(queue)' : ~Held(d)' /\ ~Sent(d)'
    BY <1>0, <2>1, <2>4, <2>5 DEF PlaceInv
  <2>9. \A d \in Callers : call'[d] \in {"idle", "sending"} =>
                             d # c /\ d \notin Range(queue)' /\ ~Held(d)' /\ ~Sent(d)'
    BY <1>7, <2>1, <2>4, <2>5 DEF TakeRequest, PlaceInv
  <2>10. \A d \in Callers : Held(d)' => ~Sent(d)'
    BY <2>2, <2>4, <2>5 DEF PlaceInv
  <2> QED BY <2>1, <2>6, <2>7, <2>8, <2>9, <2>10 DEF PlaceInv
<1>8. ASSUME NEW k \in Conns, RegisterRequest(k) PROVE PlaceInv'
  <2>1. \A j \in Conns : (Carrying(j)' <=> Carrying(j)) /\ hand'[j].caller = hand[j].caller
    BY <1>8 DEF RegisterRequest, TypeOK, Carrying
  <2>2. \A d : (Held(d)' <=> Held(d)) /\ (Sent(d)' <=> Sent(d))
    BY <1>8, <2>1 DEF RegisterRequest, Held, Sent
  <2>3. AtMostOnceOnWire'
    BY <1>8 DEF RegisterRequest, AtMostOnceOnWire, PlaceInv
  <2>4. UNCHANGED <<queue, call>>
    BY <1>8 DEF RegisterRequest
  <2>5. Range(queue)' = Range(queue) /\ Distinct(queue)'
    BY <2>4 DEF PlaceInv
  <2>6. \A i, j \in Conns :
          (Carrying(i) /\ Carrying(j) /\ hand[i].caller = hand[j].caller)' => i = j
    BY <2>1 DEF PlaceInv
  <2> QED BY <2>2, <2>3, <2>4, <2>5, <2>6 DEF PlaceInv
<1>9. ASSUME NEW k \in Conns, WriteOk(k) PROVE PlaceInv'
  <2> DEFINE c == hand[k].caller
  <2>1. Carrying(k) /\ c \in Callers /\ Held(c) /\ ~Sent(c)
    BY <1>9 DEF WriteOk, Carrying, Held, HandsFull, PlaceInv
  <2>2. \A j \in Conns : Carrying(j)' => j # k /\ Carrying(j) /\ hand'[j] = hand[j]
    BY <1>9 DEF WriteOk, TypeOK, Carrying
  <2>3. \A d : Held(d)' => Held(d) /\ d # c
    BY <2>1, <2>2 DEF Held, PlaceInv
  <2>4. PICK l : /\ l.caller = c
                 /\ lines' = lines \/ lines' = lines \union {l}
    BY <1>9 DEF WriteOk
  <2>5. \A d : Sent(d)' => Sent(d) \/ d = c
    BY <2>4 DEF Sent
  <2>6. AtMostOnceOnWire'
    BY <2>1, <2>4 DEF AtMostOnceOnWire, PlaceInv, Sent
  <2>7. UNCHANGED <<queue, call>>
    BY <1>9 DEF WriteOk
  <2>8. Range(queue)' = Range(queue) /\ Distinct(queue)' /\ c \notin Range(queue)
    BY <2>1, <2>7 DEF PlaceInv
  <2>9. \A i, j \in Conns :
          (Carrying(i) /\ Carrying(j) /\ hand[i].caller = hand[j].caller)' => i = j
    BY <2>2 DEF PlaceInv
  <2>10. call[c] \notin {"idle", "sending"}
    BY <2>1 DEF PlaceInv
  <2>11. \A d \in Callers : Held(d)' => ~Sent(d)'
    BY <2>3, <2>5 DEF PlaceInv
  <2>12. \A d \in Range(queue)' : ~Held(d)' /\ ~Sent(d)'
    BY <2>3, <2>5, <2>8 DEF PlaceInv
  <2>13. \A d \in Callers : call'[d] \in {"idle", "sending"} =>
                             d \notin Range(queue)' /\ ~Held(d)' /\ ~Sent(d)'
    BY <2>3, <2>5, <2>7, <2>8, <2>10 DEF PlaceInv
  <2> QED BY <2>6, <2>8, <2>9, <2>11, <2>12, <2>13 DEF PlaceInv
<1>10. ASSUME NEW k \in Conns, WriteFails(k) PROVE PlaceInv'
  <2>1. \A j \in Conns : Carrying(j)' => Carrying(j) /\ hand'[j] = hand[j]
    BY <1>10 DEF WriteFails, TypeOK, Carrying
  <2> QED BY <1>4, <1>10, <2>1 DEF WriteFails, Resolved
<1>11. ASSUME NEW k \in Conns,
              TakeHeartbeat(k) \/ HeartbeatOk(k) \/ HeartbeatFails(k) \/ WriterExits(k)
       PROVE  PlaceInv'
  <2>1. \A j \in Conns : Carrying(j)' => Carrying(j) /\ hand'[j] = hand[j]
    BY <1>11 DEF TakeHeartbeat, HeartbeatOk, HeartbeatFails, WriterExits, TypeOK, Carrying
  <2> QED BY <1>1, <1>11, <2>1 DEF TakeHeartbeat, HeartbeatOk, HeartbeatFails, WriterExits
<1>12. ASSUME NEW k \in Conns, HandleResponse(k) PROVE PlaceInv'
  BY <1>4, <1>12 DEF HandleResponse, Carrying, Resolved
<1>13. ASSUME UNCHANGED <<call, queue, writer, hand, lines>> PROVE PlaceInv'
  BY <1>1, <1>13 DEF Carrying
<1> QED
  BY Step, <1>2, <1>3, <1>5, <1>6, <1>7, <1>8, <1>9, <1>10, <1>11, <1>12, <1>13
     DEF RejectResponse

-----------------------------------------------------------------------------
(* Nobody drops the sender of a call that waits *)

InHand(c)     == \E k \in Conns : writer[k] = "took" /\ hand[k].caller = c
Registered(c) == \E e \in pending : e.caller = c

LEMMA LostNext == TypeInv /\ LockInv /\ NoLostCall /\ [Next]_vars => NoLostCall'
<1> SUFFICES ASSUME TypeInv, LockInv, NoLostCall, [Next]_vars PROVE NoLostCall'
  OBVIOUS
<1> USE DEF TypeInv, callVars, runVars, taskVars, netVars
<1>0. \A c \in Callers : call[c] = "waiting" => c \in Range(queue) \/ InHand(c) \/ Registered(c)
  BY DEF NoLostCall, InHand, Registered
<1>1. SUFFICES ASSUME NEW c \in Callers, call'[c] = "waiting"
               PROVE  c \in Range(queue)' \/ InHand(c)' \/ Registered(c)'
  BY DEF NoLostCall, InHand, Registered
<1>2. ASSUME call[c] = "waiting", UNCHANGED <<queue, pending>>,
             \A k \in Conns : writer[k] = "took" => writer'[k] = "took" /\ hand'[k] = hand[k]
      PROVE  c \in Range(queue)' \/ InHand(c)' \/ Registered(c)'
  BY <1>0, <1>2 DEF InHand, Registered
<1>3. ASSUME NEW E, NEW o \in Resolved, call' = Tell(E, o), pending' = pending \ E,
             UNCHANGED queue,
             \A k \in Conns : writer[k] = "took" => writer'[k] = "took" /\ hand'[k] = hand[k]
      PROVE  c \in Range(queue)' \/ InHand(c)' \/ Registered(c)'
  <2>1. call[c] = "waiting" /\ ~\E e \in E : e.caller = c
    BY <1>1, <1>3 DEF Tell, Resolved
  <2>2. Registered(c) => Registered(c)'
    BY <1>3, <2>1 DEF Registered
  <2> QED BY <1>0, <1>3, <2>1, <2>2 DEF InHand
<1>4. ASSUME NEW d \in Callers, SendCommand(d) \/ CallDropped(d) \/ ResponseTimeout(d)
      PROVE  c \in Range(queue)' \/ InHand(c)' \/ Registered(c)'
  <2>1. call[c] = "waiting" /\ (CallDropped(d) => c # d)
    BY <1>1, <1>4 DEF SendCommand, CallDropped, ResponseTimeout, TypeOK
  <2>2. Registered(c) => Registered(c)'
    BY <1>4, <2>1 DEF SendCommand, CallDropped, ResponseTimeout, Registered
  <2>3. UNCHANGED <<queue, writer, hand>>
    BY <1>4 DEF SendCommand, CallDropped, ResponseTimeout
  <2> QED BY <1>0, <2>1, <2>2, <2>3 DEF InHand
<1>5. ASSUME NEW d \in Callers, Enqueue(d)
      PROVE  c \in Range(queue)' \/ InHand(c)' \/ Registered(c)'
  <2>1. Range(queue)' = Range(queue) \union {d}
    BY <1>5, RangeAppend DEF Enqueue, TypeOK
  <2>2. c = d \/ call[c] = "waiting"
    BY <1>1, <1>5 DEF Enqueue, TypeOK
  <2> QED BY <1>0, <1>5, <2>1, <2>2 DEF Enqueue, InHand, Registered
<1>6. CASE Establish
  <2>1. conn + 1 \in Conns /\ conn \in Nat
    BY <1>6, ControlAssumption DEF Establish, TypeOK, Conns
  <2>2. writer[conn + 1] = "off"
    BY <2>1 DEF LockInv
  <2>3. \A k \in Conns : writer[k] = "took" => writer'[k] = "took"
    BY <1>6, <2>1, <2>2 DEF Establish, TypeOK
  <2> QED BY <1>1, <1>2, <1>6, <2>3 DEF Establish
<1>7. CASE FlushAndBackOff
  <2>1. pending' = pending \ pending
    BY <1>7 DEF FlushAndBackOff
  <2> QED BY <1>3, <1>7, <2>1 DEF FlushAndBackOff, Resolved
<1>8. ASSUME NEW k \in Conns, TakeRequest(k)
      PROVE  c \in Range(queue)' \/ InHand(c)' \/ Registered(c)'
  <2>1. writer[k] = "lock"
    BY <1>8, LockRelease DEF TakeRequest
  <2>2. Range(queue) = {Head(queue)} \union Range(queue)'
    BY <1>8, RangeTail DEF TakeRequest, TypeOK
  <2>3. writer'[k] = "took" /\ hand'[k].caller = Head(queue)
    BY <1>8 DEF TakeRequest, TypeOK
  <2>4. InHand(c) => InHand(c)'
    BY <1>8, <2>1 DEF TakeRequest, TypeOK, InHand
  <2>5. call[c] = "waiting" /\ UNCHANGED pending
    BY <1>1, <1>8 DEF TakeRequest
  <2> QED BY <1>0, <2>2, <2>3, <2>4, <2>5 DEF InHand, Registered
<1>9. ASSUME NEW k \in Conns, RegisterRequest(k)
      PROVE  c \in Range(queue)' \/ InHand(c)' \/ Registered(c)'
  <2>1. /\ pending' = pending \union {[id |-> nextId, caller |-> hand[k].caller]}
        /\ UNCHANGED <<queue, call>>
    BY <1>9 DEF RegisterRequest
  <2>2. InHand(c) => InHand(c)' \/ c = hand[k].caller
    BY <1>9 DEF RegisterRequest, TypeOK, InHand
  <2>3. c = hand[k].caller => Registered(c)'
    <3> DEFINE new == [id |-> nextId, caller |-> hand[k].caller]
    <3>1. new \in pending' /\ new.caller = hand[k].caller
      BY <2>1
    <3> QED BY <3>1 DEF Registered
  <2> QED BY <1>0, <1>1, <2>1, <2>2, <2>3 DEF Registered
<1>10. ASSUME NEW k \in Conns,
              \/ WriteOk(k) \/ TakeHeartbeat(k) \/ HeartbeatOk(k) \/ HeartbeatFails(k)
              \/ WriterExits(k)
       PROVE  c \in Range(queue)' \/ InHand(c)' \/ Registered(c)'
  <2>1. writer[k] # "took"
    BY <1>10, LockRelease
       DEF WriteOk, TakeHeartbeat, HeartbeatOk, HeartbeatFails, WriterExits
  <2>2. \A j \in Conns : writer[j] = "took" => writer'[j] = "took" /\ hand'[j] = hand[j]
    BY <1>10, <2>1
       DEF WriteOk, TakeHeartbeat, HeartbeatOk, HeartbeatFails, WriterExits, TypeOK
  <2> QED
    BY <1>1, <1>2, <1>10, <2>2
       DEF WriteOk, TakeHeartbeat, HeartbeatOk, HeartbeatFails, WriterExits
<1>11. ASSUME NEW k \in Conns, WriteFails(k)
       PROVE  c \in Range(queue)' \/ InHand(c)' \/ Registered(c)'
  <2>1. \A j \in Conns : writer[j] = "took" => writer'[j] = "took" /\ hand'[j] = hand[j]
    BY <1>11 DEF WriteFails, TypeOK
  <2> QED BY <1>3, <1>11, <2>1 DEF WriteFails, Resolved
<1>12. ASSUME NEW k \in Conns, HandleResponse(k)
       PROVE  c \in Range(queue)' \/ InHand(c)' \/ Registered(c)'
  BY <1>3, <1>12 DEF HandleResponse, Resolved
<1>13. ASSUME UNCHANGED <<call, queue, pending, writer, hand>>
       PROVE  c \in Range(queue)' \/ InHand(c)' \/ Registered(c)'
  BY <1>1, <1>2, <1>13
<1> QED
  BY Step, <1>4, <1>5, <1>6, <1>7, <1>8, <1>9, <1>10, <1>11, <1>12, <1>13 DEF RejectResponse

-----------------------------------------------------------------------------
(* Firmware *)

\* Some connection to old firmware carried a get_device_state.
OldProbed == \E m \in lines : m.caller \in Probes /\ fwOn[m.conn] = "old"

\* Whatever says "old" or omits "verify" stems from such a connection; lines
\* belong to established connections; the firmware only ever grows.
FirmwareInv ==
    /\ fw = "old" => OldProbed
    /\ \A l \in lines : l.conn <= conn /\ (l.verify = FALSE => OldProbed)
    /\ \A k \in Conns : writer[k] = "write" /\ hand[k].verify = FALSE => OldProbed
    /\ \A j, k \in Conns : j <= k /\ k <= conn /\ fwOn[j] = "new" => fwOn[k] = "new"

LEMMA FirmwareNext == TypeInv /\ LockInv /\ FirmwareInv /\ [Next]_vars => FirmwareInv'
<1> SUFFICES ASSUME TypeInv, LockInv, FirmwareInv, [Next]_vars PROVE FirmwareInv'
  OBVIOUS
<1> USE DEF TypeInv, callVars, runVars, taskVars, netVars
<1>1. ASSUME UNCHANGED <<lines, fwOn, conn>>, fw' = "old" => OldProbed,
             \A k \in Conns : writer'[k] = "write" => writer[k] = "write" /\ hand'[k] = hand[k]
      PROVE  FirmwareInv'
  BY <1>1 DEF FirmwareInv, OldProbed
<1>2. ASSUME UNCHANGED <<writer, hand, lines, fw, fwOn, conn>> PROVE FirmwareInv'
  BY <1>1, <1>2 DEF FirmwareInv
<1>3. ASSUME NEW c \in Callers,
             SendCommand(c) \/ Enqueue(c) \/ CallDropped(c) \/ ResponseTimeout(c)
      PROVE  FirmwareInv'
  BY <1>2, <1>3 DEF SendCommand, Enqueue, CallDropped, ResponseTimeout
<1>4. CASE Establish
  <2>1. PICK f \in Firmwares : /\ (\E k \in 1..conn : fwOn[k] = "new") => f = "new"
                               /\ fwOn' = [fwOn EXCEPT ![conn + 1] = f]
    BY <1>4 DEF Establish
  <2>2. conn \in Nat /\ conn + 1 \in Conns /\ conn' = conn + 1
    BY <1>4, ControlAssumption DEF Establish, TypeOK, Conns
  <2>3. UNCHANGED <<lines, fw, hand>>
    BY <1>4 DEF Establish
  <2>4. \A l \in lines : l.conn \in Conns /\ l.conn <= conn /\ l.conn # conn + 1
    BY <2>2 DEF FirmwareInv, TypeOK, Lines, Conns
  <2>5. OldProbed => OldProbed'
    BY <2>1, <2>3, <2>4 DEF OldProbed, TypeOK
  <2>6. \A k \in Conns : writer'[k] = "write" => writer[k] = "write"
    BY <1>4 DEF Establish, TypeOK
  <2>7. ASSUME NEW j \in Conns, NEW k \in Conns, j <= k, k <= conn', fwOn'[j] = "new"
        PROVE  fwOn'[k] = "new"
    <3>1. j \in Nat /\ k \in Nat /\ 1 <= j
      BY DEF Conns
    <3>2. CASE k = conn + 1 /\ j = k
      BY <2>7, <3>2
    <3>3. CASE k = conn + 1 /\ j # k
      <4>1. j \in 1..conn /\ fwOn[j] = "new"
        BY <2>1, <2>2, <2>7, <3>1, <3>3 DEF TypeOK
      <4> QED BY <2>1, <2>2, <3>3, <4>1 DEF TypeOK
    <3>4. CASE k # conn + 1
      <4>1. k <= conn /\ j # conn + 1
        BY <2>2, <2>7, <3>1, <3>4
      <4> QED BY <2>1, <2>7, <3>4, <4>1 DEF FirmwareInv, TypeOK
    <3> QED BY <3>2, <3>3, <3>4
  <2>8. \A l \in lines' : l.conn <= conn' /\ (l.verify = FALSE => OldProbed')
    <3>1. \A l \in lines : l.conn \in Nat /\ l.conn <= conn
      BY <2>4 DEF Conns
    <3> QED BY <2>2, <2>3, <2>5, <3>1 DEF FirmwareInv
  <2> QED BY <2>3, <2>5, <2>6, <2>7, <2>8 DEF FirmwareInv
<1>5. CASE FlushAndBackOff
  BY <1>2, <1>5 DEF FlushAndBackOff
<1>6. ASSUME NEW k \in Conns,
             \/ TakeRequest(k) \/ WriteFails(k) \/ TakeHeartbeat(k) \/ HeartbeatOk(k)
             \/ HeartbeatFails(k) \/ WriterExits(k)
      PROVE  FirmwareInv'
  <2>1. \A j \in Conns : writer'[j] = "write" => writer[j] = "write" /\ hand'[j] = hand[j]
    BY <1>6 DEF TakeRequest, WriteFails, TakeHeartbeat, HeartbeatOk, HeartbeatFails,
                WriterExits, TypeOK
  <2>2. UNCHANGED <<lines, fwOn, conn, fw>>
    BY <1>6 DEF TakeRequest, WriteFails, TakeHeartbeat, HeartbeatOk, HeartbeatFails, WriterExits
  <2>3. fw' = "old" => OldProbed
    BY <2>2 DEF FirmwareInv
  <2> QED BY <1>1, <2>1, <2>2, <2>3
<1>7. ASSUME NEW k \in Conns, RegisterRequest(k) PROVE FirmwareInv'
  <2>1. UNCHANGED <<lines, fwOn, conn, fw>>
    BY <1>7 DEF RegisterRequest
  <2>2. hand'[k].verify = (fw # "old")
    BY <1>7 DEF RegisterRequest, Verify, TypeOK
  <2>3. \A j \in Conns : j # k => hand'[j] = hand[j] /\ writer'[j] = writer[j]
    BY <1>7 DEF RegisterRequest, TypeOK
  <2>4. OldProbed' <=> OldProbed
    BY <2>1 DEF OldProbed
  <2>5. hand'[k].verify = FALSE => OldProbed
    BY <2>2 DEF FirmwareInv
  <2> QED BY <2>1, <2>3, <2>4, <2>5 DEF FirmwareInv
<1>8. ASSUME NEW k \in Conns, WriteOk(k) PROVE FirmwareInv'
  <2>1. writer[k] = "write" /\ UNCHANGED <<fwOn, conn, fw>>
    BY <1>8 DEF WriteOk
  <2>2. \A j \in Conns : writer'[j] = "write" => writer[j] = "write" /\ hand'[j] = hand[j]
    BY <1>8 DEF WriteOk, TypeOK
  <2>3. /\ lines \subseteq lines'
        /\ \A l \in lines' : l \in lines \/ (l.conn = k /\ l.verify = hand[k].verify)
    BY <1>8 DEF WriteOk
  <2>4. OldProbed => OldProbed'
    BY <2>1, <2>3 DEF OldProbed
  <2>5. k <= conn
    BY <2>1 DEF LockInv, TypeOK, Conns
  <2>6. \A l \in lines' : l.conn <= conn' /\ (l.verify = FALSE => OldProbed')
    BY <2>1, <2>3, <2>4, <2>5 DEF FirmwareInv
  <2> QED BY <2>1, <2>2, <2>4, <2>6 DEF FirmwareInv
<1>9. ASSUME NEW k \in Conns, HandleResponse(k) \/ RejectResponse(k) PROVE FirmwareInv'
  <2>1. PICK l \in lines : fw' = FirmwareReported(l)
    BY <1>9 DEF HandleResponse, RejectResponse
  <2>2. fw' = "old" => OldProbed
    BY <2>1 DEF FirmwareReported, FirmwareInv, OldProbed
  <2>3. UNCHANGED <<lines, fwOn, conn, writer, hand>>
    BY <1>9 DEF HandleResponse, RejectResponse
  <2> QED BY <1>1, <2>2, <2>3
<1> QED BY Step, <1>2, <1>3, <1>4, <1>5, <1>6, <1>7, <1>8, <1>9

LEMMA VerifyFromInv == TypeInv /\ FirmwareInv => VerifyOmittedOnlyIfReportedOld
<1> SUFFICES ASSUME TypeInv, FirmwareInv,
                    NEW l \in lines, fwOn[l.conn] = "new", ~l.verify
             PROVE  \E m \in lines : m.conn < l.conn /\ m.caller \in Probes
                                       /\ fwOn[m.conn] = "old"
  BY DEF VerifyOmittedOnlyIfReportedOld
<1>1. l \in Lines /\ l.conn \in Conns /\ l.conn \in Nat /\ l.verify = FALSE
  BY DEF TypeInv, TypeOK, Lines, Conns
<1>2. PICK m \in lines : m.caller \in Probes /\ fwOn[m.conn] = "old"
  BY <1>1 DEF FirmwareInv, OldProbed
<1>3. m.conn \in Conns /\ m.conn \in Nat /\ m.conn <= conn
  BY DEF TypeInv, TypeOK, Lines, Conns, FirmwareInv
<1>4. ~(l.conn <= m.conn)
  BY <1>1, <1>2, <1>3 DEF FirmwareInv
<1> QED BY <1>1, <1>2, <1>3, <1>4

-----------------------------------------------------------------------------
(* The theorems *)

\* The inductive invariant: each part is inductive given those before it.
IInv ==
    /\ TypeInv
    /\ LockInv
    /\ IdInv
    /\ PlaceInv
    /\ FirmwareInv
    /\ NoCrosstalk
    /\ NoLostCall

LEMMA IInvInit == Init => IInv
<1> SUFFICES ASSUME Init PROVE IInv
  OBVIOUS
<1>1. TypeInv
  BY TypeInit
<1>2. /\ lockQ = <<>> /\ queue = <<>> /\ lines = {} /\ pending = {} /\ fw = "unknown"
      /\ nextId = 1 /\ conn = 0
      /\ \A k \in Conns : writer[k] = "off" /\ hand[k].id = 0 /\ fwOn[k] = "unknown"
      /\ \A c \in Callers : call[c] = "idle"
  BY DEF Init, EmptyHand
<1>3. Range(queue) = {} /\ Range(lockQ) = {} /\ Distinct(queue) /\ Distinct(lockQ)
  BY <1>2 DEF Range, Distinct
<1>4. LockInv
  BY <1>2, <1>3 DEF LockInv
<1>5. IdInv
  BY <1>2 DEF IdInv
<1>6. PlaceInv
  BY <1>2, <1>3 DEF PlaceInv, Held, Sent, Carrying, AtMostOnceOnWire
<1>7. FirmwareInv
  BY <1>2 DEF FirmwareInv
<1>8. NoCrosstalk /\ NoLostCall
  BY <1>2 DEF NoCrosstalk, NoLostCall
<1> QED BY <1>1, <1>4, <1>5, <1>6, <1>7, <1>8 DEF IInv

LEMMA IInvNext == IInv /\ [Next]_vars => IInv'
BY TypeNext, LockNext, IdNext, PlaceNext, FirmwareNext, CrosstalkNext, LostNext DEF IInv

THEOREM InvariantHolds == Spec => []IInv
BY IInvInit, IInvNext, PTL DEF Spec

\* A call that returns Ok returns the response to its own command, for any
\* number of callers, connections and detached tasks.
THEOREM NoCrosstalkHolds == Spec => []NoCrosstalk
<1>1. IInv => NoCrosstalk
  BY DEF IInv
<1> QED BY InvariantHolds, <1>1, PTL

\* The telescope receives each command at most once.
THEOREM AtMostOnceHolds == Spec => []AtMostOnceOnWire
<1>1. IInv => AtMostOnceOnWire
  BY DEF IInv, PlaceInv
<1> QED BY InvariantHolds, <1>1, PTL

\* No task drops the sender of a call that waits.
THEOREM NoLostCallHolds == Spec => []NoLostCall
<1>1. IInv => NoLostCall
  BY DEF IInv
<1> QED BY InvariantHolds, <1>1, PTL

\* "verify" is missing on new firmware only after old firmware was reported.
THEOREM VerifyHolds == Spec => []VerifyOmittedOnlyIfReportedOld
<1>1. IInv => VerifyOmittedOnlyIfReportedOld
  BY VerifyFromInv DEF IInv
<1> QED BY InvariantHolds, <1>1, PTL

-----------------------------------------------------------------------------
(* Who is told Disconnected *)

\* Only a writer at work holds a call, and of the connections only the one that is up
\* may have both its tasks.
LossInv ==
    /\ \A k \in Conns : hand[k].caller \in Callers => Carrying(k)
    /\ \A k \in Conns : k <= conn /\ (k # conn \/ run # "connected") =>
         reader[k] = "done" \/ writer[k] = "done"

\* A task that is done stays done.
LEMMA DoneStays ==
    ASSUME TypeInv, LockInv, [Next]_vars
    PROVE  \A k \in Conns : (reader[k] = "done" => reader'[k] = "done" \/ (Establish /\ k = conn + 1))
                            /\ (writer[k] = "done" => writer'[k] = "done")
<1> SUFFICES ASSUME NEW k \in Conns
             PROVE  (reader[k] = "done" => reader'[k] = "done" \/ (Establish /\ k = conn + 1))
                    /\ (writer[k] = "done" => writer'[k] = "done")
  OBVIOUS
<1> USE DEF TypeInv, callVars, runVars, taskVars, netVars
<1>h. \A j \in Conns : Holds(j) => writer[j] = "lock"
  <2> SUFFICES ASSUME NEW j \in Conns, Holds(j) PROVE writer[j] = "lock"
    OBVIOUS
  <2>1. lockQ \in Seq(Conns) /\ lockQ # <<>> /\ Head(lockQ) = j
    BY DEF Holds, TypeOK
  <2>2. j \in Range(lockQ)
    BY <2>1, RangeTail
  <2>3. QED
    BY <2>2 DEF LockInv
<1>1. CASE Establish
  <2>1. conn + 1 \in Conns /\ writer[conn + 1] = "off"
    BY <1>1, ControlAssumption DEF Establish, LockInv, TypeOK, Conns
  <2>2. QED
    BY <1>1, <2>1 DEF Establish, TypeOK
<1>2. ASSUME NEW j \in Conns, TakeRequest(j) \/ TakeHeartbeat(j) \/ WriterExits(j)
      PROVE  (reader[k] = "done" => reader'[k] = "done") /\ (writer[k] = "done" => writer'[k] = "done")
  <2>1. writer[j] = "lock" /\ reader' = reader
    BY <1>h, <1>2 DEF TakeRequest, TakeHeartbeat, WriterExits
  <2>2. \A i \in Conns : i # j => writer'[i] = writer[i]
    BY <1>2 DEF TakeRequest, TakeHeartbeat, WriterExits, TypeOK
  <2>3. QED
    BY <2>1, <2>2
<1>3. ASSUME NEW j \in Conns, RegisterRequest(j) \/ WriteOk(j) \/ WriteFails(j) \/ HeartbeatOk(j) \/ HeartbeatFails(j)
      PROVE  (reader[k] = "done" => reader'[k] = "done") /\ (writer[k] = "done" => writer'[k] = "done")
  <2>1. writer[j] # "done" /\ reader' = reader
    BY <1>3 DEF RegisterRequest, WriteOk, WriteFails, HeartbeatOk, HeartbeatFails
  <2>2. \A i \in Conns : i # j => writer'[i] = writer[i]
    BY <1>3 DEF RegisterRequest, WriteOk, WriteFails, HeartbeatOk, HeartbeatFails, TypeOK
  <2>3. QED
    BY <2>1, <2>2
<1>4. ASSUME NEW j \in Conns, ReaderEof(j) \/ ReaderGivesUp(j)
      PROVE  (reader[k] = "done" => reader'[k] = "done") /\ writer' = writer
  BY <1>4 DEF ReaderEof, ReaderGivesUp, TypeOK
<1>5. CASE UNCHANGED <<reader, writer>>
  BY <1>5
<1>6. CASE Shutdown \/ Finished \/ UNCHANGED vars
  BY <1>5, <1>6 DEF Shutdown, Finished, vars
<1>7. ASSUME NEW c \in Callers, Caller(c) PROVE UNCHANGED <<reader, writer>>
  BY <1>7 DEF Caller, SendCommand, Enqueue, CallDropped, ResponseTimeout
<1>8. CASE Run
  BY <1>1, <1>5, <1>8 DEF Run, RunCheck, Connect, ConnectFails, AuthSucceeds, AuthFails, ConnectionLost,
     FlushAndBackOff, SleepEnds
<1>9. ASSUME NEW j \in Conns, HandleResponse(j) \/ RejectResponse(j) \/ PeerGone(j)
      PROVE  UNCHANGED <<reader, writer>>
  BY <1>9 DEF HandleResponse, RejectResponse, PeerGone
<1>10. CASE \E j \in Conns : Writer(j) \/ Reader(j) \/ PeerGone(j)
  BY <1>2, <1>3, <1>4, <1>5, <1>9, <1>10 DEF Writer, Reader
<1>11. QED
  BY <1>5, <1>6, <1>7, <1>8, <1>10 DEF Next, Shutdown, Finished, vars

\* What the run task does to itself.
LEMMA RunStep ==
    ASSUME [Next]_vars
    PROVE  \/ run # "connected" /\ Establish
           \/ /\ run # "connected" \/ reader[conn] = "done" \/ writer[conn] = "done"
              /\ FlushAndBackOff
           \/ run' = run /\ conn' = conn
           \/ run # "connected" /\ run' # "connected" /\ conn' = conn
<1> USE DEF callVars, runVars, taskVars, netVars
<1>1. ASSUME NEW c \in Callers, Caller(c) PROVE run' = run /\ conn' = conn
  BY <1>1 DEF Caller, SendCommand, Enqueue, CallDropped, ResponseTimeout
<1>2. CASE Run
  BY <1>2 DEF Run, RunCheck, Connect, ConnectFails, AuthSucceeds, AuthFails, ConnectionLost, SleepEnds
<1>3. ASSUME NEW k \in Conns, Writer(k) \/ Reader(k) \/ PeerGone(k) PROVE run' = run /\ conn' = conn
  BY <1>3 DEF Writer, Reader, TakeRequest, RegisterRequest, WriteOk, WriteFails, TakeHeartbeat, HeartbeatOk,
     HeartbeatFails, WriterExits, HandleResponse, RejectResponse, ReaderEof, ReaderGivesUp, PeerGone
<1>4. CASE Shutdown \/ Finished \/ UNCHANGED vars
  BY <1>4 DEF Shutdown, Finished, vars
<1>5. QED
  BY <1>1, <1>2, <1>3, <1>4 DEF Next

LEMMA LossNext == IInv /\ LossInv /\ [Next]_vars => LossInv'
<1> SUFFICES ASSUME IInv, LossInv, [Next]_vars PROVE LossInv'
  OBVIOUS
<1> USE DEF TypeInv, callVars, runVars, taskVars, netVars
<1>0. TypeInv /\ LockInv /\ conn \in Nat /\ Conns \subseteq Nat
  BY ControlAssumption DEF IInv, TypeOK, Conns
<1>1. \A k \in Conns : k <= conn =>
         /\ reader[k] = "done" => reader'[k] = "done"
         /\ writer[k] = "done" => writer'[k] = "done"
  BY <1>0, DoneStays
<1>2. ASSUME NEW k \in Conns, k <= conn', k # conn' \/ run' # "connected"
      PROVE  reader'[k] = "done" \/ writer'[k] = "done"
  <2>1. CASE run # "connected" /\ Establish
    <3>1. k <= conn
      BY <1>0, <1>2, <2>1 DEF Establish
    <3>2. QED
      BY <1>1, <2>1, <3>1 DEF LossInv
  <2>2. CASE (run # "connected" \/ reader[conn] = "done" \/ writer[conn] = "done") /\ FlushAndBackOff
    <3>1. k <= conn /\ reader' = reader /\ writer' = writer
      BY <1>2, <2>2 DEF FlushAndBackOff
    <3>2. QED
      BY <2>2, <3>1 DEF LossInv
  <2>3. CASE run' = run /\ conn' = conn
    BY <1>1, <1>2, <2>3 DEF LossInv
  <2>4. CASE run # "connected" /\ run' # "connected" /\ conn' = conn
    BY <1>1, <1>2, <2>4 DEF LossInv
  <2>5. QED
    BY <2>1, <2>2, <2>3, <2>4, RunStep
<1>3. ASSUME NEW k \in Conns, hand'[k].caller \in Callers PROVE Carrying(k)'
  <2>1. CASE hand' = hand /\ (Carrying(k) => Carrying(k)')
    BY <1>3, <2>1 DEF LossInv
  <2>2. CASE Establish
    <3>1. conn + 1 \in Conns /\ writer[conn + 1] = "off"
      BY <1>0, <2>2, ControlAssumption DEF Establish, LockInv, Conns
    <3>2. hand' = hand /\ (Carrying(k) => Carrying(k)')
      BY <1>0, <2>2, <3>1 DEF Establish, TypeOK, Carrying
    <3>3. QED
      BY <2>1, <3>2
  <2>3. ASSUME NEW j \in Conns, TakeRequest(j) \/ RegisterRequest(j) PROVE Carrying(k)'
    <3>1. writer'[j] \in {"took", "write"}
      BY <1>0, <2>3 DEF TakeRequest, RegisterRequest, TypeOK
    <3>2. \A i \in Conns : i # j => writer'[i] = writer[i] /\ hand'[i] = hand[i]
      BY <1>0, <2>3 DEF TakeRequest, RegisterRequest, TypeOK
    <3>3. QED
      BY <1>3, <3>1, <3>2 DEF Carrying, LossInv
  <2>4. ASSUME NEW j \in Conns, WriteOk(j) \/ WriteFails(j) PROVE Carrying(k)'
    <3>1. hand'[j] = EmptyHand
      BY <1>0, <2>4 DEF WriteOk, WriteFails, TypeOK
    <3>2. k # j
      BY <1>3, <3>1, ControlAssumption DEF EmptyHand
    <3>3. writer'[k] = writer[k] /\ hand'[k] = hand[k]
      BY <1>0, <2>4, <3>2 DEF WriteOk, WriteFails, TypeOK
    <3>4. QED
      BY <1>3, <3>3 DEF Carrying, LossInv
  <2>5. ASSUME NEW j \in Conns, TakeHeartbeat(j) \/ HeartbeatOk(j) \/ HeartbeatFails(j) \/ WriterExits(j)
        PROVE  Carrying(k)'
    <3>1. writer[j] \in {"lock", "beat"}
      <4>1. CASE Holds(j)
        <5>1. lockQ \in Seq(Conns) /\ lockQ # <<>> /\ Head(lockQ) = j
          BY <1>0, <4>1 DEF Holds, TypeOK
        <5>2. j \in Range(lockQ)
          BY <5>1, RangeTail
        <5>3. QED
          BY <1>0, <5>2 DEF LockInv
      <4>2. CASE ~Holds(j)
        BY <2>5, <4>2 DEF TakeHeartbeat, HeartbeatOk, HeartbeatFails, WriterExits
      <4>3. QED
        BY <4>1, <4>2
    <3>2. hand' = hand /\ \A i \in Conns : i # j => writer'[i] = writer[i]
      BY <1>0, <2>5 DEF TakeHeartbeat, HeartbeatOk, HeartbeatFails, WriterExits, TypeOK
    <3>3. Carrying(k) => k # j
      BY <3>1 DEF Carrying
    <3>4. QED
      BY <1>3, <3>2, <3>3 DEF Carrying, LossInv
  <2>6. CASE UNCHANGED <<hand, writer>>
    BY <2>1, <2>6 DEF Carrying
  <2>7. ASSUME NEW c \in Callers,
               SendCommand(c) \/ Enqueue(c) \/ CallDropped(c) \/ ResponseTimeout(c)
        PROVE  UNCHANGED <<hand, writer>>
    BY <2>7 DEF SendCommand, Enqueue, CallDropped, ResponseTimeout
  <2>8. ASSUME NEW j \in Conns, HandleResponse(j) \/ RejectResponse(j) PROVE UNCHANGED <<hand, writer>>
    BY <2>8 DEF HandleResponse, RejectResponse
  <2>9. CASE FlushAndBackOff
    BY <2>6, <2>9 DEF FlushAndBackOff
  <2>10. QED
    BY <2>2, <2>3, <2>4, <2>5, <2>6, <2>7, <2>8, <2>9, Step
<1>4. QED
  BY <1>2, <1>3 DEF LossInv

\* A connection that carries a call has been established, and lost a task unless it is up.
LEMMA CarrierLost ==
    ASSUME IInv, LossInv, NEW c \in Callers, NEW k \in Conns, CarriedOn(c, k)
    PROVE  k <= conn /\ (k # conn \/ run # "connected" => reader[k] = "done" \/ writer[k] = "done")
<1>1. conn \in Nat /\ k \in Nat
  BY ControlAssumption DEF IInv, TypeInv, TypeOK, Conns
<1>2. CASE hand[k].caller = c
  <2>1. Carrying(k)
    BY <1>2 DEF LossInv
  <2>2. ~(k > conn)
    BY <2>1 DEF Carrying, IInv, LockInv
  <2>3. QED
    BY <1>1, <2>2 DEF LossInv
<1>3. CASE \E l \in lines : l.conn = k /\ l.caller = c
  BY <1>3 DEF LossInv, IInv, FirmwareInv
<1>4. QED
  BY <1>2, <1>3 DEF CarriedOn

LEMMA DisconnectStep ==
    ASSUME IInv, LossInv, [Next]_vars, NEW c \in Callers, NEW k \in Conns,
           call[c] = "waiting", call'[c] = "disconnected", CarriedOn(c, k)
    PROVE  reader'[k] = "done" \/ writer'[k] = "done"
<1> USE DEF callVars, runVars, taskVars, netVars
<1>0. /\ TypeInv /\ LockInv /\ IdInv /\ PlaceInv
      /\ call \in [Callers -> Stages]
  BY DEF IInv, TypeInv, TypeOK
<1>k. k <= conn /\ (k # conn \/ run # "connected" => reader[k] = "done" \/ writer[k] = "done")
  BY CarrierLost
<1>1. CASE FlushAndBackOff
  <2>1. reader' = reader /\ writer' = writer
    BY <1>1 DEF FlushAndBackOff
  <2>2. run' = "sleep" /\ conn' = conn
    BY <1>1 DEF FlushAndBackOff
  <2>3. run # "connected" \/ reader[conn] = "done" \/ writer[conn] = "done" \/ run = "sleep"
    BY <1>1, <2>2, RunStep DEF Establish
  <2>4. QED
    BY <1>k, <2>1, <2>3
<1>2. ASSUME NEW d \in Callers, CallDropped(d) PROVE reader'[k] = "done" \/ writer'[k] = "done"
  <2>1. d = c
    BY <1>0, <1>2 DEF CallDropped
  <2>2. ChannelClosed
    BY <1>2, <2>1 DEF CallDropped, Abandoned
  <2>3. run # "connected" /\ reader' = reader /\ writer' = writer
    BY <1>2, <2>2 DEF ChannelClosed, CallDropped
  <2>4. QED
    BY <1>k, <2>3
<1>3. ASSUME NEW j \in Conns, WriteFails(j) PROVE reader'[k] = "done" \/ writer'[k] = "done"
  <2>1. writer[j] = "write" /\ writer'[j] = "done"
    BY <1>0, <1>3 DEF WriteFails, TypeInv, TypeOK
  <2>2. PICK e \in pending : e.id = hand[j].id /\ e.caller = c
    BY <1>3 DEF WriteFails, Tell, Entry
  <2>3. Carrying(j) /\ hand[j].caller = c
    BY <1>0, <2>1, <2>2 DEF IdInv, Carrying
  <2>4. Held(c) /\ ~Sent(c)
    BY <1>0, <2>3 DEF Held, PlaceInv
  <2>5. hand[k].caller = c
    BY <2>4 DEF CarriedOn, Sent
  <2>6. Carrying(k)
    BY <2>5 DEF LossInv
  <2>7. j = k
    BY <1>0, <2>3, <2>5, <2>6 DEF PlaceInv
  <2>8. QED
    BY <2>1, <2>7
<1>4. ASSUME NEW j \in Conns, HandleResponse(j) PROVE FALSE
  BY <1>0, <1>4 DEF HandleResponse, Tell
<1>5. ASSUME NEW d \in Callers, SendCommand(d) \/ Enqueue(d) \/ ResponseTimeout(d) PROVE FALSE
  BY <1>0, <1>5 DEF SendCommand, Enqueue, ResponseTimeout
<1>6. CASE Establish
  BY <1>6 DEF Establish
<1>7. ASSUME NEW j \in Conns,
             \/ TakeRequest(j) \/ RegisterRequest(j) \/ WriteOk(j)
             \/ TakeHeartbeat(j) \/ HeartbeatOk(j) \/ HeartbeatFails(j)
             \/ WriterExits(j) \/ RejectResponse(j)
      PROVE  call' = call
  BY <1>7 DEF TakeRequest, RegisterRequest, WriteOk, TakeHeartbeat, HeartbeatOk, HeartbeatFails,
     WriterExits, RejectResponse
<1>8. call' # call
  OBVIOUS
<1>9. QED
  BY <1>1, <1>2, <1>3, <1>4, <1>5, <1>6, <1>7, <1>8, Step

\* control.rs:337: a call is told Disconnected only when the connection that carries its
\* request has lost its reader or its writer, over any number of reconnections.
THEOREM NoFalseDisconnectHolds == Spec => NoFalseDisconnect
<1>1. Init => IInv /\ LossInv
  <2>1. Init => LossInv
    <3> SUFFICES ASSUME Init PROVE LossInv
      OBVIOUS
    <3>1. conn = 0 /\ \A k \in Conns : hand[k].caller = Nobody
      BY DEF Init, EmptyHand
    <3>2. QED
      BY <3>1, ControlAssumption DEF LossInv, Conns
  <2>2. QED
    BY <2>1, IInvInit
<1>2. IInv /\ LossInv /\ [Next]_vars => (IInv /\ LossInv)'
  BY IInvNext, LossNext
<1>3. IInv /\ LossInv /\ [Next]_vars =>
        [\A c \in Callers, k \in Conns :
           call[c] = "waiting" /\ call'[c] = "disconnected" /\ CarriedOn(c, k)
              => reader'[k] = "done" \/ writer'[k] = "done"]_vars
  BY DisconnectStep
<1>4. QED
  BY <1>1, <1>2, <1>3, PTL DEF Spec, NoFalseDisconnect

-----------------------------------------------------------------------------
(* Control implements CommandService *)

Outcome  == [c \in Callers |-> CallSeen(c)]
Executed == {l.caller : l \in lines}

LEMMA ServiceInit == Init => Service!Init
<1> SUFFICES ASSUME Init PROVE Service!Init
  OBVIOUS
<1>1. \A c \in Callers : CallSeen(c) = "idle"
  BY DEF Init, CallSeen
<1>2. {l.caller : l \in lines} = {}
  BY DEF Init
<1> QED BY <1>1, <1>2 DEF Service!Init

LEMMA ServiceNext == IInv /\ IInv' /\ [Next]_vars => [Service!Next]_(Service!serviceVars)
<1> SUFFICES ASSUME IInv, IInv', [Next]_vars
             PROVE  [Service!Next]_(Service!serviceVars)
  OBVIOUS
<1> USE DEF callVars, runVars, taskVars, netVars
<1>0. TypeOK /\ TypeOK' /\ NoCrosstalk /\ NoCrosstalk'
  BY DEF IInv, TypeInv
<1>a. /\ Outcome = [c \in Callers |-> IF call[c] \in {"sending", "waiting"} THEN "open"
                                      ELSE call[c]]
      /\ Outcome' = [c \in Callers |-> IF call'[c] \in {"sending", "waiting"} THEN "open"
                                       ELSE call'[c]]
  BY <1>0 DEF Outcome, CallSeen, NoCrosstalk
<1>b. ASSUME UNCHANGED <<Outcome, Executed>>
      PROVE  [Service!Next]_(Service!serviceVars)
  BY <1>b DEF Service!serviceVars, Outcome, Executed
<1>1. ASSUME UNCHANGED <<call, lines>>
      PROVE  [Service!Next]_(Service!serviceVars)
  <2>1. UNCHANGED <<Outcome, Executed>>
    BY <1>a, <1>1 DEF Executed
  <2> QED BY <1>b, <2>1
<1>2. ASSUME NEW S \in SUBSET Callers, \A c \in S : call[c] = "waiting",
             call' = [c \in Callers |-> IF c \in S THEN "disconnected" ELSE call[c]],
             UNCHANGED lines
      PROVE  [Service!Next]_(Service!serviceVars)
  <2>1. \A c \in S : Outcome[c] = "open"
    BY <1>a, <1>2
  <2>2. Outcome' = [c \in Callers |-> IF c \in S THEN "disconnected" ELSE Outcome[c]]
    BY <1>a, <1>2
  <2>3. Executed' = Executed
    BY <1>2 DEF Executed
  <2>4. Service!Disconnect(S)
    BY <2>1, <2>2, <2>3 DEF Service!Disconnect, Outcome, Executed
  <2> QED BY <2>4 DEF Service!Next
<1>3. ASSUME NEW E, call' = Tell(E, "disconnected"), UNCHANGED lines
      PROVE  [Service!Next]_(Service!serviceVars)
  <2> DEFINE S == {c \in Callers : call[c] = "waiting" /\ \E e \in E : e.caller = c}
  <2>1. call' = [c \in Callers |-> IF c \in S THEN "disconnected" ELSE call[c]]
    BY <1>3 DEF Tell
  <2> QED BY <1>2, <1>3, <2>1
<1>4. ASSUME NEW c \in Callers, SendCommand(c)
      PROVE  [Service!Next]_(Service!serviceVars)
  <2>1. Outcome[c] = "idle" /\ Outcome' = [Outcome EXCEPT ![c] = "open"]
    BY <1>0, <1>a, <1>4 DEF SendCommand, TypeOK
  <2>2. Service!Begin(c)
    BY <1>4, <2>1 DEF SendCommand, Service!Begin, Outcome
  <2> QED BY <2>2 DEF Service!Next
<1>5. ASSUME NEW c \in Callers, Enqueue(c)
      PROVE  [Service!Next]_(Service!serviceVars)
  <2>1. Outcome' = Outcome /\ Executed' = Executed
    BY <1>0, <1>a, <1>5 DEF Enqueue, TypeOK, Executed
  <2> QED BY <1>b, <2>1
<1>6. ASSUME NEW c \in Callers, CallDropped(c)
      PROVE  [Service!Next]_(Service!serviceVars)
  <2>1. /\ \A d \in {c} : Outcome[d] = "open"
        /\ Outcome' = [d \in Callers |-> IF d \in {c} THEN "disconnected" ELSE Outcome[d]]
    BY <1>0, <1>a, <1>6 DEF CallDropped, TypeOK
  <2>2. Service!Disconnect({c})
    BY <1>6, <2>1 DEF CallDropped, Service!Disconnect, Outcome
  <2> QED BY <2>2 DEF Service!Next
<1>7. ASSUME NEW c \in Callers, ResponseTimeout(c)
      PROVE  [Service!Next]_(Service!serviceVars)
  <2>1. Outcome[c] = "open" /\ Outcome' = [Outcome EXCEPT ![c] = "timeout"]
    BY <1>0, <1>a, <1>7 DEF ResponseTimeout, TypeOK
  <2>2. Service!GiveUp(c)
    BY <1>7, <2>1 DEF ResponseTimeout, Service!GiveUp, Outcome
  <2> QED BY <2>2 DEF Service!Next
<1>8. CASE FlushAndBackOff
  BY <1>3, <1>8 DEF FlushAndBackOff
<1>9. ASSUME NEW k \in Conns, WriteOk(k)
      PROVE  [Service!Next]_(Service!serviceVars)
  <2>1. PICK c \in Callers : c = hand[k].caller /\ Held(c) /\ ~Sent(c)
    BY <1>9 DEF WriteOk, IInv, TypeInv, HandsFull, Carrying, Held, PlaceInv
  <2>2. call[c] # "idle"
    BY <2>1 DEF IInv, PlaceInv
  <2>3. Outcome' = Outcome /\ Outcome[c] # "idle"
    BY <1>a, <1>9, <2>1, <2>2 DEF WriteOk
  <2>4. c \notin Executed
    BY <2>1 DEF Sent, Executed
  <2>5. CASE peer[k] = "up"
    <3>1. PICK l : l.caller = c /\ lines' = lines \union {l}
      BY <1>9, <2>1, <2>5 DEF WriteOk
    <3>2. Executed' = Executed \union {c}
      BY <3>1 DEF Executed
    <3>3. Service!Execute(c)
      BY <2>3, <2>4, <3>2 DEF Service!Execute, Outcome, Executed
    <3> QED BY <3>3 DEF Service!Next
  <2>6. CASE peer[k] # "up"
    <3>1. UNCHANGED <<call, lines>>
      BY <1>9, <2>6 DEF WriteOk
    <3> QED BY <1>1, <3>1
  <2> QED BY <2>5, <2>6
<1>10. ASSUME NEW k \in Conns, WriteFails(k)
       PROVE  [Service!Next]_(Service!serviceVars)
  <2>1. call' = Tell(Entry(hand[k].id), "disconnected") /\ UNCHANGED <<answer, lines>>
    BY <1>10 DEF WriteFails, netVars
  <2> QED BY <1>3, <2>1
<1>11. ASSUME NEW k \in Conns, HandleResponse(k)
       PROVE  [Service!Next]_(Service!serviceVars)
  <2>1. PICK l \in lines : call' = Tell(Entry(l.id), "ok")
    BY <1>11 DEF HandleResponse
  <2>2. \A e \in Entry(l.id) : e.caller = l.caller
    BY DEF Entry, IInv, IdInv
  <2> DEFINE c == l.caller
  <2>3. c \in Callers /\ c \in Executed
    BY <1>0 DEF TypeOK, Lines, Executed
  <2>4. CASE call' = call
    BY <1>1, <1>11, <2>4 DEF HandleResponse
  <2>5. CASE call' # call
    <3>1. /\ call \in [Callers -> Stages] /\ call' \in [Callers -> Stages]
          /\ \A d \in Callers : d # c => call'[d] = call[d]
      BY <1>0, <2>1, <2>2 DEF Tell, TypeOK
    <3>2. call'[c] # call[c]
      BY <2>5, <3>1
    <3>3. call[c] = "waiting" /\ call'[c] = "ok"
      BY <2>1, <2>3, <3>2 DEF Tell
    <3>4. Outcome[c] = "open" /\ Outcome' = [Outcome EXCEPT ![c] = "ok"]
      BY <1>a, <2>3, <3>1, <3>3
    <3>5. Service!Respond(c)
      BY <1>11, <2>3, <3>4 DEF HandleResponse, Service!Respond, Outcome, Executed
    <3> QED BY <2>3, <3>5 DEF Service!Next
  <2> QED BY <2>4, <2>5
<1>12. ASSUME NEW k \in Conns,
              \/ TakeRequest(k) \/ RegisterRequest(k) \/ TakeHeartbeat(k) \/ HeartbeatOk(k)
              \/ HeartbeatFails(k) \/ WriterExits(k) \/ RejectResponse(k)
       PROVE  [Service!Next]_(Service!serviceVars)
  BY <1>1, <1>12 DEF TakeRequest, RegisterRequest, TakeHeartbeat, HeartbeatOk, HeartbeatFails,
                     WriterExits, RejectResponse
<1>13. CASE Establish
  BY <1>1, <1>13 DEF Establish
<1> QED
  BY Step, <1>1, <1>4, <1>5, <1>6, <1>7, <1>8, <1>9, <1>10, <1>11, <1>12, <1>13

\* The control connection, with its registry, detached tasks and reconnections,
\* implements the contract of send_command: every step is a step of
\* CommandService or leaves what callers and telescope see unchanged.
THEOREM ServiceImplemented == Spec => ImplementsService
<1> QED
  BY ServiceInit, ServiceNext, InvariantHolds, PTL DEF Spec, ImplementsService, Service!Spec
=============================================================================
