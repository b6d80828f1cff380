------------------------------- MODULE Fleet -------------------------------
(***************************************************************************)
(* Several telescopes behind one DeviceManager (manager.rs): backends that *)
(* are added, replaced and disconnected, the mounts and cameras that keep  *)
(* a backend's client alive (backend/seestar), and the way of an event     *)
(* from a telescope's connection through the client's broadcast channel    *)
(* and the translator task to the unified event bus.                       *)
(*                                                                         *)
(* Clients are numbered in the order of SeestarClient::connect.  Of their  *)
(* control connections (module Control) only what matters to events is     *)
(* kept: which there are, whether the telescope has closed them, and       *)
(* whether their reader task still reads.                                  *)
(***************************************************************************)
EXTENDS Integers, Sequences, FiniteSets

CONSTANTS
    Addresses,     \* of telescopes
    Adders,        \* tasks that call add_seestar
    Holders,       \* tasks that keep a mount or a camera
    Untranslated,  \* events for which translate returns None
    Capacity,      \* of a client's channel of events
    MaxClients,    \* bound: clients created
    MaxConns,      \* bound: connections each client opens
    MaxEvents      \* bound: events each telescope sends

ASSUME FleetAssumption ==
    /\ IsFiniteSet(Addresses) /\ IsFiniteSet(Adders) /\ IsFiniteSet(Holders)
    /\ Capacity \in Nat \ {0}
    /\ MaxClients \in Nat /\ MaxEvents \in Nat
    /\ MaxConns \in [1..MaxClients -> Nat]
    /\ Untranslated \subseteq 1..MaxEvents

Clients == 1..MaxClients
Conns   == UNION {1..MaxConns[c] : c \in Clients}
None    == 0

VARIABLES
    created,    \* clients created
    addr,       \* of each client
    refs,       \* strong count of each Arc<SeestarClient>
    shut,       \* its shutdown has been sent
    run,        \* its control::run task runs
    backends,   \* DeviceManager.seestar_backends: address to client
    hand,       \* the client an add_seestar has connected and not registered
    held,       \* the client of the device each holder keeps
    current,    \* the connection each run task is in
    opened,     \* connections it has opened
    conn,       \* "off", "up", "gone" (closed by the telescope), "done" (not read)
    stream,     \* events sent on each connection and not yet read
    channel,    \* the client's events the translator has not yet received
    translator, \* "none", "running", "ended"
    sent,       \* events each telescope has sent
    bus,        \* history: what was emitted on the bus
    reached     \* history: clients that a disconnect_all found registered

managerVars == <<created, addr, refs, shut, backends, hand, held, reached>>
connVars == <<run, current, opened, conn, stream>>
eventVars == <<channel, translator, sent, bus>>
vars == <<managerVars, connVars, eventVars>>

Init ==
    /\ created = 0
    /\ addr = [c \in Clients |-> None]
    /\ refs = [c \in Clients |-> 0]
    /\ shut = [c \in Clients |-> FALSE]
    /\ run = [c \in Clients |-> FALSE]
    /\ backends = [a \in Addresses |-> None]
    /\ hand = [t \in Adders |-> None]
    /\ held = [h \in Holders |-> None]
    /\ current = [c \in Clients |-> None]
    /\ opened = [c \in Clients |-> 0]
    /\ conn = [c \in Clients |-> [k \in Conns |-> "off"]]
    /\ stream = [c \in Clients |-> [k \in Conns |-> <<>>]]
    /\ channel = [c \in Clients |-> <<>>]
    /\ translator = [c \in Clients |-> "none"]
    /\ sent = [a \in Addresses |-> 0]
    /\ bus = <<>>
    /\ reached = {}

-----------------------------------------------------------------------------
(* DeviceManager, backends and devices                                     *)

ConnectSharing(t, a) ==      \* Mutant: the translator task keeps its client
    /\ hand[t] = None /\ created < MaxClients
    /\ created' = created + 1
    /\ hand' = [hand EXCEPT ![t] = created']
    /\ addr' = [addr EXCEPT ![created'] = a]
    /\ refs' = [refs EXCEPT ![created'] = 2]
    /\ run' = [run EXCEPT ![created'] = TRUE]
    /\ translator' = [translator EXCEPT ![created'] = "running"]
    /\ UNCHANGED <<shut, backends, held, reached, current, opened, conn, stream, channel, sent, bus>>

\* SeestarBackend::connect: a client and the tasks that outlive this call.  The
\* translator task owns a receiver, not the client.
Connect(t, a) ==
    /\ hand[t] = None
    /\ created < MaxClients
    /\ created' = created + 1
    /\ hand' = [hand EXCEPT ![t] = created']
    /\ addr' = [addr EXCEPT ![created'] = a]
    /\ refs' = [refs EXCEPT ![created'] = 1]
    /\ run' = [run EXCEPT ![created'] = TRUE]
    /\ translator' = [translator EXCEPT ![created'] = "running"]
    /\ UNCHANGED <<shut, backends, held, reached, current, opened, conn, stream, channel, sent, bus>>

\* One owner of c less; Drop of the last one shuts the client down.
Release(c) ==
    IF c = None THEN UNCHANGED <<refs, shut>>
    ELSE /\ refs' = [refs EXCEPT ![c] = @ - 1]
         /\ shut' = IF refs[c] = 1 THEN [shut EXCEPT ![c] = TRUE] ELSE shut

RegisterAndDisconnect(t) ==  \* Mutant: a replaced backend is disconnected
    /\ hand[t] # None
    /\ LET a == addr[hand[t]] IN
          /\ backends' = [backends EXCEPT ![a] = hand[t]]
          /\ IF backends[a] = None THEN UNCHANGED <<refs, shut>>
             ELSE /\ refs' = [refs EXCEPT ![backends[a]] = @ - 1]
                  /\ shut' = [shut EXCEPT ![backends[a]] = TRUE]
    /\ hand' = [hand EXCEPT ![t] = None]
    /\ UNCHANGED <<created, addr, held, reached, connVars, eventVars>>

\* The rest of add_seestar: insert drops the backend that was there.
Register(t) ==
    /\ hand[t] # None
    /\ LET a == addr[hand[t]] IN
          /\ backends' = [backends EXCEPT ![a] = hand[t]]
          /\ Release(backends[a])
    /\ hand' = [hand EXCEPT ![t] = None]
    /\ UNCHANGED <<created, addr, held, reached, connVars, eventVars>>

\* The caller drops add_seestar while it waits for the lock.
CancelAdd(t) ==
    /\ hand[t] # None
    /\ Release(hand[t])
    /\ hand' = [hand EXCEPT ![t] = None]
    /\ UNCHANGED <<created, addr, backends, held, reached, connVars, eventVars>>

\* seestar_mount and seestar_camera: an adapter shares the client.
TakeDevice(h, a) ==
    /\ held[h] = None
    /\ backends[a] # None
    /\ held' = [held EXCEPT ![h] = backends[a]]
    /\ refs' = [refs EXCEPT ![backends[a]] = @ + 1]
    /\ UNCHANGED <<created, addr, shut, backends, hand, reached, connVars, eventVars>>

DropDevice(h) ==
    /\ held[h] # None
    /\ Release(held[h])
    /\ held' = [held EXCEPT ![h] = None]
    /\ UNCHANGED <<created, addr, backends, hand, reached, connVars, eventVars>>

\* disconnect_all shuts down what is registered, and leaves it registered.
DisconnectAll ==
    LET registered == {backends[a] : a \in Addresses} \ {None} IN
    /\ shut' = [c \in Clients |-> shut[c] \/ c \in registered]
    /\ reached' = reached \cup registered
    /\ UNCHANGED <<created, addr, refs, backends, hand, held, connVars, eventVars>>

-----------------------------------------------------------------------------
(* Connections                                                             *)

OpenConnection(c) ==
    /\ run[c] /\ ~shut[c]
    /\ current[c] = None
    /\ opened[c] < MaxConns[c]
    /\ opened' = [opened EXCEPT ![c] = @ + 1]
    /\ current' = [current EXCEPT ![c] = opened'[c]]
    /\ conn' = [conn EXCEPT ![c][opened'[c]] = "up"]
    /\ UNCHANGED <<managerVars, run, stream, eventVars>>

\* The telescope closes a connection; what it has sent can still be read.
TelescopeCloses(c, k) ==
    /\ conn[c][k] = "up"
    /\ conn' = [conn EXCEPT ![c][k] = "gone"]
    /\ UNCHANGED <<managerVars, run, current, opened, stream, eventVars>>

\* run_connected returns because its writer has ended, after a write error or for the
\* shutdown; the reader is left behind.
WriterEnds(c) ==
    /\ current[c] # None
    /\ shut[c] \/ conn[c][current[c]] = "gone"
    /\ current' = [current EXCEPT ![c] = None]
    /\ UNCHANGED <<managerVars, run, opened, conn, stream, eventVars>>

\* End of file, a read error, or a line that is too long: the rest is not read.
ReaderEnds(c, k) ==
    /\ conn[c][k] \in {"up", "gone"}
    /\ conn' = [conn EXCEPT ![c][k] = "done"]
    /\ stream' = [stream EXCEPT ![c][k] = <<>>]
    /\ current' = [current EXCEPT ![c] = IF @ = k THEN None ELSE @]
    /\ UNCHANGED <<managerVars, run, opened, eventVars>>

RunEnds(c) ==
    /\ run[c] /\ shut[c]
    /\ current[c] = None
    /\ run' = [run EXCEPT ![c] = FALSE]
    /\ UNCHANGED <<managerVars, current, opened, conn, stream, eventVars>>

-----------------------------------------------------------------------------
(* Events                                                                  *)

\* A telescope sends an event on every connection it has.
TelescopeSends(a) ==
    /\ sent[a] < MaxEvents
    /\ sent' = [sent EXCEPT ![a] = @ + 1]
    /\ stream' = [c \in Clients |-> [k \in Conns |->
                     IF addr[c] = a /\ conn[c][k] = "up" THEN Append(stream[c][k], sent'[a])
                     ELSE stream[c][k]]]
    /\ UNCHANGED <<managerVars, run, current, opened, conn, channel, translator, bus>>

\* reader_task and handle_event: broadcast, at the cost of the oldest when it is full.
Read(c, k) ==
    /\ conn[c][k] \in {"up", "gone"}
    /\ stream[c][k] # <<>>
    /\ stream' = [stream EXCEPT ![c][k] = Tail(@)]
    /\ LET all == Append(channel[c], [conn |-> k, event |-> Head(stream[c][k])]) IN
          channel' = [channel EXCEPT ![c] = IF Len(all) > Capacity THEN Tail(all) ELSE all]
    /\ UNCHANGED <<managerVars, run, current, opened, conn, translator, sent, bus>>

Emitted(c, e) == [device |-> addr[c], client |-> c, conn |-> e.conn, event |-> e.event]

TranslateFromOldest(c) ==    \* Mutant: a full channel is read from its start again
    /\ translator[c] = "running"
    /\ channel[c] # <<>>
    /\ Len(bus) < 8
    /\ bus' = IF Head(channel[c]).event \in Untranslated THEN bus
              ELSE Append(bus, Emitted(c, Head(channel[c])))
    /\ channel' = [channel EXCEPT ![c] = IF Len(@) = Capacity THEN @ ELSE Tail(@)]
    /\ UNCHANGED <<managerVars, connVars, translator, sent>>

\* The translator receives, and emits what translate makes of it; a lag only skips.
Translate(c) ==
    /\ translator[c] = "running"
    /\ channel[c] # <<>>
    /\ channel' = [channel EXCEPT ![c] = Tail(@)]
    /\ bus' = IF Head(channel[c]).event \in Untranslated THEN bus
              ELSE Append(bus, Emitted(c, Head(channel[c])))
    /\ UNCHANGED <<managerVars, connVars, translator, sent>>

\* Closed: the client is dropped, its run task has ended and no reader is left.
TranslatorEnds(c) ==
    /\ translator[c] = "running"
    /\ channel[c] = <<>>
    /\ refs[c] = 0 /\ ~run[c]
    /\ \A k \in Conns : conn[c][k] \in {"off", "done"}
    /\ translator' = [translator EXCEPT ![c] = "ended"]
    /\ UNCHANGED <<managerVars, connVars, channel, sent, bus>>

-----------------------------------------------------------------------------

Manager ==
    \/ \E t \in Adders : (\E a \in Addresses : Connect(t, a)) \/ Register(t) \/ CancelAdd(t)
    \/ \E h \in Holders : (\E a \in Addresses : TakeDevice(h, a)) \/ DropDevice(h)
    \/ DisconnectAll

Client(c) ==
    \/ OpenConnection(c) \/ WriterEnds(c) \/ RunEnds(c)
    \/ \E k \in Conns : TelescopeCloses(c, k) \/ ReaderEnds(c, k) \/ Read(c, k)
    \/ Translate(c) \/ TranslatorEnds(c)

Next ==
    \/ Manager
    \/ \E c \in Clients : Client(c)
    \/ \E a \in Addresses : TelescopeSends(a)

Spec == Init /\ [][Next]_vars

\* Tasks run; a telescope closes in the end a connection whose client does not write,
\* and a reader comes to the end of a closed one.
FairSpec ==
    /\ Spec
    /\ \A c \in Clients :
          /\ WF_vars(WriterEnds(c)) /\ WF_vars(RunEnds(c))
          /\ WF_vars(Translate(c)) /\ WF_vars(TranslatorEnds(c))
          /\ \A k \in Conns :
                /\ WF_vars(shut[c] /\ TelescopeCloses(c, k))
                /\ WF_vars(conn[c][k] = "gone" /\ ReaderEnds(c, k))

-----------------------------------------------------------------------------
(* Properties                                                              *)

TypeOK ==
    /\ created \in 0..MaxClients
    /\ addr \in [Clients -> Addresses \cup {None}]
    /\ refs \in [Clients -> Nat]
    /\ shut \in [Clients -> BOOLEAN]
    /\ run \in [Clients -> BOOLEAN]
    /\ backends \in [Addresses -> 0..MaxClients]
    /\ hand \in [Adders -> 0..MaxClients]
    /\ held \in [Holders -> 0..MaxClients]
    /\ current \in [Clients -> Conns \cup {None}]
    /\ opened \in [Clients -> Nat]
    /\ conn \in [Clients -> [Conns -> {"off", "up", "gone", "done"}]]
    /\ translator \in [Clients -> {"none", "running", "ended"}]
    /\ sent \in [Addresses -> 0..MaxEvents]
    /\ reached \subseteq Clients

Owned(c) ==
    \/ \E a \in Addresses : backends[a] = c
    \/ \E t \in Adders : hand[t] = c
    \/ \E h \in Holders : held[h] = c

\* manager.rs:54, backend/seestar/mod.rs: a client is shut down when the last that can
\* reach it lets go of it or when disconnect_all finds it registered, and by nothing
\* else: adding an address again leaves the devices of the old backend connected, and a
\* client still on its way into the map when disconnect_all runs stays up.
ShutWhenUnowned == \A c \in 1..created : shut[c] <=> ~Owned(c) \/ c \in reached

\* control.rs:245, event_translator.rs:26: the bus has each event of a telescope at most
\* once for each client, and those of one connection in the order they were sent, over
\* lags, lost connections and readers left behind.
EventsOnceInOrder ==
    \A i, j \in DOMAIN bus :
        i < j /\ bus[i].client = bus[j].client =>
            /\ bus[i].event # bus[j].event
            /\ bus[i].conn = bus[j].conn => bus[i].event < bus[j].event

\* event_translator.rs:33: the translator of a client that nobody can reach ends.
TranslatorsEnd ==
    \A c \in Clients : c <= created /\ ~Owned(c) ~> translator[c] = "ended"
=============================================================================
