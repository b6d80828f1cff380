----------------------------- MODULE Discovery -----------------------------
(***************************************************************************)
(* The discovery of telescopes (protocol/discovery.rs) and of Alpaca       *)
(* servers (scopinator-alpaca) by broadcast: what a sequence of datagrams  *)
(* received before the deadline is made of.  A datagram has a source and   *)
(* the JSON value of its body, or Garbage; one from an Alpaca server also  *)
(* has the body with which the server would answer the query it provokes,  *)
(* Garbage when there is none.                                             *)
(***************************************************************************)
EXTENDS Messages, SequencesExt

-----------------------------------------------------------------------------
(* Seestar                                                                 *)

Localhost == "127.0.0.1"
V6 == "v6"          \* the source of a datagram over IPv6
IsIpv4(s) == s \notin {"", "v6", "bad"}

\* The address is the one in the answer when it can be parsed, else the source.
ParseDiscoveryResponse(response, src) ==
    LET result == Get(response, "result")
        ip == IF result = None THEN None ELSE Get(result[1], "ip")
        Text(v) == IF v # None /\ v[1][1] = "str" THEN v ELSE None IN
    IF result = None THEN None
    ELSE Some([address |-> IF Text(ip) # None /\ IsIpv4(ip[1][2]) THEN ip[1][2]
                           ELSE IF src = V6 THEN Localhost ELSE src,
               product_model |-> Text(Get(result[1], "product_model")),
               serial_number |-> Text(Get(result[1], "sn"))])

\* The probe comes back to its sender.
Probe == Obj([id |-> Num(201), method |-> Str("scan_iscope"), name |-> Str("scopinator"), ip |-> Str("10.0.0.9")])

DiscoverSeestars(datagrams) ==
    LET Answer(d) == IF d.body \in {Probe, Garbage} THEN None ELSE ParseDiscoveryResponse(d.body, d.src) IN
    FlattenSeq([i \in DOMAIN datagrams |-> Answer(datagrams[i])])

-----------------------------------------------------------------------------
(* Alpaca                                                                  *)

\* DiscoveryResponse: the port, a u16.
AlpacaPort(body) ==
    LET port == Get(body, "AlpacaPort") IN
    IF port # None /\ port[1][1] = "num" /\ port[1][2] \in 0..65535 THEN Some(port[1][2]) ELSE None

\* ManagementResponse: None unless every device is complete.
ConfiguredDevice == Fields(Typed({"DeviceName", "DeviceType", "UniqueId"}, "str") ++ [DeviceNumber |-> "u32"],
                           NoTypes, NoTypes)
GetConfiguredDevices(body) ==
    LET value == Get(body, "Value") IN
    IF value # None /\ value[1][1] = "arr"
       /\ \A i \in DOMAIN value[1][2] :
             value[1][2][i][1] = "obj" /\ Deserializes(Fits, value[1][2][i][2], ConfiguredDevice)
    THEN Some(value[1][2]) ELSE None

SeenUnread(state, d) ==     \* Mutant: a source is marked before its datagram is read
    LET port == AlpacaPort(d.body)
        devices == GetConfiguredDevices(d.management) IN
    IF d.src = V6 \/ d.src \in state.seen THEN state
    ELSE [seen |-> state.seen \cup {d.src},
          servers |-> IF devices = None \/ port = None THEN state.servers
                      ELSE Append(state.servers, [address |-> d.src, port |-> port[1], devices |-> devices[1]])]

\* A server is queried once, at its first datagram.
FoundServer(state, d) ==
    LET port == AlpacaPort(d.body)
        devices == GetConfiguredDevices(d.management) IN
    IF port = None \/ d.src = V6 \/ d.src \in state.seen THEN state
    ELSE [seen |-> state.seen \cup {d.src},
          servers |-> IF devices = None THEN state.servers
                      ELSE Append(state.servers, [address |-> d.src, port |-> port[1], devices |-> devices[1]])]

DiscoverServers(datagrams) ==
    LET after[n \in 0..Len(datagrams)] ==
            IF n = 0 THEN [seen |-> {}, servers |-> <<>>] ELSE FoundServer(after[n - 1], datagrams[n])
    IN  after[Len(datagrams)].servers
=============================================================================
