-------------------------------- MODULE Data --------------------------------
(***************************************************************************)
(* The pure parts of the crates - Commands, Messages, Unified, Discovery,  *)
(* Values and Indi - put to every input of the constants below.  A         *)
(* behaviour picks one input; the properties compare what the code makes   *)
(* of it with a reference definition.                                      *)
(***************************************************************************)
EXTENDS Commands, Unified, Discovery, Values, Functions

CONSTANTS
    Requests,       \* commands for the control port
    Firmware,       \* options: the firmware the telescope has reported
    Lines,          \* lines from the telescope
    Answers,        \* sequences of datagrams received by either discovery
    Days,           \* days since 1970-01-01
    Times,          \* seconds since 1970-01-01
    Angles,         \* right ascensions and declinations, NaN among them
    IndiCommands,   \* INDI commands
    Documents       \* the JSON values that lines and datagrams hold, with their parts

I == INSTANCE Indi

-----------------------------------------------------------------------------
(* The inputs                                                              *)

\* How a telescope reads params: an object's fields, or a list of values.
Items(params) ==
    IF params = None THEN <<>>
    ELSE IF params[1][1] \in {"arr", "obj"} THEN params[1][2] ELSE params

\* The same with the marker taken off again, when it is there.
Unmarked(params) ==
    LET p == Items(params) IN
    IF params # None /\ params[1][1] = "obj"
    THEN [f \in DOMAIN p \ {Verify} |-> p[f]]
    ELSE IF p # <<>> /\ p[Len(p)] = Str(Verify) THEN SubSeq(p, 1, Len(p) - 1) ELSE p

Marked(params) ==
    params # None /\ IF params[1][1] = "obj" THEN Verify \in DOMAIN params[1][2]
                     ELSE Len(Items(params)) > 0 /\ Items(params)[Len(Items(params))] = Str(Verify)

Datagram == [src : STRING, body : Documents \cup {Garbage}, management : Documents \cup {Garbage}]

\* A caller's own JSON does not hold the marker.
ASSUME RequestsAssumption ==
    /\ \A r \in Requests : IsCommand(r, {v \in Documents : ~Marked(Some(v))})
    /\ \A fw \in Firmware : fw = None \/ (fw[1] \in Nat /\ fw = Some(fw[1]))
ASSUME LinesAssumption ==
    /\ IsJson(Documents)
    /\ Lines \subseteq Documents \cup {Garbage}
    /\ Answers \subseteq Seq(Datagram)
ASSUME ValuesAssumption ==
    /\ Days \subseteq Int /\ Times \subseteq Int
    /\ Angles \subseteq Int \cup {NaN} /\ NaN \notin Int
ASSUME IndiAssumption == \A c \in IndiCommands : I!IsCommand(c)

-----------------------------------------------------------------------------

VARIABLES
    topic,      \* what kind of input was picked
    subject     \* the input

vars == <<topic, subject>>

Init == topic = "none" /\ subject = None

Pick(kind, inputs) ==
    /\ topic = "none"
    /\ topic' = kind
    /\ subject' \in inputs

Next ==
    \/ Pick("request", Requests)
    \/ Pick("line", Lines)
    \/ Pick("datagrams", Answers)
    \/ Pick("day", Days)
    \/ Pick("time", Times)
    \/ Pick("angle", Angles)
    \/ Pick("indi", IndiCommands)

Spec == Init /\ [][Next]_vars

-----------------------------------------------------------------------------
(* Commands                                                                *)

\* params.rs, mod.rs, serialize.rs: two commands never become the same line, whatever
\* firmware has been reported, so that the telescope can tell what was asked.  The
\* exception is a caller's own JSON: the marker makes x and [x] the same.  Nor do two
\* INDI commands whose names and values hold no markup (xml.rs), and a switch reads back
\* as it was set; nor two commands for the imaging port.
CommandsDistinct ==
  /\ \A c, d \in DOMAIN ImagingMethod : SerializeImaging(c) = SerializeImaging(d) => c = d
  /\ topic = "indi" =>
        /\ \A d \in IndiCommands : I!SerializeCommand(subject) = I!SerializeCommand(d) => subject = d
        /\ subject.cmd = "Switch" =>
              \A i \in DOMAIN subject.values : I!ParseSwitchState(subject.values[i][2]) = subject.values[i][2]
  /\ topic = "request" =>
        /\ Method(subject) \in CommandMethodNames
        /\ \A d \in Requests :
              Method(d) = Method(subject) /\ d # subject =>
                  \A fw \in Firmware :
                      SerializeCommand(subject, fw) = SerializeCommand(d, fw) =>
                          subject[1] \in Raw /\ (subject[2] = Arr(<<d[2]>>) \/ d[2] = Arr(<<subject[2]>>))

\* serialize.rs: the marker is there unless the telescope has reported a firmware that
\* does not want it, and it changes nothing else of what the command says.
VerifyOnlyAdds ==
    topic = "request" =>
        \A fw \in Firmware :
            LET params == SerializeCommand(subject, fw).params IN
            /\ Marked(params) <=> (fw = None \/ fw[1] > VerifyThreshold)
            /\ Unmarked(params) = Items(CommandParams(subject))

-----------------------------------------------------------------------------
(* Messages                                                                *)

Extended(line, key) == Obj([f \in {key} |-> Num(7)] ++ line[2])

\* event/mod.rs: firmware that adds fields or events does not disturb the client: a
\* field no structure names changes nothing, and an event no variant names is still
\* broadcast; only a modelled event can be lost, to a field it does name.
EventsForwardCompatible ==
    topic = "line" /\ subject # Garbage /\ IsEvent(subject) =>
        LET got == Dispatch(subject).event
            more == Dispatch(Extended(subject, "added")).event
            name == Get(subject, "Event")[1] IN
        /\ got = None <=> more = None
        /\ got # None => got[1].name = more[1].name
        /\ got = None => name[1] # "str" \/ name[2] \in DOMAIN EventData
        /\ got # None /\ name[2] \in KnownEventNames => got[1].name = name[2]

\* control.rs, response/mod.rs: a call gets Ok only from a line without an error code
\* and never from an event, and when the caller of get_device_state can read the
\* firmware in its answer, the connection has recorded the same one.
AnswersTrue ==
    topic = "line" =>
        LET got == Dispatch(subject) IN
        got.answer # None =>
            /\ got.event = None
            /\ got.answer[1].outcome.ok => Get(subject, "code") \in {None, Some(Num(0))}
            /\ LET result == got.answer[1].outcome.value
                   device == Get(result, "device")
                   fw == IF device = None THEN None ELSE Get(device[1], "firmware_ver_int") IN
               /\ Get(subject, "method") = Some(Str("get_device_state"))
               /\ got.answer[1].outcome.ok
               /\ Parses(result, DeviceStateResult)
               /\ fw \notin {None, Some(Null)}
               => got.firmware = Some(fw[1][2])

Kept(state) == state \in EventState \ {Str("cancel")}

\* event_translator.rs: the bus says that a slew has started or ended exactly when the
\* telescope said so and the whole event could be read; of a cancelled slew it says
\* nothing, and a failure carries the telescope's code whenever there was one.
BusTellsTheTruth ==
    topic = "line" /\ subject # Garbage =>
        LET told == Unify(subject)
            state == Get(subject, "state")
            slew == /\ Get(subject, "Event") = Some(Str("AutoGoto"))
                    /\ Deserializes(Fits, subject[2], EventData["AutoGoto"])
                    /\ state # None /\ Kept(state[1])
            type == IF told = None THEN "none" ELSE told[1].type IN
        /\ slew => type = CASE state[1] = Str("complete") -> "SlewCompleted"
                             [] state[1] = Str("fail") -> "Error"
                             [] OTHER -> "SlewStarted"
        /\ type \in {"SlewStarted", "SlewCompleted"} => slew
        /\ type = "Error" => Get(subject, "code") \in {None, Some(Null), Some(told[1].payload[1])}
        /\ type # "none" => told = Unify(Extended(subject, "added"))

-----------------------------------------------------------------------------
(* Discovery                                                               *)

\* discovery.rs, both: a telescope is found whose answer arrives, and nothing else is.
\* An Alpaca server is listed once, with devices it did report; it is sure to be listed
\* only if every one of its datagrams would have been followed by a good answer, since
\* the first alone is.
DiscoveryComplete ==
    topic = "datagrams" =>
        LET found == DiscoverSeestars(subject)
            servers == DiscoverServers(subject)
            From(src) == {d \in Range(subject) : d.src = src /\ AlpacaPort(d.body) # None} IN
        /\ \A d \in Range(subject) :
              Has(d.body, "result") => \E x \in Range(found) : Some(x) = ParseDiscoveryResponse(d.body, d.src)
        /\ \A x \in Range(found) : \E d \in Range(subject) : Some(x) = ParseDiscoveryResponse(d.body, d.src)
        /\ \A i, j \in DOMAIN servers : servers[i].address = servers[j].address => i = j
        /\ \A s \in Range(servers) :
              \E d \in From(s.address) : GetConfiguredDevices(d.management) = Some(s.devices)
        /\ \A src \in {d.src : d \in Range(subject)} \ {V6} :
              /\ From(src) # {}
              /\ \A d \in From(src) : GetConfiguredDevices(d.management) # None
              => \E s \in Range(servers) : s.address = src

-----------------------------------------------------------------------------
(* Values                                                                  *)

\* params.rs: the civil date of a day is the calendar's: day 0 is 1970-01-01, and each
\* day's successor is the next date, before 1970 and across leap centuries too.  The
\* time of day counts the seconds past midnight.
TimeOfTheCalendar ==
    /\ topic = "day" =>
          /\ CivilFromDays(subject + 1) = Tomorrow(CivilFromDays(subject))
          /\ subject = 0 => CivilFromDays(0) = [year |-> 1970, mon |-> 1, day |-> 1]
    /\ topic = "time" =>
          LET t == FromUnixUtc(subject) IN
          /\ t.hour \in 0..23 /\ t.min \in 0..59 /\ t.sec \in 0..59
          /\ subject % 86400 = t.hour * 3600 + t.min * 60 + t.sec
          /\ FromUnixUtc(subject - 1).date = t.date \/ <<t.hour, t.min, t.sec>> = <<0, 0, 0>>

\* coordinates.rs: a number that is accepted is a coordinate of the sky, the same one
\* through degrees and through hours, and what is printed is within a twentieth of a
\* second of it.
CoordinatesOnTheSky ==
    topic = "angle" /\ subject # NaN =>
        /\ \A ra \in Range(RaDegrees(subject)) :
              /\ ra \in 0..(Turn - 1)
              /\ ra % Turn = subject % Turn
              /\ \A p \in Sexagesimal(ra) :
                    p.unit * Hour + p.minute * 6000 + p.tenths * 10 - ra \in -5..5
        /\ RaFromHours(subject) = RaDegrees(subject)
        /\ \A dec \in Range(DecDegrees(subject)) : dec = subject /\ dec + 90 * ArcDegree \in 0..(180 * ArcDegree)

=============================================================================
