------------------------------- MODULE MCData -------------------------------
(***************************************************************************)
(* The inputs that TLC puts to Data.                                       *)
(***************************************************************************)
EXTENDS Data, FiniteSets, TLC

\* Structures with every choice of required fields, and at most n optional ones.
Samples(s, n) ==
    LET R == DOMAIN s.required
        Fillings(types) == {v \in [DOMAIN types -> UNION Range(types)] : \A f \in DOMAIN types : v[f] \in types[f]}
        Present == {S \in SUBSET DOMAIN s.optional : Cardinality(S) <= n} IN
    UNION {{[f \in R \cup DOMAIN s.optional |->
                IF f \in R THEN Some(r[f]) ELSE IF f \in S THEN Some(o[f]) ELSE None] :
            r \in Fillings(s.required), o \in Fillings([f \in S |-> s.optional[f]])} : S \in Present}

Of(variant, args) == {<<variant, a>> : a \in args}
Lists(s) == {<<x>> : x \in s} \cup {<<x, y>> : x \in s, y \in s}
Options(s) == {None} \cup {Some(x) : x \in s}

MCRequests ==
    UNION {Of("GotoTarget", Samples(GotoTargetParams, 0)), Of("IscopeStartView", Samples(StartViewParams, 2)),
           Of("IscopeStartStack", Options(Samples(StartStackParams, 1))),
           Of("IscopeStopView", Options(Samples(StopViewParams, 0))),
           Of("ScopeSpeedMove", Samples(SpeedMoveParams, 0)), Of("MoveFocuser", Samples(MoveFocuserParams, 0)),
           Of("SetUserLocation", Samples(SetUserLocationParams, 0)), Of("PiSetTime", Samples(SetTimeParams, 0)),
           Of("StartPolarAlign", Samples(PolarAlignParams, 0)), Of("SetSetting", Samples(SettingParams, 1)),
           Of("SetStackSetting", Samples(SetStackSettingParams, 2)), Of("PlaySound", Samples(PlaySoundParams, 0)),
           Of("SetSequenceSetting", {<<>>} \cup Lists(Samples(SequenceSettingParams, 1))),
           Of("ScopeParkMode", Booleans), Of("ScopeSetTrackState", Booleans),
           Of("ScopeSync", Numbers \X Numbers), Of("SetControlValue", Strings \X Numbers),
           Of("PiOutputSet2", Values \cup {Null, Obj([a |-> Num(0)])}), Of("SetViewPlan", Values \cup {Obj([a |-> Num(1)])}),
           {<<v, None>> : v \in DOMAIN Plain}}

MCFirmware == {None, Some(2582), Some(2583)}

Palette == {Str("start"), Str("odd"), Num(1), Num(-1), Big, Frac, Bool(TRUE), Null, Arr(<<Num(1), Frac>>)}

\* Events with at most one of the fields their structure names.
FieldsOf(s) == DOMAIN s.required \cup DOMAIN s.option \cup DOMAIN s.default
EventLines ==
    {Obj([Event |-> Str(n)]) : n \in KnownEventNames \cup {"Novel"}}
    \cup {Obj([Event |-> Str(n), state |-> v, id |-> Num(1), code |-> Num(0)]) : n \in KnownEventNames \cup {"Novel"}, v \in Palette}
    \cup UNION {{Obj([Event |-> Str(n)] @@ (f :> v)) : f \in FieldsOf(EventData[n]), v \in Palette} : n \in DOMAIN EventData}
    \cup {Obj([Event |-> v]) : v \in {Num(2), Null}}
    \cup {Obj([Event |-> Str(n), state |-> s] @@ c) :
            n \in {"AutoGoto", "Alert", "Stack"}, s \in EventState \cup {Str("frame_complete"), Null},
            c \in {Empty} \cup {"code" :> v : v \in {Num(7), Null, Frac}}}

Keyed(key, options) == {Empty} \cup {key :> v : v \in options}
DeviceStates ==
    {Obj(Empty), Arr(<<>>), Num(3), Null} \cup {Obj([device |-> v]) : v \in Palette}
    \cup {Obj([device |-> Obj([firmware_ver_int |-> v])]) : v \in Palette \cup {Num(2583)}}
    \cup {Obj([device |-> Obj([firmware_ver_int |-> Num(2583)]), mount |-> v]) : v \in Palette}
AnswerLines ==
    {Obj(i @@ c @@ e @@ m @@ r) :
        i \in Keyed("id", {Num(1), Num(-1), Str("x"), Big}), c \in Keyed("code", {Num(0), Num(103), Num(-1), Big, Str("0")}),
        e \in Keyed("error", {Str("e"), Null, Num(1)}),
        m \in Keyed("method", {Str("get_device_state"), Str("other"), Null}), r \in Keyed("result", DeviceStates)}
MCLines == EventLines \cup AnswerLines \cup {Garbage, Arr(<<Num(1)>>), Num(1)}

Telescope == [result |-> Obj([ip |-> Str("ip1"), sn |-> Str("a")])]
Device == Obj([DeviceName |-> Str("a"), DeviceType |-> Str("camera"), DeviceNumber |-> Num(0), UniqueId |-> Str("a")])
Datagrams ==
    [src : {"ip1", "ip2", V6}, management : {Garbage},
     body : {Garbage, Probe, Obj(Telescope), Obj([result |-> Obj([ip |-> Str("bad")])])}]
    \cup [src : {"ip1", "ip2", V6}, body : {Obj([AlpacaPort |-> Num(1)]), Obj([AlpacaPort |-> Num(-1)]), Garbage},
          management : {Garbage, Obj([Value |-> Arr(<<Device>>)]), Obj([Value |-> Arr(<<Null>>)])}]
MCAnswers == UNION {[1..n -> Datagrams] : n \in 0..2}
             \cup [1..3 -> {d \in Datagrams : d.src = "ip1" /\ d.body # Probe}]

\* All JSON values, with what they are made of, down to the values of a device's fields.
Parts(S) ==
    UNION {IF v[1] \in {"arr", "obj"} THEN Range(v[2]) ELSE {} : v \in S}
MCDocuments ==
    LET raw == {r[2] : r \in {q \in MCRequests : q[1] \in Raw}}
        bodies == UNION {{d.body, d.management} : d \in Datagrams}
        top == (MCLines \cup bodies \cup raw) \ {Garbage}
        second == Parts(top)
        third == Parts(second)
        fourth == Parts(third) IN
    top \cup second \cup third \cup fourth

MCDays == (-720000..-719400) \cup (-171700..-171500) \cup (-400..800) \cup (10900..11100) \cup (46800..47800)
MCTimes == (-86402..-86398) \cup (-2..3700) \cup (86390..86402) \cup {2147483647, -2147483647}
MCAngles ==
    {NaN, -1, -90 * 360000, -90 * 360000 - 1, 90 * 360000, 90 * 360000 + 1, 24 * 360000, 24 * 360000 + 1, 24 * 360000 - 1}
    \cup (0..12100) \cup (359900..366100)

Word == {"a", "b"}
MCIndiCommands ==
    [cmd : {"GetProperties"}, device : Options(Word), name : Options(Word)]
    \cup [cmd : {"EnableBlob"}, device : Word, name : Options(Word), mode : I!BlobMode]
    \cup [cmd : {"Number", "Text"}, device : Word, name : Word, values : {<<>>} \cup Lists(Word \X Word)]
    \cup [cmd : {"Switch"}, device : Word, name : Word, values : {<<>>} \cup Lists(Word \X I!SwitchState)]
=============================================================================
