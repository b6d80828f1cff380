------------------------------ MODULE Messages ------------------------------
(***************************************************************************)
(* What the control connection makes of a line the telescope sends:        *)
(* protocol/json_rpc.rs (the classifiers), event/ and response/ (the types *)
(* serde deserializes into), reader_task, handle_event and handle_response *)
(* of connection/control.rs, and client.rs' reading of an answer.          *)
(*                                                                         *)
(* A line holds one JSON value, or is malformed: Garbage.                  *)
(***************************************************************************)
EXTENDS Json

Garbage == <<"garbage">>
Empty == [f \in {} |-> Null]

\* msg.get(key): None when msg is no object or has no such key.
Get(msg, key) == IF msg[1] = "obj" /\ key \in DOMAIN msg[2] THEN Some(msg[2][key]) ELSE None
Has(msg, key) == Get(msg, key) # None

IsEvent(msg) == Has(msg, "Event")
IsResponse(msg) == Has(msg, "id") /\ (Has(msg, "code") \/ Has(msg, "result"))
MethodName(msg) == IF Has(msg, "method") /\ Get(msg, "method")[1][1] = "str" THEN Get(msg, "method") ELSE None
JsonRpcId(msg) ==
    LET id == Get(msg, "id") IN
    IF id # None /\ (id[1] = Big \/ (id[1][1] = "num" /\ id[1][2] >= 0)) THEN id ELSE None

-----------------------------------------------------------------------------
(* serde's derived Deserialize.                                            *)

EventState == {Str(s) : s \in {"start", "cancel", "working", "complete", "fail"}}
ChargerStatus == {Str(s) : s \in {"Discharging", "Charging", "Full", "Not charging"}}

\* The values a field of a Rust type accepts.
Fits(type, v) ==
    CASE type = "any" -> TRUE
      [] type = "str" -> v[1] = "str"
      [] type = "bool" -> v[1] = "bool"
      [] type = "i32" -> v[1] = "num"
      [] type = "i64" -> v[1] \in {"num", "big"}
      [] type = "u32" -> v[1] = "num" /\ v[2] >= 0
      [] type = "u64" -> v[1] = "big" \/ (v[1] = "num" /\ v[2] >= 0)
      [] type = "f64" -> v[1] \in {"num", "big", "frac"}
      [] type = "pair" -> v[1] = "arr" /\ Len(v[2]) = 2 /\ \A i \in 1..2 : v[2][i][1] \in {"num", "big", "frac"}
      [] type = "EventState" -> v \in EventState
      [] type = "ChargerStatus" -> v \in ChargerStatus

\* A field is required, an Option (missing and null are None), or has a default
\* (only missing is): the three tables of a structure map names to types.
Fields(required, option, default) == [required |-> required, option |-> option, default |-> default]
Typed(names, type) == [n \in names |-> type]
NoTypes == Typed({}, "any")

\* Whether the object's fields satisfy the structure; unknown keys are ignored.
Deserializes(fits(_, _), obj, s) ==
    /\ \A f \in DOMAIN s.required : f \in DOMAIN obj /\ fits(s.required[f], obj[f])
    /\ \A f \in DOMAIN s.option \cap DOMAIN obj : obj[f] = Null \/ fits(s.option[f], obj[f])
    /\ \A f \in DOMAIN s.default \cap DOMAIN obj : fits(s.default[f], obj[f])

-----------------------------------------------------------------------------
(* event/types.rs                                                          *)

Stated(type) == [state |-> type]
Lapse == [lapse_ms |-> "i64"]

EventData == [
    AutoGoto |-> Fields(NoTypes, Stated("EventState") ++ [error |-> "str", code |-> "i32"],
                        Lapse ++ [count |-> "i32", hint |-> "bool"]),
    Stack |-> Fields(NoTypes, Stated("str") ++ [frame_type |-> "str"],
                     Lapse ++ [error |-> "str", can_annotate |-> "bool"]
                     ++ Typed({"frame_errcode", "stacked_frame", "dropped_frame", "total_frame", "code"}, "i32")),
    PiStatus |-> Fields(NoTypes, [temp |-> "f64", charger_status |-> "ChargerStatus",
                                  charge_online |-> "bool", battery_capacity |-> "i32"], NoTypes),
    View |-> Fields(NoTypes, Stated("EventState") ++ [mode |-> "str", cam_id |-> "i32",
                                                      lp_filter |-> "bool", gain |-> "i32"], Lapse),
    ScopeGoto |-> Fields(NoTypes, Stated("EventState") ++ [cur_ra_dec |-> "pair"], Lapse ++ [dist_deg |-> "f64"]),
    ScopeHome |-> Fields(NoTypes, Stated("EventState"), Lapse ++ [close |-> "bool"]),
    ScopeTrack |-> Fields(NoTypes, Stated("str") ++ [error |-> "str"],
                          [tracking |-> "bool", manual |-> "bool", code |-> "i32"]),
    AutoFocus |-> Fields(NoTypes, Stated("EventState"), Lapse),
    Exposure |-> Fields(NoTypes, Stated("str"), Lapse ++ [exp_ms |-> "f64"]),
    FocuserMove |-> Fields(NoTypes, Stated("EventState"), Lapse ++ [position |-> "i32"]),
    Initialise |-> Fields(NoTypes, Stated("EventState"), Lapse),
    Alert |-> Fields(NoTypes, Stated("EventState"), [error |-> "str", code |-> "i32"]),
    WheelMove |-> Fields(NoTypes, Stated("EventState"), [position |-> "i32"]),
    DiskSpace |-> Fields(NoTypes, NoTypes, [used_percent |-> "i32"]),
    SaveImage |-> Fields(NoTypes, Stated("EventState"), [filename |-> "str", fullname |-> "str"])]

\* The events whose payload is kept as raw JSON.
RawEvents ==
    {"ContinuousExposure", "DarkLibrary", "RTSP", "ScopeMoveToHorizon", "Annotate", "AutoGotoStep",
     "BatchStack", "Client", "EqModePA", "GoPixel", "Internal", "PlateSolve", "ScanSun", "SecondView",
     "SelectCamera", "Setting", "3PPA", "ViewPlan"}

\* SeestarEvent::name of every modelled event.
KnownEventNames ==
    {"Alert", "AutoFocus", "AutoGoto", "ContinuousExposure", "DarkLibrary", "DiskSpace", "Exposure",
     "FocuserMove", "Initialise", "PiStatus", "RTSP", "SaveImage", "ScopeGoto", "ScopeHome",
     "ScopeMoveToHorizon", "ScopeTrack", "Stack", "View", "WheelMove", "Annotate", "AutoGotoStep",
     "BatchStack", "Client", "EqModePA", "GoPixel", "Internal", "PlateSolve", "ScanSun", "SecondView",
     "SelectCamera", "Setting", "3PPA", "ViewPlan"}

ParseEventKnown(obj) ==          \* Mutant: no variant takes the other events
    LET name == obj["Event"][2] IN
    IF obj["Event"][1] # "str" THEN None ELSE
    CASE name \in DOMAIN EventData /\ Deserializes(Fits, obj, EventData[name]) -> Some([name |-> name, data |-> obj])
      [] name \in RawEvents -> Some([name |-> name, data |-> obj])
      [] OTHER -> None

\* The tagged enum: a tag is a string, a modelled one needs its data, and any other
\* is Unknown and keeps nothing.
ParseEvent(obj) ==
    LET name == obj["Event"][2] IN
    IF obj["Event"][1] # "str" THEN None ELSE
    CASE name \in DOMAIN EventData ->
            IF Deserializes(Fits, obj, EventData[name]) THEN Some([name |-> name, data |-> obj]) ELSE None
      [] name \in RawEvents -> Some([name |-> name, data |-> obj])
      [] OTHER -> Some([name |-> "Unknown", data |-> Empty])

-----------------------------------------------------------------------------
(* response/mod.rs                                                         *)

CommandResponse == Fields([id |-> "u64"], [Timestamp |-> "str", method |-> "str", error |-> "str", result |-> "any"],
                          [jsonrpc |-> "str", code |-> "i32"])

Code(obj) == IF "code" \in DOMAIN obj THEN obj["code"][2] ELSE 0

IntoResultOfError(obj) ==        \* Mutant: the error text decides, not the code
    IF "error" \notin DOMAIN obj
    THEN [ok |-> TRUE, value |-> IF "result" \in DOMAIN obj THEN obj["result"] ELSE Null]
    ELSE [ok |-> FALSE, value |-> Num(Code(obj))]

\* into_result: Ok(result), null when there is none, or the telescope's error.
IntoResult(obj) ==
    IF Code(obj) = 0
    THEN [ok |-> TRUE, value |-> IF "result" \in DOMAIN obj THEN obj["result"] ELSE Null]
    ELSE [ok |-> FALSE, value |-> Num(Code(obj))]

\* DeviceStateResult, with the structures inside it.
Inner == [
    DeviceInfo |-> Fields(NoTypes, Typed({"name", "firmware_ver_string", "sn", "cpuId", "product_model",
                                          "user_product_model"}, "str")
                                   ++ [firmware_ver_int |-> "u32"] ++ Typed({"focal_len", "fnumber"}, "f64")
                                   ++ Typed({"can_star_mode_sel_cam", "can_wide_cam_af", "can_wide_cam_roi",
                                             "is_verified"}, "bool"), NoTypes),
    CameraInfo |-> Fields(NoTypes, [chip_size |-> "pair", pixel_size_um |-> "f64", debayer_pattern |-> "str"], NoTypes),
    FocuserInfo |-> Fields(NoTypes, [state |-> "str", max_step |-> "i32", step |-> "i32"], NoTypes),
    MountInfo |-> Fields(NoTypes, [move_type |-> "str"] ++ Typed({"tracking", "equ_mode", "close"}, "bool"), NoTypes),
    PiStatusInfo |-> Fields(NoTypes, [temp |-> "f64", battery_capacity |-> "i32", charger_status |-> "str",
                                      charge_online |-> "bool"], NoTypes)]

FitsInner(type, v) ==
    IF type \in DOMAIN Inner THEN v[1] = "obj" /\ Deserializes(Fits, v[2], Inner[type]) ELSE Fits(type, v)

DeviceStateResult ==
    Fields(NoTypes, [device |-> "DeviceInfo", camera |-> "CameraInfo", focuser |-> "FocuserInfo",
                     mount |-> "MountInfo", pi_status |-> "PiStatusInfo"]
                    ++ Typed({"setting", "ap", "station", "storage", "balance_sensor", "compass_sensor"}, "any"), NoTypes)

\* serde_json::from_value of a command's result.
Parses(v, s) == v[1] = "obj" /\ Deserializes(FitsInner, v[2], s)

-----------------------------------------------------------------------------
(* control.rs: the reader's dispatch of a line.                            *)

\* handle_response's look at the firmware, before the response is deserialized:
\* None, or the number, cut to 32 bits (Big is 2^32 + 1).
ReportedFirmware(msg) ==
    LET result == Get(msg, "result")
        device == IF result = None THEN None ELSE Get(result[1], "device")
        fw == IF device = None THEN None ELSE Get(device[1], "firmware_ver_int") IN
    IF MethodName(msg) # Some(Str("get_device_state")) \/ fw = None \/ ~Fits("u64", fw[1]) THEN None
    ELSE Some(IF fw[1] = Big THEN 1 ELSE fw[1][2])

HandleEvent(msg) == [event |-> ParseEvent(msg[2]), firmware |-> None, answer |-> None]

HandleResponse(msg) ==
    [event |-> None,
     firmware |-> IF JsonRpcId(msg) = None THEN None ELSE ReportedFirmware(msg),
     answer |-> IF JsonRpcId(msg) # None /\ Deserializes(Fits, msg[2], CommandResponse)
                THEN Some([id |-> JsonRpcId(msg)[1], outcome |-> IntoResult(msg[2])]) ELSE None]

\* What a line does: broadcast an event, record the firmware, answer a call.
Dispatch(line) ==
    IF line # Garbage /\ IsEvent(line) THEN HandleEvent(line)
    ELSE IF line # Garbage /\ IsResponse(line) THEN HandleResponse(line)
    ELSE [event |-> None, firmware |-> None, answer |-> None]
=============================================================================
