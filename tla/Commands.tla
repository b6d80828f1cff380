------------------------------ MODULE Commands ------------------------------
(***************************************************************************)
(* The control port's commands and their JSON form: command/mod.rs (the    *)
(* variants and their methods), command/params.rs (the structures) and     *)
(* command/serialize.rs (the message, with the "verify" marker).           *)
(*                                                                         *)
(* A command is a pair: the variant and its argument, None when it has     *)
(* none.  A structure maps its field names to options of JSON values.      *)
(***************************************************************************)
EXTENDS Json

-----------------------------------------------------------------------------
(* params.rs: the fields of each structure and the values a field takes.   *)

Strings == {Str("a"), Str("b")}
Booleans == {Bool(TRUE), Bool(FALSE)}
Numbers == {Num(0), Num(1)}
Values == Numbers \cup {Bool(TRUE), Arr(<<Num(1)>>)}
Pairs == {Arr(<<Num(0), Num(1)>>), Arr(<<Num(1), Num(0)>>)}
Names(s) == {Str(x) : x \in s}

ViewMode == Names({"star", "scenery", "solar_sys"})
SolarTarget == Names({"sun", "moon", "planet"})
StopStage == Names({"DarkLibrary", "Stack", "AutoGoto"})

\* A structure with required fields, and with fields that serde skips when None.
Struct(required, optional) == [required |-> required, optional |-> optional]
NoFields == [f \in {} |-> {}]
Each(fields, values) == [f \in fields |-> values]

GotoTargetParams ==
    Struct([target_name |-> Strings, is_j2000 |-> Booleans, ra |-> Numbers, dec |-> Numbers], NoFields)
StartViewParams ==
    Struct(NoFields, [mode |-> ViewMode, target_name |-> Strings, target_ra_dec |-> Pairs,
                      target_type |-> SolarTarget, lp_filter |-> Booleans])
StartStackParams == Struct(NoFields, [restart |-> Booleans])
StopViewParams == Struct([stage |-> StopStage], NoFields)
SpeedMoveParams == Struct(Each({"angle", "level", "dur_sec", "percent"}, Numbers), NoFields)
MoveFocuserParams == Struct([step |-> Numbers, ret_step |-> Booleans], NoFields)
SetUserLocationParams == Struct([lat |-> Numbers, lon |-> Numbers, force |-> Booleans], NoFields)
SetTimeParams ==
    Struct(Each({"year", "mon", "day", "hour", "min"}, {Num(1)})
           ++ [sec |-> Numbers, time_zone |-> Strings], NoFields)
PolarAlignParams == Struct([restart |-> Booleans, dec_pos_index |-> Numbers], NoFields)
SettingParams ==
    Struct(NoFields,
        [f \in {"exp_ms", "stack_dither", "dark_mode", "stack"} |-> Values]
        ++ [focal_pos |-> Numbers]
        ++ Each({"save_discrete_frame", "save_discrete_ok_frame", "auto_3ppa_calib", "stack_lenhance",
                 "auto_af", "stack_after_goto", "frame_calib", "auto_power_off", "expert_mode",
                 "plan_target_af", "viewplan_gohome"}, Booleans))
SetStackSettingParams ==
    Struct(NoFields,
        Each({"save_discrete_ok_frame", "save_discrete_frame", "dbe_enable"}, Booleans)
        ++ [capt_type |-> Strings]
        ++ Each({"light_duration_min", "capt_num", "brightness", "contrast", "saturation"}, Numbers))
SequenceSettingParams == Struct(NoFields, [group_name |-> Strings])
PlaySoundParams == Struct([num |-> Numbers], NoFields)
-----------------------------------------------------------------------------
(* mod.rs: the variants, and the method each is sent as.                   *)

\* Variants without an argument, with their methods.
Plain == [
    TestConnection |-> "test_connection", PiIsVerified |-> "pi_is_verified",
    PiReboot |-> "pi_reboot", PiGetTime |-> "pi_get_time",
    GetDeviceState |-> "get_device_state", GetViewState |-> "get_view_state",
    GetCameraInfo |-> "get_camera_info", GetCameraState |-> "get_camera_state",
    GetSetting |-> "get_setting", GetStackSetting |-> "get_stack_setting",
    GetStackInfo |-> "get_stack_info", GetDiskVolume |-> "get_disk_volume",
    GetUserLocation |-> "get_user_location", GetWheelPosition |-> "get_wheel_position",
    GetWheelSetting |-> "get_wheel_setting", GetWheelState |-> "get_wheel_state",
    GetLastSolveResult |-> "get_last_solve_result", GetSolveResult |-> "get_solve_result",
    GetAnnotatedResult |-> "get_annotated_result", ScopeGetEquCoord |-> "scope_get_equ_coord",
    ScopeGetRaDec |-> "scope_get_ra_dec", ScopeGetHorizCoord |-> "scope_get_horiz_coord",
    ScopePark |-> "scope_park", ScopeMoveToHorizon |-> "scope_move_to_horizon",
    GetFocuserPosition |-> "get_focuser_position", StartAutoFocus |-> "start_auto_focuse",
    StopAutoFocus |-> "stop_auto_focuse", PiStationState |-> "pi_station_state",
    GetStackedImage |-> "get_stacked_img", StartSolve |-> "start_solve",
    StartScanPlanet |-> "start_scan_planet", StopViewPlan |-> "stop_func"]

\* Variants with an argument, with their methods.
Carrying == [
    PiSetTime |-> "pi_set_time", ScopeSync |-> "scope_sync", ScopeParkMode |-> "scope_park",
    ScopeSpeedMove |-> "scope_speed_move", ScopeSetTrackState |-> "scope_set_track_state",
    GotoTarget |-> "goto_target", IscopeStartView |-> "iscope_start_view",
    IscopeStopView |-> "iscope_stop_view", IscopeStartStack |-> "iscope_start_stack",
    MoveFocuser |-> "move_focuser", SetUserLocation |-> "set_user_location",
    SetSetting |-> "set_setting", SetStackSetting |-> "set_stack_setting",
    SetControlValue |-> "set_control_value", PiOutputSet2 |-> "pi_output_set2",
    SetSequenceSetting |-> "set_sequence_setting", PlaySound |-> "play_sound",
    StartPolarAlign |-> "start_polar_align", SetViewPlan |-> "set_view_plan"]

MethodCopied(cmd) ==             \* Mutant: an arm copied and not changed
    IF cmd[1] = "StopAutoFocus" THEN "start_auto_focuse" ELSE (Plain ++ Carrying)[cmd[1]]

Method(cmd) == (Plain ++ Carrying)[cmd[1]]

\* The published list of methods; ScopePark and ScopeParkMode share one.
CommandMethodNames ==
    {"test_connection", "pi_is_verified", "pi_reboot", "pi_get_time", "pi_set_time",
     "get_device_state", "get_view_state", "get_camera_info", "get_camera_state", "get_setting",
     "get_stack_setting", "get_stack_info", "get_disk_volume", "get_user_location",
     "get_wheel_position", "get_wheel_setting", "get_wheel_state", "get_last_solve_result",
     "get_solve_result", "get_annotated_result", "scope_get_equ_coord", "scope_get_ra_dec",
     "scope_get_horiz_coord", "scope_sync", "scope_park", "scope_move_to_horizon",
     "scope_speed_move", "scope_set_track_state", "goto_target", "iscope_start_view",
     "iscope_stop_view", "iscope_start_stack", "get_focuser_position", "move_focuser",
     "start_auto_focuse", "stop_auto_focuse", "set_user_location", "set_setting",
     "set_stack_setting", "set_control_value", "pi_output_set2", "set_sequence_setting",
     "play_sound", "pi_station_state", "get_stacked_img", "start_solve", "start_scan_planet",
     "start_polar_align", "set_view_plan", "stop_func"}

-----------------------------------------------------------------------------
(* serialize.rs: the params of a command, and the verify marker.           *)

\* What serde writes for a structure: the fields that are not None.
ToValue(p) == Obj([f \in {g \in DOMAIN p : p[g] # None} |-> p[f][1]])

Structures == {"GotoTarget", "IscopeStartView", "ScopeSpeedMove", "StartPolarAlign", "MoveFocuser",
               "SetUserLocation", "SetSetting", "SetStackSetting", "PlaySound"}

\* The structure that the argument of a variant is, is an option of, or is a list of.
StructureOf == [
    GotoTarget |-> GotoTargetParams, IscopeStartView |-> StartViewParams,
    ScopeSpeedMove |-> SpeedMoveParams, StartPolarAlign |-> PolarAlignParams,
    MoveFocuser |-> MoveFocuserParams, SetUserLocation |-> SetUserLocationParams,
    SetSetting |-> SettingParams, SetStackSetting |-> SetStackSettingParams,
    PlaySound |-> PlaySoundParams, PiSetTime |-> SetTimeParams, IscopeStopView |-> StopViewParams,
    IscopeStartStack |-> StartStackParams, SetSequenceSetting |-> SequenceSettingParams]

\* The params of a command before the marker: None, or Some(json).
CommandParams(cmd) ==
    LET v == cmd[1]
        a == cmd[2] IN
    CASE v = "StopViewPlan" -> Some(Obj([name |-> Str("ViewPlan")]))
      [] v \in DOMAIN Plain \ {"StopViewPlan"} -> None
      [] v = "ScopeParkMode" -> Some(Obj([equ_mode |-> a]))
      [] v \in {"ScopeSync", "SetControlValue"} -> Some(Arr(a))
      [] v \in {"ScopeSetTrackState", "PiOutputSet2", "SetViewPlan"} -> Some(a)
      [] v \in {"IscopeStopView", "IscopeStartStack"} -> IF a = None THEN None ELSE Some(ToValue(a[1]))
      [] v = "PiSetTime" -> Some(Arr(<<ToValue(a)>>))
      [] v = "SetSequenceSetting" -> Some(Arr(<<Arr([i \in DOMAIN a |-> ToValue(a[i])])>>))
      [] v \in Structures -> Some(ToValue(a))

\* Some field may be None, and a field takes any value; Raw variants take a caller's JSON.
Raw == {"PiOutputSet2", "SetViewPlan"}
IsStructure(a, s) ==
    /\ DOMAIN a = DOMAIN s.required \cup DOMAIN s.optional /\ a = [f \in DOMAIN a |-> a[f]]
    /\ \A f \in DOMAIN a : a[f] # None => a[f] = Some(a[f][1])
IsCommand(cmd, raw) ==
    LET v == cmd[1]
        a == cmd[2] IN
    /\ cmd = <<v, a>>
    /\ \/ v \in DOMAIN Plain /\ a = None
       \/ v \in {"ScopeParkMode", "ScopeSetTrackState"} /\ a \in Booleans
       \/ v \in {"ScopeSync", "SetControlValue"} /\ a = <<a[1], a[2]>> /\ a[2][1] # "str"
       \/ v \in Raw /\ a \in raw
       \/ v \in Structures \cup {"PiSetTime"} /\ IsStructure(a, StructureOf[v])
       \/ v \in {"IscopeStopView", "IscopeStartStack"}
          /\ (a = None \/ (a = Some(a[1]) /\ IsStructure(a[1], StructureOf[v])))
       \/ v = "SetSequenceSetting" /\ a = [i \in 1..Len(a) |-> a[i]] /\ Len(a) \in Nat
          /\ \A i \in 1..Len(a) : IsStructure(a[i], StructureOf[v])

Verify == "verify"

\* An object gains the key (an existing one is overwritten), an array the string;
\* a scalar is put in an array with it, and no params become the string alone.
InjectVerify(params, needsVerify) ==
    IF ~needsVerify THEN params
    ELSE IF params = None THEN Some(Arr(<<Str(Verify)>>))
    ELSE LET p == params[1] IN
         CASE p[1] = "obj" -> Some(Obj([f \in {Verify} |-> Bool(TRUE)] ++ p[2]))
           [] p[1] = "arr" -> Some(Arr(Append(p[2], Str(Verify))))
           [] OTHER -> Some(Arr(<<p, Str(Verify)>>))

\* FirmwareVersion::VERIFY_THRESHOLD, and the versions the instances use: None is
\* a telescope that has not reported one.
VerifyThreshold == 2582
RequiresVerifyFrom(fw) == fw >= VerifyThreshold     \* Mutant: off by one
RequiresVerify(fw) == fw > VerifyThreshold

\* The line for the control port, without the id that Control models.
SerializeCommand(cmd, fw) ==
    [method |-> Method(cmd),
     params |-> InjectVerify(CommandParams(cmd), fw = None \/ RequiresVerify(fw[1]))]

\* The imaging port's commands; only the heartbeat carries params, a bare string.
ImagingMethod == [BeginStreaming |-> "begin_streaming", StopStreaming |-> "stop_streaming",
                  TestConnection |-> "test_connection"]
SerializeImaging(cmd) ==
    [method |-> ImagingMethod[cmd],
     params |-> IF cmd = "TestConnection" THEN Some(Str(Verify)) ELSE None]
=============================================================================
