------------------------------ MODULE Unified ------------------------------
(***************************************************************************)
(* event_translator.rs: the unified event (scopinator's event/mod.rs) that *)
(* a telescope's event becomes, or None.                                   *)
(***************************************************************************)
EXTENDS Messages

\* A field with a default, and an Option with what its absence is read as.
Field(data, name, default) == IF name \in DOMAIN data THEN data[name] ELSE default
Optional(data, name, absent) ==
    IF name \in DOMAIN data /\ data[name] # Null THEN data[name] ELSE absent

\* EventType, with the payload the translator gives to each.
Event(type, payload) == Some([type |-> type, payload |-> payload])

SlewOver(state, failure) ==     \* Mutant: a slew that is cancelled is complete
    CASE state \in {Str("start"), Str("working")} -> Event("SlewStarted", <<>>)
      [] state \in {Str("complete"), Str("cancel")} -> Event("SlewCompleted", <<>>)
      [] state = Str("fail") -> Event("Error", failure)
      [] OTHER -> None

Slew(state, failure) ==
    CASE state \in {Str("start"), Str("working")} -> Event("SlewStarted", <<>>)
      [] state = Str("complete") -> Event("SlewCompleted", <<>>)
      [] state = Str("fail") -> Event("Error", failure)
      [] OTHER -> None

Translate(e) ==
    LET d == e.data
        state == Optional(d, "state", Null) IN
    CASE e.name = "AutoGoto" -> Slew(state, <<Optional(d, "code", Num(-1)), Optional(d, "error", Str(""))>>)
      [] e.name = "ScopeTrack" -> Event("TrackingChanged", <<Field(d, "tracking", Bool(FALSE))>>)
      [] e.name = "Stack" /\ state = Str("frame_complete") ->
            Event("StackFrameCompleted",
                  [i \in 1..3 |-> Field(d, <<"stacked_frame", "dropped_frame", "total_frame">>[i], Num(0))])
      [] e.name = "Alert" -> Event("Error", <<Field(d, "code", Num(0)), Field(d, "error", Str(""))>>)
      [] OTHER -> None

\* What a line puts on the bus.
Unify(line) == LET e == Dispatch(line).event IN IF e = None THEN None ELSE Translate(e[1])
=============================================================================
