-------------------------------- MODULE Indi --------------------------------
(***************************************************************************)
(* scopinator-indi: the text of a command (xml.rs) and the reading of a    *)
(* state (property.rs).  A text is a sequence of tokens: the markup, and   *)
(* the device, the names and the values, which are inserted as they are.   *)
(* They hold no markup characters: the serializer does not escape them.    *)
(***************************************************************************)
EXTENDS Sequences, SequencesExt

BlobMode == {"Never", "Also", "Only"}
SwitchState == {"On", "Off"}

\* The commands: a name or a device may be left out of some.
Option(o) == o \in Seq(STRING) /\ Len(o) <= 1
IsCommand(c) ==
    \/ /\ c.cmd = "GetProperties" /\ c = [cmd |-> c.cmd, device |-> c.device, name |-> c.name]
       /\ Option(c.device) /\ Option(c.name)
    \/ /\ c.cmd = "EnableBlob" /\ c = [cmd |-> c.cmd, device |-> c.device, name |-> c.name, mode |-> c.mode]
       /\ c.device \in STRING /\ Option(c.name) /\ c.mode \in BlobMode
    \/ /\ c.cmd \in {"Number", "Text", "Switch"}
       /\ c = [cmd |-> c.cmd, device |-> c.device, name |-> c.name, values |-> c.values]
       /\ c.device \in STRING /\ c.name \in STRING
       /\ c.values \in Seq(STRING \X (IF c.cmd = "Switch" THEN SwitchState ELSE STRING))

ParseSwitchState(s) == IF s = "On" THEN "On" ELSE "Off"

\* An attribute that is left out when the option, <<>> or <<value>>, is empty.
Attribute(name, option) == IF option = <<>> THEN <<>> ELSE <<" ", name, "=\"", option[1], "\"">>

\* A vector of values: one line for each pair of a name and a value.
Vector(kind, c) ==
    <<"<new", kind, "Vector">> \o Attribute("device", <<c.device>>) \o Attribute("name", <<c.name>>) \o <<">\n">>
    \o FlattenSeq([i \in DOMAIN c.values |->
            <<"<one", kind>> \o Attribute("name", <<c.values[i][1]>>)
            \o <<">", c.values[i][2], "</one", kind, ">\n">>])
    \o <<"</new", kind, "Vector>\n">>

SerializeCommand(c) ==
    CASE c.cmd = "GetProperties" ->
            <<"<getProperties version=\"1.7\"">> \o Attribute("device", c.device) \o Attribute("name", c.name) \o <<"/>\n">>
      [] c.cmd \in {"Number", "Switch", "Text"} -> Vector(c.cmd, c)
      [] c.cmd = "EnableBlob" ->
            <<"<enableBLOB">> \o Attribute("device", <<c.device>>) \o Attribute("name", c.name)
            \o <<">", c.mode, "</enableBLOB>\n">>
=============================================================================
