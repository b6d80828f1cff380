----------------------------- MODULE DataProofs -----------------------------
(***************************************************************************)
(* The properties of Data, for all the inputs that its assumptions admit.  *)
(***************************************************************************)
EXTENDS Data, ValuesProofs, WellFoundedInduction, TLAPS

\* The subject is of the kind that the topic says.
Inputs ==
    /\ topic = "request" => subject \in Requests
    /\ topic = "line" => subject \in Lines
    /\ topic = "datagrams" => subject \in Answers
    /\ topic = "day" => subject \in Days
    /\ topic = "time" => subject \in Times
    /\ topic = "angle" => subject \in Angles
    /\ topic = "indi" => subject \in IndiCommands

\* The subject is always of the kind that the topic says.
LEMMA Picked == Spec => []Inputs
<1>1. Init => Inputs
  BY DEF Init, Inputs
<1>2. Inputs /\ [Next]_vars => Inputs'
  BY DEF Inputs, Next, Pick, vars
<1>3. QED
  BY <1>1, <1>2, PTL DEF Spec

-----------------------------------------------------------------------------
(* Values                                                                  *)

\* Every day's date is the calendar's, and every second's time of day counts from midnight.
THEOREM CalendarHolds == Spec => []TimeOfTheCalendar
<1>1. Inputs => TimeOfTheCalendar
  <2>1. SUFFICES ASSUME Inputs PROVE TimeOfTheCalendar
    OBVIOUS
  <2>2. CASE topic = "day"
    <3>1. subject \in Int
      BY <2>1, <2>2, ValuesAssumption DEF Inputs
    <3>2. QED
      BY <2>2, <3>1, NextDate, Epoch DEF TimeOfTheCalendar
  <2>3. CASE topic = "time"
    <3>1. subject \in Int
      BY <2>1, <2>3, ValuesAssumption DEF Inputs
    <3>2. QED
      BY <2>3, <3>1, TimeOfDay DEF TimeOfTheCalendar
  <2>4. CASE topic \notin {"day", "time"}
    BY <2>4 DEF TimeOfTheCalendar
  <2>5. QED
    BY <2>2, <2>3, <2>4
<1>2. QED
  BY <1>1, Picked, PTL

\* Every number that is accepted is a coordinate of the sky, and is printed as one.
THEOREM SkyHolds == Spec => []CoordinatesOnTheSky
<1>1. Inputs => CoordinatesOnTheSky
  <2>1. SUFFICES ASSUME Inputs, topic = "angle", subject # NaN PROVE CoordinatesOnTheSky
    BY DEF CoordinatesOnTheSky
  <2>2. subject \in Int /\ NaN \notin Int
    BY <2>1, ValuesAssumption DEF Inputs
  <2>3. ASSUME NEW ra \in Range(RaDegrees(subject))
        PROVE  /\ ra \in 0..(Turn - 1)
               /\ ra % Turn = subject % Turn
               /\ \A p \in Sexagesimal(ra) : p.unit * Hour + p.minute * 6000 + p.tenths * 10 - ra \in -5..5
    <3>1. RaDegrees(subject) = <<ra>>
      BY <2>2, <2>3, RaAccepted DEF Range
    <3>2. ra \in Int /\ 0 <= ra /\ ra < Turn /\ ra % Turn = subject % Turn
      BY <2>2, <3>1, RaOnTheSky
    <3>3. Turn \in Int
      BY DEF Turn, Hour
    <3>4. \A p \in Sexagesimal(ra) : p.unit * Hour + p.minute * 6000 + p.tenths * 10 - ra \in -5..5
      BY <3>2, Printed
    <3>5. QED
      BY <3>2, <3>3, <3>4
  <2>4. RaFromHours(subject) = RaDegrees(subject)
    BY <2>2, RaAccepted
  <2>5. ASSUME NEW dec \in Range(DecDegrees(subject))
        PROVE  dec = subject /\ dec + 90 * ArcDegree \in 0..(180 * ArcDegree)
    BY <2>2, <2>5, DecOnTheSky DEF Range
  <2>6. QED
    BY <2>3, <2>4, <2>5 DEF CoordinatesOnTheSky
<1>2. QED
  BY <1>1, Picked, PTL

-----------------------------------------------------------------------------
(* JSON                                                                    *)

\* The kind at the head of a value, and what is behind it.
LEMMA Kinds ==
    /\ Null[1] = "null" /\ Big[1] = "big" /\ Frac[1] = "frac"
    /\ Bool(TRUE)[1] = "bool" /\ Bool(FALSE)[1] = "bool"
    /\ \A n : Num(n)[1] = "num" /\ Num(n)[2] = n
    /\ \A t : Str(t)[1] = "str" /\ Str(t)[2] = t
    /\ \A t : Arr(t)[1] = "arr" /\ Arr(t)[2] = t
    /\ \A f : Obj(f)[1] = "obj" /\ Obj(f)[2] = f
    /\ \A v : Some(v)[1] = v /\ Some(v) # None
BY DEF Null, Big, Frac, Bool, Num, Str, Arr, Obj, Some, None

-----------------------------------------------------------------------------
(* The params of a command                                                 *)

Unwrapped == {"ScopeSetTrackState", "PiOutputSet2", "SetViewPlan"}
Listed == {"ScopeSync", "SetControlValue"}
Optionals == {"IscopeStopView", "IscopeStartStack"}

\* The arms of CommandParams do not overlap.
LEMMA Arms ==
    ASSUME NEW cmd
    PROVE  LET v == cmd[1]
               a == cmd[2] IN
           /\ v = "StopViewPlan" => CommandParams(cmd) = Some(Obj([name |-> Str("ViewPlan")]))
           /\ v \in DOMAIN Plain /\ v # "StopViewPlan" => CommandParams(cmd) = None
           /\ v = "ScopeParkMode" => CommandParams(cmd) = Some(Obj([equ_mode |-> a]))
           /\ v \in Listed => CommandParams(cmd) = Some(Arr(a))
           /\ v \in Unwrapped => CommandParams(cmd) = Some(a)
           /\ v \in Optionals => CommandParams(cmd) = IF a = None THEN None ELSE Some(ToValue(a[1]))
           /\ v = "PiSetTime" => CommandParams(cmd) = Some(Arr(<<ToValue(a)>>))
           /\ v = "SetSequenceSetting" => CommandParams(cmd) = Some(Arr(<<Arr([i \in DOMAIN a |-> ToValue(a[i])])>>))
           /\ v \in Structures => CommandParams(cmd) = Some(ToValue(a))
<1>1. cmd[1] \in DOMAIN Plain =>
         cmd[1] \notin {"ScopeParkMode", "PiSetTime", "SetSequenceSetting"} \cup Listed \cup Unwrapped \cup Optionals \cup Structures
  BY DEF Plain, Listed, Unwrapped, Optionals, Structures
<1>2. "StopViewPlan" \in DOMAIN Plain
  BY DEF Plain
<1>3. cmd[1] = "StopViewPlan" => CommandParams(cmd) = Some(Obj([name |-> Str("ViewPlan")]))
  BY <1>1, <1>2 DEF CommandParams, Listed, Unwrapped, Optionals, Structures
<1>4. cmd[1] \in DOMAIN Plain /\ cmd[1] # "StopViewPlan" => CommandParams(cmd) = None
  BY <1>1 DEF CommandParams, Listed, Unwrapped, Optionals
<1>5. cmd[1] = "ScopeParkMode" => CommandParams(cmd) = Some(Obj([equ_mode |-> cmd[2]]))
  BY <1>1 DEF CommandParams, Listed, Unwrapped, Optionals, Structures
<1>6. cmd[1] \in Listed => CommandParams(cmd) = Some(Arr(cmd[2]))
  BY <1>1 DEF CommandParams, Listed, Unwrapped, Optionals, Structures
<1>7. cmd[1] \in Unwrapped => CommandParams(cmd) = Some(cmd[2])
  BY <1>1 DEF CommandParams, Listed, Unwrapped, Optionals, Structures
<1>8. cmd[1] \in Optionals => CommandParams(cmd) = IF cmd[2] = None THEN None ELSE Some(ToValue(cmd[2][1]))
  BY <1>1 DEF CommandParams, Listed, Unwrapped, Optionals, Structures
<1>9. cmd[1] = "PiSetTime" => CommandParams(cmd) = Some(Arr(<<ToValue(cmd[2])>>))
  BY <1>1 DEF CommandParams, Listed, Unwrapped, Optionals, Structures
<1>10. cmd[1] = "SetSequenceSetting" =>
          CommandParams(cmd) = Some(Arr(<<Arr([i \in DOMAIN cmd[2] |-> ToValue(cmd[2][i])])>>))
  BY <1>1 DEF CommandParams, Listed, Unwrapped, Optionals, Structures
<1>11. cmd[1] \in Structures => CommandParams(cmd) = Some(ToValue(cmd[2]))
  BY <1>1 DEF CommandParams, Listed, Unwrapped, Optionals, Structures
<1>12. QED
  BY <1>3, <1>4, <1>5, <1>6, <1>7, <1>8, <1>9, <1>10, <1>11

\* No structure has a field with the marker's name.
LEMMA NoVerifyField ==
    ASSUME NEW v \in DOMAIN StructureOf
    PROVE  Verify \notin DOMAIN StructureOf[v].required \cup DOMAIN StructureOf[v].optional
<1>1. /\ Verify \notin DOMAIN GotoTargetParams.required \cup DOMAIN GotoTargetParams.optional
      /\ Verify \notin DOMAIN StartViewParams.required \cup DOMAIN StartViewParams.optional
      /\ Verify \notin DOMAIN StartStackParams.required \cup DOMAIN StartStackParams.optional
      /\ Verify \notin DOMAIN StopViewParams.required \cup DOMAIN StopViewParams.optional
  BY DEF Verify, GotoTargetParams, StartViewParams, StartStackParams, StopViewParams, Struct, NoFields
<1>2. /\ Verify \notin DOMAIN SpeedMoveParams.required \cup DOMAIN SpeedMoveParams.optional
      /\ Verify \notin DOMAIN MoveFocuserParams.required \cup DOMAIN MoveFocuserParams.optional
      /\ Verify \notin DOMAIN SetUserLocationParams.required \cup DOMAIN SetUserLocationParams.optional
      /\ Verify \notin DOMAIN PolarAlignParams.required \cup DOMAIN PolarAlignParams.optional
  BY DEF Verify, SpeedMoveParams, MoveFocuserParams, SetUserLocationParams, PolarAlignParams, Struct, NoFields, Each
<1>3. /\ Verify \notin DOMAIN SetTimeParams.required \cup DOMAIN SetTimeParams.optional
      /\ Verify \notin DOMAIN SequenceSettingParams.required \cup DOMAIN SequenceSettingParams.optional
      /\ Verify \notin DOMAIN PlaySoundParams.required \cup DOMAIN PlaySoundParams.optional
  BY DEF Verify, SetTimeParams, SequenceSettingParams, PlaySoundParams, Struct, NoFields, Each, ++
<1>4. Verify \notin DOMAIN SettingParams.required \cup DOMAIN SettingParams.optional
  BY DEF Verify, SettingParams, Struct, NoFields, Each, ++
<1>5. Verify \notin DOMAIN SetStackSettingParams.required \cup DOMAIN SetStackSettingParams.optional
  BY DEF Verify, SetStackSettingParams, Struct, NoFields, Each, ++
<1>6. QED
  BY <1>1, <1>2, <1>3, <1>4, <1>5 DEF StructureOf

-----------------------------------------------------------------------------
(* The marker                                                              *)

\* An object without the marker, a list that does not end with it, or another value.
Unmarkable(params) ==
    \/ params = None
    \/ /\ params = Some(Obj(params[1][2])) /\ Verify \notin DOMAIN params[1][2]
       /\ params[1][2] = [f \in DOMAIN params[1][2] |-> params[1][2][f]]
    \/ /\ params = Some(Arr(params[1][2])) /\ \E S : params[1][2] \in Seq(S)
       /\ Len(params[1][2]) > 0 => params[1][2][Len(params[1][2])] # Str(Verify)
    \/ params = Some(params[1]) /\ params[1][1] \notin {"obj", "arr"} /\ params[1] # Str(Verify)

\* How Items, Marked and Unmarked read each of these.
LEMMA ReadList ==
    ASSUME NEW s, NEW p, p = Some(Arr(s))
    PROVE  /\ p # None /\ p[1] = Arr(s) /\ p[1][1] = "arr" /\ p[1][2] = s /\ Items(p) = s
           /\ Marked(p) <=> Len(s) > 0 /\ s[Len(s)] = Str(Verify)
           /\ Unmarked(p) = IF s # <<>> /\ s[Len(s)] = Str(Verify) THEN SubSeq(s, 1, Len(s) - 1) ELSE s
<1>1. p # None /\ p[1] = Arr(s)
  BY DEF Some, None
<1>2. p[1][1] = "arr" /\ p[1][2] = s
  BY <1>1 DEF Arr
<1>3. Items(p) = s
  BY <1>1, <1>2 DEF Items
<1>4. QED
  BY <1>1, <1>2, <1>3 DEF Marked, Unmarked

\* How a telescope reads an object, a value that is no object and no list, ...
LEMMA ReadObject ==
    ASSUME NEW f, NEW p, p = Some(Obj(f))
    PROVE  /\ p # None /\ p[1] = Obj(f) /\ p[1][1] = "obj" /\ p[1][2] = f /\ Items(p) = f
           /\ Marked(p) <=> Verify \in DOMAIN f
           /\ Unmarked(p) = [x \in DOMAIN f \ {Verify} |-> f[x]]
<1>1. p # None /\ p[1] = Obj(f)
  BY DEF Some, None
<1>2. p[1][1] = "obj" /\ p[1][2] = f
  BY <1>1 DEF Obj
<1>3. Items(p) = f
  BY <1>1, <1>2 DEF Items
<1>4. QED
  BY <1>1, <1>2, <1>3 DEF Marked, Unmarked

LEMMA ReadOther ==
    ASSUME NEW v, v[1] \notin {"obj", "arr"}, NEW p, p = Some(v)
    PROVE  /\ p # None /\ p[1] = v /\ Items(p) = <<v>>
           /\ Marked(p) <=> v = Str(Verify)
           /\ v # Str(Verify) => Unmarked(p) = <<v>>
<1>1. p # None /\ p[1] = v /\ Len(p) = 1
  BY DEF Some, None
<1>2. Items(p) = p
  BY <1>1 DEF Items
<1>3. QED
  BY <1>1, <1>2 DEF Marked, Unmarked, Some

\* What was appended is last, and without it the sequence is what it was.
LEMMA Unappended ==
    ASSUME NEW S, NEW s \in Seq(S), NEW e, NEW t, t = Append(s, e)
    PROVE  t # <<>> /\ Len(t) \in Nat /\ Len(t) > 0 /\ t[Len(t)] = e /\ SubSeq(t, 1, Len(t) - 1) = s
OBVIOUS

\* ... and a list that ends with the marker.
LEMMA ReadAppended ==
    ASSUME NEW S, NEW s \in Seq(S), NEW p, p = Some(Arr(Append(s, Str(Verify))))
    PROVE  Marked(p) /\ Unmarked(p) = s
<1> DEFINE t == Append(s, Str(Verify))
<1>1. t # <<>> /\ Len(t) > 0 /\ t[Len(t)] = Str(Verify) /\ SubSeq(t, 1, Len(t) - 1) = s
  BY Unappended
<1> HIDE DEF t
<1>2. p = Some(Arr(t))
  BY DEF t
<1>3. /\ Marked(p) <=> Len(t) > 0 /\ t[Len(t)] = Str(Verify)
      /\ Unmarked(p) = IF t # <<>> /\ t[Len(t)] = Str(Verify) THEN SubSeq(t, 1, Len(t) - 1) ELSE t
  BY <1>2, ReadList
<1>4. QED
  BY <1>1, <1>3

\* The marker in no params, in an object, in a list, and beside any other value.
LEMMA AddedToNone ==
    ASSUME NEW marked, marked = InjectVerify(None, TRUE)
    PROVE  Marked(marked) /\ Unmarked(marked) = <<>>
<1>1. <<>> \in Seq({}) /\ <<Str(Verify)>> = Append(<<>>, Str(Verify))
  OBVIOUS
<1>2. marked = Some(Arr(Append(<<>>, Str(Verify))))
  BY <1>1 DEF InjectVerify
<1>3. QED
  BY <1>1, <1>2, ReadAppended

LEMMA AddedToObject ==
    ASSUME NEW f, f = [x \in DOMAIN f |-> f[x]], Verify \notin DOMAIN f,
           NEW marked, marked = InjectVerify(Some(Obj(f)), TRUE)
    PROVE  Marked(marked) /\ Unmarked(marked) = f
<1> DEFINE g == [x \in {Verify} |-> Bool(TRUE)] ++ f
           p == Some(Obj(f))
<1>1. p # None /\ p[1][1] = "obj" /\ p[1][2] = f
  BY ReadObject
<1> HIDE DEF p
<1>2. marked = Some(Obj(g))
  BY <1>1 DEF InjectVerify, p
<1>3. DOMAIN g = {Verify} \cup DOMAIN f /\ \A x \in DOMAIN f : g[x] = f[x]
  BY DEF ++
<1> HIDE DEF g
<1>4. f = [x \in DOMAIN g \ {Verify} |-> g[x]]
  BY <1>3
<1>5. QED
  BY <1>2, <1>3, <1>4, ReadObject

LEMMA AddedToList ==
    ASSUME NEW S, NEW s \in Seq(S), NEW marked, marked = InjectVerify(Some(Arr(s)), TRUE)
    PROVE  Marked(marked) /\ Unmarked(marked) = s
<1> DEFINE p == Some(Arr(s))
<1>1. p # None /\ p[1][1] = "arr" /\ p[1][2] = s
  BY ReadList
<1> HIDE DEF p
<1>2. marked = Some(Arr(Append(s, Str(Verify))))
  BY <1>1 DEF InjectVerify, p
<1>3. QED
  BY <1>2, ReadAppended

LEMMA AddedToOther ==
    ASSUME NEW v, v[1] \notin {"obj", "arr"}, NEW marked, marked = InjectVerify(Some(v), TRUE)
    PROVE  Marked(marked) /\ Unmarked(marked) = <<v>>
<1> DEFINE p == Some(v)
<1>1. p # None /\ p[1] = v
  BY ReadOther
<1>2. <<v>> \in Seq({v}) /\ <<v, Str(Verify)>> = Append(<<v>>, Str(Verify))
  OBVIOUS
<1> HIDE DEF p
<1>3. marked = Some(Arr(Append(<<v>>, Str(Verify))))
  BY <1>1, <1>2 DEF InjectVerify, p
<1>4. QED
  BY <1>2, <1>3, ReadAppended

\* With the marker added, params are marked, and say what they said; without, they are not.
LEMMA MarkerAdded ==
    ASSUME NEW params, Unmarkable(params), NEW marked, marked = InjectVerify(params, TRUE)
    PROVE  Marked(marked) /\ Unmarked(marked) = Items(params)
<1>1. CASE params = None
  BY <1>1, AddedToNone DEF Items
<1>2. CASE /\ params = Some(Obj(params[1][2])) /\ Verify \notin DOMAIN params[1][2]
           /\ params[1][2] = [f \in DOMAIN params[1][2] |-> params[1][2][f]]
  <2> DEFINE f == params[1][2]
  <2>1. Items(params) = f
    BY <1>2, ReadObject
  <2>2. f = [x \in DOMAIN f |-> f[x]] /\ Verify \notin DOMAIN f /\ marked = InjectVerify(Some(Obj(f)), TRUE)
    BY <1>2
  <2> HIDE DEF f
  <2>3. QED
    BY <2>1, <2>2, AddedToObject
<1>3. CASE params = Some(Arr(params[1][2])) /\ \E S : params[1][2] \in Seq(S)
  <2> DEFINE s == params[1][2]
  <2>1. Items(params) = s
    BY <1>3, ReadList
  <2>2. marked = InjectVerify(Some(Arr(s)), TRUE)
    BY <1>3
  <2>3. PICK S : s \in Seq(S)
    BY <1>3
  <2> HIDE DEF s
  <2>4. QED
    BY <2>1, <2>2, <2>3, AddedToList
<1>4. CASE params = Some(params[1]) /\ params[1][1] \notin {"obj", "arr"}
  <2> DEFINE v == params[1]
  <2>1. v[1] \notin {"obj", "arr"} /\ params = Some(v)
    BY <1>4
  <2> HIDE DEF v
  <2>2. QED
    BY <2>1, AddedToOther, ReadOther
<1>5. QED
  BY <1>1, <1>2, <1>3, <1>4 DEF Unmarkable

LEMMA NoneAdded ==
    ASSUME NEW params, Unmarkable(params)
    PROVE  ~Marked(params) /\ Unmarked(params) = Items(params)
<1>1. CASE params = None
  BY <1>1 DEF Items, Marked, Unmarked
<1>2. CASE /\ params = Some(Obj(params[1][2])) /\ Verify \notin DOMAIN params[1][2]
           /\ params[1][2] = [f \in DOMAIN params[1][2] |-> params[1][2][f]]
  <2> DEFINE f == params[1][2]
  <2>1. f = [x \in DOMAIN f \ {Verify} |-> f[x]]
    BY <1>2
  <2>2. QED
    BY <1>2, <2>1, ReadObject
<1>3. CASE /\ params = Some(Arr(params[1][2])) /\ \E S : params[1][2] \in Seq(S)
           /\ Len(params[1][2]) > 0 => params[1][2][Len(params[1][2])] # Str(Verify)
  <2>1. params[1][2] # <<>> => Len(params[1][2]) > 0
    BY <1>3
  <2>2. QED
    BY <1>3, <2>1, ReadList
<1>4. CASE params = Some(params[1]) /\ params[1][1] \notin {"obj", "arr"} /\ params[1] # Str(Verify)
  BY <1>4, ReadOther
<1>5. QED
  BY <1>1, <1>2, <1>3, <1>4 DEF Unmarkable

-----------------------------------------------------------------------------
(* No command's params hold the marker                                     *)

\* Three ways in which params do not look marked: no such field, another last value, no list.
LEMMA ObjectUnmarkable ==
    ASSUME NEW f, f = [x \in DOMAIN f |-> f[x]], Verify \notin DOMAIN f
    PROVE  Unmarkable(Some(Obj(f)))
<1> DEFINE p == Some(Obj(f))
<1>1. p[1][2] = f
  BY ReadObject
<1> HIDE DEF p
<1>2. QED
  BY <1>1 DEF Unmarkable, p

LEMMA ListUnmarkable ==
    ASSUME NEW S, NEW s \in Seq(S), Len(s) > 0 => s[Len(s)] # Str(Verify)
    PROVE  Unmarkable(Some(Arr(s)))
<1> DEFINE p == Some(Arr(s))
<1>1. p[1][2] = s
  BY ReadList
<1> HIDE DEF p
<1>2. QED
  BY <1>1 DEF Unmarkable, p

LEMMA OtherUnmarkable ==
    ASSUME NEW v, v[1] \notin {"obj", "arr"}, v # Str(Verify)
    PROVE  Unmarkable(Some(v))
<1> DEFINE p == Some(v)
<1>1. p[1] = v
  BY ReadOther
<1> HIDE DEF p
<1>2. QED
  BY <1>1 DEF Unmarkable, p

\* What a structure becomes: its fields that are not None.
LEMMA StructureWritten ==
    ASSUME NEW v \in DOMAIN StructureOf, NEW a, IsStructure(a, StructureOf[v])
    PROVE  \E f : ToValue(a) = Obj(f) /\ f = [x \in DOMAIN f |-> f[x]] /\ Verify \notin DOMAIN f
<1> DEFINE f == [x \in {g \in DOMAIN a : a[g] # None} |-> a[x][1]]
<1>1. ToValue(a) = Obj(f)
  BY DEF ToValue
<1>2. DOMAIN f \subseteq DOMAIN StructureOf[v].required \cup DOMAIN StructureOf[v].optional
  BY DEF IsStructure
<1>3. Verify \notin DOMAIN f
  BY <1>2, NoVerifyField
<1>4. f = [x \in DOMAIN f |-> f[x]]
  OBVIOUS
<1> HIDE DEF f
<1>5. QED
  BY <1>1, <1>3, <1>4

\* No structure has a field of the marker's name, so no command looks marked by itself.
LEMMA StructureUnmarkable ==
    ASSUME NEW v \in DOMAIN StructureOf, NEW a, IsStructure(a, StructureOf[v])
    PROVE  Unmarkable(Some(ToValue(a))) /\ ToValue(a) # Str(Verify)
<1>1. PICK f : ToValue(a) = Obj(f) /\ f = [x \in DOMAIN f |-> f[x]] /\ Verify \notin DOMAIN f
  BY StructureWritten
<1>2. Obj(f) # Str(Verify)
  BY DEF Obj, Str
<1>3. QED
  BY <1>1, <1>2, ObjectUnmarkable

LEMMA ParamsUnmarkable ==
    ASSUME NEW cmd \in Requests
    PROVE  Unmarkable(CommandParams(cmd))
<1> DEFINE v == cmd[1]
           a == cmd[2]
           raw == {x \in Documents : ~Marked(Some(x))}
<1>1. IsCommand(cmd, raw)
  BY RequestsAssumption
<1>2. CASE v \in DOMAIN Plain
  <2>1. CASE v = "StopViewPlan"
    <3> DEFINE f == [name |-> Str("ViewPlan")]
    <3>1. f = [x \in DOMAIN f |-> f[x]] /\ Verify \notin DOMAIN f
      BY DEF Verify
    <3> HIDE DEF f
    <3>2. Unmarkable(Some(Obj(f)))
      BY <3>1, ObjectUnmarkable
    <3>3. QED
      BY <2>1, <3>2, Arms DEF f
  <2>2. CASE v # "StopViewPlan"
    BY <1>2, <2>2, Arms DEF Unmarkable
  <2>3. QED
    BY <2>1, <2>2
<1>3. CASE v \in {"ScopeParkMode", "ScopeSetTrackState"} /\ a \in Booleans
  <2>1. CASE v = "ScopeParkMode"
    <3> DEFINE f == [equ_mode |-> a]
    <3>1. f = [x \in DOMAIN f |-> f[x]] /\ Verify \notin DOMAIN f
      BY DEF Verify
    <3> HIDE DEF f
    <3>2. Unmarkable(Some(Obj(f)))
      BY <3>1, ObjectUnmarkable
    <3>3. QED
      BY <2>1, <3>2, Arms DEF f
  <2>2. CASE v = "ScopeSetTrackState"
    <3>1. a[1] = "bool"
      BY <1>3, Kinds DEF Booleans
    <3>2. CommandParams(cmd) = Some(a)
      BY <2>2, Arms DEF Unwrapped
    <3>3. QED
      BY <3>1, <3>2, Kinds, OtherUnmarkable
  <2>3. QED
    BY <1>3, <2>1, <2>2
<1>4. CASE v \in {"ScopeSync", "SetControlValue"} /\ a = <<a[1], a[2]>> /\ a[2][1] # "str"
  <2>1. a \in Seq({a[1], a[2]}) /\ Len(a) = 2
    <3> DEFINE x == a[1]
               y == a[2]
    <3>1. a = <<x, y>>
      BY <1>4
    <3> HIDE DEF x, y
    <3>2. a \in Seq({x, y}) /\ Len(a) = 2
      BY <3>1
    <3>3. QED
      BY <3>2 DEF x, y
  <2>2. a[2] # Str(Verify)
    BY <1>4 DEF Str
  <2>3. CommandParams(cmd) = Some(Arr(a))
    BY <1>4, Arms DEF Listed
  <2> HIDE DEF a
  <2>4. QED
    BY <2>1, <2>2, <2>3, ListUnmarkable
<1>5. CASE v \in Raw /\ a \in raw
  <2>1. CommandParams(cmd) = Some(a)
    BY <1>5, Arms DEF Raw, Unwrapped
  <2>2. a \in Documents /\ ~Marked(Some(a))
    BY <1>5
  <2> HIDE DEF a
  <2>3. \/ a \in {Null, Big, Frac, Bool(TRUE), Bool(FALSE)}
        \/ a[1] = "num"
        \/ a[1] = "str"
        \/ a = Arr(a[2]) /\ a[2] \in Seq(Documents)
        \/ a = Obj(a[2]) /\ a[2] \in [DOMAIN a[2] -> Documents]
    BY <2>2, LinesAssumption DEF IsJson
  <2>4. CASE a = Arr(a[2]) /\ a[2] \in Seq(Documents)
    <3> DEFINE s == a[2]
    <3>1. s \in Seq(Documents) /\ a = Arr(s) /\ Len(s) \in Nat
      BY <2>4
    <3> HIDE DEF s
    <3>2. Len(s) > 0 => s[Len(s)] # Str(Verify)
      BY <2>2, <3>1, ReadList
    <3>3. QED
      BY <2>1, <3>1, <3>2, ListUnmarkable
  <2>5. CASE a = Obj(a[2]) /\ a[2] \in [DOMAIN a[2] -> Documents]
    <3> DEFINE f == a[2]
    <3>1. f = [x \in DOMAIN f |-> f[x]] /\ a = Obj(f)
      BY <2>5
    <3> HIDE DEF f
    <3>2. Verify \notin DOMAIN f
      BY <2>2, <3>1, ReadObject
    <3>3. QED
      BY <2>1, <3>1, <3>2, ObjectUnmarkable
  <2>6. CASE a[1] \notin {"obj", "arr"}
    <3>1. a # Str(Verify)
      BY <2>2, <2>6, ReadOther
    <3>2. QED
      BY <2>1, <2>6, <3>1, OtherUnmarkable
  <2>7. a \in {Null, Big, Frac, Bool(TRUE), Bool(FALSE)} => a[1] \notin {"obj", "arr"}
    BY Kinds
  <2>8. QED
    BY <2>3, <2>4, <2>5, <2>6, <2>7
<1>6. CASE v \in Structures /\ IsStructure(a, StructureOf[v])
  <2>1. v \in DOMAIN StructureOf
    BY <1>6 DEF Structures, StructureOf
  <2>2. QED
    BY <1>6, <2>1, Arms, StructureUnmarkable
<1>7. CASE v = "PiSetTime" /\ IsStructure(a, StructureOf[v])
  <2>1. v \in DOMAIN StructureOf
    BY <1>7 DEF StructureOf
  <2> DEFINE s == <<ToValue(a)>>
  <2>2. ToValue(a) # Str(Verify)
    BY <1>7, <2>1, StructureUnmarkable
  <2>3. s \in Seq({ToValue(a)}) /\ Len(s) = 1 /\ s[1] # Str(Verify)
    BY <2>2
  <2>4. CommandParams(cmd) = Some(Arr(s))
    BY <1>7, Arms
  <2> HIDE DEF s
  <2>5. QED
    BY <2>3, <2>4, ListUnmarkable
<1>8. CASE v \in {"IscopeStopView", "IscopeStartStack"} /\ (a = None \/ (a = Some(a[1]) /\ IsStructure(a[1], StructureOf[v])))
  <2>1. v \in DOMAIN StructureOf
    BY <1>8 DEF StructureOf
  <2>2. CommandParams(cmd) = IF a = None THEN None ELSE Some(ToValue(a[1]))
    BY <1>8, Arms DEF Optionals
  <2>3. a # None => Unmarkable(Some(ToValue(a[1])))
    BY <1>8, <2>1, StructureUnmarkable
  <2>4. Unmarkable(None)
    BY DEF Unmarkable
  <2>5. QED
    BY <2>2, <2>3, <2>4
<1>9. CASE v = "SetSequenceSetting"
  <2> DEFINE l == Arr([i \in DOMAIN a |-> ToValue(a[i])])
             s == <<l>>
  <2>1. l # Str(Verify)
    BY DEF Arr, Str
  <2>2. s \in Seq({l}) /\ Len(s) = 1 /\ s[1] # Str(Verify)
    BY <2>1
  <2>3. CommandParams(cmd) = Some(Arr(s))
    BY <1>9, Arms
  <2> HIDE DEF l, s
  <2>4. QED
    BY <2>2, <2>3, ListUnmarkable
<1>10. QED
  BY <1>1, <1>2, <1>3, <1>4, <1>5, <1>6, <1>7, <1>8, <1>9 DEF IsCommand

\* The marker is there unless the reported firmware does not want it, and changes nothing else.
THEOREM VerifyHolds == Spec => []VerifyOnlyAdds
<1>1. Inputs => VerifyOnlyAdds
  <2>1. SUFFICES ASSUME Inputs, topic = "request", NEW fw \in Firmware
                 PROVE  LET params == SerializeCommand(subject, fw).params IN
                        /\ Marked(params) <=> (fw = None \/ fw[1] > VerifyThreshold)
                        /\ Unmarked(params) = Items(CommandParams(subject))
    BY DEF VerifyOnlyAdds
  <2> DEFINE needs == fw = None \/ fw[1] > VerifyThreshold
             params == CommandParams(subject)
  <2>2. SerializeCommand(subject, fw).params = InjectVerify(params, needs)
    BY DEF SerializeCommand, RequiresVerify
  <2>3. Unmarkable(params)
    BY <2>1, ParamsUnmarkable DEF Inputs
  <2> HIDE DEF params, needs
  <2>4. CASE needs
    <3>1. InjectVerify(params, needs) = InjectVerify(params, TRUE)
      BY <2>4 DEF InjectVerify
    <3>2. /\ Marked(SerializeCommand(subject, fw).params)
          /\ Unmarked(SerializeCommand(subject, fw).params) = Items(params)
      BY <2>2, <2>3, <3>1, MarkerAdded
    <3>3. QED
      BY <2>4, <3>2 DEF needs, params
  <2>5. CASE ~needs
    <3>1. InjectVerify(params, needs) = params
      BY <2>5 DEF InjectVerify
    <3>2. /\ ~Marked(SerializeCommand(subject, fw).params)
          /\ Unmarked(SerializeCommand(subject, fw).params) = Items(params)
      BY <2>2, <2>3, <3>1, NoneAdded
    <3>3. QED
      BY <2>5, <3>2 DEF needs, params
  <2>6. QED
    BY <2>4, <2>5
<1>2. QED
  BY <1>1, Picked, PTL

-----------------------------------------------------------------------------
(* The methods                                                             *)

\* One arm for each variant, and each arm names a published method of its own.
LEMMA MethodsApart ==
    /\ DOMAIN Plain \cap DOMAIN Carrying = {}
    /\ \A cmd : cmd[1] \in DOMAIN Plain => Method(cmd) = Plain[cmd[1]]
    /\ \A cmd : cmd[1] \in DOMAIN Carrying => Method(cmd) = Carrying[cmd[1]]
<1>1. DOMAIN Plain \cap DOMAIN Carrying = {}
  BY DEF Plain, Carrying
<1>2. \A cmd : cmd[1] \in DOMAIN Plain => Method(cmd) = Plain[cmd[1]]
  BY DEF Method, ++
<1>3. \A cmd : cmd[1] \in DOMAIN Carrying => Method(cmd) = Carrying[cmd[1]]
  BY <1>1 DEF Method, ++
<1>4. QED
  BY <1>1, <1>2, <1>3

\* Every method is in the published list.
LEMMA PlainNamed == \A v \in DOMAIN Plain : Plain[v] \in CommandMethodNames
BY DEF Plain, CommandMethodNames

LEMMA CarryingNamed == \A v \in DOMAIN Carrying : Carrying[v] \in CommandMethodNames
BY DEF Carrying, CommandMethodNames

\* The methods are all different, but for the one that two variants share.
LEMMA PlainDistinct == \A v, w \in DOMAIN Plain : Plain[v] = Plain[w] => v = w
BY DEF Plain

LEMMA CarryingDistinct == \A v, w \in DOMAIN Carrying : Carrying[v] = Carrying[w] => v = w
BY DEF Carrying

LEMMA ParkShared ==
    \A v \in DOMAIN Plain, w \in DOMAIN Carrying : Plain[v] = Carrying[w] => v = "ScopePark" /\ w = "ScopeParkMode"
BY DEF Plain, Carrying

\* A command is one of the variants, so commands of one method are of one variant, or those two.
LEMMA Variants ==
    ASSUME NEW cmd, NEW raw, IsCommand(cmd, raw)
    PROVE  \/ cmd[1] \in DOMAIN Plain /\ cmd[2] = None
           \/ cmd[1] \in DOMAIN Carrying
BY DEF IsCommand, Carrying, Structures, Raw

LEMMA SameMethod ==
    ASSUME NEW raw, NEW c, IsCommand(c, raw), NEW d, IsCommand(d, raw), Method(c) = Method(d)
    PROVE  \/ c[1] = d[1]
           \/ c[1] = "ScopePark" /\ d[1] = "ScopeParkMode"
           \/ d[1] = "ScopePark" /\ c[1] = "ScopeParkMode"
BY Variants, MethodsApart, PlainDistinct, CarryingDistinct, ParkShared

-----------------------------------------------------------------------------
(* The marker, again: what it makes the same                               *)

IsArr(p) == p # None /\ p[1][1] = "arr"

\* Params x and [x], or none and [].
Wraps(p, q) == ~IsArr(p) /\ q = Some(Arr(p))

\* Which params are a list, and what the marker makes of each kind.
LEMMA ArrOrNot ==
    /\ ~IsArr(None)
    /\ \A s : IsArr(Some(Arr(s)))
    /\ \A f : ~IsArr(Some(Obj(f)))
    /\ \A v : v[1] # "arr" => ~IsArr(Some(v))
BY Kinds DEF IsArr

\* How params look with the marker.
LEMMA Heads ==
    /\ \A m, s : m = Some(Arr(s)) => m[1][1] = "arr"
    /\ \A m, f : m = Some(Obj(f)) => m[1][1] = "obj"
BY Kinds

LEMMA MarkedKind ==
    ASSUME NEW p, Unmarkable(p), NEW m, m = InjectVerify(p, TRUE)
    PROVE  \/ p = Some(Obj(Items(p))) /\ ~IsArr(p) /\ m[1][1] = "obj"
           \/ p = Some(Arr(Items(p))) /\ IsArr(p) /\ m[1][1] = "arr"
           \/ p = Items(p) /\ ~IsArr(p) /\ m[1][1] = "arr"
<1>1. CASE p = None
  <2>1. p = Items(p) /\ ~IsArr(p)
    BY <1>1, ArrOrNot DEF Items, None
  <2> DEFINE t == <<Str(Verify)>>
  <2>2. m = Some(Arr(t))
    BY <1>1 DEF InjectVerify
  <2> HIDE DEF t
  <2>3. m[1][1] = "arr"
    BY <2>2, Heads, Zenon
  <2>4. QED
    BY <2>1, <2>3
<1>2. CASE p = Some(Obj(p[1][2]))
  <2> DEFINE f == p[1][2]
             g == [x \in {Verify} |-> Bool(TRUE)] ++ f
  <2>1. p = Some(Obj(f))
    BY <1>2
  <2> HIDE DEF f
  <2>2. p # None /\ p[1][1] = "obj" /\ p[1][2] = f /\ Items(p) = f
    BY <2>1, ReadObject
  <2>3. m = Some(Obj(g))
    BY <2>2 DEF InjectVerify
  <2> HIDE DEF g
  <2>4. m[1][1] = "obj"
    BY <2>3, Heads, Zenon
  <2>5. ~IsArr(p)
    BY <2>1, ArrOrNot
  <2>6. QED
    BY <2>1, <2>2, <2>4, <2>5
<1>3. CASE p = Some(Arr(p[1][2]))
  <2> DEFINE s == p[1][2]
             t == Append(s, Str(Verify))
  <2>1. p = Some(Arr(s))
    BY <1>3
  <2> HIDE DEF s
  <2>2. p # None /\ p[1][1] = "arr" /\ p[1][2] = s /\ Items(p) = s
    BY <2>1, ReadList
  <2>3. m = Some(Arr(t))
    BY <2>2 DEF InjectVerify
  <2> HIDE DEF t
  <2>4. m[1][1] = "arr"
    BY <2>3, Heads, Zenon
  <2>5. IsArr(p)
    BY <2>1, ArrOrNot
  <2>6. QED
    BY <2>1, <2>2, <2>4, <2>5
<1>4. CASE p = Some(p[1]) /\ p[1][1] \notin {"obj", "arr"}
  <2> DEFINE v == p[1]
             t == <<v, Str(Verify)>>
  <2>1. p = Some(v) /\ v[1] \notin {"obj", "arr"}
    BY <1>4
  <2> HIDE DEF v
  <2>2. p # None /\ p[1] = v /\ Items(p) = <<v>>
    BY <2>1, ReadOther
  <2>3. m = Some(Arr(t))
    BY <2>1, <2>2 DEF InjectVerify
  <2> HIDE DEF t
  <2>4. m[1][1] = "arr"
    BY <2>3, Heads, Zenon
  <2>5. ~IsArr(p)
    BY <2>1, ArrOrNot
  <2>6. p = Items(p)
    BY <2>1, <2>2 DEF Some
  <2>7. QED
    BY <2>4, <2>5, <2>6
<1>5. QED
  BY <1>1, <1>2, <1>3, <1>4 DEF Unmarkable

\* The marker keeps params apart, up to a value and the list of it.
LEMMA SameMarked ==
    ASSUME NEW p, Unmarkable(p), NEW q, Unmarkable(q), NEW needs \in BOOLEAN,
           InjectVerify(p, needs) = InjectVerify(q, needs)
    PROVE  p = q \/ Wraps(p, q) \/ Wraps(q, p)
<1>1. CASE ~needs
  BY <1>1 DEF InjectVerify
<1>2. CASE needs
  <2>1. InjectVerify(p, TRUE) = InjectVerify(q, TRUE)
    BY <1>2
  <2>2. Items(p) = Items(q)
    BY <2>1, MarkerAdded
  <2> DEFINE m == InjectVerify(p, TRUE)
  <2>3. m = InjectVerify(p, TRUE) /\ m = InjectVerify(q, TRUE)
    BY <2>1
  <2> HIDE DEF m
  <2>4. \/ p = Some(Obj(Items(p))) /\ ~IsArr(p) /\ m[1][1] = "obj"
        \/ p = Some(Arr(Items(p))) /\ IsArr(p) /\ m[1][1] = "arr"
        \/ p = Items(p) /\ ~IsArr(p) /\ m[1][1] = "arr"
    BY <2>3, MarkedKind
  <2>5. \/ q = Some(Obj(Items(p))) /\ ~IsArr(q) /\ m[1][1] = "obj"
        \/ q = Some(Arr(Items(p))) /\ IsArr(q) /\ m[1][1] = "arr"
        \/ q = Items(p) /\ ~IsArr(q) /\ m[1][1] = "arr"
    BY <2>2, <2>3, MarkedKind
  <2>6. QED
    BY <2>4, <2>5 DEF Wraps
<1>3. QED
  BY <1>1, <1>2

-----------------------------------------------------------------------------
(* Params of two commands                                                  *)

\* The fields that are written are those that are there, so they tell the structure.
LEMMA StructureDistinct ==
    ASSUME NEW s, NEW a, IsStructure(a, s), NEW b, IsStructure(b, s), ToValue(a) = ToValue(b)
    PROVE  a = b
<1> DEFINE F(x) == [f \in {g \in DOMAIN x : x[g] # None} |-> x[f][1]]
<1>1. F(a) = F(b)
  <2>1. ToValue(a) = Obj(F(a)) /\ ToValue(b) = Obj(F(b))
    BY DEF ToValue
  <2> DEFINE x == F(a)
             y == F(b)
  <2>2. Obj(x) = Obj(y)
    BY <2>1
  <2> HIDE DEF F, x, y
  <2>3. x = y
    BY <2>2, Kinds
  <2>4. QED
    BY <2>3 DEF x, y
<1>2. DOMAIN a = DOMAIN b
  BY DEF IsStructure
<1>3. \A f \in DOMAIN a : a[f] # None <=> b[f] # None
  <2>1. DOMAIN F(a) = {g \in DOMAIN a : a[g] # None} /\ DOMAIN F(b) = {g \in DOMAIN b : b[g] # None}
    OBVIOUS
  <2> HIDE DEF F
  <2>2. QED
    BY <1>1, <1>2, <2>1
<1>4. ASSUME NEW f \in DOMAIN a PROVE a[f] = b[f]
  <2>1. CASE a[f] = None
    BY <1>3, <2>1
  <2>2. CASE a[f] # None
    <3>1. F(a)[f] = a[f][1] /\ F(b)[f] = b[f][1]
      BY <1>2, <1>3, <2>2
    <3>2. a[f] = Some(a[f][1]) /\ b[f] = Some(b[f][1])
      BY <1>2, <1>3, <2>2 DEF IsStructure
    <3> HIDE DEF F
    <3>3. QED
      BY <1>1, <3>1, <3>2
  <2>3. QED
    BY <2>1, <2>2
<1>5. QED
  BY <1>2, <1>4 DEF IsStructure

\* Only a caller's own JSON may be a list for one command and not for another.
LEMMA ListedOrNot ==
    ASSUME NEW raw, NEW c, IsCommand(c, raw), c[1] \notin Raw
    PROVE  IsArr(CommandParams(c)) <=> c[1] \in Listed \cup {"PiSetTime", "SetSequenceSetting"}
<1> DEFINE v == c[1]
           a == c[2]
<1>1. v \in DOMAIN Plain \cup {"ScopeParkMode", "ScopeSetTrackState", "PiSetTime", "SetSequenceSetting"}
            \cup Listed \cup Structures \cup Optionals
  BY DEF IsCommand, Listed, Optionals
<1>2. v \in Listed \cup {"PiSetTime", "SetSequenceSetting"} => IsArr(CommandParams(c))
  <2>1. v \in Listed \cup {"PiSetTime", "SetSequenceSetting"} => \E s : CommandParams(c) = Some(Arr(s))
    BY Arms
  <2>2. QED
    BY <2>1, Kinds DEF IsArr
<1>3. v \in Structures \cup {"StopViewPlan", "ScopeParkMode"} => ~IsArr(CommandParams(c))
  <2>1. v \in Structures \cup {"StopViewPlan", "ScopeParkMode"} => \E f : CommandParams(c) = Some(Obj(f))
    BY Arms DEF ToValue
  <2>2. QED
    BY <2>1, Kinds DEF IsArr
<1>4. v \in DOMAIN Plain => ~IsArr(CommandParams(c))
  <2>1. v # "StopViewPlan" /\ v \in DOMAIN Plain => CommandParams(c) = None
    BY Arms
  <2>2. QED
    BY <1>3, <2>1 DEF IsArr
<1>5. v \in Optionals => ~IsArr(CommandParams(c))
  <2>1. v \in Optionals => CommandParams(c) = None \/ \E f : CommandParams(c) = Some(Obj(f))
    BY Arms DEF ToValue
  <2>2. QED
    BY <2>1, Kinds DEF IsArr
<1>6. v = "ScopeSetTrackState" => ~IsArr(CommandParams(c))
  <2>1. v = "ScopeSetTrackState" => CommandParams(c) = Some(a) /\ a \in Booleans
    <3>1. v = "ScopeSetTrackState" => CommandParams(c) = Some(a)
      BY Arms DEF Unwrapped
    <3>2. v = "ScopeSetTrackState" => a \in Booleans
      BY DEF IsCommand, Plain, Structures, Raw
    <3>3. QED
      BY <3>1, <3>2
  <2>2. \A b \in Booleans : b[1] # "arr"
    BY Kinds DEF Booleans
  <2>3. QED
    BY <2>1, <2>2, ArrOrNot
<1>7. v \in DOMAIN Plain \cup Structures \cup Optionals \cup {"ScopeParkMode", "ScopeSetTrackState"} =>
         v \notin Listed \cup {"PiSetTime", "SetSequenceSetting"}
  BY DEF Plain, Structures, Optionals, Listed
<1>8. QED
  BY <1>1, <1>2, <1>3, <1>4, <1>5, <1>6, <1>7

\* Params tell the commands of one variant apart, before the marker is added.
LEMMA SameParams ==
    ASSUME NEW raw, NEW c, IsCommand(c, raw), NEW d, IsCommand(d, raw),
           c[1] = d[1], CommandParams(c) = CommandParams(d)
    PROVE  c = d
<1> DEFINE v == c[1]
           a == c[2]
           b == d[2]
<1>1. c = <<v, a>> /\ d = <<v, b>>
  BY DEF IsCommand
<1>2. SUFFICES a = b
  BY <1>1
<1>3. CASE v \in DOMAIN Plain
  BY <1>3 DEF IsCommand, Plain, Structures, Raw
<1>4. CASE v = "ScopeParkMode"
  <2> DEFINE f == [equ_mode |-> a]
             g == [equ_mode |-> b]
  <2>1. Some(Obj(f)) = Some(Obj(g))
    BY <1>4, Arms
  <2>2. f["equ_mode"] = a /\ g["equ_mode"] = b
    OBVIOUS
  <2> HIDE DEF f, g
  <2>3. f = g
    BY <2>1, Kinds
  <2>4. QED
    BY <2>2, <2>3
<1>5. CASE v \in Listed
  <2>1. Some(Arr(a)) = Some(Arr(b))
    BY <1>5, Arms
  <2> HIDE DEF a, b
  <2>2. QED
    BY <2>1, Kinds
<1>6. CASE v \in Unwrapped
  <2>1. Some(a) = Some(b)
    BY <1>6, Arms
  <2> HIDE DEF a, b
  <2>2. QED
    BY <2>1, Kinds
<1>7. CASE v \in Optionals
  <2>1. /\ a = None \/ (a = Some(a[1]) /\ IsStructure(a[1], StructureOf[v]))
        /\ b = None \/ (b = Some(b[1]) /\ IsStructure(b[1], StructureOf[v]))
    BY <1>7 DEF IsCommand, Optionals, Plain, Structures, Raw
  <2>2. (IF a = None THEN None ELSE Some(ToValue(a[1]))) = (IF b = None THEN None ELSE Some(ToValue(b[1])))
    BY <1>7, Arms
  <2> HIDE DEF a, b
  <2>3. a = None <=> b = None
    BY <2>2, Kinds
  <2>4. a # None => ToValue(a[1]) = ToValue(b[1])
    BY <2>2, <2>3, Kinds
  <2>5. a # None => a[1] = b[1]
    BY <2>1, <2>3, <2>4, StructureDistinct
  <2>6. QED
    BY <2>1, <2>3, <2>5
<1>8. CASE v \in Structures
  <2>1. IsStructure(a, StructureOf[v]) /\ IsStructure(b, StructureOf[v])
    BY <1>8 DEF IsCommand, Plain, Structures, Raw
  <2>2. Some(ToValue(a)) = Some(ToValue(b))
    BY <1>8, Arms
  <2>3. ToValue(a) = ToValue(b)
    BY <2>2, Kinds
  <2> HIDE DEF a, b
  <2>4. QED
    BY <2>1, <2>3, StructureDistinct
<1>9. CASE v = "PiSetTime"
  <2>1. IsStructure(a, StructureOf[v]) /\ IsStructure(b, StructureOf[v])
    BY <1>9 DEF IsCommand, Plain, Structures, Raw
  <2> DEFINE x == <<ToValue(a)>>
             y == <<ToValue(b)>>
  <2>2. Some(Arr(x)) = Some(Arr(y))
    BY <1>9, Arms
  <2>3. x[1] = ToValue(a) /\ y[1] = ToValue(b)
    OBVIOUS
  <2> HIDE DEF x, y
  <2>4. x = y
    BY <2>2, Kinds
  <2>5. QED
    BY <2>1, <2>3, <2>4, StructureDistinct
<1>10. CASE v = "SetSequenceSetting"
  <2>1. /\ a = [i \in 1..Len(a) |-> a[i]] /\ \A i \in 1..Len(a) : IsStructure(a[i], StructureOf[v])
        /\ b = [i \in 1..Len(b) |-> b[i]] /\ \A i \in 1..Len(b) : IsStructure(b[i], StructureOf[v])
    BY <1>10 DEF IsCommand, Plain, Structures, Raw
  <2> DEFINE f == [i \in DOMAIN a |-> ToValue(a[i])]
             g == [i \in DOMAIN b |-> ToValue(b[i])]
             l == Arr(f)
             m == Arr(g)
             x == <<l>>
             y == <<m>>
  <2>2. Some(Arr(x)) = Some(Arr(y))
    BY <1>10, Arms
  <2>3. x[1] = l /\ y[1] = m
    OBVIOUS
  <2> HIDE DEF x, y
  <2>4. l = m
    BY <2>2, <2>3, Kinds
  <2>5. /\ DOMAIN f = DOMAIN a /\ \A i \in DOMAIN a : f[i] = ToValue(a[i])
        /\ DOMAIN g = DOMAIN b /\ \A i \in DOMAIN b : g[i] = ToValue(b[i])
    OBVIOUS
  <2> HIDE DEF a, b, f, g
  <2>6. f = g
    BY <2>4, Kinds
  <2>7. DOMAIN a = DOMAIN b /\ \A i \in DOMAIN a : ToValue(a[i]) = ToValue(b[i])
    BY <2>5, <2>6
  <2>8. DOMAIN a = 1..Len(a) /\ DOMAIN b = 1..Len(b)
    BY <2>1
  <2>9. \A i \in DOMAIN a : a[i] = b[i]
    BY <2>1, <2>7, <2>8, StructureDistinct
  <2>10. QED
    BY <2>1, <2>7, <2>8, <2>9
<1>11. QED
  BY <1>3, <1>4, <1>5, <1>6, <1>7, <1>8, <1>9, <1>10 DEF IsCommand, Listed, Unwrapped, Optionals, Raw

\* Two commands on one line are one command, or a caller's value and the list of it.
LEMMA RequestsDistinct ==
    ASSUME NEW c \in Requests, NEW d \in Requests, d # c, NEW fw \in Firmware,
           SerializeCommand(c, fw) = SerializeCommand(d, fw)
    PROVE  c[1] \in Raw /\ (c[2] = Arr(<<d[2]>>) \/ d[2] = Arr(<<c[2]>>))
<1> DEFINE raw == {x \in Documents : ~Marked(Some(x))}
           p == CommandParams(c)
           q == CommandParams(d)
           needs == fw = None \/ RequiresVerify(fw[1])
<1>1. IsCommand(c, raw) /\ IsCommand(d, raw)
  BY RequestsAssumption
<1> HIDE DEF raw
<1>2. Method(c) = Method(d) /\ InjectVerify(p, needs) = InjectVerify(q, needs)
  BY DEF SerializeCommand
<1>3. Unmarkable(p) /\ Unmarkable(q)
  BY ParamsUnmarkable
<1>4. needs \in BOOLEAN
  OBVIOUS
<1> HIDE DEF p, q, needs
<1>5. p = q \/ Wraps(p, q) \/ Wraps(q, p)
  BY <1>2, <1>3, <1>4, SameMarked
<1> USE DEF p, q
<1>6. c[1] = d[1]
  <2>1. ASSUME NEW x \in {c, d}, NEW y \in {c, d}, x[1] = "ScopePark", y[1] = "ScopeParkMode",
               \/ CommandParams(x) = CommandParams(y)
               \/ Wraps(CommandParams(x), CommandParams(y))
               \/ Wraps(CommandParams(y), CommandParams(x))
        PROVE  FALSE
    <3>1. x[1] \in DOMAIN Plain /\ x[1] # "StopViewPlan"
      BY <2>1 DEF Plain
    <3>2. CommandParams(x) = None
      BY <3>1, Arms
    <3> DEFINE f == [equ_mode |-> y[2]]
    <3>3. CommandParams(y) = Some(Obj(f))
      BY <2>1, Arms
    <3> HIDE DEF f
    <3>4. ~IsArr(CommandParams(x)) /\ ~IsArr(CommandParams(y)) /\ CommandParams(x) # CommandParams(y)
      BY <3>2, <3>3, ArrOrNot, Kinds
    <3>5. QED
      BY <2>1, <3>4, ArrOrNot DEF Wraps
  <2>2. QED
    BY <1>1, <1>2, <1>5, <2>1, SameMethod
<1>7. p # q
  BY <1>1, <1>6, SameParams
<1>8. c[1] \in Raw
  <2>1. ASSUME c[1] \notin Raw PROVE FALSE
    <3>1. IsArr(p) <=> IsArr(q)
      BY <1>1, <1>6, <2>1, ListedOrNot
    <3>2. QED
      BY <1>5, <1>7, <3>1, ArrOrNot DEF Wraps
  <2>2. QED
    BY <2>1
<1>9. p = Some(c[2]) /\ q = Some(d[2])
  BY <1>6, <1>8, Arms DEF Raw, Unwrapped
<1>10. \A x, y : Wraps(Some(x), Some(y)) => y = Arr(<<x>>)
  <2>1. ASSUME NEW x, NEW y, Some(y) = Some(Arr(Some(x))) PROVE y = Arr(Some(x))
    BY <2>1, Kinds
  <2>2. \A x : Some(x) = <<x>>
    BY DEF Some
  <2>3. QED
    BY <2>1, <2>2 DEF Wraps
<1>11. QED
  BY <1>5, <1>7, <1>8, <1>9, <1>10

-----------------------------------------------------------------------------
(* Events                                                                  *)

\* The arms of ParseEvent do not overlap.
LEMMA EventNames == DOMAIN EventData \cap RawEvents = {} /\ KnownEventNames = DOMAIN EventData \cup RawEvents
BY DEF EventData, RawEvents, KnownEventNames

\* The four outcomes of reading an event: no name, a known structure, a raw one, an unknown one.
LEMMA Parsed ==
    ASSUME NEW o, NEW tag, tag = o["Event"], NEW name, name = tag[2],
           NEW event, event = [name |-> name, data |-> o]
    PROVE  /\ tag[1] # "str" => ParseEvent(o) = None
           /\ tag[1] = "str" =>
                 /\ name \in DOMAIN EventData /\ Deserializes(Fits, o, EventData[name]) => ParseEvent(o) = Some(event)
                 /\ name \in DOMAIN EventData /\ ~Deserializes(Fits, o, EventData[name]) => ParseEvent(o) = None
                 /\ name \in RawEvents => ParseEvent(o) = Some(event)
                 /\ name \notin DOMAIN EventData \cup RawEvents =>
                       ParseEvent(o) = Some([name |-> "Unknown", data |-> Empty])
<1> DEFINE fits == Deserializes(Fits, o, EventData[name])
<1>1. ParseEvent(o) =
        IF tag[1] # "str" THEN None ELSE
        CASE name \in DOMAIN EventData -> IF fits THEN Some(event) ELSE None
          [] name \in RawEvents -> Some(event)
          [] OTHER -> Some([name |-> "Unknown", data |-> Empty])
  BY DEF ParseEvent
<1> HIDE DEF fits
<1>2. name \notin DOMAIN EventData \/ name \notin RawEvents
  BY EventNames
<1>3. QED
  BY <1>1, <1>2 DEF fits

\* A field that the structure does not name is ignored.
LEMMA OthersIgnored ==
    ASSUME NEW s, NEW key, key \notin DOMAIN s.required \cup DOMAIN s.option \cup DOMAIN s.default,
           NEW o, NEW p, DOMAIN p = DOMAIN o \cup {key}, \A f \in DOMAIN o \ {key} : p[f] = o[f]
    PROVE  Deserializes(Fits, p, s) <=> Deserializes(Fits, o, s)
BY DEF Deserializes

Named(s) == DOMAIN s.required \cup DOMAIN s.option \cup DOMAIN s.default

\* The field of the future is none that a structure names today.
LEMMA Domains ==
    /\ \A f, g : DOMAIN (f ++ g) = DOMAIN f \cup DOMAIN g
    /\ \A names, type : DOMAIN Typed(names, type) = names
    /\ \A r, o, d : Named(Fields(r, o, d)) = DOMAIN r \cup DOMAIN o \cup DOMAIN d
BY DEF ++, Typed, Fields, Named

LEMMA AddedIsNoField ==
    ASSUME NEW n \in DOMAIN EventData
    PROVE  "added" \notin DOMAIN EventData[n].required \cup DOMAIN EventData[n].option \cup DOMAIN EventData[n].default
<1>1. /\ "added" \notin Named(EventData["AutoGoto"])
      /\ "added" \notin Named(EventData["Stack"])
      /\ "added" \notin Named(EventData["PiStatus"])
      /\ "added" \notin Named(EventData["View"])
  BY Domains DEF EventData, NoTypes, Stated, Lapse, ++
<1>2. /\ "added" \notin Named(EventData["ScopeGoto"])
      /\ "added" \notin Named(EventData["ScopeHome"])
      /\ "added" \notin Named(EventData["ScopeTrack"])
      /\ "added" \notin Named(EventData["AutoFocus"])
  BY Domains DEF EventData, NoTypes, Stated, Lapse, ++
<1>3. /\ "added" \notin Named(EventData["Exposure"])
      /\ "added" \notin Named(EventData["FocuserMove"])
      /\ "added" \notin Named(EventData["Initialise"])
      /\ "added" \notin Named(EventData["Alert"])
  BY Domains DEF EventData, NoTypes, Stated, Lapse, ++
<1>4. /\ "added" \notin Named(EventData["WheelMove"])
      /\ "added" \notin Named(EventData["DiskSpace"])
      /\ "added" \notin Named(EventData["SaveImage"])
  BY Domains DEF EventData, NoTypes, Stated, Lapse, ++
<1>5. n \in {"AutoGoto", "Stack", "PiStatus", "View", "ScopeGoto", "ScopeHome", "ScopeTrack", "AutoFocus", "Exposure", "FocuserMove", "Initialise", "Alert", "WheelMove", "DiskSpace", "SaveImage"}
  BY DEF EventData
<1>6. "added" \notin Named(EventData[n])
  BY <1>1, <1>2, <1>3, <1>4, <1>5
<1>7. QED
  BY <1>6 DEF Named

\* An event stays one when a field is added, and nothing the other tables name changes.
LEMMA EventExtended ==
    ASSUME NEW line \in Documents, IsEvent(line)
    PROVE  \E o, p :
              /\ line = Obj(o) /\ Extended(line, "added") = Obj(p)
              /\ DOMAIN p = DOMAIN o \cup {"added"} /\ \A f \in DOMAIN o \ {"added"} : p[f] = o[f]
              /\ "Event" \in DOMAIN o /\ Get(line, "Event") = Some(o["Event"])
              /\ Dispatch(line) = HandleEvent(line) /\ Dispatch(Obj(p)) = HandleEvent(Obj(p))
<1> DEFINE o == line[2]
           p == [f \in {"added"} |-> Num(7)] ++ o
<1>1. line[1] = "obj" /\ "Event" \in DOMAIN o /\ Get(line, "Event") = Some(o["Event"])
  BY DEF IsEvent, Has, Get
<1>2. line = Obj(o)
  BY <1>1, LinesAssumption, Kinds DEF IsJson
<1>3. Extended(line, "added") = Obj(p)
  BY DEF Extended
<1>4. DOMAIN p = DOMAIN o \cup {"added"} /\ \A f \in DOMAIN o \ {"added"} : p[f] = o[f]
  BY DEF ++
<1> HIDE DEF o, p
<1>5. IsEvent(Obj(p))
  BY <1>1, <1>4, Kinds DEF IsEvent, Has, Get
<1>6. line # Garbage /\ Obj(p) # Garbage
  BY <1>1, Kinds DEF Garbage
<1>7. Dispatch(line) = HandleEvent(line) /\ Dispatch(Obj(p)) = HandleEvent(Obj(p))
  BY <1>5, <1>6 DEF Dispatch
<1>8. QED
  BY <1>1, <1>2, <1>3, <1>4, <1>7

\* Firmware that adds a field or an event does not disturb the client.
THEOREM EventsHold == Spec => []EventsForwardCompatible
<1>1. Inputs => EventsForwardCompatible
  <2>1. SUFFICES ASSUME Inputs, topic = "line", subject # Garbage, IsEvent(subject)
                 PROVE  LET got == Dispatch(subject).event
                            more == Dispatch(Extended(subject, "added")).event
                            name == Get(subject, "Event")[1] IN
                        /\ got = None <=> more = None
                        /\ got # None => got[1].name = more[1].name
                        /\ got = None => name[1] # "str" \/ name[2] \in DOMAIN EventData
                        /\ got # None /\ name[2] \in KnownEventNames => got[1].name = name[2]
    BY DEF EventsForwardCompatible
  <2>2. subject \in Documents
    BY <2>1, LinesAssumption DEF Inputs
  <2>3. PICK o, p :
           /\ subject = Obj(o) /\ Extended(subject, "added") = Obj(p)
           /\ DOMAIN p = DOMAIN o \cup {"added"} /\ \A f \in DOMAIN o \ {"added"} : p[f] = o[f]
           /\ "Event" \in DOMAIN o /\ Get(subject, "Event") = Some(o["Event"])
           /\ Dispatch(subject) = HandleEvent(subject) /\ Dispatch(Obj(p)) = HandleEvent(Obj(p))
    BY <2>1, <2>2, EventExtended
  <2> DEFINE got == Dispatch(subject).event
             more == Dispatch(Extended(subject, "added")).event
             tag == o["Event"]
             name == tag[2]
             fits == Deserializes(Fits, o, EventData[name])
             event == [name |-> name, data |-> o]
             also == [name |-> name, data |-> p]
             unknown == [name |-> "Unknown", data |-> Empty]
  <2>4. p["Event"] = tag /\ Get(subject, "Event")[1] = tag
    BY <2>3, Kinds
  <2>5. got = ParseEvent(o) /\ more = ParseEvent(p)
    BY <2>3, Kinds DEF HandleEvent
  <2>6. name \in DOMAIN EventData => (fits <=> Deserializes(Fits, p, EventData[name]))
    <3> HIDE DEF name
    <3>1. QED
      BY <2>3, AddedIsNoField, OthersIgnored
  <2>7. event.name = name /\ also.name = name /\ unknown.name = "Unknown"
    OBVIOUS
  <2> HIDE DEF tag, got, more
  <2>8. /\ tag[1] # "str" => got = None /\ more = None
        /\ tag[1] = "str" =>
              /\ name \in DOMAIN EventData /\ fits => got = Some(event) /\ more = Some(also)
              /\ name \in DOMAIN EventData /\ ~fits => got = None /\ more = None
              /\ name \in RawEvents => got = Some(event) /\ more = Some(also)
              /\ name \notin DOMAIN EventData \cup RawEvents => got = Some(unknown) /\ more = Some(unknown)
    <3> HIDE DEF name, event, also
    <3>1. /\ tag = o["Event"] /\ name = tag[2]
          /\ event = [name |-> name, data |-> o] /\ also = [name |-> name, data |-> p]
      BY DEF tag, name, event, also
    <3>2. QED
      BY <2>4, <2>5, <2>6, <3>1, Parsed
  <2> HIDE DEF name, fits, event, also, unknown
  <2>9. /\ got = None <=> more = None
        /\ got # None => got[1].name = more[1].name
        /\ got = None => tag[1] # "str" \/ name \in DOMAIN EventData
        /\ got # None /\ name \in DOMAIN EventData \cup RawEvents => got[1].name = name
    BY <2>7, <2>8, Kinds
  <2>10. QED
    BY <2>4, <2>9, EventNames DEF got, more, name
<1>2. QED
  BY <1>1, Picked, PTL

-----------------------------------------------------------------------------
(* Answers                                                                 *)

\* The entries of the tables that decide what an answer says.
LEMMA Tables ==
    /\ "code" \in DOMAIN CommandResponse.default /\ CommandResponse.default["code"] = "i32"
    /\ "device" \in DOMAIN DeviceStateResult.option /\ DeviceStateResult.option["device"] = "DeviceInfo"
    /\ "DeviceInfo" \in DOMAIN Inner
    /\ "firmware_ver_int" \in DOMAIN Inner["DeviceInfo"].option
    /\ Inner["DeviceInfo"].option["firmware_ver_int"] = "u32"
<1>1. "code" \in DOMAIN CommandResponse.default /\ CommandResponse.default["code"] = "i32"
  BY DEF CommandResponse, Fields
<1>2. "device" \in DOMAIN DeviceStateResult.option /\ DeviceStateResult.option["device"] = "DeviceInfo"
  BY DEF DeviceStateResult, Fields, ++
<1>3. "DeviceInfo" \in DOMAIN Inner
  BY DEF Inner
<1>4. /\ "firmware_ver_int" \in DOMAIN Inner["DeviceInfo"].option
      /\ Inner["DeviceInfo"].option["firmware_ver_int"] = "u32"
  BY DEF Inner, Fields, Typed, ++
<1>5. QED
  BY <1>1, <1>2, <1>3, <1>4

\* A number that fits an unsigned integer type fits the wider one.
LEMMA FitsNumbers ==
    ASSUME NEW v
    PROVE  /\ Fits("i32", v) <=> v[1] = "num"
           /\ Fits("u32", v) <=> v[1] = "num" /\ v[2] >= 0
           /\ Fits("u64", v) <=> v[1] = "big" \/ (v[1] = "num" /\ v[2] >= 0)
BY DEF Fits

\* Only a response is an answer, and it holds the members it must.
LEMMA AnswerRead ==
    ASSUME NEW line \in Documents, Dispatch(line).answer # None
    PROVE  /\ line = Obj(line[2]) /\ line[1] = "obj" /\ line[2] \in [DOMAIN line[2] -> Documents]
           /\ Deserializes(Fits, line[2], CommandResponse)
           /\ Dispatch(line).event = None
           /\ Dispatch(line).firmware = ReportedFirmware(line)
           /\ Dispatch(line).answer[1].outcome = IntoResult(line[2])
<1>1. Dispatch(line) = HandleResponse(line) /\ IsResponse(line)
  BY DEF Dispatch, HandleEvent
<1>2. line[1] = "obj"
  BY <1>1 DEF IsResponse, Has, Get
<1>3. line = Obj(line[2]) /\ line[2] \in [DOMAIN line[2] -> Documents]
  BY <1>2, LinesAssumption, Kinds DEF IsJson
<1>4. JsonRpcId(line) # None /\ Deserializes(Fits, line[2], CommandResponse)
  BY <1>1 DEF HandleResponse
<1>5. HandleResponse(line) =
        [event |-> None, firmware |-> ReportedFirmware(line),
         answer |-> Some([id |-> JsonRpcId(line)[1], outcome |-> IntoResult(line[2])])]
  BY <1>4 DEF HandleResponse
<1>6. QED
  BY <1>1, <1>2, <1>3, <1>4, <1>5, Kinds

\* Ok comes from a line with no code or code 0, and its value is the line's result.
LEMMA OkWithoutCode ==
    ASSUME NEW line \in Documents, Dispatch(line).answer # None, Dispatch(line).answer[1].outcome.ok
    PROVE  /\ Get(line, "code") \in {None, Some(Num(0))}
           /\ Dispatch(line).answer[1].outcome.value = IF "result" \in DOMAIN line[2] THEN line[2]["result"] ELSE Null
<1> DEFINE o == line[2]
<1>1. /\ line[1] = "obj" /\ o \in [DOMAIN o -> Documents] /\ Deserializes(Fits, o, CommandResponse)
      /\ Dispatch(line).answer[1].outcome = IntoResult(o)
  BY AnswerRead
<1> HIDE DEF o
<1>2. IntoResult(o).ok => Code(o) = 0
  BY DEF IntoResult
<1>3. Code(o) = 0
  BY <1>1, <1>2
<1>4. "code" \in DOMAIN o => o["code"] = Num(0)
  <2>1. SUFFICES ASSUME "code" \in DOMAIN o PROVE o["code"] = Num(0)
    OBVIOUS
  <2> DEFINE c == o["code"]
  <2>2. Fits("i32", c)
    BY <1>1, <2>1, Tables DEF Deserializes
  <2>3. c \in Documents /\ c[1] = "num" /\ c[2] = 0
    BY <1>1, <1>3, <2>1, <2>2, FitsNumbers DEF Code
  <2> HIDE DEF c
  <2>4. c = Num(c[2])
    BY <2>3, LinesAssumption, Kinds DEF IsJson
  <2>5. QED
    BY <2>3, <2>4 DEF c
<1>5. IntoResult(o).value = IF "result" \in DOMAIN o THEN o["result"] ELSE Null
  BY <1>3 DEF IntoResult
<1>6. QED
  BY <1>1, <1>4, <1>5 DEF Get, o

\* The firmware in an answer that its caller can read is the one that is recorded.
LEMMA SameFirmware ==
    ASSUME NEW line \in Documents, line[1] = "obj", Get(line, "method") = Some(Str("get_device_state")),
           NEW result, Get(line, "result") = Some(result), Parses(result, DeviceStateResult),
           NEW device, Get(result, "device") = Some(device),
           NEW fw, Get(device, "firmware_ver_int") = Some(fw), fw # Null
    PROVE  ReportedFirmware(line) = Some(fw[2])
<1>1. device[1] = "obj" /\ "firmware_ver_int" \in DOMAIN device[2] /\ device[2]["firmware_ver_int"] = fw
  BY Kinds DEF Get
<1>2. FitsInner("DeviceInfo", device)
  <2>1. "device" \in DOMAIN result[2] /\ result[2]["device"] = device
    BY Kinds DEF Get
  <2>2. device # Null
    BY <1>1, Kinds
  <2>3. QED
    BY <2>1, <2>2, Tables DEF Parses, Deserializes
<1>3. Fits("u32", fw)
  BY <1>1, <1>2, Tables DEF FitsInner, Deserializes
<1>4. Fits("u64", fw) /\ fw # Big
  BY <1>3, FitsNumbers, Kinds
<1>5. MethodName(line) = Some(Str("get_device_state"))
  BY Kinds DEF MethodName, Has
<1>6. QED
  BY <1>4, <1>5, Kinds DEF ReportedFirmware

\* A call gets Ok only from a line without an error code, and what get_device_state tells
\* its caller about the firmware is what the connection has recorded.
THEOREM AnswersHold == Spec => []AnswersTrue
<1>1. Inputs => AnswersTrue
  <2>1. SUFFICES ASSUME Inputs, topic = "line", Dispatch(subject).answer # None PROVE AnswersTrue
    BY DEF AnswersTrue
  <2> DEFINE got == Dispatch(subject)
             ok == got.answer[1].outcome.ok
             result == got.answer[1].outcome.value
             device == Get(result, "device")
             fw == IF device = None THEN None ELSE Get(device[1], "firmware_ver_int")
  <2>2. subject # Garbage
    BY <2>1 DEF Dispatch
  <2>3. subject \in Documents
    BY <2>1, <2>2, LinesAssumption DEF Inputs
  <2>4. got.event = None
    BY <2>1, <2>3, AnswerRead
  <2>5. ok => Get(subject, "code") \in {None, Some(Num(0))}
    BY <2>1, <2>3, OkWithoutCode
  <2>6. ASSUME Get(subject, "method") = Some(Str("get_device_state")), ok,
               Parses(result, DeviceStateResult), fw \notin {None, Some(Null)}
        PROVE  got.firmware = Some(fw[1][2])
    <3>1. subject[1] = "obj" /\ got.firmware = ReportedFirmware(subject)
      BY <2>1, <2>3, AnswerRead
    <3>2. result = IF "result" \in DOMAIN subject[2] THEN subject[2]["result"] ELSE Null
      BY <2>1, <2>3, <2>6, OkWithoutCode
    <3> HIDE DEF result
    <3>3. result # Null
      BY <2>6, Kinds DEF Parses
    <3>4. Get(subject, "result") = Some(result)
      BY <3>1, <3>2, <3>3 DEF Get
    <3>5. \A v, k : Get(v, k) # None => Get(v, k) = Some(Get(v, k)[1])
      BY Kinds DEF Get
    <3>6. device = Some(device[1]) /\ fw = Get(device[1], "firmware_ver_int") /\ fw # None
      BY <2>6, <3>5
    <3>7. fw = Some(fw[1]) /\ fw[1] # Null
      BY <2>6, <3>5, <3>6
    <3> HIDE DEF fw
    <3>8. Get(device[1], "firmware_ver_int") = Some(fw[1])
      BY <3>6, <3>7
    <3>9. ReportedFirmware(subject) = Some(fw[1][2])
      BY <2>3, <2>6, <3>1, <3>4, <3>6, <3>7, <3>8, SameFirmware
    <3>10. QED
      BY <3>1, <3>9
  <2>7. QED
    BY <2>4, <2>5, <2>6 DEF AnswersTrue
<1>2. QED
  BY <1>1, Picked, PTL

-----------------------------------------------------------------------------
(* The bus                                                                 *)

\* The arms of Slew and of Translate do not overlap.
LEMMA SlewArms ==
    ASSUME NEW state, NEW failure
    PROVE  /\ state \in {Str("start"), Str("working")} => Slew(state, failure) = Event("SlewStarted", <<>>)
           /\ state = Str("complete") => Slew(state, failure) = Event("SlewCompleted", <<>>)
           /\ state = Str("fail") => Slew(state, failure) = Event("Error", failure)
           /\ state \notin {Str("start"), Str("working"), Str("complete"), Str("fail")} => Slew(state, failure) = None
<1>1. /\ Str("complete") \notin {Str("start"), Str("working")}
      /\ Str("fail") \notin {Str("start"), Str("working"), Str("complete")}
  <2>1. \A t, u : Str(t) = Str(u) => t = u
    BY Kinds
  <2>2. QED
    BY <2>1
<1>2. QED
  BY <1>1 DEF Slew

Frames(d) == [i \in 1..3 |-> Field(d, <<"stacked_frame", "dropped_frame", "total_frame">>[i], Num(0))]

\* What each kind of event becomes on the bus.
LEMMA Translated ==
    ASSUME NEW name, NEW d, NEW e, e.name = name, e.data = d
    PROVE  /\ name = "AutoGoto" =>
                 Translate(e) = Slew(Optional(d, "state", Null), <<Optional(d, "code", Num(-1)), Optional(d, "error", Str(""))>>)
           /\ name = "ScopeTrack" =>
                 Translate(e) = Event("TrackingChanged", <<Field(d, "tracking", Bool(FALSE))>>)
           /\ name = "Stack" =>
                 Translate(e) = IF Optional(d, "state", Null) = Str("frame_complete")
                                THEN Event("StackFrameCompleted", Frames(d)) ELSE None
           /\ name = "Alert" =>
                 Translate(e) = Event("Error", <<Field(d, "code", Num(0)), Field(d, "error", Str(""))>>)
           /\ name \notin {"AutoGoto", "ScopeTrack", "Stack", "Alert"} => Translate(e) = None
BY DEF Translate, Frames

\* A field that the translator does not look at changes nothing.
LEMMA SameTranslation ==
    ASSUME NEW o, NEW p, DOMAIN p = DOMAIN o \cup {"added"}, \A f \in DOMAIN o \ {"added"} : p[f] = o[f],
           NEW name, NEW e, e.name = name, e.data = o, NEW f, f.name = name, f.data = p
    PROVE  Translate(f) = Translate(e)
<1>1. /\ Optional(p, "state", Null) = Optional(o, "state", Null)
      /\ Optional(p, "code", Num(-1)) = Optional(o, "code", Num(-1))
      /\ Optional(p, "error", Str("")) = Optional(o, "error", Str(""))
  BY DEF Optional
<1>2. /\ Field(p, "tracking", Bool(FALSE)) = Field(o, "tracking", Bool(FALSE))
      /\ Field(p, "code", Num(0)) = Field(o, "code", Num(0))
      /\ Field(p, "error", Str("")) = Field(o, "error", Str(""))
      /\ Field(p, "stacked_frame", Num(0)) = Field(o, "stacked_frame", Num(0))
      /\ Field(p, "dropped_frame", Num(0)) = Field(o, "dropped_frame", Num(0))
      /\ Field(p, "total_frame", Num(0)) = Field(o, "total_frame", Num(0))
  BY DEF Field
<1>3. Frames(p) = Frames(o)
  <2>1. ASSUME NEW i \in 1..3
        PROVE  Field(p, <<"stacked_frame", "dropped_frame", "total_frame">>[i], Num(0))
               = Field(o, <<"stacked_frame", "dropped_frame", "total_frame">>[i], Num(0))
    <3>1. <<"stacked_frame", "dropped_frame", "total_frame">>[i] \in {"stacked_frame", "dropped_frame", "total_frame"}
      OBVIOUS
    <3>2. QED
      BY <1>2, <3>1
  <2>2. QED
    BY <2>1 DEF Frames
<1>4. CASE name = "AutoGoto"
  <2>1. Translate(e) = Slew(Optional(o, "state", Null), <<Optional(o, "code", Num(-1)), Optional(o, "error", Str(""))>>)
    BY <1>4, Translated
  <2>2. Translate(f) = Slew(Optional(p, "state", Null), <<Optional(p, "code", Num(-1)), Optional(p, "error", Str(""))>>)
    BY <1>4, Translated
  <2>3. QED
    BY <1>1, <2>1, <2>2
<1>5. CASE name = "ScopeTrack"
  <2>1. /\ Translate(e) = Event("TrackingChanged", <<Field(o, "tracking", Bool(FALSE))>>)
        /\ Translate(f) = Event("TrackingChanged", <<Field(p, "tracking", Bool(FALSE))>>)
    BY <1>5, Translated
  <2>2. QED
    BY <1>2, <2>1
<1>6. CASE name = "Stack"
  <2>1. /\ Translate(e) = IF Optional(o, "state", Null) = Str("frame_complete")
                          THEN Event("StackFrameCompleted", Frames(o)) ELSE None
        /\ Translate(f) = IF Optional(p, "state", Null) = Str("frame_complete")
                          THEN Event("StackFrameCompleted", Frames(p)) ELSE None
    BY <1>6, Translated
  <2>2. CASE Optional(o, "state", Null) = Str("frame_complete")
    BY <1>1, <1>3, <2>1, <2>2
  <2>3. CASE Optional(o, "state", Null) # Str("frame_complete")
    BY <1>1, <2>1, <2>3
  <2>4. QED
    BY <2>2, <2>3
<1>7. CASE name = "Alert"
  <2>1. /\ Translate(e) = Event("Error", <<Field(o, "code", Num(0)), Field(o, "error", Str(""))>>)
        /\ Translate(f) = Event("Error", <<Field(p, "code", Num(0)), Field(p, "error", Str(""))>>)
    BY <1>7, Translated
  <2>2. QED
    BY <1>2, <2>1
<1>8. CASE name \notin {"AutoGoto", "ScopeTrack", "Stack", "Alert"}
  BY <1>8, Translated
<1>9. QED
  BY <1>4, <1>5, <1>6, <1>7, <1>8

\* The event that a line with the fields o is read as, and one with the fields p: the
\* one it names, or none that the translator knows.
ReadAs(line, got, more, o, p, name) ==
    \/ /\ got = Some([name |-> name, data |-> o]) /\ more = Some([name |-> name, data |-> p])
       /\ name \in DOMAIN EventData => Deserializes(Fits, o, EventData[name])
       /\ Get(line, "Event") = Some(Str(name))
    \/ /\ got = None \/ got = Some([name |-> "Unknown", data |-> Empty])
       /\ Get(line, "Event") = Some(Str(name)) /\ name \in DOMAIN EventData => ~Deserializes(Fits, o, EventData[name])
       /\ \A n : n # name => Get(line, "Event") # Some(Str(n))

\* An event and the same with one more field are read alike.
LEMMA EventRead ==
    ASSUME NEW line \in Documents, IsEvent(line),
           NEW got, got = Dispatch(line).event, NEW more, more = Dispatch(Extended(line, "added")).event
    PROVE  \E o, p, name :
              /\ line[1] = "obj" /\ line[2] = o /\ o \in [DOMAIN o -> Documents]
              /\ DOMAIN p = DOMAIN o \cup {"added"} /\ \A f \in DOMAIN o \ {"added"} : p[f] = o[f]
              /\ ReadAs(line, got, more, o, p, name)
<1>1. PICK o, p :
         /\ line = Obj(o) /\ Extended(line, "added") = Obj(p)
         /\ DOMAIN p = DOMAIN o \cup {"added"} /\ \A f \in DOMAIN o \ {"added"} : p[f] = o[f]
         /\ "Event" \in DOMAIN o /\ Get(line, "Event") = Some(o["Event"])
         /\ Dispatch(line) = HandleEvent(line) /\ Dispatch(Obj(p)) = HandleEvent(Obj(p))
  BY EventExtended
<1> DEFINE tag == o["Event"]
           name == tag[2]
           event == [name |-> name, data |-> o]
           also == [name |-> name, data |-> p]
<1>2. /\ line[1] = "obj" /\ line[2] = o /\ o \in [DOMAIN o -> Documents]
  <2>1. line[1] = "obj" /\ line[2] = o
    BY <1>1, Kinds
  <2>2. line[2] \in [DOMAIN line[2] -> Documents]
    BY <2>1, LinesAssumption, Kinds DEF IsJson
  <2>3. QED
    BY <2>1, <2>2
<1>3. got = ParseEvent(o) /\ more = ParseEvent(p) /\ p["Event"] = tag
  BY <1>1, Kinds DEF HandleEvent
<1>4. tag \in Documents /\ (tag[1] = "str" => tag = Str(name))
  BY <1>1, <1>2, LinesAssumption, Kinds DEF IsJson
<1>5. name \in DOMAIN EventData =>
         (Deserializes(Fits, o, EventData[name]) <=> Deserializes(Fits, p, EventData[name]))
  <2> HIDE DEF name
  <2>1. QED
    BY <1>1, AddedIsNoField, OthersIgnored
<1>6. Get(line, "Event") = Some(tag)
  BY <1>1
<1>7. tag = o["Event"] /\ name = tag[2] /\ event = [name |-> name, data |-> o] /\ also = [name |-> name, data |-> p]
  OBVIOUS
<1> HIDE DEF tag, name, event, also
<1>8. ReadAs(line, got, more, o, p, name)
  <2>1. CASE /\ tag[1] = "str"
             /\ name \in RawEvents \/ (name \in DOMAIN EventData /\ Deserializes(Fits, o, EventData[name]))
    <3>1. got = Some(event) /\ more = Some(also)
      BY <1>3, <1>5, <1>7, <2>1, Parsed
    <3>2. name \in DOMAIN EventData => Deserializes(Fits, o, EventData[name])
      BY <2>1, EventNames
    <3>3. Get(line, "Event") = Some(Str(name))
      BY <1>4, <1>6, <2>1
    <3>4. QED
      BY <1>7, <3>1, <3>2, <3>3 DEF ReadAs
  <2>2. CASE ~(/\ tag[1] = "str"
               /\ name \in RawEvents \/ (name \in DOMAIN EventData /\ Deserializes(Fits, o, EventData[name])))
    <3>1. got = None \/ got = Some([name |-> "Unknown", data |-> Empty])
      BY <1>3, <1>7, <2>2, Parsed
    <3>2. Get(line, "Event") = Some(Str(name)) /\ name \in DOMAIN EventData => ~Deserializes(Fits, o, EventData[name])
      BY <1>6, <2>2, Kinds
    <3>3. \A n : n # name => Get(line, "Event") # Some(Str(n))
      BY <1>6, <1>7, Kinds
    <3>4. QED
      BY <3>1, <3>2, <3>3 DEF ReadAs
  <2>3. QED
    BY <2>1, <2>2
<1>9. QED
  BY <1>1, <1>2, <1>8

\* The state that the translator looks at, and the code that it passes on.
LEMMA OptionalRead ==
    ASSUME NEW line, line[1] = "obj", NEW o, line[2] = o
    PROVE  /\ \A key, absent : Optional(o, key, absent) =
                 IF Get(line, key) \in {None, Some(Null)} THEN absent ELSE Get(line, key)[1]
           /\ \A key, default : Field(o, key, default) = IF Get(line, key) = None THEN default ELSE Get(line, key)[1]
           /\ \A key : Get(line, key) = None \/ Get(line, key) = Some(Get(line, key)[1])
BY Kinds DEF Optional, Field, Get

\* What is put on the bus is there with its type and payload.
LEMMA EventKinds ==
    ASSUME NEW type, NEW payload
    PROVE  Event(type, payload) # None /\ Event(type, payload)[1].type = type /\ Event(type, payload)[1].payload = payload
BY Kinds DEF Event

\* An event that says nothing of a slew is never told as one.
LEMMA NotASlew ==
    ASSUME NEW name, name # "AutoGoto", NEW d, NEW e, e.name = name, e.data = d
    PROVE  \/ Translate(e) = None
           \/ \E type, payload : /\ Translate(e) = Event(type, payload)
                                /\ type \in {"TrackingChanged", "StackFrameCompleted"}
           \/ /\ name = "Alert" /\ Translate(e) = Event("Error", <<Field(d, "code", Num(0)), Field(d, "error", Str(""))>>)
<1>1. CASE name = "ScopeTrack"
  BY <1>1, Translated
<1>2. CASE name = "Stack"
  BY <1>2, Translated
<1>3. CASE name = "Alert"
  BY <1>3, Translated
<1>4. CASE name \notin {"ScopeTrack", "Stack", "Alert"}
  BY <1>4, Translated
<1>5. QED
  BY <1>1, <1>2, <1>3, <1>4

\* The bus tells of a slew exactly what the telescope told, and passes on its error codes.
THEOREM BusHolds == Spec => []BusTellsTheTruth
<1>1. Inputs => BusTellsTheTruth
  <2>1. SUFFICES ASSUME Inputs, topic = "line", subject # Garbage PROVE BusTellsTheTruth
    BY DEF BusTellsTheTruth
  <2> DEFINE told == Unify(subject)
             also == Unify(Extended(subject, "added"))
             state == Get(subject, "state")
             slew == /\ Get(subject, "Event") = Some(Str("AutoGoto"))
                     /\ Deserializes(Fits, subject[2], EventData["AutoGoto"])
                     /\ state # None /\ Kept(state[1])
             type == IF told = None THEN "none" ELSE told[1].type
             got == Dispatch(subject).event
             more == Dispatch(Extended(subject, "added")).event
             code == Get(subject, "code")
  <2>2. subject \in Documents
    BY <2>1, LinesAssumption DEF Inputs
  <2>3. /\ told = IF got = None THEN None ELSE Translate(got[1])
        /\ also = IF more = None THEN None ELSE Translate(more[1])
    BY DEF Unify
  <2>4. SUFFICES /\ slew => type = CASE state[1] = Str("complete") -> "SlewCompleted"
                                      [] state[1] = Str("fail") -> "Error"
                                      [] OTHER -> "SlewStarted"
                 /\ type \in {"SlewStarted", "SlewCompleted"} => slew
                 /\ type = "Error" => code \in {None, Some(Null), Some(told[1].payload[1])}
                 /\ type # "none" => told = also
    BY DEF BusTellsTheTruth
  <2>5. CASE ~IsEvent(subject)
    <3>1. got = None
      BY <2>5 DEF Dispatch, HandleResponse
    <3>2. ~slew
      BY <2>5, Kinds DEF IsEvent, Has
    <3>3. type = "none"
      BY <2>3, <3>1
    <3> HIDE DEF slew, type
    <3>4. QED
      BY <3>2, <3>3
  <2>6. CASE IsEvent(subject)
    <3> HIDE DEF told, also
    <3>1. PICK o, p, name :
             /\ subject[1] = "obj" /\ subject[2] = o /\ o \in [DOMAIN o -> Documents]
             /\ DOMAIN p = DOMAIN o \cup {"added"} /\ \A f \in DOMAIN o \ {"added"} : p[f] = o[f]
             /\ ReadAs(subject, got, more, o, p, name)
      BY <2>2, <2>6, EventRead
    <3>2. CASE /\ got = None \/ got = Some([name |-> "Unknown", data |-> Empty])
               /\ Get(subject, "Event") = Some(Str(name)) /\ name \in DOMAIN EventData
                  => ~Deserializes(Fits, o, EventData[name])
               /\ \A n : n # name => Get(subject, "Event") # Some(Str(n))
      <4> DEFINE unknown == [name |-> "Unknown", data |-> Empty]
      <4>1. unknown.name = "Unknown" /\ unknown.data = Empty
        OBVIOUS
      <4>2. Translate(unknown) = None
        <5> HIDE DEF unknown
        <5>1. QED
          BY <4>1, Translated
      <4>3. told = None
        <5> HIDE DEF unknown, got
        <5>1. got = None \/ got = Some(unknown)
          BY <3>2 DEF unknown
        <5>2. QED
          BY <2>3, <4>2, <5>1, Kinds
      <4>4. "AutoGoto" \in DOMAIN EventData
        BY DEF EventData
      <4>5. ~slew
        BY <3>1, <3>2, <4>4
      <4> HIDE DEF slew
      <4>6. QED
        BY <4>3, <4>5
    <3>3. CASE /\ got = Some([name |-> name, data |-> o]) /\ more = Some([name |-> name, data |-> p])
               /\ name \in DOMAIN EventData => Deserializes(Fits, o, EventData[name])
               /\ Get(subject, "Event") = Some(Str(name))
      <4> DEFINE e == [name |-> name, data |-> o]
                 f == [name |-> name, data |-> p]
      <4>1. e.name = name /\ e.data = o /\ f.name = name /\ f.data = p
        OBVIOUS
      <4> HIDE DEF e, f
      <4>2. told = Translate(e) /\ also = Translate(f)
        <5> HIDE DEF got, more
        <5>1. got = Some(e) /\ more = Some(f)
          BY <3>3 DEF e, f
        <5>2. QED
          BY <2>3, <5>1, Kinds
      <4>3. told = also
        BY <3>1, <4>1, <4>2, SameTranslation
      <4>4. CASE name = "AutoGoto"
        <5> DEFINE st == Optional(o, "state", Null)
                   failure == <<Optional(o, "code", Num(-1)), Optional(o, "error", Str(""))>>
        <5>1. told = Slew(st, failure)
          BY <4>1, <4>2, <4>4, Translated
        <5>2. failure[1] = IF code \in {None, Some(Null)} THEN Num(-1) ELSE code[1]
          BY <3>1, OptionalRead
        <5>3. code = None \/ code = Some(code[1])
          BY <3>1, OptionalRead
        <5>4. st = IF state \in {None, Some(Null)} THEN Null ELSE state[1]
          BY <3>1, OptionalRead
        <5>5. state = None \/ state = Some(state[1])
          BY <3>1, OptionalRead
        <5>6. slew <=> state # None /\ state[1] \in EventState \ {Str("cancel")}
          BY <3>1, <3>3, <4>4 DEF Kept, EventData
        <5> HIDE DEF st, failure, slew, state, code, told, also
        <5>7. \A t, u : (Str(t) = Str(u) => t = u) /\ Str(t) # Null
          BY Kinds
        <5>8. EventState \ {Str("cancel")} = {Str("start"), Str("working"), Str("complete"), Str("fail")}
          BY <5>7 DEF EventState
        <5>9. /\ slew <=> st \in {Str("start"), Str("working"), Str("complete"), Str("fail")}
              /\ slew => st = state[1]
          BY <5>4, <5>5, <5>6, <5>7, <5>8, Kinds
        <5>10. CASE st \in {Str("start"), Str("working")}
          <6>1. told = Event("SlewStarted", <<>>)
            BY <5>1, <5>10, SlewArms
          <6>2. told # None /\ told[1].type = "SlewStarted"
            BY <6>1, EventKinds
          <6>3. slew /\ state[1] # Str("complete") /\ state[1] # Str("fail")
            BY <5>7, <5>9, <5>10
          <6>4. QED
            BY <4>3, <6>2, <6>3
        <5>11. CASE st = Str("complete")
          <6>1. told = Event("SlewCompleted", <<>>)
            BY <5>1, <5>11, SlewArms
          <6>2. told # None /\ told[1].type = "SlewCompleted"
            BY <6>1, EventKinds
          <6>3. slew /\ state[1] = Str("complete") /\ state[1] # Str("fail")
            BY <5>7, <5>9, <5>11
          <6>4. QED
            BY <4>3, <6>2, <6>3
        <5>12. CASE st = Str("fail")
          <6>1. told = Event("Error", failure)
            BY <5>1, <5>12, SlewArms
          <6>2. told # None /\ told[1].type = "Error" /\ told[1].payload = failure
            BY <6>1, EventKinds
          <6>3. slew /\ state[1] = Str("fail") /\ state[1] # Str("complete")
            BY <5>7, <5>9, <5>12
          <6>4. code \in {None, Some(Null), Some(told[1].payload[1])}
            BY <5>2, <5>3, <6>2
          <6>5. QED
            BY <4>3, <6>2, <6>3, <6>4
        <5>13. CASE st \notin {Str("start"), Str("working"), Str("complete"), Str("fail")}
          <6>1. told = None /\ ~slew
            BY <5>1, <5>9, <5>13, SlewArms
          <6>2. QED
            BY <6>1
        <5>14. QED
          BY <5>10, <5>11, <5>12, <5>13
      <4>5. CASE name # "AutoGoto"
        <5>1. ~slew
          BY <3>3, <4>5, Kinds
        <5> HIDE DEF slew, told, also, code
        <5>2. CASE told = None
          BY <5>1, <5>2
        <5>3. CASE \E t, payload : told = Event(t, payload) /\ t \in {"TrackingChanged", "StackFrameCompleted"}
          <6>1. told # None /\ told[1].type \in {"TrackingChanged", "StackFrameCompleted"}
            BY <5>3, EventKinds
          <6>2. QED
            BY <4>3, <5>1, <6>1
        <5>4. CASE told = Event("Error", <<Field(o, "code", Num(0)), Field(o, "error", Str(""))>>)
          <6> DEFINE payload == <<Field(o, "code", Num(0)), Field(o, "error", Str(""))>>
          <6>1. payload[1] = Field(o, "code", Num(0))
            OBVIOUS
          <6>2. payload[1] = (IF code = None THEN Num(0) ELSE code[1]) /\ (code = None \/ code = Some(code[1]))
            BY <3>1, <6>1, OptionalRead DEF code
          <6> HIDE DEF payload
          <6>3. told # None /\ told[1].type = "Error" /\ told[1].payload = payload
            BY <5>4, EventKinds DEF payload
          <6>4. QED
            BY <4>3, <5>1, <6>2, <6>3
        <5>5. QED
          BY <4>1, <4>2, <4>5, <5>2, <5>3, <5>4, NotASlew
      <4>6. QED
        BY <4>4, <4>5
    <3>4. QED
      BY <3>1, <3>2, <3>3 DEF ReadAs
  <2>7. QED
    BY <2>5, <2>6
<1>2. QED
  BY <1>1, Picked, PTL

-----------------------------------------------------------------------------
(* Induction                                                               *)

\* A set of numbers with 0 and every successor has every number: a number left out
\* would have a least one.
LEMMA Numbered ==
    ASSUME NEW P, 0 \in P, \A n \in Nat : n \in P => n + 1 \in P
    PROVE  Nat \subseteq P
<1> DEFINE R == OpToRel(<, Nat)
           T == Nat \ P
<1>1. \A m, n \in Nat : m < n => <<m, n>> \in R
  BY DEF OpToRel
<1>2. T # {} => \E n \in T : \A m \in T : ~(<<m, n>> \in R)
  <2>1. IsWellFoundedOn(R, Nat)
    BY NatLessThanWellFounded
  <2> HIDE DEF R
  <2>2. QED
    BY <2>1, WFMin
<1> HIDE DEF R
<1>3. SUFFICES ASSUME T # {} PROVE FALSE
  OBVIOUS
<1>4. PICK n \in T : \A m \in T : ~(m < n)
  BY <1>1, <1>2, <1>3
<1>5. n - 1 \in Nat /\ n - 1 < n
  BY <1>4
<1>6. n - 1 \in P
  BY <1>4, <1>5
<1>7. QED
  BY <1>4, <1>5, <1>6

-----------------------------------------------------------------------------
(* Discovery: telescopes                                                   *)

\* FlattenSeq's function of the first elements.
Flattened(f, s, k) == f = [i \in 1..k |-> IF i = 1 THEN s[i] ELSE f[i - 1] \o s[i]]

\* The partial results of FlattenSeq exist up to any length, and the last is its result.
LEMMA FlattenedExists ==
    ASSUME NEW s
    PROVE  \A k \in Nat : \E f : Flattened(f, s, k)
<1> DEFINE P == {k \in Nat : \E f : Flattened(f, s, k)}
<1>1. 0 \in P
  <2> DEFINE f == [i \in 1..0 |-> s]
  <2>1. Flattened(f, s, 0)
    BY DEF Flattened
  <2>2. QED
    BY <2>1
<1>2. ASSUME NEW k \in Nat, NEW f, Flattened(f, s, k) PROVE \E g : Flattened(g, s, k + 1)
  <2> DEFINE g == [i \in 1..(k + 1) |-> IF i = k + 1 THEN IF i = 1 THEN s[i] ELSE f[i - 1] \o s[i] ELSE f[i]]
  <2>1. \A i \in 1..k : g[i] = f[i]
    OBVIOUS
  <2>2. ASSUME NEW i \in 1..(k + 1) PROVE g[i] = IF i = 1 THEN s[i] ELSE g[i - 1] \o s[i]
    <3>1. CASE i = k + 1
      BY <2>1, <3>1
    <3>2. CASE i \in 1..k
      <4>1. i - 1 \in 1..k \/ i = 1
        BY <3>2
      <4>2. f[i] = IF i = 1 THEN s[i] ELSE f[i - 1] \o s[i]
        BY <1>2, <3>2 DEF Flattened
      <4> HIDE DEF g
      <4>3. QED
        BY <2>1, <3>2, <4>1, <4>2
    <3>3. QED
      BY <3>1, <3>2
  <2>3. Flattened(g, s, k + 1)
    BY <2>2 DEF Flattened
  <2>4. QED
    BY <2>3
<1>3. \A n \in Nat : n \in P => n + 1 \in P
  BY <1>2
<1>4. Nat \subseteq P
  <2> HIDE DEF P
  <2>1. QED
    BY <1>1, <1>3, Numbered
<1>5. QED
  BY <1>4

LEMMA FlattenSeqIs ==
    ASSUME NEW s, Len(s) \in Nat, Len(s) # 0
    PROVE  \E f : Flattened(f, s, Len(s)) /\ FlattenSeq(s) = f[Len(s)]
<1> DEFINE F == CHOOSE f : f = [i \in 1..Len(s) |-> IF i = 1 THEN s[i] ELSE f[i - 1] \o s[i]]
<1>1. \E f : f = [i \in 1..Len(s) |-> IF i = 1 THEN s[i] ELSE f[i - 1] \o s[i]]
  BY FlattenedExists DEF Flattened
<1>2. F = [i \in 1..Len(s) |-> IF i = 1 THEN s[i] ELSE F[i - 1] \o s[i]]
  BY <1>1, Zenon
<1>3. FlattenSeq(s) = F[Len(s)]
  BY Zenon DEF FlattenSeq
<1> HIDE DEF F
<1>4. QED
  BY <1>2, <1>3 DEF Flattened

\* The elements of a sequence of options, flattened, are those that are there.
LEMMA FlattenedOptions ==
    ASSUME NEW X, NEW s \in Seq({<<>>} \cup {<<x>> : x \in X})
    PROVE  /\ FlattenSeq(s) \in Seq(X)
           /\ \A x \in X : x \in Range(FlattenSeq(s)) <=> \E i \in 1..Len(s) : s[i] = <<x>>
<1> DEFINE n == Len(s)
           Holds(t, k) == /\ t \in Seq(X)
                          /\ \A x \in X : (\E j \in 1..Len(t) : t[j] = x) <=> \E i \in 1..k : s[i] = <<x>>
<1>1. n \in Nat /\ \A i \in 1..n : s[i] = <<>> \/ \E x \in X : s[i] = <<x>>
  OBVIOUS
<1>2. ASSUME NEW t \in Seq(X), NEW y \in X
      PROVE  /\ t \o <<y>> \in Seq(X)
             /\ \A x \in X : (\E j \in 1..Len(t \o <<y>>) : (t \o <<y>>)[j] = x)
                              <=> (\E j \in 1..Len(t) : t[j] = x) \/ x = y
  <2> DEFINE u == t \o <<y>>
  <2>1. u \in Seq(X) /\ Len(u) = Len(t) + 1 /\ u[Len(t) + 1] = y /\ \A j \in 1..Len(t) : u[j] = t[j]
    OBVIOUS
  <2>2. Len(t) \in Nat
    OBVIOUS
  <2> HIDE DEF u
  <2>3. \A x : (\E j \in 1..Len(u) : u[j] = x) <=> (\E j \in 1..Len(t) : t[j] = x) \/ x = y
    BY <2>1, <2>2
  <2>4. QED
    BY <2>1, <2>3 DEF u
<1>3. CASE n = 0
  <2>1. FlattenSeq(s) = s /\ s = <<>>
    BY <1>3 DEF FlattenSeq
  <2>2. QED
    BY <1>3, <2>1 DEF Range
<1>4. CASE n # 0
  <2>1. PICK f : Flattened(f, s, n) /\ FlattenSeq(s) = f[n]
    BY <1>1, <1>4, FlattenSeqIs
  <2> DEFINE P == {k \in Nat : k \in 1..n => Holds(f[k], k)}
  <2>2. 0 \in P
    OBVIOUS
  <2>3. ASSUME NEW k \in Nat, k \in P PROVE k + 1 \in P
    <3> DEFINE m == k + 1
    <3>0. k = 0 \/ Holds(f[k], k) \/ m \notin 1..n
      <4> HIDE DEF Holds
      <4>1. QED
        BY <1>1, <2>3
    <3>1. SUFFICES ASSUME m \in 1..n PROVE Holds(f[m], m)
      <4> HIDE DEF Holds
      <4>1. QED
        BY <1>1
    <3>2. s[m] = <<>> \/ \E x \in X : s[m] = <<x>>
      BY <1>1, <3>1
    <3>3. f[m] = IF k = 0 THEN s[m] ELSE f[k] \o s[m]
      <4>1. m - 1 = k /\ (m = 1 <=> k = 0)
        OBVIOUS
      <4>2. f[m] = IF m = 1 THEN s[m] ELSE f[m - 1] \o s[m]
        <5> HIDE DEF m
        <5>1. QED
          BY <2>1, <3>1 DEF Flattened
      <4> HIDE DEF m
      <4>3. QED
        BY <4>1, <4>2
    <3>4. CASE k = 0
      <4>1. m = 1 /\ f[m] = s[1] /\ \A i \in 1..1 : i = 1
        BY <3>3, <3>4
      <4> HIDE DEF m
      <4>2. ASSUME s[1] = <<>> PROVE Holds(<<>>, 1)
        <5>1. \A x : s[1] # <<x>>
          BY <4>2
        <5>2. <<>> \in Seq(X) /\ Len(<<>>) = 0
          OBVIOUS
        <5>3. QED
          BY <4>1, <5>1, <5>2
      <4>3. ASSUME NEW y \in X, s[1] = <<y>> PROVE Holds(<<y>>, 1)
        <5>1. <<y>> \in Seq(X) /\ Len(<<y>>) = 1 /\ <<y>>[1] = y /\ \A x : <<y>> = <<x>> <=> x = y
          OBVIOUS
        <5>2. QED
          BY <4>3, <5>1
      <4> HIDE DEF Holds
      <4>4. QED
        BY <3>2, <4>1, <4>2, <4>3
    <3>5. CASE k # 0
      <4> DEFINE t == f[k]
                 e == s[m]
      <4>1. Holds(t, k)
        BY <3>0, <3>1, <3>5
      <4>2. f[m] = t \o e
        BY <3>3, <3>5
      <4> HIDE DEF t
      <4>3. \A x : (\E i \in 1..(m) : s[i] = <<x>>) <=> (\E i \in 1..k : s[i] = <<x>>) \/ e = <<x>>
        OBVIOUS
      <4> HIDE DEF e
      <4>4. CASE e = <<>>
        <5>1. t \o e = t
          BY <4>1, <4>4
        <5>2. \A x : e # <<x>>
          BY <4>4
        <5>3. QED
          BY <4>1, <4>2, <4>3, <5>1, <5>2
      <4>5. ASSUME NEW y \in X, e = <<y>> PROVE Holds(t \o e, m)
        <5>1. \A x : e = <<x>> <=> x = y
          BY <4>5
        <5>2. t \o <<y>> \in Seq(X) /\ \A x \in X : (\E j \in 1..Len(t \o <<y>>) : (t \o <<y>>)[j] = x)
                                                   <=> (\E j \in 1..Len(t) : t[j] = x) \/ x = y
          BY <1>2, <4>1, <4>5
        <5>3. QED
          BY <4>1, <4>3, <4>5, <5>1, <5>2
      <4>6. QED
        BY <3>2, <4>2, <4>4, <4>5 DEF e
    <3>6. QED
      BY <3>4, <3>5
  <2>4. Holds(f[n], n)
    <3> HIDE DEF Holds
    <3>1. Nat \subseteq P
      <4> HIDE DEF P
      <4>1. QED
        BY <2>2, <2>3, Numbered
    <3>2. n \in P
      BY <1>1, <3>1
    <3>3. QED
      BY <1>1, <1>4, <3>2
  <2> DEFINE F == f[n]
  <2>5. F = FlattenSeq(s) /\ F \in Seq(X) /\ \A x \in X : (\E j \in 1..Len(F) : F[j] = x) <=> \E i \in 1..n : s[i] = <<x>>
    BY <2>1, <2>4
  <2> HIDE DEF F, n
  <2>6. \A x : x \in Range(F) <=> \E j \in 1..Len(F) : F[j] = x
    BY <2>5 DEF Range
  <2>7. QED
    BY <2>5, <2>6 DEF n
<1>5. QED
  BY <1>3, <1>4

\* A telescope is found whose answer arrives, and nothing else is.
LEMMA TelescopesFound ==
    ASSUME NEW datagrams \in Seq(Datagram), NEW found, found = DiscoverSeestars(datagrams)
    PROVE  /\ \A d \in Range(datagrams) :
                 Has(d.body, "result") => \E x \in Range(found) : Some(x) = ParseDiscoveryResponse(d.body, d.src)
           /\ \A x \in Range(found) : \E d \in Range(datagrams) : Some(x) = ParseDiscoveryResponse(d.body, d.src)
<1> DEFINE Answer(d) == IF d.body \in {Probe, Garbage} THEN None ELSE ParseDiscoveryResponse(d.body, d.src)
           s == [i \in DOMAIN datagrams |-> Answer(datagrams[i])]
           X == {Answer(datagrams[i])[1] : i \in DOMAIN datagrams}
<1>1. found = FlattenSeq(s)
  BY DEF DiscoverSeestars
<1>2. \A d : Answer(d) = None \/ Answer(d) = Some(Answer(d)[1])
  BY Kinds DEF ParseDiscoveryResponse
<1>3. \A d : Has(d.body, "result") <=> Answer(d) # None
  <2>1. SUFFICES ASSUME NEW d PROVE Has(d.body, "result") <=> Answer(d) # None
    OBVIOUS
  <2>2. ~Has(Garbage, "result")
    BY Kinds DEF Has, Get, Garbage
  <2>3. ~Has(Probe, "result")
    BY Kinds DEF Has, Get, Probe
  <2>4. ParseDiscoveryResponse(d.body, d.src) # None <=> Has(d.body, "result")
    BY Kinds DEF ParseDiscoveryResponse, Has
  <2>5. QED
    BY <2>2, <2>3, <2>4
<1>4. \A d : Answer(d) # None => Answer(d) = ParseDiscoveryResponse(d.body, d.src)
  OBVIOUS
<1> HIDE DEF Answer
<1>5. datagrams \in Seq(Datagram) /\ DOMAIN datagrams = 1..Len(datagrams) /\ Len(datagrams) \in Nat
  OBVIOUS
<1>6. Len(s) = Len(datagrams) /\ s \in Seq({<<>>} \cup {<<x>> : x \in X})
  <2>1. \A i \in 1..Len(datagrams) : s[i] \in {<<>>} \cup {<<x>> : x \in X}
    BY <1>2, <1>5 DEF Some, None
  <2>2. s = [i \in 1..Len(datagrams) |-> s[i]]
    BY <1>5
  <2> HIDE DEF s, X
  <2>3. QED
    BY <1>5, <2>1, <2>2
<1>7. /\ found \in Seq(X)
      /\ \A x \in X : x \in Range(found) <=> \E i \in 1..Len(s) : s[i] = <<x>>
  <2>1. s \in Seq({<<>>} \cup {<<x>> : x \in X})
    BY <1>6
  <2> HIDE DEF s, X
  <2>2. /\ FlattenSeq(s) \in Seq(X)
        /\ \A x \in X : x \in Range(FlattenSeq(s)) <=> \E i \in 1..Len(s) : s[i] = <<x>>
    BY <2>1, FlattenedOptions
  <2>3. QED
    BY <1>1, <2>2
<1>8. \A x \in Range(found) : x \in X
  <2> HIDE DEF X
  <2>1. QED
    BY <1>7 DEF Range
<1>9. \A x \in X : x \in Range(found) <=> \E i \in 1..Len(datagrams) : Answer(datagrams[i]) = Some(x)
  <2>1. \A i \in 1..Len(datagrams) : s[i] = Answer(datagrams[i])
    BY <1>5
  <2> HIDE DEF s, X
  <2>2. QED
    BY <1>6, <1>7, <2>1 DEF Some
<1>10. \A d : d \in Range(datagrams) <=> \E i \in 1..Len(datagrams) : datagrams[i] = d
  BY <1>5 DEF Range
<1>11. ASSUME NEW d \in Range(datagrams), Has(d.body, "result")
       PROVE  \E x \in Range(found) : Some(x) = ParseDiscoveryResponse(d.body, d.src)
  <2>1. PICK i \in 1..Len(datagrams) : datagrams[i] = d
    BY <1>10, <1>11
  <2> DEFINE x == Answer(d)[1]
  <2>2. x \in X /\ Answer(d) = Some(x) /\ Answer(d) = ParseDiscoveryResponse(d.body, d.src)
    BY <1>2, <1>3, <1>4, <1>5, <1>11, <2>1
  <2> HIDE DEF x, X
  <2>3. QED
    BY <1>9, <2>1, <2>2
<1>12. ASSUME NEW x \in Range(found)
       PROVE  \E d \in Range(datagrams) : Some(x) = ParseDiscoveryResponse(d.body, d.src)
  <2>1. PICK i \in 1..Len(datagrams) : Answer(datagrams[i]) = Some(x)
    BY <1>8, <1>9, <1>12
  <2>2. Answer(datagrams[i]) = ParseDiscoveryResponse(datagrams[i].body, datagrams[i].src)
    BY <1>4, <2>1, Kinds
  <2>3. QED
    BY <1>10, <2>1, <2>2
<1>13. QED
  BY <1>11, <1>12

-----------------------------------------------------------------------------
(* Discovery: Alpaca servers                                               *)

Nothing == [seen |-> {}, servers |-> <<>>]

\* DiscoverServers' function of the first datagrams.
After(f, ds, n) == f = [k \in 0..n |-> IF k = 0 THEN Nothing ELSE FoundServer(f[k - 1], ds[k])]

\* The same for the recursive function of the loop over the servers' datagrams.
LEMMA AfterExists ==
    ASSUME NEW ds
    PROVE  \A n \in Nat : \E f : After(f, ds, n)
<1> DEFINE P == {n \in Nat : \E f : After(f, ds, n)}
<1>1. 0 \in P
  <2> DEFINE f == [k \in 0..0 |-> Nothing]
  <2>1. After(f, ds, 0)
    BY DEF After
  <2>2. QED
    BY <2>1
<1>2. ASSUME NEW n \in Nat, NEW f, After(f, ds, n) PROVE \E g : After(g, ds, n + 1)
  <2> DEFINE g == [k \in 0..(n + 1) |-> IF k = n + 1 THEN FoundServer(f[n], ds[k]) ELSE f[k]]
  <2>1. (\A k \in 0..n : g[k] = f[k]) /\ g[n + 1] = FoundServer(f[n], ds[n + 1])
    OBVIOUS
  <2>2. ASSUME NEW k \in 0..(n + 1) PROVE g[k] = IF k = 0 THEN Nothing ELSE FoundServer(g[k - 1], ds[k])
    <3> HIDE DEF g
    <3>1. CASE k = n + 1
      <4>1. k # 0 /\ k - 1 = n /\ n \in 0..n
        BY <3>1
      <4>2. QED
        BY <2>1, <3>1, <4>1
    <3>2. CASE k \in 0..n
      <4>1. k - 1 \in 0..n \/ k = 0
        BY <3>2
      <4>2. f[k] = IF k = 0 THEN Nothing ELSE FoundServer(f[k - 1], ds[k])
        BY <1>2, <3>2 DEF After
      <4>3. QED
        BY <2>1, <3>2, <4>1, <4>2
    <3>3. QED
      BY <3>1, <3>2
  <2>3. After(g, ds, n + 1)
    BY <2>2 DEF After
  <2>4. QED
    BY <2>3
<1>3. \A n \in Nat : n \in P => n + 1 \in P
  BY <1>2
<1>4. Nat \subseteq P
  <2> HIDE DEF P
  <2>1. QED
    BY <1>1, <1>3, Numbered
<1>5. QED
  BY <1>4

LEMMA DiscoverServersIs ==
    ASSUME NEW ds, Len(ds) \in Nat
    PROVE  \E f : After(f, ds, Len(ds)) /\ DiscoverServers(ds) = f[Len(ds)].servers
<1> DEFINE F == CHOOSE f : f = [k \in 0..Len(ds) |-> IF k = 0 THEN [seen |-> {}, servers |-> <<>>]
                                                    ELSE FoundServer(f[k - 1], ds[k])]
<1>1. \E f : f = [k \in 0..Len(ds) |-> IF k = 0 THEN [seen |-> {}, servers |-> <<>>]
                                       ELSE FoundServer(f[k - 1], ds[k])]
  BY AfterExists DEF After, Nothing
<1>2. F = [k \in 0..Len(ds) |-> IF k = 0 THEN [seen |-> {}, servers |-> <<>>] ELSE FoundServer(F[k - 1], ds[k])]
  BY <1>1, Zenon
<1>3. DiscoverServers(ds) = F[Len(ds)].servers
  BY Zenon DEF DiscoverServers
<1> HIDE DEF F
<1>4. QED
  BY <1>2, <1>3 DEF After, Nothing

\* The datagrams, of the first k, that name a server; and what is listed of one.
Naming(ds, k) == {i \in 1..k : AlpacaPort(ds[i].body) # None /\ ds[i].src # V6}
ServerOf(d) == [address |-> d.src, port |-> AlpacaPort(d.body)[1], devices |-> GetConfiguredDevices(d.management)[1]]
Good(d) == GetConfiguredDevices(d.management) # None

\* After k datagrams each server that was named has been queried once, at its first.
Queried(st, ds, k) ==
    /\ st.seen = {ds[i].src : i \in Naming(ds, k)}
    /\ st.servers \in Seq({ServerOf(ds[i]) : i \in DOMAIN ds})
    /\ \A j \in 1..Len(st.servers) : \E i \in Naming(ds, k) : st.servers[j] = ServerOf(ds[i]) /\ Good(ds[i])
    /\ \A i, j \in 1..Len(st.servers) : st.servers[i].address = st.servers[j].address => i = j
    /\ \A src \in st.seen : \/ \E j \in 1..Len(st.servers) : st.servers[j].address = src
                            \/ \E i \in Naming(ds, k) : ds[i].src = src /\ ~Good(ds[i])

\* Each datagram keeps the invariant of the loop, so that it holds of them all.
LEMMA QueriedStep ==
    ASSUME NEW ds \in Seq(Datagram), NEW k \in Nat, k + 1 \in 1..Len(ds), NEW st, Queried(st, ds, k)
    PROVE  Queried(FoundServer(st, ds[k + 1]), ds, k + 1)
<1> DEFINE d == ds[k + 1]
           next == FoundServer(st, d)
           S == {ServerOf(ds[i]) : i \in DOMAIN ds}
<1>1. Naming(ds, k + 1) = Naming(ds, k) \cup (IF AlpacaPort(d.body) # None /\ d.src # V6 THEN {k + 1} ELSE {})
  BY DEF Naming
<1>2. ServerOf(d) \in S /\ ServerOf(d).address = d.src
  BY DEF ServerOf
<1>3. CASE AlpacaPort(d.body) = None \/ d.src = V6
  <2>1. next = st /\ Naming(ds, k + 1) = Naming(ds, k)
    BY <1>1, <1>3 DEF FoundServer
  <2>2. QED
    BY <2>1 DEF Queried
<1>4. CASE AlpacaPort(d.body) # None /\ d.src # V6 /\ d.src \in st.seen
  <2>1. next = st /\ Naming(ds, k + 1) = Naming(ds, k) \cup {k + 1}
    BY <1>1, <1>4 DEF FoundServer
  <2> HIDE DEF next
  <2>2. st.seen = {ds[i].src : i \in Naming(ds, k + 1)}
    BY <1>4, <2>1 DEF Queried
  <2>3. Queried(st, ds, k + 1)
    BY <2>1, <2>2 DEF Queried
  <2>4. QED
    BY <2>1, <2>3 DEF next
<1>5. CASE AlpacaPort(d.body) # None /\ d.src # V6 /\ d.src \notin st.seen
  <2>1. /\ next.seen = st.seen \cup {d.src}
        /\ next.servers = IF Good(d) THEN Append(st.servers, ServerOf(d)) ELSE st.servers
    BY <1>5 DEF FoundServer, Good, ServerOf
  <2>2. Naming(ds, k + 1) = Naming(ds, k) \cup {k + 1}
    BY <1>1, <1>5
  <2>3. \A j \in 1..Len(st.servers) : st.servers[j].address # d.src
    <3>1. ASSUME NEW j \in 1..Len(st.servers) PROVE st.servers[j].address \in st.seen
      <4>1. PICK i \in Naming(ds, k) : st.servers[j] = ServerOf(ds[i])
        BY <3>1 DEF Queried
      <4>2. st.servers[j].address = ds[i].src
        BY <4>1 DEF ServerOf
      <4>3. ds[i].src \in st.seen
        BY DEF Queried
      <4>4. QED
        BY <4>2, <4>3
    <3>2. QED
      BY <1>5, <3>1
  <2> HIDE DEF next, d, S
  <2>4. next.seen = {ds[i].src : i \in Naming(ds, k + 1)}
    BY <2>1, <2>2 DEF Queried, d
  <2>5. CASE ~Good(d)
    BY <2>1, <2>2, <2>4, <2>5 DEF Queried, d, next
  <2>6. CASE Good(d)
    <3> DEFINE s == st.servers
               t == Append(s, ServerOf(d))
    <3>1. /\ s \in Seq(S) /\ Len(s) \in Nat /\ t \in Seq(S) /\ Len(t) = Len(s) + 1 /\ t[Len(s) + 1] = ServerOf(d)
          /\ \A j \in 1..Len(s) : t[j] = s[j]
      BY <1>2 DEF Queried, S
    <3>2. next.servers = t
      BY <2>1, <2>6
    <3> HIDE DEF t
    <3>7. 1..Len(t) = 1..Len(s) \cup {Len(s) + 1} /\ Len(s) + 1 \notin 1..Len(s)
      BY <3>1
    <3>8. k + 1 \in Naming(ds, k + 1) /\ Naming(ds, k) \subseteq Naming(ds, k + 1) /\ d = ds[k + 1]
      BY <2>2 DEF d
    <3>9. \A j \in 1..Len(s) : s[j].address # d.src /\ t[j].address = s[j].address
      BY <2>3, <3>1
    <3>10. t[Len(s) + 1].address = d.src
      BY <1>2, <3>1
    <3> HIDE DEF s
    <3>3. \A j \in 1..Len(t) : \E i \in Naming(ds, k + 1) : t[j] = ServerOf(ds[i]) /\ Good(ds[i])
      <4>2. ASSUME NEW j \in 1..Len(s) PROVE \E i \in Naming(ds, k + 1) : t[j] = ServerOf(ds[i]) /\ Good(ds[i])
        <5>1. PICK i \in Naming(ds, k) : s[j] = ServerOf(ds[i]) /\ Good(ds[i])
          BY <4>2 DEF Queried, s
        <5>2. QED
          BY <3>1, <3>8, <5>1
      <4>3. t[Len(s) + 1] = ServerOf(ds[k + 1]) /\ Good(ds[k + 1])
        BY <2>6, <3>1, <3>8
      <4>4. QED
        BY <3>7, <3>8, <4>2, <4>3
    <3>4. \A i, j \in 1..Len(t) : t[i].address = t[j].address => i = j
      <4>1. \A i, j \in 1..Len(s) : s[i].address = s[j].address => i = j
        BY DEF Queried, s
      <4>2. QED
        BY <3>7, <3>9, <3>10, <4>1
    <3>5. \A src \in next.seen : \/ \E j \in 1..Len(t) : t[j].address = src
                                 \/ \E i \in Naming(ds, k + 1) : ds[i].src = src /\ ~Good(ds[i])
      <4>1. ASSUME NEW src \in st.seen
            PROVE  \/ \E j \in 1..Len(t) : t[j].address = src
                   \/ \E i \in Naming(ds, k + 1) : ds[i].src = src /\ ~Good(ds[i])
        <5>1. \/ \E j \in 1..Len(s) : s[j].address = src
              \/ \E i \in Naming(ds, k) : ds[i].src = src /\ ~Good(ds[i])
          BY <4>1 DEF Queried, s
        <5>2. QED
          BY <3>7, <3>8, <3>9, <5>1
      <4>2. Len(s) + 1 \in 1..Len(t)
        BY <3>7
      <4>3. QED
        BY <2>1, <3>10, <4>1, <4>2
    <3>6. QED
      BY <2>4, <3>1, <3>2, <3>3, <3>4, <3>5 DEF Queried, S, next, d, s
  <2>7. QED
    BY <2>5, <2>6
<1>6. QED
  BY <1>3, <1>4, <1>5

LEMMA AllQueried ==
    ASSUME NEW ds \in Seq(Datagram), NEW f, After(f, ds, Len(ds))
    PROVE  Queried(f[Len(ds)], ds, Len(ds))
<1> DEFINE P == {k \in Nat : k <= Len(ds) => Queried(f[k], ds, k)}
<1>1. 0 \in P
  <2>1. f[0] = Nothing
    BY DEF After
  <2>2. Naming(ds, 0) = {}
    BY DEF Naming
  <2>3. Nothing.seen = {} /\ Nothing.servers = <<>> /\ Len(<<>>) = 0
    BY DEF Nothing
  <2>4. Queried(Nothing, ds, 0)
    BY <2>2, <2>3 DEF Queried
  <2>5. QED
    BY <2>1, <2>4
<1>2. ASSUME NEW k \in Nat, k \in P PROVE k + 1 \in P
  <2>1. SUFFICES ASSUME k + 1 <= Len(ds) PROVE Queried(f[k + 1], ds, k + 1)
    OBVIOUS
  <2>2. Queried(f[k], ds, k) /\ k + 1 \in 1..Len(ds)
    BY <1>2, <2>1
  <2>3. f[k + 1] = FoundServer(f[k], ds[k + 1])
    <3>1. k + 1 \in 0..Len(ds) /\ k + 1 # 0 /\ (k + 1) - 1 = k
      BY <2>2
    <3>2. QED
      BY <3>1 DEF After
  <2>4. QED
    BY <2>2, <2>3, QueriedStep
<1>3. Nat \subseteq P
  <2> HIDE DEF P
  <2>1. QED
    BY <1>1, <1>2, Numbered
<1>4. QED
  BY <1>3

\* The address and the devices of a listed server, and when a source is sure to be listed.
LEMMA ServersListed ==
    ASSUME NEW ds \in Seq(Datagram), NEW servers, servers = DiscoverServers(ds)
    PROVE  LET From(src) == {d \in Range(ds) : d.src = src /\ AlpacaPort(d.body) # None} IN
           /\ \A i, j \in DOMAIN servers : servers[i].address = servers[j].address => i = j
           /\ \A s \in Range(servers) :
                 \E d \in From(s.address) : GetConfiguredDevices(d.management) = Some(s.devices)
           /\ \A src \in {d.src : d \in Range(ds)} \ {V6} :
                 /\ From(src) # {}
                 /\ \A d \in From(src) : GetConfiguredDevices(d.management) # None
                 => \E s \in Range(servers) : s.address = src
<1> DEFINE From(src) == {d \in Range(ds) : d.src = src /\ AlpacaPort(d.body) # None}
<1>1. PICK f : After(f, ds, Len(ds)) /\ servers = f[Len(ds)].servers
  BY DiscoverServersIs
<1>2. Queried(f[Len(ds)], ds, Len(ds))
  BY <1>1, AllQueried
<1>3. DOMAIN servers = 1..Len(servers) /\ Len(servers) \in Nat /\ Range(servers) = {servers[j] : j \in 1..Len(servers)}
  BY <1>1, <1>2 DEF Queried, Range
<1>4. \A i \in Naming(ds, Len(ds)) : ds[i] \in From(ds[i].src) /\ ServerOf(ds[i]).address = ds[i].src
  BY DEF Naming, ServerOf, Range
<1>5. \A d \in Range(ds) : d.src # V6 /\ AlpacaPort(d.body) # None => d.src \in f[Len(ds)].seen
  <2>1. SUFFICES ASSUME NEW d \in Range(ds), d.src # V6, AlpacaPort(d.body) # None
                 PROVE  d.src \in f[Len(ds)].seen
    OBVIOUS
  <2>2. PICK i \in 1..Len(ds) : ds[i] = d
    BY DEF Range
  <2>3. i \in Naming(ds, Len(ds))
    BY <2>1, <2>2 DEF Naming
  <2>4. f[Len(ds)].seen = {ds[j].src : j \in Naming(ds, Len(ds))}
    BY <1>2 DEF Queried
  <2>5. QED
    BY <2>2, <2>3, <2>4
<1>6. \A i, j \in DOMAIN servers : servers[i].address = servers[j].address => i = j
  BY <1>1, <1>2, <1>3 DEF Queried
<1>7. ASSUME NEW s \in Range(servers)
      PROVE  \E d \in From(s.address) : GetConfiguredDevices(d.management) = Some(s.devices)
  <2>1. PICK i \in Naming(ds, Len(ds)) : s = ServerOf(ds[i]) /\ Good(ds[i])
    BY <1>1, <1>2, <1>3, <1>7 DEF Queried
  <2>2. GetConfiguredDevices(ds[i].management) = Some(s.devices)
    <3>1. s.devices = GetConfiguredDevices(ds[i].management)[1]
      BY <2>1 DEF ServerOf
    <3>2. GetConfiguredDevices(ds[i].management) = Some(Get(ds[i].management, "Value")[1][2])
      BY <2>1 DEF Good, GetConfiguredDevices
    <3>3. QED
      BY <3>1, <3>2 DEF Some
  <2>3. ds[i] \in From(s.address)
    BY <1>4, <2>1
  <2>4. QED
    BY <2>2, <2>3
<1>8. ASSUME NEW src \in {d.src : d \in Range(ds)} \ {V6}, From(src) # {},
             \A d \in From(src) : GetConfiguredDevices(d.management) # None
      PROVE  \E s \in Range(servers) : s.address = src
  <2>1. src \in f[Len(ds)].seen
    BY <1>5, <1>8
  <2>2. ASSUME NEW i \in Naming(ds, Len(ds)), ds[i].src = src PROVE Good(ds[i])
    BY <1>4, <1>8, <2>2 DEF Good
  <2>3. \E j \in 1..Len(servers) : servers[j].address = src
    BY <1>1, <1>2, <2>1, <2>2 DEF Queried
  <2>4. QED
    BY <1>3, <2>3
<1>9. QED
  BY <1>6, <1>7, <1>8

\* Every answer of a telescope is found and nothing else; a server is listed once, with
\* devices it reported, and surely if all of its datagrams are followed by good answers.
THEOREM DiscoveryHolds == Spec => []DiscoveryComplete
<1>1. Inputs => DiscoveryComplete
  <2>1. SUFFICES ASSUME Inputs, topic = "datagrams" PROVE DiscoveryComplete
    BY DEF DiscoveryComplete
  <2>2. subject \in Seq(Datagram)
    BY <2>1, LinesAssumption DEF Inputs
  <2>3. QED
    BY <2>2, TelescopesFound, ServersListed DEF DiscoveryComplete
<1>2. QED
  BY <1>1, Picked, PTL

-----------------------------------------------------------------------------
(* INDI: the places of the tokens                                          *)

\* The tokens at each place of two texts, one after the other.
Join(u, s, t) ==
    /\ Len(u) = Len(s) + Len(t) /\ Len(s) \in Nat /\ Len(t) \in Nat
    /\ \A i \in 1..Len(s) : u[i] = s[i]
    /\ \A i \in 1..Len(t) : u[Len(s) + i] = t[i]

\* A concatenation has the tokens of its parts at their places.
LEMMA Joined == \A S : \A s, t \in Seq(S) : s \o t \in Seq(S) /\ Join(s \o t, s, t)
BY DEF Join

\* Twelve tokens for each value, so that each value has its place.
Blocks(u, s, k) == \A i \in 1..k : \A j \in 1..12 : u[12 * (i - 1) + j] = s[i][j]

BlockEnds(w, u, b, k) ==
    /\ Len(w) = 12 * k + 12
    /\ \A i \in 1..(12 * k) : w[i] = u[i]
    /\ \A i \in 1..12 : w[12 * k + i] = b[i]

\* One more block of twelve tokens, and all of them.
LEMMA BlockAdded ==
    ASSUME NEW S, NEW k \in Nat, NEW u \in Seq(S), Len(u) = 12 * k, NEW b \in Seq(S), Len(b) = 12, NEW w, w = u \o b
    PROVE  w \in Seq(S) /\ BlockEnds(w, u, b, k)
<1>1. w \in Seq(S) /\ Join(w, u, b)
  BY Joined
<1>2. Len(w) = 12 * k + 12
  BY <1>1 DEF Join
<1>3. \A i \in 1..(12 * k) : w[i] = u[i]
  BY <1>1 DEF Join
<1>4. \A i \in 1..12 : w[12 * k + i] = b[i]
  BY <1>1 DEF Join
<1>5. QED
  BY <1>1, <1>2, <1>3, <1>4 DEF BlockEnds

LEMMA FlattenedBlocks ==
    ASSUME NEW S, NEW n \in Nat, NEW s \in Seq(Seq(S)), Len(s) = n, \A i \in 1..n : Len(s[i]) = 12,
           NEW t, t = FlattenSeq(s)
    PROVE  t \in Seq(S) /\ Len(t) = 12 * n /\ Blocks(t, s, n)
<1> DEFINE Holds(u, k) == u \in Seq(S) /\ Len(u) = 12 * k /\ Blocks(u, s, k)
<1>1. CASE n = 0
  <2>1. t = s /\ s = <<>>
    BY <1>1 DEF FlattenSeq
  <2>2. QED
    BY <1>1, <2>1 DEF Blocks
<1>2. CASE n # 0
  <2>1. PICK f : Flattened(f, s, n) /\ t = f[n]
    BY <1>2, FlattenSeqIs
  <2> DEFINE P == {k \in Nat : k \in 1..n => Holds(f[k], k)}
  <2>2. 0 \in P
    OBVIOUS
  <2>3. ASSUME NEW k \in Nat, k \in P PROVE k + 1 \in P
    <3>1. SUFFICES ASSUME k + 1 \in 1..n PROVE Holds(f[k + 1], k + 1)
      OBVIOUS
    <3>2. s[k + 1] \in Seq(S) /\ Len(s[k + 1]) = 12
      BY <3>1
    <3>3. CASE k = 0
      <4>1. f[1] = s[1]
        BY <2>1, <3>1, <3>3 DEF Flattened
      <4>2. QED
        BY <3>2, <3>3, <4>1 DEF Blocks
    <3>4. CASE k # 0
      <4> DEFINE u == f[k]
                 w == f[k + 1]
                 b == s[k + 1]
      <4>1. w = u \o b
        <5>1. k + 1 # 1 /\ (k + 1) - 1 = k
          BY <3>4
        <5>2. QED
          BY <2>1, <3>1, <5>1 DEF Flattened
      <4>2. u \in Seq(S) /\ Len(u) = 12 * k /\ Blocks(u, s, k)
        BY <2>3, <3>1, <3>4
      <4> HIDE DEF u, w, b
      <4>3. b \in Seq(S) /\ Len(b) = 12
        BY <3>2 DEF b
      <4>4. w \in Seq(S) /\ BlockEnds(w, u, b, k)
        BY <4>1, <4>2, <4>3, BlockAdded
      <4>5. ASSUME NEW i \in 1..(k + 1), NEW j \in 1..12 PROVE w[12 * (i - 1) + j] = s[i][j]
        <5>1. CASE i = k + 1
          <6>1. i - 1 = k /\ b = s[i]
            BY <5>1 DEF b
          <6>2. QED
            BY <4>4, <6>1 DEF BlockEnds
        <5>2. CASE i \in 1..k
          <6>1. 12 * (i - 1) + j \in 1..(12 * k)
            BY <5>2
          <6>2. u[12 * (i - 1) + j] = s[i][j]
            BY <4>2, <5>2 DEF Blocks
          <6>3. QED
            BY <4>4, <6>1, <6>2 DEF BlockEnds
        <5>3. QED
          BY <5>1, <5>2
      <4>6. w \in Seq(S) /\ Len(w) = 12 * (k + 1) /\ Blocks(w, s, k + 1)
        BY <4>4, <4>5 DEF Blocks, BlockEnds
      <4>7. QED
        BY <4>6 DEF w
    <3>5. QED
      BY <3>3, <3>4
  <2>4. Nat \subseteq P
    <3> HIDE DEF P
    <3>1. QED
      BY <2>2, <2>3, Numbered
  <2>5. Holds(f[n], n)
    BY <1>2, <2>4
  <2>6. QED
    BY <2>1, <2>5
<1>3. QED
  BY <1>1, <1>2

\* Tuples of tokens.
LEMMA Tuples ==
    /\ \A S : \A a \in S : <<a>> \in Seq(S) /\ Len(<<a>>) = 1
    /\ \A S : \A a, b \in S : <<a, b>> \in Seq(S) /\ Len(<<a, b>>) = 2
    /\ \A S : \A a, b, c \in S : <<a, b, c>> \in Seq(S) /\ Len(<<a, b, c>>) = 3
    /\ \A S : \A a, b, c, d, e \in S : <<a, b, c, d, e>> \in Seq(S) /\ Len(<<a, b, c, d, e>>) = 5
OBVIOUS

\* The tokens that a command's own words are put between.
VectorKinds == {"Number", "Switch", "Text"}
Markup ==
    {" ", "=\"", "\"", ">", ">\n", "/>\n", "device", "name", "<new", "Vector", "<one", "</one", "</new", "Vector>\n",
     "<getProperties version=\"1.7\"", "<enableBLOB", "</enableBLOB>\n"} \cup VectorKinds

\* An attribute's five tokens, with its name and its value.
Shown(t, S, name, x) == t \in Seq(S) /\ Len(t) = 5 /\ t[2] = name /\ t[4] = x

\* The five tokens of an attribute, with the name second and the value fourth.
LEMMA FiveTokens ==
    ASSUME NEW S, " " \in S, "=\"" \in S, "\"" \in S, NEW name \in S, NEW x \in S
    PROVE  Shown(<<" ", name, "=\"", x, "\"">>, S, name, x)
<1> DEFINE t == <<" ", name, "=\"", x, "\"">>
<1>1. t \in Seq(S) /\ Len(t) = 5
  BY Tuples
<1>2. t[2] = name /\ t[4] = x
  OBVIOUS
<1> HIDE DEF t
<1>3. Shown(t, S, name, x)
  BY <1>1, <1>2 DEF Shown
<1>4. QED
  BY <1>3 DEF t

\* An attribute that is there, and one that is left out.
LEMMA AttributeShape ==
    /\ \A name : I!Attribute(name, <<>>) = <<>>
    /\ \A name, x : I!Attribute(name, <<x>>) = <<" ", name, "=\"", x, "\"">>
<1>1. \A x : <<x>> # <<>> /\ <<x>>[1] = x
  OBVIOUS
<1>2. QED
  BY <1>1 DEF I!Attribute

\* The same of the attribute as the serializer writes it.
LEMMA AttributeIs ==
    ASSUME NEW S, Markup \subseteq S
    PROVE  \A name, x \in S : Shown(I!Attribute(name, <<x>>), S, name, x)
<1>1. " " \in S /\ "=\"" \in S /\ "\"" \in S
  BY DEF Markup
<1>2. QED
  BY <1>1, FiveTokens, AttributeShape

-----------------------------------------------------------------------------
(* INDI: texts in parts                                                    *)

At(t, i, x) == i \in 1..Len(t) /\ t[i] = x
Wide(t, S, n) == t \in Seq(S) /\ Len(t) = n
Within(t, s, k) == \A i \in Nat : \A x : At(s, i, x) => At(t, k + i, x)

\* Places add up, through parts of parts and along two and four parts.
LEMMA WithinTwice ==
    ASSUME NEW k \in Nat, NEW m \in Nat, NEW t, NEW s, NEW r, Within(t, s, k), Within(s, r, m)
    PROVE  Within(t, r, k + m)
<1>1. ASSUME NEW i \in Nat, NEW x, At(r, i, x) PROVE At(t, (k + m) + i, x)
  <2>1. At(s, m + i, x)
    BY <1>1 DEF Within
  <2>2. At(t, k + (m + i), x)
    BY <2>1 DEF Within
  <2>3. k + (m + i) = (k + m) + i
    OBVIOUS
  <2>4. QED
    BY <2>2, <2>3
<1>2. QED
  BY <1>1 DEF Within

LEMMA TwoParts ==
    ASSUME NEW S, NEW i \in Nat, NEW j \in Nat, NEW a, Wide(a, S, i), NEW b, Wide(b, S, j)
    PROVE  Wide(a \o b, S, i + j) /\ Within(a \o b, a, 0) /\ Within(a \o b, b, i)
<1> DEFINE t == a \o b
<1>1. a \in Seq(S) /\ b \in Seq(S) /\ Len(a) = i /\ Len(b) = j
  BY DEF Wide
<1>2. t \in Seq(S) /\ Join(t, a, b)
  BY <1>1, Joined
<1> HIDE DEF t
<1>3. Len(t) = i + j
  BY <1>1, <1>2 DEF Join
<1>4. Within(t, a, 0)
  <2>1. ASSUME NEW n \in Nat, NEW x, At(a, n, x) PROVE At(t, 0 + n, x)
    BY <1>1, <1>2, <1>3, <2>1 DEF Join, At
  <2>2. QED
    BY <2>1 DEF Within
<1>5. Within(t, b, i)
  <2>1. ASSUME NEW n \in Nat, NEW x, At(b, n, x) PROVE At(t, i + n, x)
    BY <1>1, <1>2, <1>3, <2>1 DEF Join, At
  <2>2. QED
    BY <2>1 DEF Within
<1>6. Wide(t, S, i + j) /\ Within(t, a, 0) /\ Within(t, b, i)
  BY <1>2, <1>3, <1>4, <1>5 DEF Wide
<1>7. QED
  BY <1>6 DEF t

\* Where the parts of a text begin, and what it is all together.
Parts(t, S, a, b, c, d, j, k, l, n) ==
    Wide(t, S, n) /\ Within(t, a, 0) /\ Within(t, b, j) /\ Within(t, c, k) /\ Within(t, d, l)

LEMMA FourParts ==
    ASSUME NEW S, NEW j \in Nat, NEW k \in Nat, NEW l \in Nat, NEW n \in Nat,
           NEW b, NEW wb \in Nat, Wide(b, S, wb), NEW c, NEW wc \in Nat, Wide(c, S, wc),
           NEW a, Wide(a, S, j), NEW d, NEW wd \in Nat, Wide(d, S, wd),
           k = j + wb, l = k + wc, n = l + wd
    PROVE  Parts(a \o b \o c \o d, S, a, b, c, d, j, k, l, n)
<1> DEFINE u == a \o b
           v == u \o c
           t == v \o d
<1>1. Wide(u, S, k) /\ Within(u, a, 0) /\ Within(u, b, j)
  <2>1. Wide(a \o b, S, j + wb) /\ Within(a \o b, a, 0) /\ Within(a \o b, b, j)
    BY TwoParts
  <2>2. QED
    BY <2>1
<1> HIDE DEF u
<1>2. Wide(v, S, l) /\ Within(v, u, 0) /\ Within(v, c, k)
  <2>1. Wide(u \o c, S, k + wc) /\ Within(u \o c, u, 0) /\ Within(u \o c, c, k)
    BY <1>1, TwoParts
  <2>2. QED
    BY <2>1
<1> HIDE DEF v
<1>3. Wide(t, S, n) /\ Within(t, v, 0) /\ Within(t, d, l)
  <2>1. Wide(v \o d, S, l + wd) /\ Within(v \o d, v, 0) /\ Within(v \o d, d, l)
    BY <1>2, TwoParts
  <2>2. QED
    BY <2>1
<1> HIDE DEF t
<1>4. \A x, y, z : \A m \in Nat : Within(x, y, 0) /\ Within(y, z, m) => Within(x, z, m)
  <2>1. ASSUME NEW x, NEW y, NEW z, NEW m \in Nat, Within(x, y, 0), Within(y, z, m) PROVE Within(x, z, m)
    <3>1. Within(x, z, 0 + m)
      BY <2>1, WithinTwice
    <3>2. QED
      BY <3>1
  <2>2. QED
    BY <2>1
<1>5. Within(t, u, 0) /\ Within(t, c, k)
  BY <1>2, <1>3, <1>4
<1>6. Within(t, a, 0) /\ Within(t, b, j)
  BY <1>1, <1>4, <1>5
<1>7. Parts(t, S, a, b, c, d, j, k, l, n)
  BY <1>3, <1>5, <1>6 DEF Parts
<1>8. QED
  BY <1>7 DEF t, v, u

\* How wide attributes and pieces of markup are, and where they have their words.
LEMMA Attributes ==
    ASSUME NEW S, Markup \subseteq S
    PROVE  /\ \A name : Wide(I!Attribute(name, <<>>), S, 0)
           /\ \A name, x \in S : LET a == I!Attribute(name, <<x>>) IN Wide(a, S, 5) /\ At(a, 2, name) /\ At(a, 4, x)
<1>1. <<>> \in Seq(S) /\ Len(<<>>) = 0
  OBVIOUS
<1>2. \A name : Wide(I!Attribute(name, <<>>), S, 0)
  BY <1>1, AttributeShape DEF Wide
<1>3. ASSUME NEW name \in S, NEW x \in S
      PROVE  LET a == I!Attribute(name, <<x>>) IN Wide(a, S, 5) /\ At(a, 2, name) /\ At(a, 4, x)
  <2> DEFINE a == I!Attribute(name, <<x>>)
  <2>1. Shown(a, S, name, x)
    BY AttributeIs
  <2> HIDE DEF a
  <2>2. Wide(a, S, 5) /\ At(a, 2, name) /\ At(a, 4, x)
    BY <2>1 DEF Shown, Wide, At
  <2>3. QED
    BY <2>2 DEF a
<1>4. QED
  BY <1>2, <1>3

LEMMA Pieces ==
    ASSUME NEW S
    PROVE  /\ \A a \in S : Wide(<<a>>, S, 1) /\ At(<<a>>, 1, a)
           /\ \A a, b \in S : Wide(<<a, b>>, S, 2) /\ At(<<a, b>>, 1, a) /\ At(<<a, b>>, 2, b)
           /\ \A a, b, c \in S : Wide(<<a, b, c>>, S, 3) /\ At(<<a, b, c>>, 1, a) /\ At(<<a, b, c>>, 2, b)
           /\ \A a, b, c, d, e \in S : Wide(<<a, b, c, d, e>>, S, 5) /\ At(<<a, b, c, d, e>>, 2, b)
BY DEF Wide, At

-----------------------------------------------------------------------------
(* INDI: the texts of the three kinds of commands                          *)

\* An attribute of a name that may be left out.
Attr(b, S, name, o) ==
    /\ o = <<>> => Wide(b, S, 0)
    /\ \A x \in S : o = <<x>> => Wide(b, S, 5) /\ At(b, 2, name) /\ At(b, 4, x)

Asks == "<getProperties version=\"1.7\""
Enables == "<enableBLOB"

AsksText(t, S, o, p) ==
    /\ o = <<>> /\ p = <<>> => Wide(t, S, 2) /\ At(t, 1, Asks)
    /\ \A x \in S : o = <<x>> /\ p = <<>> => Wide(t, S, 7) /\ At(t, 1, Asks) /\ At(t, 3, "device") /\ At(t, 5, x)
    /\ \A y \in S : o = <<>> /\ p = <<y>> => Wide(t, S, 7) /\ At(t, 1, Asks) /\ At(t, 3, "name") /\ At(t, 5, y)
    /\ \A x, y \in S : o = <<x>> /\ p = <<y>> => Wide(t, S, 12) /\ At(t, 1, Asks) /\ At(t, 5, x) /\ At(t, 10, y)

\* Where the words are in the text of each command, from the widths of its parts ...
LEMMA PropertiesText ==
    ASSUME NEW S, NEW a, Wide(a, S, 1), At(a, 1, Asks), NEW d, Wide(d, S, 1),
           NEW o, NEW b, Attr(b, S, "device", o), NEW p, NEW c, Attr(c, S, "name", p),
           NEW t, t = a \o b \o c \o d
    PROVE  AsksText(t, S, o, p)
<1> DEFINE head == Asks
<1> HIDE DEF head
<1>0. At(a, 1, head)
  BY DEF head
<1>1. ASSUME NEW k \in Nat, NEW wb \in Nat, NEW wc \in Nat, NEW l \in Nat, NEW n \in Nat, Wide(b, S, wb), Wide(c, S, wc),
             k = 1 + wb, l = k + wc, n = l + 1
      PROVE  Parts(t, S, a, b, c, d, 1, k, l, n) /\ At(t, 1, head)
  <2> DEFINE j == 1
  <2>1. j \in Nat /\ Wide(a, S, j) /\ Wide(d, S, j) /\ k = j + wb /\ n = l + j
    BY <1>1
  <2> HIDE DEF j
  <2>2. Parts(t, S, a, b, c, d, j, k, l, n)
    BY <1>1, <2>1, FourParts
  <2>3. Parts(t, S, a, b, c, d, 1, k, l, n)
    BY <2>2 DEF j
  <2>4. At(t, 0 + 1, head)
    BY <1>0, <2>3 DEF Parts, Within
  <2>5. QED
    BY <2>3, <2>4
<1>2. ASSUME o = <<>>, p = <<>> PROVE Wide(t, S, 2) /\ At(t, 1, head)
  <2>1. Wide(b, S, 0) /\ Wide(c, S, 0)
    BY <1>2 DEF Attr
  <2>2. Parts(t, S, a, b, c, d, 1, 1, 1, 2) /\ At(t, 1, head)
    BY <1>1, <2>1
  <2>3. QED
    BY <1>2, <2>2 DEF Parts
<1>3. ASSUME NEW x \in S, o = <<x>>, p = <<>>
      PROVE  Wide(t, S, 7) /\ At(t, 1, head) /\ At(t, 3, "device") /\ At(t, 5, x)
  <2>1. Wide(b, S, 5) /\ At(b, 2, "device") /\ At(b, 4, x) /\ Wide(c, S, 0)
    BY <1>3 DEF Attr
  <2>2. Parts(t, S, a, b, c, d, 1, 6, 6, 7) /\ At(t, 1, head)
    BY <1>1, <2>1
  <2>3. At(t, 1 + 2, "device") /\ At(t, 1 + 4, x)
    BY <2>1, <2>2 DEF Parts, Within
  <2>4. QED
    BY <2>2, <2>3 DEF Parts
<1>4. ASSUME NEW y \in S, o = <<>>, p = <<y>>
      PROVE  Wide(t, S, 7) /\ At(t, 1, head) /\ At(t, 3, "name") /\ At(t, 5, y)
  <2>1. Wide(c, S, 5) /\ At(c, 2, "name") /\ At(c, 4, y) /\ Wide(b, S, 0)
    BY <1>4 DEF Attr
  <2>2. Parts(t, S, a, b, c, d, 1, 1, 6, 7) /\ At(t, 1, head)
    BY <1>1, <2>1
  <2>3. At(t, 1 + 2, "name") /\ At(t, 1 + 4, y)
    BY <2>1, <2>2 DEF Parts, Within
  <2>4. QED
    BY <2>2, <2>3 DEF Parts
<1>5. ASSUME NEW x \in S, NEW y \in S, o = <<x>>, p = <<y>>
      PROVE  Wide(t, S, 12) /\ At(t, 1, head) /\ At(t, 5, x) /\ At(t, 10, y)
  <2>1. Wide(b, S, 5) /\ At(b, 4, x) /\ Wide(c, S, 5) /\ At(c, 4, y)
    BY <1>5 DEF Attr
  <2>2. Parts(t, S, a, b, c, d, 1, 6, 11, 12) /\ At(t, 1, head)
    BY <1>1, <2>1
  <2>3. At(t, 1 + 4, x) /\ At(t, 6 + 4, y)
    BY <2>1, <2>2 DEF Parts, Within
  <2>4. QED
    BY <2>2, <2>3 DEF Parts
<1>6. /\ o = <<>> /\ p = <<>> => Wide(t, S, 2) /\ At(t, 1, head)
      /\ \A x \in S : o = <<x>> /\ p = <<>> => Wide(t, S, 7) /\ At(t, 1, head) /\ At(t, 3, "device") /\ At(t, 5, x)
      /\ \A y \in S : o = <<>> /\ p = <<y>> => Wide(t, S, 7) /\ At(t, 1, head) /\ At(t, 3, "name") /\ At(t, 5, y)
      /\ \A x, y \in S : o = <<x>> /\ p = <<y>> => Wide(t, S, 12) /\ At(t, 1, head) /\ At(t, 5, x) /\ At(t, 10, y)
  BY <1>2, <1>3, <1>4, <1>5
<1>7. QED
  BY <1>6, Zenon DEF AsksText, head

EnablesText(t, S, x, p, mode) ==
    /\ p = <<>> => Wide(t, S, 9) /\ At(t, 1, Enables) /\ At(t, 5, x) /\ At(t, 8, mode)
    /\ \A y \in S : p = <<y>> => Wide(t, S, 14) /\ At(t, 1, Enables) /\ At(t, 5, x) /\ At(t, 10, y) /\ At(t, 13, mode)

LEMMA BlobText ==
    ASSUME NEW S, NEW a, Wide(a, S, 1), At(a, 1, Enables), NEW mode, NEW d, Wide(d, S, 3), At(d, 2, mode),
           NEW x, NEW b, Wide(b, S, 5), At(b, 4, x), NEW p, NEW c, Attr(c, S, "name", p),
           NEW t, t = a \o b \o c \o d
    PROVE  EnablesText(t, S, x, p, mode)
<1> DEFINE head == Enables
<1> HIDE DEF head
<1>0. At(a, 1, head)
  BY DEF head
<1>1. ASSUME NEW wc \in Nat, NEW l \in Nat, NEW n \in Nat, Wide(c, S, wc), l = 6 + wc, n = l + 3
      PROVE  Parts(t, S, a, b, c, d, 1, 6, l, n) /\ At(t, 1, head) /\ At(t, 5, x)
  <2> DEFINE j == 1
             k == 6
             wb == 5
             wd == 3
  <2>1. /\ j \in Nat /\ Wide(a, S, j) /\ wb \in Nat /\ Wide(b, S, wb) /\ wd \in Nat /\ Wide(d, S, wd)
        /\ k \in Nat /\ k = j + wb /\ l = k + wc /\ n = l + wd
    BY <1>1
  <2> HIDE DEF j, k, wb, wd
  <2>2. Parts(t, S, a, b, c, d, j, k, l, n)
    BY <1>1, <2>1, FourParts
  <2>3. Parts(t, S, a, b, c, d, 1, 6, l, n)
    BY <2>2 DEF j, k
  <2>4. At(t, 0 + 1, head) /\ At(t, 1 + 4, x)
    BY <1>0, <2>3 DEF Parts, Within
  <2>5. QED
    BY <2>3, <2>4
<1>2. ASSUME p = <<>> PROVE Wide(t, S, 9) /\ At(t, 1, head) /\ At(t, 5, x) /\ At(t, 8, mode)
  <2>1. Wide(c, S, 0)
    BY <1>2 DEF Attr
  <2>2. Parts(t, S, a, b, c, d, 1, 6, 6, 9) /\ At(t, 1, head) /\ At(t, 5, x)
    BY <1>1, <2>1
  <2>3. At(t, 6 + 2, mode)
    BY <2>2 DEF Parts, Within
  <2>4. QED
    BY <1>2, <2>2, <2>3 DEF Parts
<1>3. ASSUME NEW y \in S, p = <<y>>
      PROVE  Wide(t, S, 14) /\ At(t, 1, head) /\ At(t, 5, x) /\ At(t, 10, y) /\ At(t, 13, mode)
  <2>1. Wide(c, S, 5) /\ At(c, 4, y)
    BY <1>3 DEF Attr
  <2>2. Parts(t, S, a, b, c, d, 1, 6, 11, 14) /\ At(t, 1, head) /\ At(t, 5, x)
    BY <1>1, <2>1
  <2>3. At(t, 6 + 4, y) /\ At(t, 11 + 2, mode)
    BY <2>1, <2>2 DEF Parts, Within
  <2>4. QED
    BY <2>2, <2>3 DEF Parts
<1>4. /\ p = <<>> => Wide(t, S, 9) /\ At(t, 1, head) /\ At(t, 5, x) /\ At(t, 8, mode)
      /\ \A y \in S : p = <<y>> => Wide(t, S, 14) /\ At(t, 1, head) /\ At(t, 5, x) /\ At(t, 10, y) /\ At(t, 13, mode)
  BY <1>2, <1>3
<1>5. QED
  BY <1>4, Zenon DEF EnablesText, head

\* One line of a vector: twelve tokens, the name the sixth and the value the ninth.
LEMMA LineText ==
    ASSUME NEW S, NEW a, Wide(a, S, 2), NEW x, NEW b, Wide(b, S, 5), At(b, 4, x),
           NEW y, NEW c, Wide(c, S, 5), At(c, 2, y), NEW t, t = a \o b \o c
    PROVE  Wide(t, S, 12) /\ At(t, 6, x) /\ At(t, 9, y)
<1> DEFINE u == a \o b
<1>1. Wide(u, S, 2 + 5) /\ Within(u, b, 2)
  BY TwoParts
<1>2. t = u \o c
  OBVIOUS
<1> HIDE DEF u
<1>3. Wide(u, S, 7)
  BY <1>1
<1>4. Wide(u \o c, S, 7 + 5) /\ Within(u \o c, u, 0) /\ Within(u \o c, c, 7)
  BY <1>3, TwoParts
<1>5. At(u, 2 + 4, x)
  BY <1>1 DEF Within
<1>6. At(t, 0 + 6, x) /\ At(t, 7 + 2, y)
  BY <1>2, <1>4, <1>5 DEF Within
<1>7. QED
  BY <1>2, <1>4, <1>6

\* What a vector's text shows, and where.
Reads(t, S, kind, device, name, values) ==
    /\ Wide(t, S, 12 * Len(values) + 17) /\ Len(values) \in Nat
    /\ At(t, 1, "<new") /\ At(t, 2, kind) /\ At(t, 7, device) /\ At(t, 12, name)
    /\ \A i \in 1..Len(values) : At(t, 12 * (i - 1) + 20, values[i][1]) /\ At(t, 12 * (i - 1) + 23, values[i][2])

LEMMA VectorText ==
    ASSUME NEW S, NEW kind, NEW a, Wide(a, S, 3), At(a, 1, "<new"), At(a, 2, kind),
           NEW x, NEW b, Wide(b, S, 5), At(b, 4, x), NEW y, NEW c, Wide(c, S, 5), At(c, 4, y), NEW d, Wide(d, S, 1),
           NEW values, Len(values) \in Nat, NEW s \in Seq(Seq(S)), Len(s) = Len(values),
           \A i \in 1..Len(values) : Wide(s[i], S, 12) /\ At(s[i], 6, values[i][1]) /\ At(s[i], 9, values[i][2]),
           NEW e, Wide(e, S, 3), NEW t, t = a \o b \o c \o d \o FlattenSeq(s) \o e
    PROVE  Reads(t, S, kind, x, y, values)
<1> DEFINE h == a \o b \o c \o d
           f == FlattenSeq(s)
           u == h \o f
           n == Len(values)
           m == 12 * n
<1>1. Wide(h, S, 14) /\ At(h, 1, "<new") /\ At(h, 2, kind) /\ At(h, 7, x) /\ At(h, 12, y)
  <2> DEFINE ja == 3
             kb == 8
             lc == 13
             nd == 14
             wb == 5
             wd == 1
  <2>1. /\ ja \in Nat /\ Wide(a, S, ja) /\ wb \in Nat /\ Wide(b, S, wb) /\ Wide(c, S, wb) /\ wd \in Nat /\ Wide(d, S, wd)
        /\ kb \in Nat /\ lc \in Nat /\ nd \in Nat /\ kb = ja + wb /\ lc = kb + wb /\ nd = lc + wd
    OBVIOUS
  <2> HIDE DEF ja, kb, lc, nd, wb, wd
  <2>2. Parts(h, S, a, b, c, d, ja, kb, lc, nd)
    BY <2>1, FourParts
  <2>3. Parts(h, S, a, b, c, d, 3, 8, 13, 14)
    BY <2>2 DEF ja, kb, lc, nd
  <2> HIDE DEF h
  <2>4. At(h, 0 + 1, "<new") /\ At(h, 0 + 2, kind) /\ At(h, 3 + 4, x) /\ At(h, 8 + 4, y)
    BY <2>3 DEF Parts, Within
  <2>5. QED
    BY <2>3, <2>4 DEF Parts
<1>2. t = u \o e
  OBVIOUS
<1> HIDE DEF h
<1>3. n \in Nat /\ m \in Nat
  OBVIOUS
<1>4. f \in Seq(S) /\ Len(f) = m /\ Blocks(f, s, n)
  <2>1. \A i \in 1..n : Len(s[i]) = 12
    BY DEF Wide
  <2>2. QED
    BY <1>3, <2>1, FlattenedBlocks
<1>5. ASSUME NEW i \in 1..n
      PROVE  At(f, 12 * (i - 1) + 6, values[i][1]) /\ At(f, 12 * (i - 1) + 9, values[i][2])
  <2>1. s[i][6] = values[i][1] /\ s[i][9] = values[i][2]
    BY DEF At
  <2>2. f[12 * (i - 1) + 6] = s[i][6] /\ f[12 * (i - 1) + 9] = s[i][9]
    BY <1>4 DEF Blocks
  <2>3. 12 * (i - 1) + 6 \in 1..m /\ 12 * (i - 1) + 9 \in 1..m
    BY <1>3
  <2> HIDE DEF f, m
  <2>4. QED
    BY <1>4, <2>1, <2>2, <2>3 DEF At
<1> HIDE DEF f
<1>6. Wide(f, S, m)
  BY <1>4 DEF Wide
<1> HIDE DEF m
<1>7. Wide(u, S, 14 + m) /\ Within(u, h, 0) /\ Within(u, f, 14)
  BY <1>1, <1>3, <1>6, TwoParts
<1> HIDE DEF u
<1>8. 14 + m \in Nat
  BY <1>3
<1>9. Wide(t, S, (14 + m) + 3) /\ Within(t, u, 0)
  <2> DEFINE k == 14 + m
             w == 3
  <2>1. k \in Nat /\ Wide(u, S, k) /\ w \in Nat /\ Wide(e, S, w)
    BY <1>7, <1>8
  <2> HIDE DEF k, w
  <2>2. Wide(u \o e, S, k + w) /\ Within(u \o e, u, 0)
    BY <2>1, TwoParts
  <2>3. QED
    BY <1>2, <2>2 DEF k, w
<1>10. /\ At(t, 0 + (0 + 1), "<new") /\ At(t, 0 + (0 + 2), kind) /\ At(t, 0 + (0 + 7), x) /\ At(t, 0 + (0 + 12), y)
  BY <1>1, <1>7, <1>9 DEF Within
<1>11. ASSUME NEW i \in 1..n
       PROVE  At(t, 12 * (i - 1) + 20, values[i][1]) /\ At(t, 12 * (i - 1) + 23, values[i][2])
  <2> DEFINE p == 12 * (i - 1)
  <2>1. p \in Nat
    BY <1>3
  <2>2. At(f, p + 6, values[i][1]) /\ At(f, p + 9, values[i][2])
    BY <1>5
  <2> HIDE DEF p
  <2>3. p + 6 \in Nat /\ p + 9 \in Nat /\ 14 + (p + 6) \in Nat /\ 14 + (p + 9) \in Nat
    BY <2>1
  <2>4. At(u, 14 + (p + 6), values[i][1]) /\ At(u, 14 + (p + 9), values[i][2])
    BY <1>7, <2>2, <2>3 DEF Within
  <2>5. At(t, 0 + (14 + (p + 6)), values[i][1]) /\ At(t, 0 + (14 + (p + 9)), values[i][2])
    BY <1>9, <2>3, <2>4 DEF Within
  <2>6. 0 + (14 + (p + 6)) = p + 20 /\ 0 + (14 + (p + 9)) = p + 23
    BY <2>1
  <2>7. At(t, p + 20, values[i][1]) /\ At(t, p + 23, values[i][2])
    BY <2>5, <2>6
  <2>8. QED
    BY <2>7 DEF p
<1>12. Wide(t, S, 12 * n + 17)
  <2>1. (14 + m) + 3 = 12 * n + 17
    BY <1>3 DEF m
  <2>2. QED
    BY <1>9, <2>1
<1>13. QED
  BY <1>3, <1>10, <1>11, <1>12 DEF Reads

-----------------------------------------------------------------------------
(* INDI: what is written, and that it tells the commands apart             *)

\* ... and in what the serializer writes.
LEMMA PropertiesWritten ==
    ASSUME NEW S, Markup \subseteq S, NEW c, c.cmd = "GetProperties"
    PROVE  AsksText(I!SerializeCommand(c), S, c.device, c.name)
<1> DEFINE a == <<Asks>>
           b == I!Attribute("device", c.device)
           e == I!Attribute("name", c.name)
           d == <<"/>\n">>
<1>1. Asks \in S /\ "/>\n" \in S /\ "device" \in S /\ "name" \in S
  BY DEF Markup, Asks
<1>2. Wide(a, S, 1) /\ At(a, 1, Asks) /\ Wide(d, S, 1)
  BY <1>1, Pieces
<1>3. Attr(b, S, "device", c.device) /\ Attr(e, S, "name", c.name)
  BY <1>1, Attributes DEF Attr
<1>4. I!SerializeCommand(c) = a \o b \o e \o d
  BY DEF I!SerializeCommand, Asks
<1> HIDE DEF a, b, e, d
<1>5. QED
  BY <1>2, <1>3, <1>4, PropertiesText

LEMMA BlobWritten ==
    ASSUME NEW S, Markup \subseteq S, NEW c, c.cmd = "EnableBlob", c.device \in S, c.mode \in S
    PROVE  EnablesText(I!SerializeCommand(c), S, c.device, c.name, c.mode)
<1> DEFINE a == <<Enables>>
           b == I!Attribute("device", <<c.device>>)
           e == I!Attribute("name", c.name)
           d == <<">", c.mode, "</enableBLOB>\n">>
<1>1. Enables \in S /\ ">" \in S /\ "</enableBLOB>\n" \in S /\ "device" \in S /\ "name" \in S
  BY DEF Markup, Enables
<1>2. Wide(a, S, 1) /\ At(a, 1, Enables) /\ Wide(d, S, 3) /\ At(d, 2, c.mode)
  BY <1>1, Pieces
<1>3. Wide(b, S, 5) /\ At(b, 4, c.device)
  BY <1>1, Attributes
<1>4. Attr(e, S, "name", c.name)
  BY <1>1, Attributes DEF Attr
<1>5. I!SerializeCommand(c) = a \o b \o e \o d
  BY DEF I!SerializeCommand, Enables
<1> HIDE DEF a, b, e, d
<1>6. QED
  BY <1>2, <1>3, <1>4, <1>5, BlobText

LEMMA VectorWritten ==
    ASSUME NEW S, Markup \subseteq S, NEW c, c.cmd \in VectorKinds, c.device \in S, c.name \in S,
           Len(c.values) \in Nat, DOMAIN c.values = 1..Len(c.values),
           \A i \in 1..Len(c.values) : c.values[i][1] \in S /\ c.values[i][2] \in S
    PROVE  Reads(I!SerializeCommand(c), S, c.cmd, c.device, c.name, c.values)
<1> DEFINE Line(i) == <<"<one", c.cmd>> \o I!Attribute("name", <<c.values[i][1]>>)
                      \o <<">", c.values[i][2], "</one", c.cmd, ">\n">>
           a == <<"<new", c.cmd, "Vector">>
           b == I!Attribute("device", <<c.device>>)
           e == I!Attribute("name", <<c.name>>)
           d == <<">\n">>
           s == [i \in DOMAIN c.values |-> Line(i)]
           g == <<"</new", c.cmd, "Vector>\n">>
           values == c.values
<1>1. /\ "<new" \in S /\ "Vector" \in S /\ ">\n" \in S /\ "</new" \in S /\ "Vector>\n" \in S /\ "device" \in S /\ "name" \in S
      /\ "<one" \in S /\ ">" \in S /\ "</one" \in S
  BY DEF Markup
<1>2. c.cmd \in S
  BY DEF Markup
<1>3. I!SerializeCommand(c) = a \o b \o e \o d \o FlattenSeq(s) \o g
  <2>1. I!SerializeCommand(c) = I!Vector(c.cmd, c)
    BY DEF I!SerializeCommand, VectorKinds
  <2>2. I!FlattenSeq(s) = FlattenSeq(s)
    BY DEF I!FlattenSeq, FlattenSeq
  <2>3. I!Vector(c.cmd, c) = a \o b \o e \o d \o I!FlattenSeq(s) \o g
    BY DEF I!Vector
  <2>4. QED
    BY <2>1, <2>2, <2>3
<1>4. Wide(a, S, 3) /\ At(a, 1, "<new") /\ At(a, 2, c.cmd) /\ Wide(d, S, 1) /\ Wide(g, S, 3)
  BY <1>1, <1>2, Pieces
<1>5. Wide(b, S, 5) /\ At(b, 4, c.device) /\ Wide(e, S, 5) /\ At(e, 4, c.name)
  BY <1>1, Attributes
<1>6. Len(values) \in Nat /\ DOMAIN values = 1..Len(values) /\ \A i \in 1..Len(values) : values[i][1] \in S /\ values[i][2] \in S
  OBVIOUS
<1> HIDE DEF values
<1>7. ASSUME NEW i \in 1..Len(values)
      PROVE  Wide(Line(i), S, 12) /\ At(Line(i), 6, values[i][1]) /\ At(Line(i), 9, values[i][2])
  <2> DEFINE x == values[i][1]
             y == values[i][2]
             p == <<"<one", c.cmd>>
             q == I!Attribute("name", <<x>>)
             r == <<">", y, "</one", c.cmd, ">\n">>
  <2>1. x \in S /\ y \in S
    BY <1>6
  <2>2. Line(i) = p \o q \o r
    BY DEF values
  <2> HIDE DEF Line, x, y
  <2>3. Wide(p, S, 2)
    BY <1>1, <1>2, Pieces
  <2>4. Wide(q, S, 5) /\ At(q, 4, x)
    BY <1>1, <2>1, Attributes
  <2>5. Wide(r, S, 5) /\ At(r, 2, y)
    BY <1>1, <1>2, <2>1, Pieces
  <2> HIDE DEF p, q, r
  <2>6. Wide(Line(i), S, 12) /\ At(Line(i), 6, x) /\ At(Line(i), 9, y)
    BY <2>2, <2>3, <2>4, <2>5, LineText
  <2>7. QED
    BY <2>6 DEF x, y
<1>8. /\ s \in Seq(Seq(S)) /\ Len(s) = Len(values)
      /\ \A i \in 1..Len(values) : Wide(s[i], S, 12) /\ At(s[i], 6, values[i][1]) /\ At(s[i], 9, values[i][2])
  <2>1. s = [i \in 1..Len(values) |-> Line(i)]
    BY <1>6 DEF values
  <2> HIDE DEF Line, s
  <2>2. \A i \in 1..Len(values) : Line(i) \in Seq(S)
    BY <1>7 DEF Wide
  <2>3. s \in Seq(Seq(S)) /\ Len(s) = Len(values) /\ \A i \in 1..Len(values) : s[i] = Line(i)
    BY <1>6, <2>1, <2>2
  <2>4. QED
    BY <1>7, <2>3
<1> HIDE DEF a, b, e, d, s, g
<1>9. Reads(I!SerializeCommand(c), S, c.cmd, c.device, c.name, values)
  BY <1>3, <1>4, <1>5, <1>6, <1>8, VectorText
<1>10. QED
  BY <1>9 DEF values

\* The words of a text are where they are, whatever they are.
LEMMA AtOnce == \A t, i, x, y : At(t, i, x) /\ At(t, i, y) => x = y
BY DEF At

\* A text has one width, and from the widths and places its words are read back.
LEMMA WideOnce == \A t, S, i, j : Wide(t, S, i) /\ Wide(t, S, j) => i = j
BY DEF Wide

Maybe(o, S) == o = <<>> \/ \E x \in S : o = <<x>>

LEMMA AsksDistinct ==
    ASSUME NEW S, NEW t, NEW o, Maybe(o, S), NEW p, Maybe(p, S), NEW q, Maybe(q, S), NEW r, Maybe(r, S),
           AsksText(t, S, o, p), AsksText(t, S, q, r)
    PROVE  o = q /\ p = r
<1>1. \/ o = <<>> /\ p = <<>> /\ Wide(t, S, 2)
      \/ \E x \in S : o = <<x>> /\ p = <<>> /\ Wide(t, S, 7) /\ At(t, 3, "device") /\ At(t, 5, x)
      \/ \E y \in S : o = <<>> /\ p = <<y>> /\ Wide(t, S, 7) /\ At(t, 3, "name") /\ At(t, 5, y)
      \/ \E x, y \in S : o = <<x>> /\ p = <<y>> /\ Wide(t, S, 12) /\ At(t, 5, x) /\ At(t, 10, y)
  BY DEF Maybe, AsksText
<1>2. \/ q = <<>> /\ r = <<>> /\ Wide(t, S, 2)
      \/ \E x \in S : q = <<x>> /\ r = <<>> /\ Wide(t, S, 7) /\ At(t, 3, "device") /\ At(t, 5, x)
      \/ \E y \in S : q = <<>> /\ r = <<y>> /\ Wide(t, S, 7) /\ At(t, 3, "name") /\ At(t, 5, y)
      \/ \E x, y \in S : q = <<x>> /\ r = <<y>> /\ Wide(t, S, 12) /\ At(t, 5, x) /\ At(t, 10, y)
  BY DEF Maybe, AsksText
<1>3. "device" # "name"
  OBVIOUS
<1>4. QED
  BY <1>1, <1>2, <1>3, AtOnce, WideOnce

LEMMA EnablesDistinct ==
    ASSUME NEW S, NEW t, NEW p, Maybe(p, S), NEW r, Maybe(r, S), NEW x, NEW m, NEW y, NEW n,
           EnablesText(t, S, x, p, m), EnablesText(t, S, y, r, n)
    PROVE  x = y /\ p = r /\ m = n
<1>1. \/ p = <<>> /\ Wide(t, S, 9) /\ At(t, 5, x) /\ At(t, 8, m)
      \/ \E z \in S : p = <<z>> /\ Wide(t, S, 14) /\ At(t, 5, x) /\ At(t, 10, z) /\ At(t, 13, m)
  BY DEF Maybe, EnablesText
<1>2. \/ r = <<>> /\ Wide(t, S, 9) /\ At(t, 5, y) /\ At(t, 8, n)
      \/ \E z \in S : r = <<z>> /\ Wide(t, S, 14) /\ At(t, 5, y) /\ At(t, 10, z) /\ At(t, 13, n)
  BY DEF Maybe, EnablesText
<1>3. QED
  BY <1>1, <1>2, AtOnce, WideOnce

LEMMA ReadsDistinct ==
    ASSUME NEW S, NEW t, NEW k, NEW x, NEW y, NEW v, NEW l, NEW z, NEW w, NEW u,
           Reads(t, S, k, x, y, v), Reads(t, S, l, z, w, u)
    PROVE  /\ k = l /\ x = z /\ y = w /\ Len(v) = Len(u)
           /\ \A i \in 1..Len(v) : v[i][1] = u[i][1] /\ v[i][2] = u[i][2]
<1>1. k = l /\ x = z /\ y = w
  BY AtOnce DEF Reads
<1>2. Len(v) = Len(u)
  <2>1. 12 * Len(v) + 17 = 12 * Len(u) + 17 /\ Len(v) \in Nat /\ Len(u) \in Nat
    BY WideOnce DEF Reads
  <2>2. QED
    BY <2>1
<1>3. ASSUME NEW i \in 1..Len(v) PROVE v[i][1] = u[i][1] /\ v[i][2] = u[i][2]
  <2> DEFINE p == 12 * (i - 1) + 20
             q == 12 * (i - 1) + 23
  <2>1. At(t, p, v[i][1]) /\ At(t, q, v[i][2])
    BY DEF Reads
  <2>2. At(t, p, u[i][1]) /\ At(t, q, u[i][2])
    BY <1>2 DEF Reads
  <2> HIDE DEF p, q
  <2>3. QED
    BY <2>1, <2>2, AtOnce
<1>4. QED
  BY <1>1, <1>2, <1>3

\* An option is empty or has one value.
LEMMA OneOrNone ==
    ASSUME NEW W, NEW o \in Seq(W), Len(o) <= 1
    PROVE  o = <<>> \/ \E x \in W : o = <<x>>
<1> DEFINE n == Len(o)
<1>1. n \in Nat /\ (o # <<>> => n # 0) /\ n <= 1
  OBVIOUS
<1> HIDE DEF n
<1>5. o # <<>> => n = 1
  BY <1>1
<1>2. o # <<>> => Len(o) = 1
  BY <1>5, Zenon DEF n
<1>3. o # <<>> => o[1] \in W /\ o = <<o[1]>>
  BY <1>2
<1>4. QED
  BY <1>3

\* What a command is made of; the set of its words.
LEMMA CommandWords ==
    ASSUME NEW S, STRING \subseteq S, I!BlobMode \cup I!SwitchState \subseteq S, NEW c, I!IsCommand(c)
    PROVE  \/ /\ c.cmd = "GetProperties" /\ c = [cmd |-> c.cmd, device |-> c.device, name |-> c.name]
              /\ Maybe(c.device, S) /\ Maybe(c.name, S)
           \/ /\ c.cmd = "EnableBlob" /\ c = [cmd |-> c.cmd, device |-> c.device, name |-> c.name, mode |-> c.mode]
              /\ c.device \in S /\ Maybe(c.name, S) /\ c.mode \in S
           \/ /\ c.cmd \in VectorKinds /\ c = [cmd |-> c.cmd, device |-> c.device, name |-> c.name, values |-> c.values]
              /\ c.device \in S /\ c.name \in S /\ Len(c.values) \in Nat /\ DOMAIN c.values = 1..Len(c.values)
              /\ c.values = [i \in 1..Len(c.values) |-> c.values[i]]
              /\ \A i \in 1..Len(c.values) :
                    c.values[i][1] \in S /\ c.values[i][2] \in S /\ c.values[i] = <<c.values[i][1], c.values[i][2]>>
<1>1. ASSUME NEW o, I!Option(o) PROVE Maybe(o, S)
  <2> DEFINE W == STRING
  <2>1. o \in Seq(W) /\ Len(o) <= 1 /\ W \subseteq S
    BY <1>1 DEF I!Option
  <2> HIDE DEF W
  <2>2. QED
    BY <2>1, OneOrNone DEF Maybe
<1>2. CASE c.cmd = "GetProperties"
  BY <1>1, <1>2 DEF I!IsCommand
<1>3. CASE c.cmd = "EnableBlob"
  BY <1>1, <1>3 DEF I!IsCommand
<1>4. CASE c.cmd \in {"Number", "Text", "Switch"}
  <2>1. /\ c = [cmd |-> c.cmd, device |-> c.device, name |-> c.name, values |-> c.values]
        /\ c.device \in STRING /\ c.name \in STRING
        /\ c.values \in Seq(STRING \X (IF c.cmd = "Switch" THEN I!SwitchState ELSE STRING))
    BY <1>4 DEF I!IsCommand
  <2> DEFINE W == STRING
             T == IF c.cmd = "Switch" THEN I!SwitchState ELSE STRING
             v == c.values
  <2>2. T \subseteq S /\ W \subseteq S
    OBVIOUS
  <2>3. v \in Seq(W \X T)
    BY <2>1
  <2> HIDE DEF W, T, v
  <2>4. Len(v) \in Nat /\ DOMAIN v = 1..Len(v) /\ v = [i \in 1..Len(v) |-> v[i]] /\ \A i \in 1..Len(v) : v[i] \in W \X T
    BY <2>3
  <2>5. \A i \in 1..Len(v) : v[i][1] \in S /\ v[i][2] \in S /\ v[i] = <<v[i][1], v[i][2]>>
    BY <2>2, <2>4
  <2>6. QED
    BY <1>4, <2>1, <2>4, <2>5 DEF VectorKinds, v
<1>5. QED
  BY <1>2, <1>3, <1>4 DEF I!IsCommand

\* Two INDI commands with one text are the same.
LEMMA IndiDistinct ==
    ASSUME NEW c, I!IsCommand(c), NEW d, I!IsCommand(d), I!SerializeCommand(c) = I!SerializeCommand(d)
    PROVE  c = d
<1> DEFINE S == STRING \cup Markup \cup I!BlobMode \cup I!SwitchState
           t == I!SerializeCommand(c)
<1>1. STRING \subseteq S /\ Markup \subseteq S /\ I!BlobMode \cup I!SwitchState \subseteq S
  OBVIOUS
<1> HIDE DEF S
<1>2. t = I!SerializeCommand(c) /\ t = I!SerializeCommand(d)
  OBVIOUS
<1> HIDE DEF t
<1> DEFINE A(x) == /\ x.cmd = "GetProperties" /\ x = [cmd |-> x.cmd, device |-> x.device, name |-> x.name]
                   /\ Maybe(x.device, S) /\ Maybe(x.name, S) /\ AsksText(t, S, x.device, x.name)
           E(x) == /\ x.cmd = "EnableBlob" /\ x = [cmd |-> x.cmd, device |-> x.device, name |-> x.name, mode |-> x.mode]
                   /\ Maybe(x.name, S) /\ EnablesText(t, S, x.device, x.name, x.mode)
           V(x) == /\ x = [cmd |-> x.cmd, device |-> x.device, name |-> x.name, values |-> x.values]
                   /\ x.values = [i \in 1..Len(x.values) |-> x.values[i]]
                   /\ \A i \in 1..Len(x.values) : x.values[i] = <<x.values[i][1], x.values[i][2]>>
                   /\ Reads(t, S, x.cmd, x.device, x.name, x.values)
<1>3. ASSUME NEW x, I!IsCommand(x), t = I!SerializeCommand(x) PROVE A(x) \/ E(x) \/ V(x)
  <2>1. CASE x.cmd = "GetProperties"
    BY <1>1, <1>3, <2>1, CommandWords, PropertiesWritten DEF VectorKinds
  <2>2. CASE x.cmd = "EnableBlob"
    BY <1>1, <1>3, <2>2, CommandWords, BlobWritten DEF VectorKinds
  <2>3. CASE x.cmd \in VectorKinds
    <3>1. /\ x = [cmd |-> x.cmd, device |-> x.device, name |-> x.name, values |-> x.values]
          /\ x.device \in S /\ x.name \in S /\ Len(x.values) \in Nat /\ DOMAIN x.values = 1..Len(x.values)
          /\ x.values = [i \in 1..Len(x.values) |-> x.values[i]]
          /\ \A i \in 1..Len(x.values) :
                x.values[i][1] \in S /\ x.values[i][2] \in S /\ x.values[i] = <<x.values[i][1], x.values[i][2]>>
      BY <1>1, <1>3, <2>3, CommandWords DEF VectorKinds
    <3>2. Reads(t, S, x.cmd, x.device, x.name, x.values)
      BY <1>1, <1>3, <2>3, <3>1, VectorWritten
    <3>3. QED
      BY <3>1, <3>2
  <2>4. QED
    BY <1>1, <1>3, <2>1, <2>2, <2>3, CommandWords
<1>4. \A x : /\ A(x) => At(t, 1, Asks)
             /\ E(x) => At(t, 1, Enables)
             /\ V(x) => At(t, 1, "<new")
  BY DEF Maybe, AsksText, EnablesText, Reads
<1>5. Asks # Enables /\ Asks # "<new" /\ Enables # "<new"
  BY DEF Asks, Enables
<1>6. A(c) /\ A(d) => c = d
  BY AsksDistinct
<1>7. E(c) /\ E(d) => c = d
  BY EnablesDistinct
<1>8. ASSUME V(c), V(d) PROVE c = d
  <2>1. /\ c.cmd = d.cmd /\ c.device = d.device /\ c.name = d.name /\ Len(c.values) = Len(d.values)
        /\ \A i \in 1..Len(c.values) : c.values[i][1] = d.values[i][1] /\ c.values[i][2] = d.values[i][2]
    BY <1>8, ReadsDistinct
  <2>2. \A i \in 1..Len(c.values) : c.values[i] = d.values[i]
    BY <1>8, <2>1
  <2>3. c.values = d.values
    BY <1>8, <2>1, <2>2
  <2>4. QED
    BY <1>8, <2>1, <2>3
<1>9. (A(c) \/ E(c) \/ V(c)) /\ (A(d) \/ E(d) \/ V(d))
  BY <1>2, <1>3
<1> HIDE DEF A, E, V
<1>10. QED
  BY <1>4, <1>5, <1>6, <1>7, <1>8, <1>9, AtOnce

-----------------------------------------------------------------------------
(* Commands, on all three wires                                            *)

\* A switch is one of the two words that are read.
LEMMA SwitchRead ==
    ASSUME NEW c, I!IsCommand(c), c.cmd = "Switch", NEW i \in DOMAIN c.values
    PROVE  I!ParseSwitchState(c.values[i][2]) = c.values[i][2]
<1> DEFINE W == STRING
           v == c.values
<1>1. v \in Seq(W \X I!SwitchState)
  BY DEF I!IsCommand
<1> HIDE DEF W
<1>2. v[i][2] \in I!SwitchState
  <2> HIDE DEF v
  <2>1. i \in DOMAIN v
    BY DEF v
  <2>2. v[i] \in W \X I!SwitchState
    BY <1>1, <2>1
  <2>3. QED
    BY <2>2
<1>3. \A s \in I!SwitchState : I!ParseSwitchState(s) = s
  BY DEF I!SwitchState, I!ParseSwitchState
<1>4. QED
  BY <1>2, <1>3

\* Every command's method is in the published list.
LEMMA MethodKnown ==
    ASSUME NEW raw, NEW c, IsCommand(c, raw)
    PROVE  Method(c) \in CommandMethodNames
BY Variants, MethodsApart, PlainNamed, CarryingNamed

\* No two commands are the same on the wire, but for a caller's own JSON and the list of it.
THEOREM CommandsHold == Spec => []CommandsDistinct
<1>1. Inputs => CommandsDistinct
  <2>1. \A c, d \in DOMAIN ImagingMethod : SerializeImaging(c) = SerializeImaging(d) => c = d
    BY DEF ImagingMethod, SerializeImaging
  <2>2. ASSUME Inputs, topic = "indi"
        PROVE  /\ \A d \in IndiCommands : I!SerializeCommand(subject) = I!SerializeCommand(d) => subject = d
               /\ subject.cmd = "Switch" =>
                     \A i \in DOMAIN subject.values : I!ParseSwitchState(subject.values[i][2]) = subject.values[i][2]
    <3>1. I!IsCommand(subject) /\ \A d \in IndiCommands : I!IsCommand(d)
      BY <2>2, IndiAssumption DEF Inputs
    <3>2. QED
      BY <3>1, IndiDistinct, SwitchRead
  <2>3. ASSUME Inputs, topic = "request"
        PROVE  /\ Method(subject) \in CommandMethodNames
               /\ \A d \in Requests :
                     Method(d) = Method(subject) /\ d # subject =>
                         \A fw \in Firmware :
                             SerializeCommand(subject, fw) = SerializeCommand(d, fw) =>
                                 subject[1] \in Raw /\ (subject[2] = Arr(<<d[2]>>) \/ d[2] = Arr(<<subject[2]>>))
    <3>1. subject \in Requests
      BY <2>3 DEF Inputs
    <3>2. Method(subject) \in CommandMethodNames
      BY <3>1, RequestsAssumption, MethodKnown
    <3>3. QED
      BY <3>1, <3>2, RequestsDistinct
  <2>4. QED
    BY <2>1, <2>2, <2>3 DEF CommandsDistinct
<1>2. QED
  BY <1>1, Picked, PTL
=============================================================================
