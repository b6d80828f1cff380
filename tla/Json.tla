-------------------------------- MODULE Json --------------------------------
(***************************************************************************)
(* serde_json's values, as far as the protocol tells them apart: a tuple   *)
(* headed by its kind.  A number is an integer that fits an i32, Big (that *)
(* is 2^32 + 1, which only 64 bits hold) or Frac (not an integer).         *)
(* An option is None or Some(v).                                           *)
(***************************************************************************)
EXTENDS Integers, Sequences

Null == <<"null">>
Bool(b) == <<"bool", b>>
Num(n) == <<"num", n>>
Big == <<"big">>
Frac == <<"frac">>
Str(s) == <<"str", s>>
Arr(s) == <<"arr", s>>
Obj(f) == <<"obj", f>>

None == <<>>
Some(v) == <<v>>

\* The fields of f, and those of g that f has not.
f ++ g == [x \in DOMAIN f \cup DOMAIN g |-> IF x \in DOMAIN f THEN f[x] ELSE g[x]]

\* J has nothing but JSON values, and with a value the values it is made of.
IsJson(J) ==
    \A v \in J :
        \/ v \in {Null, Big, Frac, Bool(TRUE), Bool(FALSE)}
        \/ v[1] = "num" /\ v[2] \in Int /\ v = Num(v[2])
        \/ v[1] = "str" /\ v[2] \in STRING /\ v = Str(v[2])
        \/ v[1] = "arr" /\ v[2] \in Seq(J) /\ v = Arr(v[2])
        \/ v[1] = "obj" /\ DOMAIN v[2] \subseteq STRING /\ v[2] \in [DOMAIN v[2] -> J] /\ v = Obj(v[2])
=============================================================================
