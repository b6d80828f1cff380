--------------------------- MODULE DevicesProofs ---------------------------
(***************************************************************************)
(* Devices for any users, plans and capacity: its type invariant, Settled  *)
(* and EffectsKnown.                                                       *)
(*                                                                         *)
(* Both rest on what a request still on its way can be: Tagged says that   *)
(* it is of an earlier operation, of an earlier step, or the one its user  *)
(* waits for or failed at; Last says that the one a user waits for is the  *)
(* last of that user on the link.                                          *)
(***************************************************************************)
EXTENDS Devices, SequenceTheorems, TLAPS

Request == [user : Users, call : Nat, step : Nat \ {0}]

\* A user in an operation is at a step of it.
AtStep == \A u \in Users : status[u] # "idle" => pc[u] \in DOMAIN Steps(u)

Past(e) ==
    \/ e.call < calls[e.user]
    \/ e.call = calls[e.user] /\ (e.step < pc[e.user] \/ (e.step = pc[e.user] /\ status[e.user] # "ready"))
Tagged ==
    /\ \A i \in DOMAIN link : Past(link[i])
    /\ \A e \in strays : Past(e)

Last ==
    \A i, j \in DOMAIN link :
        i < j /\ link[j].user = link[i].user /\ status[link[i].user] = "waiting" => link[i] # Current(link[i].user)

IInv == TypeOK /\ AtStep /\ Tagged /\ Last /\ Settled /\ EffectsKnown

-----------------------------------------------------------------------------
(* Users                                                                   *)

\* The programs are sequences of steps, the skips as assumed.
LEMMA StepsType ==
    ASSUME TypeOK, NEW u \in Users
    PROVE  /\ Steps(u) \in Seq(StepRecord)
           /\ \A i, j \in DOMAIN Steps(u) :
                 Steps(u)[i].skip # Abort /\ j \in i..(i + Steps(u)[i].skip) => Steps(u)[j].skip # Abort
<1>1. plan[u] \in Plans \cup {NoPlan}
  BY DEF TypeOK
<1>2. QED
  BY <1>1, DevicesAssumption, SkipAssumption DEF Steps

\* What the end of a step leaves of the other users and of the counters.
Moved(u) ==
    /\ plan' = plan /\ calls' = calls
    /\ pc' \in [Users -> Nat \ {0}]
    /\ status' \in [Users -> {"idle", "ready", "waiting"}]
    /\ result' \in [Users -> {"none", "ok", "err"}]
    /\ \A v \in Users \ {u} : pc'[v] = pc[v] /\ status'[v] = status[v]
    /\ status'[u] \in {"idle", "ready"}
    /\ pc'[u] >= pc[u]
    /\ status'[u] = "ready" => pc'[u] > pc[u] /\ pc'[u] \in DOMAIN Steps(u)

LEMMA ProceedMoves ==
    ASSUME TypeOK, NEW u \in Users, NEW n \in Nat, n > pc[u],
           Proceed(u, Steps(u), n), UNCHANGED <<plan, calls>>
    PROVE  Moved(u) /\ pc'[u] = n
<1>1. Steps(u) \in Seq(StepRecord)
  BY StepsType
<1>2. pc[u] \in Nat \ {0} /\ n \in Nat \ {0}
  BY DEF TypeOK
<1>3. pc' = [pc EXCEPT ![u] = n] /\ pc' \in [Users -> Nat \ {0}]
  BY <1>2 DEF Proceed, TypeOK
<1>4. /\ status' \in [Users -> {"idle", "ready", "waiting"}]
      /\ result' \in [Users -> {"none", "ok", "err"}]
      /\ \A v \in Users \ {u} : status'[v] = status[v]
      /\ status'[u] \in {"idle", "ready"}
      /\ status'[u] = "ready" => ~(n > Len(Steps(u)))
  BY DEF Proceed, TypeOK
<1>5. ~(n > Len(Steps(u))) => n \in DOMAIN Steps(u)
  BY <1>1, <1>2
<1>6. pc'[u] = n /\ \A v \in Users \ {u} : pc'[v] = pc[v]
  BY <1>3 DEF TypeOK
<1>7. plan' = plan /\ calls' = calls
  OBVIOUS
<1>8. pc'[u] >= pc[u] /\ pc'[u] > pc[u]
  BY <1>2, <1>6
<1>9. status'[u] = "ready" => pc'[u] > pc[u] /\ pc'[u] \in DOMAIN Steps(u)
  BY <1>4, <1>5, <1>6, <1>8
<1>10. \A v \in Users \ {u} : pc'[v] = pc[v] /\ status'[v] = status[v]
  BY <1>4, <1>6
<1>11. QED
  BY <1>3, <1>4, <1>6, <1>7, <1>8, <1>9, <1>10 DEF Moved

\* The steps that must have been accepted before the one that is next.
NewlyRequired(u, n) == Required(u, n) \ Required(u, pc[u])

\* A step that ends well adds itself to them when it is a validated one; a step that
\* fails adds none.
LEMMA ResolveMoves ==
    ASSUME TypeOK, AtStep, NEW u \in Users, status[u] # "idle", NEW ok \in BOOLEAN, Resolve(u, ok)
    PROVE  /\ Moved(u)
           /\ \A i \in NewlyRequired(u, pc'[u]) : ok /\ i = pc[u] /\ At(u).kind = "validated"
<1>1. /\ Steps(u) \in Seq(StepRecord)
      /\ \A i, j \in DOMAIN Steps(u) :
             Steps(u)[i].skip # Abort /\ j \in i..(i + Steps(u)[i].skip) => Steps(u)[j].skip # Abort
  BY StepsType
<1>2. pc[u] \in DOMAIN Steps(u) /\ pc[u] \in Nat \ {0} /\ At(u) \in StepRecord
  BY <1>1 DEF AtStep, TypeOK, At
<1>3. UNCHANGED <<plan, calls>>
  BY DEF Resolve
<1>4. CASE ok
  <2>1. Proceed(u, Steps(u), pc[u] + 1)
    BY <1>4 DEF Resolve
  <2>2. Moved(u) /\ pc'[u] = pc[u] + 1
    BY <1>2, <1>3, <2>1, ProceedMoves
  <2>3. QED
    BY <1>1, <1>2, <1>4, <2>2 DEF NewlyRequired, Required, At
<1>5. CASE ~ok /\ At(u).skip # Abort
  <2>1. At(u).skip \in Nat
    BY <1>2, <1>5 DEF StepRecord
  <2>2. Proceed(u, Steps(u), pc[u] + 1 + At(u).skip)
    BY <1>5 DEF Resolve
  <2>3. Moved(u) /\ pc'[u] = pc[u] + 1 + At(u).skip
    BY <1>2, <1>3, <2>1, <2>2, ProceedMoves
  <2>4. ASSUME NEW i \in NewlyRequired(u, pc'[u])
        PROVE  FALSE
    <3>1. /\ i \in 1..(pc'[u] - 1) /\ i <= Len(Steps(u)) /\ Steps(u)[i].skip = Abort
          /\ ~(i \in 1..(pc[u] - 1))
      BY <2>4 DEF NewlyRequired, Required
    <3>2. i \in DOMAIN Steps(u) /\ i \in pc[u]..(pc[u] + At(u).skip)
      BY <1>1, <1>2, <2>1, <2>3, <3>1
    <3>3. QED
      BY <1>1, <1>2, <1>5, <3>1, <3>2 DEF At
  <2>5. QED
    BY <2>3, <2>4
<1>6. CASE ~ok /\ At(u).skip = Abort
  <2>1. /\ pc' = pc
        /\ status' = [status EXCEPT ![u] = "idle"]
        /\ result' = [result EXCEPT ![u] = "err"]
    BY <1>6 DEF Resolve
  <2>2. Moved(u)
    BY <1>2, <1>3, <2>1 DEF Moved, TypeOK
  <2>3. QED
    BY <2>1, <2>2 DEF NewlyRequired
<1>7. QED
  BY <1>4, <1>5, <1>6
-----------------------------------------------------------------------------
(* The link                                                                *)

\* What a step may do to user v without disturbing a request on its way: its position
\* grows, and it does not wait for something else.
Onward(v) ==
    /\ status'[v] = "waiting" => status[v] = "waiting" /\ calls'[v] = calls[v] /\ pc'[v] = pc[v]
    /\ \A e \in Request : e.user = v /\ Past(e) => Past(e)'

LEMMA OnwardWhenSame ==
    ASSUME NEW v \in Users, calls'[v] = calls[v], pc'[v] = pc[v], status'[v] = status[v]
    PROVE  Onward(v)
BY DEF Onward, Past

LEMMA OnwardWhenMoved ==
    ASSUME TypeOK, NEW u \in Users, Moved(u)
    PROVE  \A v \in Users : Onward(v)
<1>1. ASSUME NEW v \in Users, v # u
      PROVE  Onward(v)
  BY <1>1, OnwardWhenSame DEF Moved
<1>2. /\ calls'[u] = calls[u] /\ pc'[u] >= pc[u] /\ status'[u] \in {"idle", "ready"}
      /\ status'[u] = "ready" => pc'[u] > pc[u]
      /\ pc[u] \in Nat /\ pc'[u] \in Nat
  BY DEF Moved, TypeOK
<1>3. ASSUME NEW e \in Request, e.user = u, Past(e)
      PROVE  Past(e)'
  <2>1. e.step \in Nat
    BY <1>3 DEF Request
  <2>2. QED
    BY <1>2, <1>3, <2>1 DEF Past
<1>4. Onward(u)
  BY <1>2, <1>3 DEF Onward
<1>5. QED
  BY <1>1, <1>4

\* The link loses requests and keeps the order of the others.
Thinned ==
    \E f \in [DOMAIN link' -> DOMAIN link] :
        \A i, j \in DOMAIN link' : link'[i] = link[f[i]] /\ (i < j => f[i] < f[j])

LEMMA LinkType ==
    ASSUME TypeOK
    PROVE  /\ link \in Seq(Request) /\ Len(link) \in Nat /\ wire \in 0..Len(link)
           /\ \A i \in DOMAIN link : link[i] \in Request
           /\ DOMAIN link = 1..Len(link)
<1>1. link \in Seq(Request) /\ wire \in 0..Len(link)
  BY DEF TypeOK, Request
<1>2. QED
  BY <1>1

LEMMA Thinning ==
    ASSUME TypeOK, Tagged, Last, Thinned, \A v \in Users : Onward(v),
           strays' \subseteq strays \cup {link[i] : i \in DOMAIN link}
    PROVE  Tagged' /\ Last'
<1>1. PICK f \in [DOMAIN link' -> DOMAIN link] :
           \A i, j \in DOMAIN link' : link'[i] = link[f[i]] /\ (i < j => f[i] < f[j])
  BY DEF Thinned
<1>2. \A i \in DOMAIN link : link[i] \in Request /\ Past(link[i])
  BY LinkType DEF Tagged
<1>3. \A e \in strays : e \in Request /\ Past(e)
  BY DEF Tagged, TypeOK, Request
<1>4. \A e \in Request : Past(e) => Past(e)'
  BY DEF Onward, Request
<1>5. ASSUME NEW i \in DOMAIN link'
      PROVE  Past(link[i])'
  <2>1. link'[i] \in Request /\ Past(link'[i])
    BY <1>1, <1>2, <1>5
  <2>2. PICK e \in Request : e = link'[i] /\ Past(e)
    BY <2>1
  <2>3. Past(e)'
    BY <1>4, <2>2
  <2>4. QED
    BY <2>2, <2>3 DEF Past
<1>6. ASSUME NEW e \in strays'
      PROVE  Past(e)'
  <2>1. e \in Request /\ Past(e)
    BY <1>2, <1>3, <1>6
  <2>2. QED
    BY <1>4, <2>1
<1>7. Tagged'
  BY <1>5, <1>6 DEF Tagged
<1>8. ASSUME NEW i \in DOMAIN link', NEW j \in DOMAIN link',
             i < j, link'[j].user = link'[i].user, status'[link'[i].user] = "waiting"
      PROVE  link'[i] # [user |-> link'[i].user, call |-> calls'[link'[i].user], step |-> pc'[link'[i].user]]
  <2>1. /\ f[i] \in DOMAIN link /\ f[j] \in DOMAIN link /\ f[i] < f[j]
        /\ link'[i] = link[f[i]] /\ link'[j] = link[f[j]]
    BY <1>1, <1>8
  <2>2. link[f[i]].user \in Users
    BY <1>2, <2>1 DEF Request
  <2>3. link[f[i]] # Current(link[f[i]].user)
    BY <1>8, <2>1, <2>2 DEF Last, Onward
  <2>4. QED
    BY <1>8, <2>1, <2>2, <2>3 DEF Current, Onward
<1>9. Last'
  BY <1>8 DEF Last, Current
<1>10. QED
  BY <1>7, <1>9
-----------------------------------------------------------------------------
(* What the telescope has accepted                                         *)

Bound(u) == IF status[u] = "ready" THEN pc[u] - 1 ELSE pc[u]
Effects(u) == Required(u, pc[u]) \subseteq accepted[u] /\ accepted[u] \subseteq 1..Bound(u)

LEMMA EffectsEach == EffectsKnown <=> \A u \in Users : Effects(u)
BY DEF EffectsKnown, Effects, Bound

LEMMA EffectsWhenSame ==
    ASSUME NEW v \in Users, Effects(v), pc'[v] = pc[v], status'[v] = status[v], accepted'[v] = accepted[v],
           plan'[v] = plan[v]
    PROVE  Effects(v)'
BY DEF Effects, Bound, Required, Steps

\* After the end of a step.
LEMMA EffectsWhenMoved ==
    ASSUME TypeOK, AtStep, NEW u \in Users, status[u] # "idle", NEW ok \in BOOLEAN, Resolve(u, ok),
           Effects(u), accepted[u] \subseteq accepted'[u], accepted'[u] \subseteq 1..pc[u],
           ok /\ At(u).kind = "validated" => pc[u] \in accepted'[u]
    PROVE  Effects(u)'
<1>1. Moved(u) /\ \A i \in NewlyRequired(u, pc'[u]) : ok /\ i = pc[u] /\ At(u).kind = "validated"
  BY ResolveMoves
<1>2. Required(u, pc'[u]) \subseteq accepted'[u]
  BY <1>1 DEF NewlyRequired, Effects
<1>3. Required(u, pc[u])' = Required(u, pc'[u])
  BY <1>1 DEF Required, Steps, Moved
<1>4. accepted'[u] \subseteq 1..Bound(u)'
  BY <1>1 DEF Bound, Moved, TypeOK
<1>5. QED
  BY <1>2, <1>3, <1>4 DEF Effects

\* A step of the user ends, and the link stays as it is or becomes thinner.
LEMMA AfterResolve ==
    ASSUME IInv, NEW u \in Users, status[u] # "idle", NEW ok \in BOOLEAN, Resolve(u, ok),
           Thinned, strays' \subseteq strays \cup {link[i] : i \in DOMAIN link},
           accepted' \in [Users -> SUBSET Nat], \A v \in Users \ {u} : accepted'[v] = accepted[v],
           accepted[u] \subseteq accepted'[u], accepted'[u] \subseteq 1..pc[u],
           ok /\ At(u).kind = "validated" => pc[u] \in accepted'[u]
    PROVE  AtStep' /\ Tagged' /\ Last' /\ EffectsKnown'
<1>1. Moved(u)
  BY ResolveMoves DEF IInv
<1>2. AtStep'
  BY <1>1 DEF AtStep, Moved, IInv, Steps
<1>3. Tagged' /\ Last'
  BY <1>1, OnwardWhenMoved, Thinning DEF IInv
<1>4. \A v \in Users : Effects(v)
  BY EffectsEach DEF IInv
<1>5. Effects(u)'
  BY <1>4, EffectsWhenMoved DEF IInv
<1>6. ASSUME NEW v \in Users, v # u
      PROVE  Effects(v)'
  BY <1>1, <1>4, <1>6, EffectsWhenSame DEF Moved
<1>7. EffectsKnown'
  BY <1>5, <1>6 DEF EffectsKnown, Effects, Bound
<1>8. QED
  BY <1>2, <1>3, <1>7

\* The link moves and no user does.
LEMMA AfterLink ==
    ASSUME IInv, UNCHANGED userVars, Thinned, strays' \subseteq strays \cup {link[i] : i \in DOMAIN link},
           accepted' \in [Users -> SUBSET Nat],
           \A v \in Users : accepted[v] \subseteq accepted'[v] /\ accepted'[v] \subseteq 1..Bound(v)
    PROVE  AtStep' /\ Tagged' /\ Last' /\ EffectsKnown'
<1>1. AtStep'
  BY DEF AtStep, IInv, userVars, Steps
<1>2. Tagged' /\ Last'
  <2>1. \A v \in Users : Onward(v)
    BY OnwardWhenSame DEF userVars
  <2>2. QED
    BY <2>1, Thinning DEF IInv
<1>3. EffectsKnown'
  BY DEF IInv, EffectsKnown, Required, Steps, Bound, userVars
<1>4. QED
  BY <1>1, <1>2, <1>3

LEMMA SettledWhenThinned ==
    ASSUME Settled, Thinned, \A v \in Users : heard'[v] => heard[v]
    PROVE  Settled'
<1>1. PICK f \in [DOMAIN link' -> DOMAIN link] :
           \A i, j \in DOMAIN link' : link'[i] = link[f[i]] /\ (i < j => f[i] < f[j])
  BY DEF Thinned
<1>2. QED
  BY <1>1 DEF Settled

LEMMA ThinnedWhenSame ==
    ASSUME TypeOK, link' = link
    PROVE  Thinned
<1>1. [i \in DOMAIN link |-> i] \in [DOMAIN link' -> DOMAIN link]
  OBVIOUS
<1>2. QED
  BY <1>1 DEF Thinned
-----------------------------------------------------------------------------
(* Actions of a user                                                       *)

LEMMA CurrentType ==
    ASSUME TypeOK, NEW u \in Users
    PROVE  Current(u) \in Request
BY DEF TypeOK, Current, Request

LEMMA BeginKeeps ==
    ASSUME IInv, NEW u \in Users, NEW p \in Plans, Begin(u, p)
    PROVE  IInv'
<1>1. TypeOK /\ Programs[p] \in Seq(StepRecord) /\ calls[u] \in Nat /\ calls'[u] = calls[u] + 1
  BY DevicesAssumption DEF IInv, TypeOK, Begin
<1>2. /\ pc'[u] = 1 /\ accepted'[u] = {} /\ plan'[u] = p
      /\ status'[u] \in {"idle", "ready"}
      /\ status'[u] = "ready" => ~(1 > Len(Programs[p]))
  BY <1>1 DEF Begin, Proceed, TypeOK
<1>3. ASSUME NEW v \in Users, v # u
      PROVE  /\ calls'[v] = calls[v] /\ pc'[v] = pc[v] /\ status'[v] = status[v]
             /\ accepted'[v] = accepted[v] /\ plan'[v] = plan[v]
  BY <1>1, <1>3 DEF Begin, Proceed, TypeOK
<1>4. UNCHANGED <<heard, link, wire, strays, losses>>
  BY DEF Begin, linkVars
<1>5. TypeOK'
  <2>1. /\ plan' \in [Users -> Plans \cup {NoPlan}]
        /\ calls' \in [Users -> Nat]
        /\ accepted' \in [Users -> SUBSET Nat]
    BY <1>1 DEF Begin, TypeOK
  <2>2. pc' = [pc EXCEPT ![u] = 1] /\ pc' \in [Users -> Nat \ {0}]
    BY <1>1 DEF Begin, Proceed, TypeOK
  <2>3. /\ status' \in [Users -> {"idle", "ready", "waiting"}]
        /\ result' \in [Users -> {"none", "ok", "err"}]
    BY <1>1 DEF Begin, Proceed, TypeOK
  <2>4. QED
    BY <1>1, <1>4, <2>1, <2>2, <2>3 DEF TypeOK
<1>6. AtStep'
  <2>1. status'[u] = "ready" => 1 \in DOMAIN Programs[p]
    BY <1>1, <1>2
  <2>2. QED
    BY <1>2, <1>3, <2>1 DEF AtStep, Steps, IInv
<1>7. ASSUME NEW e \in Request, e.user = u, Past(e)
      PROVE  Past(e)'
  <2>1. e.call \in Nat /\ e.call <= calls[u]
    BY <1>1, <1>7 DEF Past, Request
  <2>2. QED
    BY <1>1, <1>7, <2>1 DEF Past
<1>8. \A v \in Users : Onward(v)
  BY <1>2, <1>3, <1>7, OnwardWhenSame DEF Onward
<1>9. Tagged' /\ Last'
  BY <1>1, <1>4, <1>8, ThinnedWhenSame, Thinning DEF IInv
<1>10. Settled'
  BY <1>4 DEF IInv, Settled
<1>11. Effects(u)'
  BY <1>2 DEF Effects, Required, Bound
<1>12. ASSUME NEW v \in Users, v # u
       PROVE  Effects(v)'
  BY <1>3, <1>12, EffectsEach, EffectsWhenSame DEF IInv
<1>13. EffectsKnown'
  BY <1>11, <1>12 DEF EffectsKnown, Effects, Bound
<1>14. QED
  BY <1>5, <1>6, <1>9, <1>10, <1>13 DEF IInv

\* A step ends with no answer: what it computed, a timeout or a disconnection.
LEMMA EndsUnanswered ==
    ASSUME IInv, NEW u \in Users, status[u] # "idle", NEW ok \in BOOLEAN, Resolve(u, ok),
           UNCHANGED <<heard, linkVars, accepted>>, ~(ok /\ At(u).kind = "validated")
    PROVE  IInv'
<1>1. Moved(u) /\ TypeOK
  BY ResolveMoves DEF IInv
<1>2. UNCHANGED <<heard, link, wire, strays, losses, accepted>>
  BY DEF linkVars
<1>3. TypeOK'
  BY <1>1, <1>2 DEF TypeOK, Moved
<1>4. Thinned
  BY <1>1, <1>2, ThinnedWhenSame
<1>5. accepted[u] \subseteq 1..pc[u]
  BY <1>1 DEF IInv, EffectsKnown, TypeOK
<1>6. AtStep' /\ Tagged' /\ Last' /\ EffectsKnown'
  BY <1>1, <1>2, <1>4, <1>5, AfterResolve DEF TypeOK
<1>7. Settled'
  BY <1>2 DEF IInv, Settled
<1>8. QED
  BY <1>3, <1>6, <1>7 DEF IInv

LEMMA LocalStepKeeps ==
    ASSUME IInv, NEW u \in Users, LocalStep(u)
    PROVE  IInv'
<1>1. status[u] # "idle" /\ At(u).kind # "validated" /\ UNCHANGED <<heard, linkVars, accepted>>
  BY DEF LocalStep
<1>2. PICK ok \in BOOLEAN : Resolve(u, ok)
  BY DEF LocalStep
<1>3. QED
  BY <1>1, <1>2, EndsUnanswered

LEMMA GiveUpKeeps ==
    ASSUME IInv, NEW u \in Users, GiveUp(u)
    PROVE  IInv'
<1>1. status[u] # "idle" /\ Resolve(u, FALSE) /\ UNCHANGED <<heard, linkVars, accepted>>
  BY DEF GiveUp
<1>2. QED
  BY <1>1, EndsUnanswered

LEMMA SendKeeps ==
    ASSUME IInv, NEW u \in Users, Send(u)
    PROVE  IInv'
<1> DEFINE new == Current(u)
<1>1. /\ TypeOK /\ status[u] = "ready"
      /\ link' = Append(link, new)
      /\ status' = [status EXCEPT ![u] = "waiting"]
      /\ heard' = [heard EXCEPT ![u] = FALSE]
      /\ UNCHANGED <<plan, pc, result, calls, wire, strays, losses, accepted>>
  BY DEF Send, IInv
<1>2. new \in Request /\ new.user = u /\ new.call = calls[u] /\ new.step = pc[u]
  BY <1>1, CurrentType DEF Current
<1>3. /\ link \in Seq(Request) /\ Len(link) \in Nat /\ wire \in 0..Len(link)
      /\ \A i \in DOMAIN link : link[i] \in Request
      /\ DOMAIN link = 1..Len(link)
  BY <1>1, LinkType
<1>4. /\ link' \in Seq(Request) /\ Len(link') = Len(link) + 1
      /\ DOMAIN link' = 1..(Len(link) + 1)
      /\ \A i \in DOMAIN link : link'[i] = link[i]
      /\ link'[Len(link) + 1] = new
  <2> HIDE DEF new
  <2>1. QED
    BY <1>1, <1>2, <1>3
<1>5. TypeOK'
  BY <1>1, <1>3, <1>4 DEF TypeOK, Request
<1>6. AtStep'
  BY <1>1 DEF AtStep, IInv, Steps, TypeOK
<1>7. \A e \in Request : Past(e) => Past(e)'
  BY <1>1 DEF Past, TypeOK, Request
<1>8. Tagged'
  <2>1. ASSUME NEW i \in DOMAIN link
        PROVE  Past(link[i])'
    <3>1. PICK e \in Request : e = link[i] /\ Past(e)
      BY <1>3, <2>1 DEF IInv, Tagged
    <3>2. Past(e)' /\ link'[i] = e
      BY <1>4, <1>7, <2>1, <3>1
    <3>3. QED
      BY <3>2 DEF Past
  <2>2. ASSUME NEW i \in DOMAIN link', i \notin DOMAIN link
        PROVE  Past(link[i])'
    <3>1. link'[i] = new
      BY <1>3, <1>4, <2>2
    <3>2. QED
      BY <1>1, <1>2, <3>1 DEF Past, TypeOK
  <2>3. QED
    BY <1>1, <1>7, <2>1, <2>2 DEF Tagged, IInv, TypeOK, Request
<1>9. ASSUME NEW i \in DOMAIN link, link[i] = new
      PROVE  FALSE
  <2>1. link[i].user = u /\ link[i].call = calls[u] /\ link[i].step = pc[u]
    BY <1>2, <1>9
  <2>2. Past(link[i]) /\ calls[u] \in Nat /\ pc[u] \in Nat
    BY <1>1 DEF IInv, Tagged, TypeOK
  <2>3. QED
    BY <1>1, <2>1, <2>2 DEF Past
<1>10. Last'
  <2>1. ASSUME NEW i \in DOMAIN link', NEW j \in DOMAIN link', i < j,
               link'[j].user = link'[i].user, status'[link'[i].user] = "waiting"
        PROVE  link'[i] # [user |-> link'[i].user, call |-> calls'[link'[i].user], step |-> pc'[link'[i].user]]
    <3>1. i \in DOMAIN link /\ link'[i] = link[i] /\ link[i] \in Request
      BY <1>3, <1>4, <2>1
    <3>2. CASE link[i].user = u
      BY <1>1, <1>9, <3>1, <3>2 DEF Current
    <3>3. CASE link[i].user # u
      <4>1. j \in DOMAIN link /\ link'[j] = link[j]
        BY <1>2, <1>3, <1>4, <2>1, <3>1, <3>3
      <4>2. status[link[i].user] = "waiting"
        BY <1>1, <2>1, <3>1, <3>3 DEF TypeOK, Request
      <4>3. link[i] # Current(link[i].user)
        BY <2>1, <3>1, <4>1, <4>2 DEF IInv, Last
      <4>4. QED
        BY <1>1, <3>1, <4>3 DEF Current
    <3>4. QED
      BY <3>2, <3>3
  <2>2. QED
    BY <2>1 DEF Last, Current
<1>11. Settled'
  <2>1. ASSUME NEW v \in Users, heard'[v], NEW i \in DOMAIN link'
        PROVE  link'[i].user # v
    <3>1. v # u /\ heard[v]
      BY <1>1, <2>1 DEF TypeOK
    <3>2. CASE i \in DOMAIN link
      BY <1>4, <3>1, <3>2 DEF IInv, Settled
    <3>3. CASE i \notin DOMAIN link
      BY <1>2, <1>3, <1>4, <2>1, <3>1, <3>3
    <3>4. QED
      BY <3>2, <3>3
  <2>2. QED
    BY <2>1 DEF Settled
<1>12. EffectsKnown'
  <2>1. \A v \in Users : accepted[v] \subseteq 1..Bound(v)'
    BY <1>1 DEF IInv, EffectsKnown, Bound, TypeOK
  <2>2. \A v \in Users : Required(v, pc[v])' = Required(v, pc[v])
    BY <1>1 DEF Required, Steps
  <2>3. QED
    BY <1>1, <2>1, <2>2 DEF IInv, EffectsKnown, Bound
<1>13. QED
  BY <1>5, <1>6, <1>8, <1>10, <1>11, <1>12 DEF IInv

-----------------------------------------------------------------------------
(* Actions of the connection                                               *)

LEMMA TakeKeeps ==
    ASSUME IInv, Take
    PROVE  IInv'
<1>1. TypeOK /\ UNCHANGED <<userVars, heard, link, strays, losses, accepted>>
      /\ Channel > 0 /\ wire' = wire + 1
  BY DEF IInv, Take
<1>2. wire' \in 0..Len(link')
  BY <1>1, LinkType DEF Channel
<1>3. TypeOK'
  BY <1>1, <1>2 DEF TypeOK, userVars
<1>4. AtStep' /\ Settled' /\ EffectsKnown'
  BY <1>1 DEF IInv, AtStep, Settled, EffectsKnown, Required, Steps, userVars
<1>5. Tagged' /\ Last'
  BY <1>1 DEF IInv, Tagged, Past, Last, Current, userVars
<1>6. QED
  BY <1>3, <1>4, <1>5 DEF IInv

\* What an acceptance adds is a step that the user has got to.
LEMMA EffectType ==
    ASSUME TypeOK, EffectsKnown, NEW e \in Request, Past(e), NEW accept \in BOOLEAN, Effect(e, accept)
    PROVE  /\ accepted' \in [Users -> SUBSET Nat]
           /\ \A v \in Users \ {e.user} : accepted'[v] = accepted[v]
           /\ \A v \in Users : accepted[v] \subseteq accepted'[v]
           /\ \A v \in Users : accepted'[v] \subseteq accepted[v] \cup 1..Bound(v)
<1>1. e.user \in Users /\ e.call \in Nat /\ e.step \in Nat \ {0} /\ calls[e.user] \in Nat /\ pc[e.user] \in Nat
  BY DEF Request, TypeOK
<1>2. e.call = calls[e.user] => e.step \in 1..Bound(e.user)
  BY <1>1 DEF Past, Bound
<1>3. \/ accepted' = [accepted EXCEPT ![e.user] = @ \cup {e.step}] /\ e.call = calls[e.user]
      \/ accepted' = [accepted EXCEPT ![e.user] = @]
  BY DEF Effect
<1>4. CASE accepted' = [accepted EXCEPT ![e.user] = @ \cup {e.step}] /\ e.call = calls[e.user]
  <2>1. accepted' \in [Users -> SUBSET Nat]
    BY <1>1, <1>4 DEF TypeOK
  <2>2. accepted'[e.user] = accepted[e.user] \cup {e.step} /\ \A v \in Users \ {e.user} : accepted'[v] = accepted[v]
    BY <1>1, <1>4 DEF TypeOK
  <2>3. QED
    BY <1>1, <1>2, <1>4, <2>1, <2>2
<1>5. CASE accepted' = [accepted EXCEPT ![e.user] = @]
  <2>1. accepted' = accepted
    BY <1>1, <1>5 DEF TypeOK
  <2>2. QED
    BY <2>1 DEF TypeOK
<1>6. QED
  BY <1>3, <1>4, <1>5

LEMMA TailThins ==
    ASSUME TypeOK, wire > 0, link' = Tail(link)
    PROVE  Thinned /\ link' \in Seq(Request) /\ Len(link') = Len(link) - 1 /\ DOMAIN link' = 1..(Len(link) - 1)
           /\ \A i \in DOMAIN link' : link'[i] = link[i + 1] /\ i + 1 \in DOMAIN link
<1>1. link \in Seq(Request) /\ Len(link) \in Nat /\ wire \in 0..Len(link) /\ DOMAIN link = 1..Len(link)
  BY LinkType
<1>2. /\ link' \in Seq(Request) /\ Len(link') = Len(link) - 1 /\ DOMAIN link' = 1..(Len(link) - 1)
      /\ \A i \in DOMAIN link' : link'[i] = link[i + 1] /\ i + 1 \in DOMAIN link
  BY <1>1
<1>3. PICK f \in [DOMAIN link' -> DOMAIN link] : f = [i \in DOMAIN link' |-> i + 1]
  BY <1>2
<1>4. \A i, j \in DOMAIN link' : link'[i] = link[f[i]] /\ (i < j => f[i] < f[j])
  BY <1>2, <1>3
<1>5. Thinned
  BY <1>3, <1>4 DEF Thinned
<1>6. QED
  BY <1>2, <1>5

LEMMA ExecuteKeeps ==
    ASSUME IInv, Execute
    PROVE  IInv'
<1> DEFINE e == link[1]
<1>1. /\ TypeOK /\ wire > 0 /\ wire' = wire - 1 /\ link' = Tail(link)
      /\ UNCHANGED <<strays, losses>>
  BY DEF IInv, Execute
<1>2. PICK accept \in BOOLEAN :
          Effect(e, accept) /\ (Answered(e, accept) \/ UNCHANGED <<userVars, heard>>)
  BY DEF Execute
<1>3. Thinned /\ link' \in Seq(Request) /\ Len(link') = Len(link) - 1 /\ DOMAIN link' = 1..(Len(link) - 1)
      /\ \A i \in DOMAIN link' : link'[i] = link[i + 1] /\ i + 1 \in DOMAIN link
  BY <1>1, TailThins
<1>4. 1 \in DOMAIN link /\ e \in Request /\ Past(e) /\ wire' \in 0..Len(link')
  BY <1>1, <1>3, LinkType DEF IInv, Tagged
<1>5. /\ accepted' \in [Users -> SUBSET Nat]
      /\ \A v \in Users \ {e.user} : accepted'[v] = accepted[v]
      /\ \A v \in Users : accepted[v] \subseteq accepted'[v]
      /\ \A v \in Users : accepted'[v] \subseteq accepted[v] \cup 1..Bound(v)
  BY <1>2, <1>4, EffectType DEF IInv
<1>6. \A v \in Users : accepted'[v] \subseteq 1..Bound(v)
  BY <1>5 DEF IInv, EffectsKnown, Bound
<1>7. link' \in Seq(Request) /\ wire' \in 0..Len(link') /\ strays' \subseteq Request /\ losses' \in Nat
  BY <1>1, <1>3, <1>4 DEF TypeOK, Request
<1>8. CASE UNCHANGED <<userVars, heard>>
  <2>1. TypeOK'
    BY <1>1, <1>5, <1>7, <1>8 DEF TypeOK, userVars, Request
  <2>2. AtStep' /\ Tagged' /\ Last' /\ EffectsKnown'
    BY <1>1, <1>3, <1>5, <1>6, <1>8, AfterLink
  <2>3. Settled'
    BY <1>3, <1>8, SettledWhenThinned DEF IInv
  <2>4. QED
    BY <2>1, <2>2, <2>3 DEF IInv
<1>9. CASE status[e.user] = "waiting" /\ e = Current(e.user) /\ Answered(e, accept)
  <2> DEFINE u == e.user
             ok == accept \/ At(u).kind = "sent"
  <2>1. u \in Users /\ ok \in BOOLEAN /\ Resolve(u, ok) /\ heard' = [heard EXCEPT ![u] = TRUE]
    BY <1>4, <1>9 DEF Answered, Request
  <2>2. Moved(u)
    BY <1>1, <1>9, <2>1, ResolveMoves DEF IInv
  <2>3. TypeOK'
    <3>1. heard' \in [Users -> BOOLEAN]
      BY <1>1, <2>1 DEF TypeOK
    <3>2. QED
      BY <1>1, <1>5, <1>7, <2>2, <3>1 DEF TypeOK, Moved, Request
  <2>4. accepted'[u] \subseteq 1..pc[u]
    BY <1>6, <1>9, <2>1 DEF Bound
  <2>5. ASSUME ok, At(u).kind = "validated"
        PROVE  pc[u] \in accepted'[u]
    <3>1. accept
      BY <2>5
    <3>2. e.call = calls[u] /\ e.step = pc[u]
      BY <1>9 DEF Current
    <3>3. QED
      BY <1>1, <1>2, <2>1, <3>1, <3>2 DEF Effect, TypeOK
  <2>6. AtStep' /\ Tagged' /\ Last' /\ EffectsKnown'
    <3> HIDE DEF ok, u
    <3>1. u = e.user
      BY DEF u
    <3>2. QED
      BY <1>1, <1>3, <1>5, <1>9, <2>1, <2>4, <2>5, <3>1, AfterResolve
  <2>7. Settled'
    <3>1. ASSUME NEW v \in Users, heard'[v], NEW i \in DOMAIN link'
          PROVE  link'[i].user # v
      <4>1. link'[i] = link[i + 1] /\ i + 1 \in DOMAIN link /\ 1 < i + 1
        BY <1>3, <3>1
      <4>2. CASE v = u
        BY <1>4, <1>9, <4>1, <4>2 DEF IInv, Last
      <4>3. CASE v # u
        BY <1>1, <2>1, <3>1, <4>1, <4>3 DEF IInv, Settled, TypeOK
      <4>4. QED
        BY <4>2, <4>3
    <3>2. QED
      BY <3>1 DEF Settled
  <2>8. QED
    BY <2>3, <2>6, <2>7 DEF IInv
<1>10. QED
  BY <1>2, <1>8, <1>9 DEF Answered

LEMMA DisconnectKeeps ==
    ASSUME IInv, Disconnect
    PROVE  IInv'
<1>1. /\ TypeOK /\ losses' = losses + 1 /\ wire' = 0
      /\ link' = SubSeq(link, wire + 1, Len(link))
      /\ strays' \subseteq strays \cup {link[i] : i \in 1..wire}
      /\ UNCHANGED <<userVars, heard, accepted>>
  BY DEF IInv, Disconnect
<1>2. link \in Seq(Request) /\ Len(link) \in Nat /\ wire \in 0..Len(link) /\ DOMAIN link = 1..Len(link)
      /\ \A i \in DOMAIN link : link[i] \in Request
  BY <1>1, LinkType
<1>3. /\ link' \in Seq(Request) /\ Len(link') = Len(link) - wire /\ DOMAIN link' = 1..(Len(link) - wire)
      /\ \A i \in DOMAIN link' : link'[i] = link[i + wire] /\ i + wire \in DOMAIN link
  <2> DEFINE m == wire + 1
             n == Len(link)
  <2>1. m \in Int /\ n \in Int /\ \A i \in m..n : link[i] \in Request
    BY <1>2
  <2>2. /\ link' \in Seq(Request) /\ Len(link') = (IF m <= n THEN n - m + 1 ELSE 0)
        /\ \A i \in 1..(n - m + 1) : link'[i] = link[m + i - 1]
    <3>1. link' = SubSeq(link, m, n)
      BY <1>1
    <3> HIDE DEF m, n
    <3>2. QED
      BY <2>1, <3>1, SubSeqProperties
  <2>3. Len(link') = Len(link) - wire
    BY <1>2, <2>2
  <2>4. DOMAIN link' = 1..(Len(link) - wire)
    BY <2>2, <2>3
  <2>5. ASSUME NEW i \in 1..(Len(link) - wire)
        PROVE  link'[i] = link[i + wire] /\ i + wire \in DOMAIN link
    <3>1. i \in 1..(n - m + 1) /\ m + i - 1 = i + wire /\ i + wire \in 1..Len(link)
      BY <1>2, <2>5
    <3>2. link'[i] = link[m + i - 1]
      BY <2>2, <3>1
    <3>3. QED
      BY <1>2, <3>1, <3>2
  <2> HIDE DEF m, n
  <2>6. QED
    BY <2>2, <2>3, <2>4, <2>5
<1>4. Thinned
  <2>1. PICK f \in [DOMAIN link' -> DOMAIN link] : f = [i \in DOMAIN link' |-> i + wire]
    BY <1>3
  <2>2. \A i, j \in DOMAIN link' : link'[i] = link[f[i]] /\ (i < j => f[i] < f[j])
    BY <1>2, <1>3, <2>1
  <2>3. QED
    BY <2>1, <2>2 DEF Thinned
<1>5. strays' \subseteq strays \cup {link[i] : i \in DOMAIN link}
  BY <1>1, <1>2
<1>6. TypeOK'
  <2>1. strays' \subseteq Request
    BY <1>1, <1>2, <1>5 DEF TypeOK, Request
  <2>2. losses' \in Nat
    BY <1>1 DEF TypeOK
  <2>3. wire' \in 0..Len(link')
    <3>1. Len(link') \in Nat
      BY <1>2, <1>3
    <3>2. wire' = 0
      BY <1>1
    <3>3. QED
      BY <3>1, <3>2
  <2>4. QED
    BY <1>1, <1>3, <2>1, <2>2, <2>3 DEF TypeOK, userVars, Request
<1>7. AtStep' /\ Tagged' /\ Last' /\ EffectsKnown'
  BY <1>1, <1>4, <1>5, AfterLink DEF TypeOK, IInv, EffectsKnown, Bound
<1>8. Settled'
  BY <1>1, <1>4, SettledWhenThinned DEF IInv
<1>9. QED
  BY <1>6, <1>7, <1>8 DEF IInv

LEMMA TakenByFormerWriterKeeps ==
    ASSUME IInv, TakenByFormerWriter
    PROVE  IInv'
<1>1. /\ TypeOK /\ Channel > 0
      /\ strays' = strays \cup {link[wire + 1]}
      /\ link' = [i \in 1..(Len(link) - 1) |-> IF i <= wire THEN link[i] ELSE link[i + 1]]
      /\ UNCHANGED <<userVars, heard, wire, losses, accepted>>
  BY DEF IInv, TakenByFormerWriter
<1>2. link \in Seq(Request) /\ Len(link) \in Nat /\ wire \in 0..Len(link) /\ DOMAIN link = 1..Len(link)
      /\ \A i \in DOMAIN link : link[i] \in Request
  BY <1>1, LinkType
<1>3. Len(link) > wire
  BY <1>1, <1>2 DEF Channel
<1>4. \A i \in 1..(Len(link) - 1) : i \in DOMAIN link /\ i + 1 \in DOMAIN link /\ link'[i] \in Request
  BY <1>1, <1>2
<1>5. link' \in Seq(Request) /\ Len(link') = Len(link) - 1 /\ DOMAIN link' = 1..(Len(link) - 1)
  <2>1. Len(link) - 1 \in Nat
    BY <1>2, <1>3
  <2>2. link' \in [1..(Len(link) - 1) -> Request]
    BY <1>1, <1>4
  <2>3. QED
    BY <2>1, <2>2
<1>6. Thinned
  <2>1. PICK f \in [DOMAIN link' -> DOMAIN link] : f = [i \in DOMAIN link' |-> IF i <= wire THEN i ELSE i + 1]
    BY <1>4, <1>5
  <2>2. \A i, j \in DOMAIN link' : link'[i] = link[f[i]] /\ (i < j => f[i] < f[j])
    BY <1>1, <1>2, <1>5, <2>1
  <2>3. QED
    BY <2>1, <2>2 DEF Thinned
<1>7. strays' \subseteq strays \cup {link[i] : i \in DOMAIN link}
  BY <1>1, <1>2, <1>3
<1>8. wire' \in 0..Len(link')
  BY <1>1, <1>2, <1>3, <1>5
<1>9. TypeOK'
  <2>1. strays' \subseteq Request
    BY <1>1, <1>2, <1>7 DEF TypeOK, Request
  <2>2. QED
    BY <1>1, <1>5, <1>8, <2>1 DEF TypeOK, userVars, Request
<1>10. AtStep' /\ Tagged' /\ Last' /\ EffectsKnown'
  BY <1>1, <1>6, <1>7, AfterLink DEF TypeOK, IInv, EffectsKnown, Bound
<1>11. Settled'
  BY <1>1, <1>6, SettledWhenThinned DEF IInv
<1>12. QED
  BY <1>9, <1>10, <1>11 DEF IInv

LEMMA StrayEndsKeeps ==
    ASSUME IInv, NEW e \in strays, StrayEnds(e)
    PROVE  IInv'
<1>1. /\ TypeOK /\ strays' \subseteq strays /\ e \in Request /\ Past(e)
      /\ UNCHANGED <<userVars, heard, link, wire, losses>>
  BY DEF IInv, StrayEnds, Tagged, TypeOK, Request
<1>2. Effect(e, TRUE) \/ accepted' = accepted
  BY DEF StrayEnds
<1>3. /\ accepted' \in [Users -> SUBSET Nat]
      /\ \A v \in Users : accepted[v] \subseteq accepted'[v]
      /\ \A v \in Users : accepted'[v] \subseteq accepted[v] \cup 1..Bound(v)
  <2>1. CASE Effect(e, TRUE)
    BY <1>1, <2>1, EffectType DEF IInv
  <2>2. CASE accepted' = accepted
    BY <1>1, <2>2 DEF TypeOK
  <2>3. QED
    BY <1>2, <2>1, <2>2
<1>4. \A v \in Users : accepted'[v] \subseteq 1..Bound(v)
  BY <1>3 DEF IInv, EffectsKnown, Bound
<1>5. TypeOK'
  BY <1>1, <1>3 DEF TypeOK, userVars
<1>6. Thinned
  BY <1>1, ThinnedWhenSame
<1>7. AtStep' /\ Tagged' /\ Last' /\ EffectsKnown'
  BY <1>1, <1>3, <1>4, <1>6, AfterLink
<1>8. Settled'
  BY <1>1 DEF IInv, Settled
<1>9. QED
  BY <1>5, <1>7, <1>8 DEF IInv

-----------------------------------------------------------------------------
(* The theorems                                                            *)

LEMMA InitHolds ==
    ASSUME Init
    PROVE  IInv
<1>1. TypeOK
  BY DEF Init, TypeOK, NoPlan
<1>2. AtStep /\ Tagged /\ Last /\ Settled
  BY DEF Init, AtStep, Tagged, Last, Settled
<1>3. EffectsKnown
  <2>1. \A u \in Users : pc[u] = 1 /\ accepted[u] = {}
    BY DEF Init
  <2>2. \A u \in Users : Required(u, 1) = {}
    BY DEF Required
  <2>3. QED
    BY <2>1, <2>2 DEF EffectsKnown
<1>4. QED
  BY <1>1, <1>2, <1>3 DEF IInv

LEMMA StutterKeeps ==
    ASSUME IInv, UNCHANGED vars
    PROVE  IInv'
<1>1. UNCHANGED <<plan, status, pc, result, calls, heard, link, wire, strays, losses, accepted>>
  BY DEF vars, userVars, linkVars
<1>2. TypeOK' /\ AtStep' /\ Settled'
  BY <1>1 DEF IInv, TypeOK, AtStep, Settled, Steps
<1>3. Tagged' /\ Last'
  BY <1>1 DEF IInv, Tagged, Past, Last, Current
<1>4. EffectsKnown'
  BY <1>1 DEF IInv, EffectsKnown, Required, Steps
<1>5. QED
  BY <1>2, <1>3, <1>4 DEF IInv

LEMMA NextKeeps ==
    ASSUME IInv, [Next]_vars
    PROVE  IInv'
<1>1. ASSUME NEW u \in Users, User(u)
      PROVE  IInv'
  BY <1>1, BeginKeeps, LocalStepKeeps, SendKeeps, GiveUpKeeps DEF User
<1>2. CASE Take
  BY <1>2, TakeKeeps
<1>3. CASE Execute
  BY <1>3, ExecuteKeeps
<1>4. CASE Disconnect
  BY <1>4, DisconnectKeeps
<1>5. CASE TakenByFormerWriter
  BY <1>5, TakenByFormerWriterKeeps
<1>6. ASSUME NEW e \in strays, StrayEnds(e)
      PROVE  IInv'
  BY <1>6, StrayEndsKeeps
<1>7. CASE Done \/ UNCHANGED vars
  BY <1>7, StutterKeeps DEF Done
<1>8. QED
  BY <1>1, <1>2, <1>3, <1>4, <1>5, <1>6, <1>7 DEF Next

\* The inductive invariant: every request on its way is one its user has got past.
THEOREM Inductive == Spec => []IInv
<1>1. Init => IInv
  BY InitHolds
<1>2. IInv /\ [Next]_vars => IInv'
  BY NextKeeps
<1>3. QED
  BY <1>1, <1>2, PTL DEF Spec

\* The state of Devices has its type, whatever the users ask for.
THEOREM TypeCorrect == Spec => []TypeOK
<1>1. IInv => TypeOK
  BY DEF IInv
<1>2. QED
  BY <1>1, Inductive, PTL

\* control.rs:337: a user that has its last answer has nothing more on the link, for any
\* number of users, losses and requests.
THEOREM AnswersSettle == Spec => []Settled
<1>1. IInv => Settled
  BY DEF IInv
<1>2. QED
  BY <1>1, Inductive, PTL

\* camera.rs:51: what an operation of several commands leaves in force is known from
\* where it ended, for any programs.
THEOREM EffectsAreKnown == Spec => []EffectsKnown
<1>1. IInv => EffectsKnown
  BY DEF IInv
<1>2. QED
  BY <1>1, Inductive, PTL
=============================================================================
