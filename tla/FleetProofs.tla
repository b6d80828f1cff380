---------------------------- MODULE FleetProofs ----------------------------
(***************************************************************************)
(* Fleet for any telescopes, tasks and bounds: its type invariant,         *)
(* ShutWhenUnowned and EventsOnceInOrder.                                  *)
(***************************************************************************)
EXTENDS Fleet, FiniteSetTheorems, TLAPS

\* The owners of client c among those that f says what they own.
Owning(f, c) == {x \in DOMAIN f : f[x] = c}
Count(f, c) == Cardinality(Owning(f, c))

ManagerTypes ==
    /\ created \in 0..MaxClients
    /\ addr \in [Clients -> Addresses \cup {None}]
    /\ \A c \in 1..created : addr[c] \in Addresses
    /\ refs \in [Clients -> Nat]
    /\ shut \in [Clients -> BOOLEAN]
    /\ backends \in [Addresses -> 0..created]
    /\ hand \in [Adders -> 0..created]
    /\ held \in [Holders -> 0..created]
    /\ reached \subseteq 1..created

\* The strong count of a client is the number of those that own it, and its shutdown
\* has been sent exactly if that number is zero or disconnect_all has found it.
BackendCount == [c \in Clients |-> Count(backends, c)]
HandCount == [c \in Clients |-> Count(hand, c)]
HeldCount == [c \in Clients |-> Count(held, c)]
RefInv == \A c \in Clients : refs[c] = BackendCount[c] + HandCount[c] + HeldCount[c]
ShutInv ==
    /\ \A c \in 1..created : shut[c] <=> refs[c] = 0 \/ c \in reached
    /\ \A c \in Clients : c > created => ~shut[c]
OwnerInv == ManagerTypes /\ RefInv /\ ShutInv

LEMMA Bounded == MaxClients \in Nat
BY FleetAssumption

-----------------------------------------------------------------------------
(* Counting owners                                                         *)

LEMMA CountNat ==
    ASSUME NEW S, IsFiniteSet(S), NEW T, NEW f \in [S -> T], NEW c
    PROVE  /\ IsFiniteSet(Owning(f, c))
           /\ Count(f, c) \in Nat
           /\ Count(f, c) = 0 <=> \A x \in S : f[x] # c
<1>1. Owning(f, c) \in SUBSET S
  BY DEF Owning
<1>2. IsFiniteSet(Owning(f, c))
  BY <1>1, FS_Subset
<1>3. Cardinality(Owning(f, c)) = 0 <=> Owning(f, c) = {}
  BY <1>2, FS_EmptySet
<1>4. QED
  BY <1>2, <1>3, FS_CardinalityType DEF Count, Owning

\* What one assignment does to the count of an owner.
LEMMA CountMoves ==
    ASSUME NEW S, IsFiniteSet(S), NEW T, NEW f \in [S -> T], NEW x \in S, NEW v, NEW c,
           NEW g, DOMAIN g = S, g[x] = v, \A y \in S : y # x => g[y] = f[y]
    PROVE  /\ v = c /\ f[x] # c => Count(g, c) = Count(f, c) + 1
           /\ v # c /\ f[x] = c => Count(g, c) = Count(f, c) - 1
           /\ (v = c <=> f[x] = c) => Count(g, c) = Count(f, c)
<1>0. IsFiniteSet(Owning(f, c))
  BY CountNat, Zenon
<1>1. IsFiniteSet(Owning(f, c)) /\ (x \in Owning(f, c) <=> f[x] = c)
  BY <1>0 DEF Owning
<1>2. CASE v = c
  <2>1. Owning(g, c) = Owning(f, c) \cup {x}
    BY <1>2 DEF Owning
  <2>2. QED
    BY <1>1, <1>2, <2>1, FS_AddElement DEF Count
<1>3. CASE v # c
  <2>1. Owning(g, c) = Owning(f, c) \ {x}
    BY <1>3 DEF Owning
  <2>2. QED
    BY <1>1, <1>3, <2>1, FS_RemoveElement DEF Count
<1>4. QED
  BY <1>2, <1>3

LEMMA BackendCounts ==
    ASSUME ManagerTypes
    PROVE  /\ BackendCount \in [Clients -> Nat]
           /\ \A c \in Clients : BackendCount[c] = 0 <=> \A a \in Addresses : backends[a] # c
<1>1. IsFiniteSet(Addresses) /\ backends \in [Addresses -> 0..created]
  BY FleetAssumption DEF ManagerTypes
<1>2. \A c : Count(backends, c) \in Nat /\ (Count(backends, c) = 0 <=> \A a \in Addresses : backends[a] # c)
  BY <1>1, CountNat, Zenon
<1>3. QED
  BY <1>2, Zenon DEF BackendCount

LEMMA BackendMoves ==
    ASSUME ManagerTypes, NEW a \in Addresses, NEW v,
           DOMAIN backends' = Addresses, backends'[a] = v, \A y \in Addresses : y # a => backends'[y] = backends[y]
    PROVE  \A c \in Clients :
              BackendCount'[c] = BackendCount[c] + (IF v = c THEN 1 ELSE 0) - (IF backends[a] = c THEN 1 ELSE 0)
<1>1. IsFiniteSet(Addresses) /\ backends \in [Addresses -> 0..created]
  BY FleetAssumption DEF ManagerTypes
<1>2. ASSUME NEW c
      PROVE  /\ v = c /\ backends[a] # c => Count(backends', c) = Count(backends, c) + 1
             /\ v # c /\ backends[a] = c => Count(backends', c) = Count(backends, c) - 1
             /\ (v = c <=> backends[a] = c) => Count(backends', c) = Count(backends, c)
  BY <1>1, CountMoves
<1>3. \A c \in Clients : BackendCount[c] = Count(backends, c) /\ BackendCount'[c] = Count(backends', c)
  BY Zenon DEF BackendCount, Clients
<1>4. \A c \in Clients :
         /\ v = c /\ backends[a] # c => BackendCount'[c] = BackendCount[c] + 1
         /\ v # c /\ backends[a] = c => BackendCount'[c] = BackendCount[c] - 1
         /\ (v = c <=> backends[a] = c) => BackendCount'[c] = BackendCount[c]
  BY <1>2, <1>3, Zenon
<1>5. BackendCount \in [Clients -> Nat]
  BY BackendCounts
<1>6. QED
  BY <1>4, <1>5

LEMMA BackendStays == backends' = backends => BackendCount' = BackendCount
BY DEF BackendCount, Clients

LEMMA HandCounts ==
    ASSUME ManagerTypes
    PROVE  /\ HandCount \in [Clients -> Nat]
           /\ \A c \in Clients : HandCount[c] = 0 <=> \A t \in Adders : hand[t] # c
<1>1. IsFiniteSet(Adders) /\ hand \in [Adders -> 0..created]
  BY FleetAssumption DEF ManagerTypes
<1>2. \A c : Count(hand, c) \in Nat /\ (Count(hand, c) = 0 <=> \A t \in Adders : hand[t] # c)
  BY <1>1, CountNat, Zenon
<1>3. QED
  BY <1>2, Zenon DEF HandCount

LEMMA HandMoves ==
    ASSUME ManagerTypes, NEW t \in Adders, NEW v,
           DOMAIN hand' = Adders, hand'[t] = v, \A y \in Adders : y # t => hand'[y] = hand[y]
    PROVE  \A c \in Clients :
              HandCount'[c] = HandCount[c] + (IF v = c THEN 1 ELSE 0) - (IF hand[t] = c THEN 1 ELSE 0)
<1>1. IsFiniteSet(Adders) /\ hand \in [Adders -> 0..created]
  BY FleetAssumption DEF ManagerTypes
<1>2. ASSUME NEW c
      PROVE  /\ v = c /\ hand[t] # c => Count(hand', c) = Count(hand, c) + 1
             /\ v # c /\ hand[t] = c => Count(hand', c) = Count(hand, c) - 1
             /\ (v = c <=> hand[t] = c) => Count(hand', c) = Count(hand, c)
  BY <1>1, CountMoves
<1>3. \A c \in Clients : HandCount[c] = Count(hand, c) /\ HandCount'[c] = Count(hand', c)
  BY Zenon DEF HandCount, Clients
<1>4. \A c \in Clients :
         /\ v = c /\ hand[t] # c => HandCount'[c] = HandCount[c] + 1
         /\ v # c /\ hand[t] = c => HandCount'[c] = HandCount[c] - 1
         /\ (v = c <=> hand[t] = c) => HandCount'[c] = HandCount[c]
  BY <1>2, <1>3, Zenon
<1>5. HandCount \in [Clients -> Nat]
  BY HandCounts
<1>6. QED
  BY <1>4, <1>5

LEMMA HandStays == hand' = hand => HandCount' = HandCount
BY DEF HandCount, Clients

LEMMA HeldCounts ==
    ASSUME ManagerTypes
    PROVE  /\ HeldCount \in [Clients -> Nat]
           /\ \A c \in Clients : HeldCount[c] = 0 <=> \A h \in Holders : held[h] # c
<1>1. IsFiniteSet(Holders) /\ held \in [Holders -> 0..created]
  BY FleetAssumption DEF ManagerTypes
<1>2. \A c : Count(held, c) \in Nat /\ (Count(held, c) = 0 <=> \A h \in Holders : held[h] # c)
  BY <1>1, CountNat, Zenon
<1>3. QED
  BY <1>2, Zenon DEF HeldCount

LEMMA HeldMoves ==
    ASSUME ManagerTypes, NEW h \in Holders, NEW v,
           DOMAIN held' = Holders, held'[h] = v, \A y \in Holders : y # h => held'[y] = held[y]
    PROVE  \A c \in Clients :
              HeldCount'[c] = HeldCount[c] + (IF v = c THEN 1 ELSE 0) - (IF held[h] = c THEN 1 ELSE 0)
<1>1. IsFiniteSet(Holders) /\ held \in [Holders -> 0..created]
  BY FleetAssumption DEF ManagerTypes
<1>2. ASSUME NEW c
      PROVE  /\ v = c /\ held[h] # c => Count(held', c) = Count(held, c) + 1
             /\ v # c /\ held[h] = c => Count(held', c) = Count(held, c) - 1
             /\ (v = c <=> held[h] = c) => Count(held', c) = Count(held, c)
  BY <1>1, CountMoves
<1>3. \A c \in Clients : HeldCount[c] = Count(held, c) /\ HeldCount'[c] = Count(held', c)
  BY Zenon DEF HeldCount, Clients
<1>4. \A c \in Clients :
         /\ v = c /\ held[h] # c => HeldCount'[c] = HeldCount[c] + 1
         /\ v # c /\ held[h] = c => HeldCount'[c] = HeldCount[c] - 1
         /\ (v = c <=> held[h] = c) => HeldCount'[c] = HeldCount[c]
  BY <1>2, <1>3, Zenon
<1>5. HeldCount \in [Clients -> Nat]
  BY HeldCounts
<1>6. QED
  BY <1>4, <1>5

LEMMA HeldStays == held' = held => HeldCount' = HeldCount
BY DEF HeldCount, Clients

-----------------------------------------------------------------------------
(* Owners and shutdown                                                     *)

LEMMA OwnerInit == Init => OwnerInv
<1> SUFFICES ASSUME Init PROVE OwnerInv
  OBVIOUS
<1> USE Bounded
<1>1. ManagerTypes
  BY DEF Init, ManagerTypes, Clients, None
<1>2. RefInv
  <2>1. \A c \in Clients :
           /\ \A a \in Addresses : backends[a] # c
           /\ \A t \in Adders : hand[t] # c
           /\ \A h \in Holders : held[h] # c
    BY DEF Init, Clients, None
  <2>2. \A c \in Clients : BackendCount[c] = 0 /\ HandCount[c] = 0 /\ HeldCount[c] = 0
    BY <1>1, <2>1, BackendCounts, HandCounts, HeldCounts
  <2>3. QED
    BY <2>2 DEF Init, RefInv
<1>3. ShutInv
  BY DEF Init, ShutInv
<1>4. QED
  BY <1>1, <1>2, <1>3 DEF OwnerInv

\* Letting go of the client that x owns by f, when nothing else changes.
LEMMA Lets ==
    ASSUME OwnerInv, NEW c \in 0..created, Release(c), created' = created, reached' = reached,
           c # None => refs[c] >= 1
    PROVE  /\ refs' \in [Clients -> Nat] /\ shut' \in [Clients -> BOOLEAN]
           /\ \A d \in Clients : refs'[d] = refs[d] - (IF d = c THEN 1 ELSE 0)
           /\ ShutInv'
<1> USE Bounded DEF None, Clients
<1>1. CASE c = None
  <2>1. refs' = refs /\ shut' = shut
    BY <1>1 DEF Release
  <2>2. QED
    BY <1>1, <2>1 DEF OwnerInv, ManagerTypes, ShutInv
<1>2. CASE c # None
  <2>1. /\ refs' = [refs EXCEPT ![c] = @ - 1]
        /\ shut' = IF refs[c] = 1 THEN [shut EXCEPT ![c] = TRUE] ELSE shut
        /\ c \in 1..created /\ c \in Clients
    BY <1>2 DEF Release, OwnerInv, ManagerTypes
  <2>2. refs' \in [Clients -> Nat] /\ shut' \in [Clients -> BOOLEAN]
    BY <1>2, <2>1 DEF OwnerInv, ManagerTypes
  <2>3. \A d \in Clients : refs'[d] = refs[d] - (IF d = c THEN 1 ELSE 0)
    BY <2>1 DEF OwnerInv, ManagerTypes
  <2>4. ShutInv'
    BY <1>2, <2>1, <2>3 DEF OwnerInv, ManagerTypes, ShutInv
  <2>5. QED
    BY <2>2, <2>3, <2>4
<1>3. QED
  BY <1>1, <1>2

LEMMA OwnerNext == OwnerInv /\ [Next]_vars => OwnerInv'
<1> SUFFICES ASSUME OwnerInv, [Next]_vars PROVE OwnerInv'
  OBVIOUS
<1> USE Bounded DEF None, Clients
<1>0. ManagerTypes /\ RefInv /\ ShutInv
  BY DEF OwnerInv
<1>t. /\ BackendCount \in [Clients -> Nat] /\ HandCount \in [Clients -> Nat] /\ HeldCount \in [Clients -> Nat]
      /\ \A c \in Clients : BackendCount[c] = 0 <=> \A a \in Addresses : backends[a] # c
      /\ \A c \in Clients : HandCount[c] = 0 <=> \A t \in Adders : hand[t] # c
      /\ \A c \in Clients : HeldCount[c] = 0 <=> \A h \in Holders : held[h] # c
  BY <1>0, BackendCounts, HandCounts, HeldCounts
<1>o. /\ \A a \in Addresses : backends[a] # None => refs[backends[a]] >= 1
      /\ \A t \in Adders : hand[t] # None => refs[hand[t]] >= 1
      /\ \A h \in Holders : held[h] # None => refs[held[h]] >= 1
  <2>1. \A c \in Clients : (\E a \in Addresses : backends[a] = c) => refs[c] >= 1
    BY <1>0, <1>t DEF RefInv, ManagerTypes, ManagerTypes, ManagerTypes
  <2>2. \A c \in Clients : (\E t \in Adders : hand[t] = c) => refs[c] >= 1
    BY <1>0, <1>t DEF RefInv, ManagerTypes, ManagerTypes, ManagerTypes
  <2>3. \A c \in Clients : (\E h \in Holders : held[h] = c) => refs[c] >= 1
    BY <1>0, <1>t DEF RefInv, ManagerTypes, ManagerTypes, ManagerTypes
  <2>4. QED
    BY <1>0, <2>1, <2>2, <2>3 DEF ManagerTypes
<1>1. ASSUME NEW t \in Adders, NEW a \in Addresses, Connect(t, a) PROVE OwnerInv'
  <2>1. /\ hand[t] = None /\ created < MaxClients /\ created' = created + 1
        /\ hand' = [hand EXCEPT ![t] = created + 1]
        /\ addr' = [addr EXCEPT ![created + 1] = a]
        /\ refs' = [refs EXCEPT ![created + 1] = 1]
        /\ shut' = shut /\ backends' = backends /\ held' = held /\ reached' = reached
    BY <1>1 DEF Connect
  <2>2. ManagerTypes'
    BY <1>0, <2>1 DEF ManagerTypes
  <2>3. BackendCount[created + 1] = 0 /\ HandCount[created + 1] = 0 /\ HeldCount[created + 1] = 0
    <3>1. /\ \A b \in Addresses : backends[b] # created + 1
          /\ \A u \in Adders : hand[u] # created + 1
          /\ \A h \in Holders : held[h] # created + 1
      BY <1>0 DEF ManagerTypes
    <3>2. QED
      BY <1>0, <1>t, <2>1, <3>1 DEF ManagerTypes
  <2>4. \A c \in Clients : HandCount'[c] = HandCount[c] + (IF created + 1 = c THEN 1 ELSE 0)
    <3>1. DOMAIN hand' = Adders /\ hand'[t] = created + 1 /\ \A y \in Adders : y # t => hand'[y] = hand[y]
      BY <1>0, <2>1 DEF ManagerTypes
    <3>2. \A c \in Clients :
             HandCount'[c] = HandCount[c] + (IF created + 1 = c THEN 1 ELSE 0) - (IF hand[t] = c THEN 1 ELSE 0)
      BY <1>0, <3>1, HandMoves
    <3>3. QED
      BY <1>t, <2>1, <3>2
  <2>5. RefInv'
    <3>1. BackendCount' = BackendCount /\ HeldCount' = HeldCount
      BY <2>1, BackendStays, HeldStays
    <3>2. \A c \in Clients : BackendCount[c] \in Nat /\ HandCount[c] \in Nat /\ HeldCount[c] \in Nat
      BY <1>t
    <3>3. \A c \in Clients : refs'[c] = IF c = created + 1 THEN 1 ELSE refs[c]
      BY <1>0, <2>1 DEF ManagerTypes
    <3>4. QED
      BY <1>0, <2>3, <2>4, <3>1, <3>2, <3>3 DEF RefInv
  <2>6. ShutInv'
    BY <1>0, <2>1 DEF ShutInv, ManagerTypes
  <2>7. QED
    BY <2>2, <2>5, <2>6 DEF OwnerInv
<1>2. ASSUME NEW t \in Adders, Register(t) PROVE OwnerInv'
  <2> DEFINE a == addr[hand[t]]
  <2>1. hand[t] # None /\ Release(backends[a]) /\ hand' = [hand EXCEPT ![t] = None]
        /\ backends' = [backends EXCEPT ![a] = hand[t]]
        /\ created' = created /\ addr' = addr /\ held' = held /\ reached' = reached
    BY <1>2 DEF Register
  <2>2. a \in Addresses /\ hand[t] \in 1..created
    BY <1>0, <2>1 DEF ManagerTypes
  <2> HIDE DEF a
  <2>3. /\ refs' \in [Clients -> Nat] /\ shut' \in [Clients -> BOOLEAN]
        /\ \A d \in Clients : refs'[d] = refs[d] - (IF d = backends[a] THEN 1 ELSE 0)
        /\ ShutInv'
    <3>1. backends[a] \in 0..created
      BY <1>0, <2>2 DEF ManagerTypes
    <3>2. QED
      BY <1>o, <2>1, <2>2, <3>1, Lets
  <2>4. \A c \in Clients : HandCount'[c] = HandCount[c] - (IF hand[t] = c THEN 1 ELSE 0)
    <3>1. DOMAIN hand' = Adders /\ hand'[t] = None /\ \A y \in Adders : y # t => hand'[y] = hand[y]
      BY <1>0, <2>1 DEF ManagerTypes
    <3>2. \A c \in Clients :
             HandCount'[c] = HandCount[c] + (IF None = c THEN 1 ELSE 0) - (IF hand[t] = c THEN 1 ELSE 0)
      BY <1>0, <3>1, HandMoves
    <3>3. QED
      BY <1>t, <2>1, <3>2
  <2>5. \A c \in Clients : BackendCount'[c] = BackendCount[c]
            + (IF hand[t] = c THEN 1 ELSE 0) - (IF backends[a] = c THEN 1 ELSE 0)
    <3>1. DOMAIN backends' = Addresses /\ backends'[a] = hand[t] /\ \A y \in Addresses : y # a => backends'[y] = backends[y]
      BY <1>0, <2>1, <2>2 DEF ManagerTypes
    <3>2. \A c \in Clients :
             BackendCount'[c] = BackendCount[c] + (IF hand[t] = c THEN 1 ELSE 0) - (IF backends[a] = c THEN 1 ELSE 0)
      BY <1>0, <3>1, <2>2, BackendMoves
    <3>3. QED
      BY <1>t, <2>1, <3>2
  <2>6. ManagerTypes'
    <3>1. backends' \in [Addresses -> 0..created] /\ hand' \in [Adders -> 0..created]
      BY <1>0, <2>1, <2>2 DEF ManagerTypes
    <3>2. QED
      BY <1>0, <2>1, <2>3, <3>1 DEF ManagerTypes
  <2>7. RefInv'
    <3>1. HeldCount' = HeldCount
      BY <2>1, HeldStays
    <3>2. \A c \in Clients : BackendCount[c] \in Nat /\ HandCount[c] \in Nat /\ HeldCount[c] \in Nat
      BY <1>t
    <3>3. \A c \in Clients : refs[c] = BackendCount[c] + HandCount[c] + HeldCount[c]
      BY <1>0 DEF RefInv
    <3>4. \A c \in Clients : refs'[c] = refs[c] - (IF c = backends[a] THEN 1 ELSE 0)
      BY <2>3
    <3>5. \A c \in Clients : refs'[c] = BackendCount'[c] + HandCount'[c] + HeldCount'[c]
      BY <2>4, <2>5, <3>1, <3>2, <3>3, <3>4
    <3>6. QED
      BY <3>5 DEF RefInv
  <2>8. QED
    BY <2>3, <2>6, <2>7 DEF OwnerInv
<1>3. ASSUME NEW t \in Adders, CancelAdd(t) PROVE OwnerInv'
  <2>1. hand[t] # None /\ Release(hand[t]) /\ hand' = [hand EXCEPT ![t] = None]
        /\ created' = created /\ addr' = addr /\ backends' = backends /\ held' = held /\ reached' = reached
    BY <1>3 DEF CancelAdd
  <2>2. hand[t] \in 0..created
    BY <1>0 DEF ManagerTypes
  <2>3. /\ refs' \in [Clients -> Nat] /\ shut' \in [Clients -> BOOLEAN]
        /\ \A d \in Clients : refs'[d] = refs[d] - (IF d = hand[t] THEN 1 ELSE 0)
        /\ ShutInv'
    BY <1>o, <2>1, <2>2, Lets
  <2>4. \A c \in Clients : HandCount'[c] = HandCount[c] - (IF hand[t] = c THEN 1 ELSE 0)
    <3>1. DOMAIN hand' = Adders /\ hand'[t] = None /\ \A y \in Adders : y # t => hand'[y] = hand[y]
      BY <1>0, <2>1 DEF ManagerTypes
    <3>2. \A c \in Clients :
             HandCount'[c] = HandCount[c] + (IF None = c THEN 1 ELSE 0) - (IF hand[t] = c THEN 1 ELSE 0)
      BY <1>0, <3>1, HandMoves
    <3>3. QED
      BY <1>t, <2>1, <3>2
  <2>5. ManagerTypes'
    BY <1>0, <2>1, <2>3 DEF ManagerTypes
  <2>6. RefInv'
    <3>1. BackendCount' = BackendCount /\ HeldCount' = HeldCount
      BY <2>1, BackendStays, HeldStays
    <3>2. \A c \in Clients : BackendCount[c] \in Nat /\ HandCount[c] \in Nat /\ HeldCount[c] \in Nat
      BY <1>t
    <3>3. QED
      BY <1>0, <2>3, <2>4, <3>1, <3>2 DEF RefInv
  <2>7. QED
    BY <2>3, <2>5, <2>6 DEF OwnerInv
<1>4. ASSUME NEW h \in Holders, NEW a \in Addresses, TakeDevice(h, a) PROVE OwnerInv'
  <2>1. held[h] = None /\ backends[a] # None /\ held' = [held EXCEPT ![h] = backends[a]]
        /\ refs' = [refs EXCEPT ![backends[a]] = @ + 1] /\ shut' = shut
        /\ created' = created /\ addr' = addr /\ backends' = backends /\ hand' = hand /\ reached' = reached
    BY <1>4 DEF TakeDevice
  <2>2. backends[a] \in 1..created /\ backends[a] \in Clients /\ refs[backends[a]] >= 1
    BY <1>0, <1>o, <2>1 DEF ManagerTypes
  <2>3. \A c \in Clients : HeldCount'[c] = HeldCount[c] + (IF backends[a] = c THEN 1 ELSE 0)
    <3>1. DOMAIN held' = Holders /\ held'[h] = backends[a] /\ \A y \in Holders : y # h => held'[y] = held[y]
      BY <1>0, <2>1 DEF ManagerTypes
    <3>2. \A c \in Clients :
             HeldCount'[c] = HeldCount[c] + (IF backends[a] = c THEN 1 ELSE 0) - (IF held[h] = c THEN 1 ELSE 0)
      BY <1>0, <3>1, HeldMoves
    <3>3. QED
      BY <1>t, <2>1, <3>2
  <2>4. ManagerTypes'
    BY <1>0, <2>1, <2>2 DEF ManagerTypes
  <2>5. RefInv'
    <3>1. BackendCount' = BackendCount /\ HandCount' = HandCount
      BY <2>1, BackendStays, HandStays
    <3>2. \A c \in Clients : BackendCount[c] \in Nat /\ HandCount[c] \in Nat /\ HeldCount[c] \in Nat
      BY <1>t
    <3>3. \A c \in Clients : refs'[c] = refs[c] + (IF backends[a] = c THEN 1 ELSE 0)
      BY <1>0, <2>1 DEF ManagerTypes
    <3>4. QED
      BY <1>0, <2>2, <2>3, <3>1, <3>2, <3>3 DEF RefInv
  <2>6. ShutInv'
    BY <1>0, <2>1, <2>2 DEF ShutInv, ManagerTypes
  <2>7. QED
    BY <2>4, <2>5, <2>6 DEF OwnerInv
<1>5. ASSUME NEW h \in Holders, DropDevice(h) PROVE OwnerInv'
  <2>1. held[h] # None /\ Release(held[h]) /\ held' = [held EXCEPT ![h] = None]
        /\ created' = created /\ addr' = addr /\ backends' = backends /\ hand' = hand /\ reached' = reached
    BY <1>5 DEF DropDevice
  <2>2. held[h] \in 0..created
    BY <1>0 DEF ManagerTypes
  <2>3. /\ refs' \in [Clients -> Nat] /\ shut' \in [Clients -> BOOLEAN]
        /\ \A d \in Clients : refs'[d] = refs[d] - (IF d = held[h] THEN 1 ELSE 0)
        /\ ShutInv'
    BY <1>o, <2>1, <2>2, Lets
  <2>4. \A c \in Clients : HeldCount'[c] = HeldCount[c] - (IF held[h] = c THEN 1 ELSE 0)
    <3>1. DOMAIN held' = Holders /\ held'[h] = None /\ \A y \in Holders : y # h => held'[y] = held[y]
      BY <1>0, <2>1 DEF ManagerTypes
    <3>2. \A c \in Clients :
             HeldCount'[c] = HeldCount[c] + (IF None = c THEN 1 ELSE 0) - (IF held[h] = c THEN 1 ELSE 0)
      BY <1>0, <3>1, HeldMoves
    <3>3. QED
      BY <1>t, <2>1, <3>2
  <2>5. ManagerTypes'
    BY <1>0, <2>1, <2>3 DEF ManagerTypes
  <2>6. RefInv'
    <3>1. BackendCount' = BackendCount /\ HandCount' = HandCount
      BY <2>1, BackendStays, HandStays
    <3>2. \A c \in Clients : BackendCount[c] \in Nat /\ HandCount[c] \in Nat /\ HeldCount[c] \in Nat
      BY <1>t
    <3>3. \A c \in Clients : refs[c] = BackendCount[c] + HandCount[c] + HeldCount[c]
      BY <1>0 DEF RefInv
    <3>4. \A c \in Clients : refs'[c] = refs[c] - (IF c = held[h] THEN 1 ELSE 0)
      BY <2>3
    <3>5. \A c \in Clients : refs'[c] = BackendCount'[c] + HandCount'[c] + HeldCount'[c]
      BY <2>4, <3>1, <3>2, <3>3, <3>4
    <3>6. QED
      BY <3>5 DEF RefInv
  <2>7. QED
    BY <2>3, <2>5, <2>6 DEF OwnerInv
<1>6. CASE DisconnectAll
  <2> DEFINE registered == {backends[a] : a \in Addresses} \ {None}
  <2>1. shut' = [c \in Clients |-> shut[c] \/ c \in registered] /\ reached' = reached \cup registered
        /\ created' = created /\ addr' = addr /\ refs' = refs /\ backends' = backends
        /\ hand' = hand /\ held' = held
    BY <1>6 DEF DisconnectAll
  <2>2. registered \subseteq 1..created
    BY <1>0 DEF ManagerTypes
  <2> HIDE DEF registered
  <2>3. ManagerTypes'
    BY <1>0, <2>1, <2>2 DEF ManagerTypes
  <2>4. ShutInv'
    <3>1. \A c \in Clients : shut'[c] <=> shut[c] \/ c \in registered
      BY <2>1
    <3>2. QED
      BY <1>0, <2>1, <2>2, <3>1 DEF ShutInv, ManagerTypes
  <2>5. QED
    BY <1>0, <2>1, <2>3, <2>4, BackendStays, HandStays, HeldStays DEF OwnerInv, RefInv
<1>7. CASE UNCHANGED managerVars
  BY <1>0, <1>7, BackendStays, HandStays, HeldStays DEF OwnerInv, ManagerTypes, RefInv, ShutInv, managerVars
<1>8. QED
  BY <1>1, <1>2, <1>3, <1>4, <1>5, <1>6, <1>7 DEF Next, Manager, Client, OpenConnection, WriterEnds,
     RunEnds, TelescopeCloses, ReaderEnds, Read, Translate, TranslatorEnds, TelescopeSends, vars

-----------------------------------------------------------------------------
(* Connections and events                                                  *)

Entries == [conn : Conns, event : 1..MaxEvents]
Emissions == [device : Addresses \cup {None}, client : Clients, conn : Conns, event : 1..MaxEvents]

EventTypes ==
    /\ run \in [Clients -> BOOLEAN]
    /\ current \in [Clients -> Conns \cup {None}]
    /\ opened \in [Clients -> Nat]
    /\ conn \in [Clients -> [Conns -> {"off", "up", "gone", "done"}]]
    /\ stream \in [Clients -> [Conns -> Seq(1..MaxEvents)]]
    /\ channel \in [Clients -> Seq(Entries)]
    /\ translator \in [Clients -> {"none", "running", "ended"}]
    /\ sent \in [Addresses -> 0..MaxEvents]
    /\ bus \in Seq(Emissions)

\* A client has at most one connection the telescope can send on, that of its run task
\* unless it shuts down; a client that does not exist has none.
OneUp ==
    \A c \in Clients :
        /\ run[c] => c <= created
        /\ \A k \in Conns : conn[c][k] = "up" => c <= created /\ (current[c] = k \/ shut[c])
        /\ \A k, l \in Conns : conn[c][k] = "up" /\ conn[c][l] = "up" => k = l

\* Event n is anywhere between connection k of client c and the bus.
Has(c, k, n) ==
    \/ \E i \in DOMAIN stream[c][k] : stream[c][k][i] = n
    \/ \E i \in DOMAIN channel[c] : channel[c][i].conn = k /\ channel[c][i].event = n
    \/ \E i \in DOMAIN bus : bus[i].client = c /\ bus[i].conn = k /\ bus[i].event = n

\* An event comes from one connection of a client, and was sent.
ApartInv ==
    \A c \in Clients : \A k \in Conns : \A n \in 1..MaxEvents : Has(c, k, n) =>
        /\ c <= created /\ n <= sent[addr[c]]
        /\ \A l \in Conns : Has(c, l, n) => k = l

\* Of one connection what is on the bus was sent before what is in the channel, and that
\* before what has still to be read, each in order.
StreamsInOrder ==
    \A c \in Clients : \A k \in Conns : \A i, j \in DOMAIN stream[c][k] :
        i < j => stream[c][k][i] < stream[c][k][j]
ChannelInOrder ==
    \A c \in Clients : \A i \in DOMAIN channel[c] :
        /\ \A j \in DOMAIN channel[c] :
              i < j /\ channel[c][i].conn = channel[c][j].conn => channel[c][i].event < channel[c][j].event
        /\ \A k \in Conns : \A j \in DOMAIN stream[c][k] :
              channel[c][i].conn = k => channel[c][i].event < stream[c][k][j]
BusInOrder ==
    \A i \in DOMAIN bus :
        /\ \A j \in DOMAIN bus :
              i < j /\ bus[i].client = bus[j].client /\ bus[i].conn = bus[j].conn => bus[i].event < bus[j].event
        /\ \A c \in Clients : \A j \in DOMAIN channel[c] :
              bus[i].client = c /\ bus[i].conn = channel[c][j].conn => bus[i].event < channel[c][j].event
        /\ \A c \in Clients : \A k \in Conns : \A j \in DOMAIN stream[c][k] :
              bus[i].client = c /\ bus[i].conn = k => bus[i].event < stream[c][k][j]

EventInv == EventTypes /\ OneUp /\ ApartInv /\ StreamsInOrder /\ ChannelInOrder /\ BusInOrder
IInv == OwnerInv /\ EventInv

LEMMA ConnsAreNat == Conns \subseteq Nat \ {0} /\ \A c \in Clients : 1..MaxConns[c] \subseteq Conns
BY FleetAssumption DEF Conns, Clients

LEMMA EventInit == Init => EventInv
<1> SUFFICES ASSUME Init PROVE EventInv
  OBVIOUS
<1>1. EventTypes
  BY FleetAssumption DEF Init, EventTypes, None
<1>2. \A c \in Clients : \A k \in Conns : stream[c][k] = <<>> /\ conn[c][k] = "off"
  BY DEF Init
<1>3. \A c \in Clients : channel[c] = <<>> /\ ~run[c]
  BY DEF Init
<1>4. bus = <<>>
  BY DEF Init
<1>5. QED
  BY <1>1, <1>2, <1>3, <1>4 DEF EventInv, OneUp, ApartInv, Has, StreamsInOrder, ChannelInOrder, BusInOrder

LEMMA EventsBounded == MaxEvents \in Nat
BY FleetAssumption

LEMMA TailIndices ==
    ASSUME NEW T, NEW s \in Seq(T), s # <<>>
    PROVE  /\ 1 \in DOMAIN s /\ Head(s) = s[1] /\ s[1] \in T /\ Tail(s) \in Seq(T)
           /\ \A j \in DOMAIN Tail(s) : j \in Nat /\ 1 < j + 1 /\ j + 1 \in DOMAIN s /\ Tail(s)[j] = s[j + 1]
OBVIOUS

LEMMA AppendIndices ==
    ASSUME NEW T, NEW s \in Seq(T), NEW e \in T
    PROVE  /\ Append(s, e) \in Seq(T) /\ Append(s, e) # <<>>
           /\ \A i \in DOMAIN Append(s, e) :
                 i \in Nat /\ ((i \in DOMAIN s /\ Append(s, e)[i] = s[i]) \/ Append(s, e)[i] = e)
           /\ \A i, j \in DOMAIN Append(s, e) : i < j => i \in DOMAIN s /\ Append(s, e)[i] = s[i]
OBVIOUS

\* A queue whose oldest may have been dropped for its newest.
LEMMA QueueIndices ==
    ASSUME NEW s \in Seq(Entries), NEW e \in Entries, NEW q, q = Append(s, e) \/ q = Tail(Append(s, e))
    PROVE  \E o \in {0, 1} :
              /\ \A i \in DOMAIN q : i \in Nat /\ ((i + o \in DOMAIN s /\ q[i] = s[i + o]) \/ q[i] = e)
              /\ \A i, j \in DOMAIN q : i < j => i + o < j + o /\ i + o \in DOMAIN s /\ q[i] = s[i + o]
<1> DEFINE all == Append(s, e)
<1>1. /\ all \in Seq(Entries) /\ all # <<>>
      /\ \A i \in DOMAIN all : i \in Nat /\ ((i \in DOMAIN s /\ all[i] = s[i]) \/ all[i] = e)
      /\ \A i, j \in DOMAIN all : i < j => i \in DOMAIN s /\ all[i] = s[i]
  BY AppendIndices
<1> HIDE DEF all
<1>2. \A j \in DOMAIN Tail(all) : j \in Nat /\ j + 1 \in DOMAIN all /\ Tail(all)[j] = all[j + 1]
  BY <1>1, TailIndices
<1>3. CASE q = all
  <2>1. /\ \A i \in DOMAIN q : i \in Nat /\ ((i + 0 \in DOMAIN s /\ q[i] = s[i + 0]) \/ q[i] = e)
        /\ \A i, j \in DOMAIN q : i < j => i + 0 < j + 0 /\ i + 0 \in DOMAIN s /\ q[i] = s[i + 0]
    BY <1>1, <1>3
  <2>2. QED
    BY <2>1
<1>4. CASE q = Tail(all)
  <2>1. \A i \in DOMAIN q : i \in Nat /\ ((i + 1 \in DOMAIN s /\ q[i] = s[i + 1]) \/ q[i] = e)
    BY <1>1, <1>2, <1>4
  <2>2. ASSUME NEW i \in DOMAIN q, NEW j \in DOMAIN q, i < j
        PROVE  i + 1 < j + 1 /\ i + 1 \in DOMAIN s /\ q[i] = s[i + 1]
    <3>1. i \in Nat /\ j \in Nat /\ i + 1 \in DOMAIN all /\ j + 1 \in DOMAIN all /\ q[i] = all[i + 1]
      BY <1>2, <1>4
    <3>2. i + 1 < j + 1
      BY <2>2, <3>1
    <3>3. QED
      BY <1>1, <3>1, <3>2
  <2>3. QED
    BY <2>1, <2>2
<1>5. QED
  BY <1>3, <1>4 DEF all

\* The positions and entries on an event's way.
OnTheWay ==
    /\ \A c \in Clients : \A k \in Conns :
          /\ Len(stream[c][k]) \in Nat /\ DOMAIN stream[c][k] = 1..Len(stream[c][k])
          /\ \A i \in 1..Len(stream[c][k]) : stream[c][k][i] \in 1..MaxEvents /\ stream[c][k][i] \in Nat
    /\ \A c \in Clients :
          /\ Len(channel[c]) \in Nat /\ DOMAIN channel[c] = 1..Len(channel[c])
          /\ \A i \in 1..Len(channel[c]) :
                channel[c][i].conn \in Conns /\ channel[c][i].event \in 1..MaxEvents /\ channel[c][i].event \in Nat
    /\ Len(bus) \in Nat /\ DOMAIN bus = 1..Len(bus)
    /\ \A i \in 1..Len(bus) :
          /\ bus[i].client \in Clients /\ bus[i].conn \in Conns
          /\ bus[i].event \in 1..MaxEvents /\ bus[i].event \in Nat

LEMMA Lines ==
    ASSUME NEW st \in [Clients -> [Conns -> Seq(1..MaxEvents)]],
           NEW ch \in [Clients -> Seq(Entries)],
           NEW out \in Seq(Emissions)
    PROVE  /\ \A c \in Clients : \A k \in Conns :
                 /\ Len(st[c][k]) \in Nat /\ DOMAIN st[c][k] = 1..Len(st[c][k])
                 /\ \A i \in 1..Len(st[c][k]) : st[c][k][i] \in 1..MaxEvents /\ st[c][k][i] \in Nat
           /\ \A c \in Clients :
                 /\ Len(ch[c]) \in Nat /\ DOMAIN ch[c] = 1..Len(ch[c])
                 /\ \A i \in 1..Len(ch[c]) :
                       ch[c][i].conn \in Conns /\ ch[c][i].event \in 1..MaxEvents /\ ch[c][i].event \in Nat
           /\ Len(out) \in Nat /\ DOMAIN out = 1..Len(out)
           /\ \A i \in 1..Len(out) :
                 /\ out[i].client \in Clients /\ out[i].conn \in Conns
                 /\ out[i].event \in 1..MaxEvents /\ out[i].event \in Nat
<1>1. MaxEvents \in Nat
  BY EventsBounded
<1>2. ASSUME NEW c \in Clients, NEW k \in Conns
      PROVE  /\ Len(st[c][k]) \in Nat /\ DOMAIN st[c][k] = 1..Len(st[c][k])
             /\ \A i \in 1..Len(st[c][k]) : st[c][k][i] \in 1..MaxEvents /\ st[c][k][i] \in Nat
  <2>1. st[c][k] \in Seq(1..MaxEvents)
    OBVIOUS
  <2>2. QED
    BY <1>1, <2>1
<1>3. ASSUME NEW c \in Clients
      PROVE  /\ Len(ch[c]) \in Nat /\ DOMAIN ch[c] = 1..Len(ch[c])
             /\ \A i \in 1..Len(ch[c]) :
                   ch[c][i].conn \in Conns /\ ch[c][i].event \in 1..MaxEvents /\ ch[c][i].event \in Nat
  <2>1. ch[c] \in Seq(Entries)
    OBVIOUS
  <2>2. Len(ch[c]) \in Nat /\ DOMAIN ch[c] = 1..Len(ch[c])
        /\ \A i \in 1..Len(ch[c]) : ch[c][i] \in Entries
    BY <2>1
  <2>3. QED
    BY <1>1, <2>2 DEF Entries
<1>4. /\ Len(out) \in Nat /\ DOMAIN out = 1..Len(out)
      /\ \A i \in 1..Len(out) : out[i] \in Emissions
  OBVIOUS
<1>5. \A i \in 1..Len(out) :
          /\ out[i].client \in Clients /\ out[i].conn \in Conns
          /\ out[i].event \in 1..MaxEvents /\ out[i].event \in Nat
  BY <1>1, <1>4 DEF Emissions
<1>6. QED
  BY <1>2, <1>3, <1>4, <1>5

LEMMA Way == EventTypes => OnTheWay
BY Lines DEF EventTypes, OnTheWay

\* What a read does: the oldest event of the stream is the newest of the channel, which
\* may have dropped its oldest.
LEMMA ReadEffect ==
    ASSUME EventTypes, NEW c \in Clients, NEW k \in Conns, Read(c, k)
    PROVE  /\ stream' \in [Clients -> [Conns -> Seq(1..MaxEvents)]] /\ channel' \in [Clients -> Seq(Entries)]
           /\ 1 \in DOMAIN stream[c][k]
           /\ \A j \in DOMAIN stream'[c][k] :
                 j \in Nat /\ 1 < j + 1 /\ j + 1 \in DOMAIN stream[c][k] /\ stream'[c][k][j] = stream[c][k][j + 1]
           /\ \A d \in Clients : \A l \in Conns : d # c \/ l # k => stream'[d][l] = stream[d][l]
           /\ \A d \in Clients : d # c => channel'[d] = channel[d]
           /\ \E o \in {0, 1} :
                 /\ \A i \in DOMAIN channel'[c] :
                       /\ i \in Nat
                       /\ \/ i + o \in DOMAIN channel[c] /\ channel'[c][i] = channel[c][i + o]
                          \/ channel'[c][i] = [conn |-> k, event |-> stream[c][k][1]]
                 /\ \A i, j \in DOMAIN channel'[c] :
                       i < j => i + o < j + o /\ i + o \in DOMAIN channel[c] /\ channel'[c][i] = channel[c][i + o]
<1> DEFINE s == stream[c][k]
           q == channel[c]
           e == [conn |-> k, event |-> s[1]]
           all == Append(q, e)
<1>1. s \in Seq(1..MaxEvents) /\ s # <<>> /\ q \in Seq(Entries)
  BY DEF EventTypes, Read
<1>2. /\ 1 \in DOMAIN s /\ Head(s) = s[1] /\ s[1] \in 1..MaxEvents /\ Tail(s) \in Seq(1..MaxEvents)
      /\ \A j \in DOMAIN Tail(s) : j \in Nat /\ 1 < j + 1 /\ j + 1 \in DOMAIN s /\ Tail(s)[j] = s[j + 1]
  <2> HIDE DEF s
  <2>1. QED
    BY <1>1, TailIndices
<1>3. e \in Entries
  BY <1>2 DEF Entries
<1>4. all \in Seq(Entries) /\ Tail(all) \in Seq(Entries)
  <2> HIDE DEF q, e
  <2>1. all \in Seq(Entries) /\ all # <<>>
    BY <1>1, <1>3, AppendIndices
  <2> HIDE DEF all
  <2>2. QED
    BY <2>1, TailIndices
<1>5. /\ stream' = [stream EXCEPT ![c][k] = Tail(s)]
      /\ channel' = [channel EXCEPT ![c] = IF Len(all) > Capacity THEN Tail(all) ELSE all]
  BY <1>2 DEF Read
<1> HIDE DEF s, q, e
<1>6. /\ stream' \in [Clients -> [Conns -> Seq(1..MaxEvents)]] /\ stream'[c][k] = Tail(s)
      /\ \A d \in Clients : \A l \in Conns : d # c \/ l # k => stream'[d][l] = stream[d][l]
  BY <1>2, <1>5 DEF EventTypes
<1>7. /\ channel' \in [Clients -> Seq(Entries)]
      /\ \A d \in Clients : d # c => channel'[d] = channel[d]
      /\ channel'[c] = all \/ channel'[c] = Tail(all)
  <2> HIDE DEF all
  <2>1. QED
    BY <1>4, <1>5 DEF EventTypes
<1>8. \E o \in {0, 1} :
          /\ \A i \in DOMAIN channel'[c] :
                i \in Nat /\ ((i + o \in DOMAIN q /\ channel'[c][i] = q[i + o]) \/ channel'[c][i] = e)
          /\ \A i, j \in DOMAIN channel'[c] :
                i < j => i + o < j + o /\ i + o \in DOMAIN q /\ channel'[c][i] = q[i + o]
  <2>1. channel'[c] = Append(q, e) \/ channel'[c] = Tail(Append(q, e))
    BY <1>7
  <2> HIDE DEF all
  <2>2. QED
    BY ONLY <1>1, <1>3, <2>1, QueueIndices, Zenon
<1>9. /\ 1 \in DOMAIN s
      /\ \A j \in DOMAIN stream'[c][k] :
            j \in Nat /\ 1 < j + 1 /\ j + 1 \in DOMAIN s /\ stream'[c][k][j] = s[j + 1]
  BY <1>2, <1>6
<1> HIDE DEF all
<1>10. QED
  BY <1>6, <1>7, <1>8, <1>9 DEF s, q, e

\* What the translator does: the oldest event leaves the channel, to the bus or to nothing.
LEMMA TranslateEffect ==
    ASSUME EventTypes, ManagerTypes, NEW c \in Clients, Translate(c)
    PROVE  /\ channel' \in [Clients -> Seq(Entries)] /\ bus' \in Seq(Emissions)
           /\ 1 \in DOMAIN channel[c]
           /\ \A j \in DOMAIN channel'[c] :
                 j \in Nat /\ 1 < j + 1 /\ j + 1 \in DOMAIN channel[c] /\ channel'[c][j] = channel[c][j + 1]
           /\ \A d \in Clients : d # c => channel'[d] = channel[d]
           /\ \A i \in DOMAIN bus' :
                 \/ i \in DOMAIN bus /\ bus'[i] = bus[i]
                 \/ /\ bus'[i].client = c
                    /\ bus'[i].conn = channel[c][1].conn /\ bus'[i].event = channel[c][1].event
           /\ \A i, j \in DOMAIN bus' : i < j => i \in DOMAIN bus /\ bus'[i] = bus[i]
<1> DEFINE q == channel[c]
           e == Emitted(c, q[1])
<1>1. q \in Seq(Entries) /\ q # <<>> /\ bus \in Seq(Emissions)
  BY DEF EventTypes, Translate
<1>2. /\ 1 \in DOMAIN q /\ Head(q) = q[1] /\ q[1] \in Entries /\ Tail(q) \in Seq(Entries)
      /\ \A j \in DOMAIN Tail(q) : j \in Nat /\ 1 < j + 1 /\ j + 1 \in DOMAIN q /\ Tail(q)[j] = q[j + 1]
  <2> HIDE DEF q
  <2>1. QED
    BY <1>1, TailIndices
<1>3. e \in Emissions /\ e.client = c /\ e.conn = q[1].conn /\ e.event = q[1].event
  BY <1>2 DEF Emitted, Emissions, Entries, ManagerTypes
<1>4. /\ channel' = [channel EXCEPT ![c] = Tail(q)]
      /\ bus' = bus \/ bus' = Append(bus, e)
  BY <1>2 DEF Translate
<1> HIDE DEF q, e
<1>5. /\ channel' \in [Clients -> Seq(Entries)] /\ channel'[c] = Tail(q)
      /\ \A d \in Clients : d # c => channel'[d] = channel[d]
  BY <1>2, <1>4 DEF EventTypes
<1>6. /\ bus' \in Seq(Emissions)
      /\ \A i \in DOMAIN bus' : (i \in DOMAIN bus /\ bus'[i] = bus[i]) \/ bus'[i] = e
      /\ \A i, j \in DOMAIN bus' : i < j => i \in DOMAIN bus /\ bus'[i] = bus[i]
  <2>1. CASE bus' = Append(bus, e)
    BY <1>1, <1>3, <2>1, AppendIndices
  <2>2. CASE bus' = bus
    BY <1>1, <2>2
  <2>3. QED
    BY <1>4, <2>1, <2>2
<1>7. \A i \in DOMAIN bus' :
          \/ i \in DOMAIN bus /\ bus'[i] = bus[i]
          \/ bus'[i].client = c /\ bus'[i].conn = q[1].conn /\ bus'[i].event = q[1].event
  BY <1>3, <1>6
<1>8. \A j \in DOMAIN channel'[c] : j \in Nat /\ 1 < j + 1 /\ j + 1 \in DOMAIN q /\ channel'[c][j] = q[j + 1]
  BY <1>2, <1>5
<1>9. QED
  BY <1>2, <1>5, <1>6, <1>7, <1>8 DEF q

\* What a telescope does: its new event ends the streams of the connections that are up.
LEMMA SendsEffect ==
    ASSUME EventTypes, NEW a \in Addresses, TelescopeSends(a)
    PROVE  /\ sent' \in [Addresses -> 0..MaxEvents] /\ sent'[a] = sent[a] + 1 /\ sent[a] \in Nat
           /\ \A b \in Addresses : b # a => sent'[b] = sent[b]
           /\ stream' \in [Clients -> [Conns -> Seq(1..MaxEvents)]]
           /\ \A c \in Clients : \A k \in Conns :
                 \/ stream'[c][k] = stream[c][k]
                 \/ /\ addr[c] = a /\ conn[c][k] = "up"
                    /\ \A i \in DOMAIN stream'[c][k] :
                          \/ i \in DOMAIN stream[c][k] /\ stream'[c][k][i] = stream[c][k][i]
                          \/ stream'[c][k][i] = sent[a] + 1
                    /\ \A i, j \in DOMAIN stream'[c][k] :
                          i < j => i \in DOMAIN stream[c][k] /\ stream'[c][k][i] = stream[c][k][i]
<1> USE EventsBounded
<1>1. sent[a] \in Nat /\ sent[a] < MaxEvents /\ sent' = [sent EXCEPT ![a] = @ + 1]
  BY DEF EventTypes, TelescopeSends
<1>2. /\ sent' \in [Addresses -> 0..MaxEvents] /\ sent'[a] = sent[a] + 1
      /\ \A b \in Addresses : b # a => sent'[b] = sent[b]
  BY <1>1 DEF EventTypes
<1>3. stream' = [c \in Clients |-> [k \in Conns |->
                     IF addr[c] = a /\ conn[c][k] = "up" THEN Append(stream[c][k], sent[a] + 1)
                     ELSE stream[c][k]]]
  BY <1>2 DEF TelescopeSends
<1>4. \A c \in Clients : \A k \in Conns :
          stream[c][k] \in Seq(1..MaxEvents) /\ Append(stream[c][k], sent[a] + 1) \in Seq(1..MaxEvents)
  BY <1>1 DEF EventTypes
<1>5. stream' \in [Clients -> [Conns -> Seq(1..MaxEvents)]]
  BY <1>3, <1>4
<1>6. ASSUME NEW c \in Clients, NEW k \in Conns
      PROVE  \/ stream'[c][k] = stream[c][k]
             \/ /\ addr[c] = a /\ conn[c][k] = "up"
                /\ \A i \in DOMAIN stream'[c][k] :
                      \/ i \in DOMAIN stream[c][k] /\ stream'[c][k][i] = stream[c][k][i]
                      \/ stream'[c][k][i] = sent[a] + 1
                /\ \A i, j \in DOMAIN stream'[c][k] :
                      i < j => i \in DOMAIN stream[c][k] /\ stream'[c][k][i] = stream[c][k][i]
  <2>1. CASE addr[c] = a /\ conn[c][k] = "up"
    <3>1. stream'[c][k] = Append(stream[c][k], sent[a] + 1)
      BY <1>3, <2>1
    <3>2. stream[c][k] \in Seq(1..MaxEvents) /\ sent[a] + 1 \in 1..MaxEvents
      BY <1>1, <1>4
    <3>3. QED
      BY <2>1, <3>1, <3>2, AppendIndices
  <2>2. CASE ~(addr[c] = a /\ conn[c][k] = "up")
    BY <1>3, <2>2
  <2>3. QED
    BY <2>1, <2>2
<1>7. QED
  BY <1>1, <1>2, <1>5, <1>6

LEMMA OpenEffect ==
    ASSUME EventTypes, NEW c \in Clients, OpenConnection(c)
    PROVE  \E n \in Conns :
              /\ n # None /\ run[c] /\ ~shut[c] /\ current[c] = None
              /\ current' = [current EXCEPT ![c] = n] /\ conn' = [conn EXCEPT ![c][n] = "up"]
<1>1. opened[c] \in Nat /\ MaxConns[c] \in Nat
  BY FleetAssumption DEF EventTypes, Clients
<1>2. opened[c] + 1 \in 1..MaxConns[c]
  BY <1>1 DEF OpenConnection
<1>3. opened[c] + 1 \in Conns /\ opened[c] + 1 # None
  <2>1. 1..MaxConns[c] \subseteq Conns
    BY ConnsAreNat
  <2>2. QED
    BY <1>1, <1>2, <2>1 DEF None
<1>4. opened'[c] = opened[c] + 1
  BY DEF OpenConnection, EventTypes
<1>5. /\ current' = [current EXCEPT ![c] = opened[c] + 1]
      /\ conn' = [conn EXCEPT ![c][opened[c] + 1] = "up"]
      /\ run[c] /\ ~shut[c] /\ current[c] = None
  BY <1>4 DEF OpenConnection
<1>6. QED
  BY <1>3, <1>5

LEMMA PutAt ==
    ASSUME NEW A, NEW B, NEW C, NEW f \in [A -> [B -> C]], NEW a \in A, NEW b \in B, NEW v \in C
    PROVE  [f EXCEPT ![a][b] = v] \in [A -> [B -> C]]
OBVIOUS

LEMMA TypesNext == IInv /\ [Next]_vars => EventTypes'
<1> SUFFICES ASSUME IInv, [Next]_vars PROVE EventTypes'
  OBVIOUS
<1>0. EventTypes /\ ManagerTypes
  BY DEF IInv, EventInv, OwnerInv
<1>1. ASSUME NEW t \in Adders, NEW a \in Addresses, Connect(t, a) PROVE EventTypes'
  <2>1. run' \in [Clients -> BOOLEAN] /\ translator' \in [Clients -> {"none", "running", "ended"}]
    BY <1>0, <1>1 DEF Connect, EventTypes
  <2>2. QED
    BY <1>0, <1>1, <2>1 DEF Connect, EventTypes
<1>2. ASSUME NEW c \in Clients, OpenConnection(c) PROVE EventTypes'
  <2>1. PICK n \in Conns :
           current' = [current EXCEPT ![c] = n] /\ conn' = [conn EXCEPT ![c][n] = "up"]
    BY <1>0, <1>2, OpenEffect
  <2>2. current' \in [Clients -> Conns \cup {None}] /\ conn' \in [Clients -> [Conns -> {"off", "up", "gone", "done"}]]
    BY <1>0, <2>1 DEF EventTypes
  <2>3. opened' \in [Clients -> Nat]
    BY <1>0, <1>2 DEF OpenConnection, EventTypes
  <2>4. QED
    BY <1>0, <1>2, <2>2, <2>3 DEF OpenConnection, EventTypes, eventVars
<1>3. ASSUME NEW c \in Clients, WriterEnds(c) \/ RunEnds(c) PROVE EventTypes'
  BY <1>0, <1>3 DEF WriterEnds, RunEnds, EventTypes, eventVars
<1>4. ASSUME NEW c \in Clients, NEW k \in Conns, TelescopeCloses(c, k) \/ ReaderEnds(c, k) PROVE EventTypes'
  <2>c. conn' = [conn EXCEPT ![c][k] = "gone"] \/ conn' = [conn EXCEPT ![c][k] = "done"]
    BY <1>4 DEF TelescopeCloses, ReaderEnds
  <2>1. conn' \in [Clients -> [Conns -> {"off", "up", "gone", "done"}]]
    <3>1. conn \in [Clients -> [Conns -> {"off", "up", "gone", "done"}]]
      BY <1>0 DEF EventTypes
    <3>2. QED
      BY <2>c, <3>1, PutAt
  <2>2. current' \in [Clients -> Conns \cup {None}]
    BY <1>0, <1>4 DEF TelescopeCloses, ReaderEnds, EventTypes
  <2>s. stream' = stream \/ stream' = [stream EXCEPT ![c][k] = <<>>]
    BY <1>4 DEF TelescopeCloses, ReaderEnds
  <2>e. <<>> \in Seq(1..MaxEvents)
    OBVIOUS
  <2>3. stream' \in [Clients -> [Conns -> Seq(1..MaxEvents)]]
    <3>1. stream \in [Clients -> [Conns -> Seq(1..MaxEvents)]]
      BY <1>0 DEF EventTypes
    <3>2. [stream EXCEPT ![c][k] = <<>>] \in [Clients -> [Conns -> Seq(1..MaxEvents)]]
      BY <2>e, <3>1, PutAt, Zenon
    <3>3. QED
      BY <2>s, <3>1, <3>2, Zenon
  <2>4. UNCHANGED <<run, opened, eventVars>>
    BY <1>4 DEF TelescopeCloses, ReaderEnds
  <2>5. QED
    BY <1>0, <2>1, <2>2, <2>3, <2>4 DEF EventTypes, eventVars
<1>5. ASSUME NEW c \in Clients, NEW k \in Conns, Read(c, k) PROVE EventTypes'
  BY <1>0, <1>5, ReadEffect DEF Read, EventTypes
<1>6. ASSUME NEW c \in Clients, Translate(c) \/ TranslatorEnds(c) PROVE EventTypes'
  <2>1. CASE Translate(c)
    BY <1>0, <2>1, TranslateEffect DEF Translate, EventTypes, connVars
  <2>2. CASE TranslatorEnds(c)
    BY <1>0, <2>2 DEF TranslatorEnds, EventTypes, connVars
  <2>3. QED
    BY <1>6, <2>1, <2>2
<1>7. ASSUME NEW a \in Addresses, TelescopeSends(a) PROVE EventTypes'
  BY <1>0, <1>7, SendsEffect DEF TelescopeSends, EventTypes
<1>8. CASE UNCHANGED <<connVars, eventVars>>
  BY <1>0, <1>8 DEF EventTypes, connVars, eventVars
<1>9. QED
  BY <1>1, <1>2, <1>3, <1>4, <1>5, <1>6, <1>7, <1>8 DEF Next, Manager, Client, Register, CancelAdd,
     TakeDevice, DropDevice, DisconnectAll, vars

\* Nothing takes a shutdown back, and clients keep their address.
LEMMA ManagerSteps ==
    OwnerInv /\ [Next]_vars =>
        /\ \A c \in Clients : shut[c] => shut'[c]
        /\ created' \in Nat /\ created <= created' /\ \A c \in 1..created : addr'[c] = addr[c]
<1> SUFFICES ASSUME OwnerInv, [Next]_vars
             PROVE  /\ \A c \in Clients : shut[c] => shut'[c]
                    /\ created' \in Nat /\ created <= created' /\ \A c \in 1..created : addr'[c] = addr[c]
  OBVIOUS
<1> USE Bounded DEF Clients
<1>0. ManagerTypes
  BY DEF OwnerInv
<1>1. ASSUME NEW c, Release(c) PROVE \A d \in Clients : shut[d] => shut'[d]
  BY <1>0, <1>1 DEF Release, ManagerTypes
<1>2. ASSUME NEW t \in Adders, NEW a \in Addresses, Connect(t, a)
      PROVE  shut' = shut /\ created' = created + 1 /\ addr' = [addr EXCEPT ![created + 1] = a]
  BY <1>2 DEF Connect
<1>3. CASE \E t \in Adders : \E a \in Addresses : Connect(t, a)
  BY <1>0, <1>2, <1>3 DEF ManagerTypes
<1>4. ASSUME NEW t \in Adders, Register(t) \/ CancelAdd(t)
      PROVE  created' = created /\ addr' = addr /\ \A d \in Clients : shut[d] => shut'[d]
  BY <1>1, <1>4 DEF Register, CancelAdd
<1>5. ASSUME NEW h \in Holders, (\E a \in Addresses : TakeDevice(h, a)) \/ DropDevice(h)
      PROVE  created' = created /\ addr' = addr /\ \A d \in Clients : shut[d] => shut'[d]
  BY <1>1, <1>5 DEF TakeDevice, DropDevice
<1>6. ASSUME DisconnectAll
      PROVE  created' = created /\ addr' = addr /\ \A d \in Clients : shut[d] => shut'[d]
  BY <1>6 DEF DisconnectAll
<1>7. CASE UNCHANGED managerVars
  BY <1>0, <1>7 DEF ManagerTypes, managerVars
<1>8. CASE created' = created /\ addr' = addr /\ \A d \in Clients : shut[d] => shut'[d]
  BY <1>0, <1>8 DEF ManagerTypes
<1>9. QED
  BY <1>3, <1>4, <1>5, <1>6, <1>7, <1>8 DEF Next, Manager, Client, OpenConnection, WriterEnds,
     RunEnds, TelescopeCloses, ReaderEnds, Read, Translate, TranslatorEnds, TelescopeSends, vars

LEMMA OneUpNext == IInv /\ [Next]_vars => OneUp'
<1> SUFFICES ASSUME IInv, [Next]_vars PROVE OneUp'
  OBVIOUS
<1>0. EventTypes /\ ManagerTypes /\ OneUp
  BY DEF IInv, EventInv, OwnerInv
<1>s. \A c \in Clients : (shut[c] => shut'[c]) /\ (c <= created => c <= created')
  <2>1. /\ \A c \in Clients : shut[c] => shut'[c]
        /\ created' \in Nat /\ created <= created' /\ created \in Nat
    BY <1>0, ManagerSteps DEF IInv, ManagerTypes
  <2>2. Clients \subseteq Nat
    BY Bounded DEF Clients
  <2>3. QED
    BY <2>1, <2>2
<1>1. CASE run' = run /\ current' = current /\ conn' = conn
  BY <1>0, <1>s, <1>1 DEF OneUp
<1>2. ASSUME NEW t \in Adders, NEW a \in Addresses, Connect(t, a) PROVE OneUp'
  <2>1. /\ created' = created + 1 /\ run' = [run EXCEPT ![created + 1] = TRUE]
        /\ current' = current /\ conn' = conn
    BY <1>2 DEF Connect
  <2>2. \A c \in Clients : run'[c] => run[c] \/ c = created + 1
    BY <1>0, <2>1 DEF EventTypes, ManagerTypes
  <2>3. created + 1 <= created'
    BY <1>0, <2>1 DEF ManagerTypes
  <2>4. QED
    BY <1>0, <1>s, <2>1, <2>2, <2>3 DEF OneUp
<1>3. ASSUME NEW c \in Clients, OpenConnection(c) PROVE OneUp'
  <2>1. PICK n \in Conns :
           /\ n # None /\ run[c] /\ ~shut[c] /\ current[c] = None
           /\ current' = [current EXCEPT ![c] = n] /\ conn' = [conn EXCEPT ![c][n] = "up"]
    BY <1>0, <1>3, OpenEffect
  <2>r. run' = run
    BY <1>3 DEF OpenConnection
  <2>2. \A k \in Conns : conn[c][k] # "up"
    BY <1>0, <2>1, ConnsAreNat DEF OneUp, None
  <2>3. /\ \A k \in Conns : conn'[c][k] = "up" => k = n
        /\ current'[c] = n
        /\ \A d \in Clients : d # c => conn'[d] = conn[d] /\ current'[d] = current[d]
    BY <1>0, <2>1, <2>2 DEF EventTypes
  <2>4. QED
    BY <1>0, <1>s, <2>1, <2>3, <2>r DEF OneUp
<1>4. ASSUME NEW c \in Clients, WriterEnds(c) PROVE OneUp'
  <2>1. /\ shut[c] \/ conn[c][current[c]] = "gone"
        /\ \A d \in Clients : d # c => current'[d] = current[d]
        /\ conn' = conn /\ run' = run
    BY <1>0, <1>4 DEF WriterEnds, EventTypes
  <2>2. \A k \in Conns : conn[c][k] = "up" => shut[c]
    BY <1>0, <2>1 DEF OneUp
  <2>3. ASSUME NEW d \in Clients
        PROVE  /\ run'[d] => d <= created'
               /\ \A k \in Conns : conn'[d][k] = "up" => d <= created' /\ (current'[d] = k \/ shut'[d])
               /\ \A k, l \in Conns : conn'[d][k] = "up" /\ conn'[d][l] = "up" => k = l
    BY <1>0, <1>s, <2>1, <2>2 DEF OneUp
  <2>4. QED
    BY <2>3 DEF OneUp
<1>5. ASSUME NEW c \in Clients, RunEnds(c) PROVE OneUp'
  BY <1>0, <1>s, <1>5 DEF RunEnds, OneUp, EventTypes
<1>6. ASSUME NEW c \in Clients, NEW k \in Conns, TelescopeCloses(c, k) \/ ReaderEnds(c, k) PROVE OneUp'
  <2>1. /\ run' = run
        /\ conn'[c][k] # "up"
        /\ \A l \in Conns : l # k => conn'[c][l] = conn[c][l]
        /\ \A d \in Clients : d # c => conn'[d] = conn[d]
        /\ \A d \in Clients : current'[d] = current[d] \/ (d = c /\ current[c] = k)
    BY <1>0, <1>6 DEF TelescopeCloses, ReaderEnds, EventTypes
  <2>2. QED
    BY <1>0, <1>s, <2>1 DEF OneUp
<1>7. QED
  BY <1>1, <1>2, <1>3, <1>4, <1>5, <1>6 DEF Next, Manager, Client, Register, CancelAdd, TakeDevice,
     DropDevice, DisconnectAll, Read, Translate, TranslatorEnds, TelescopeSends, vars, connVars

\* Where events are when none is sent and none is added to a stream or the bus.
LEMMA Elsewhere ==
    IInv /\ [Next]_vars =>
        \/ UNCHANGED <<stream, channel, bus>>
        \/ \E c \in Clients : \E k \in Conns : Read(c, k)
        \/ \E c \in Clients : Translate(c)
        \/ \E a \in Addresses : TelescopeSends(a)
        \/ \E c \in Clients : \E k \in Conns :
              /\ stream'[c][k] = <<>> /\ channel' = channel /\ bus' = bus
              /\ \A d \in Clients : \A l \in Conns : d # c \/ l # k => stream'[d][l] = stream[d][l]
<1> SUFFICES ASSUME IInv, [Next]_vars
             PROVE  \/ UNCHANGED <<stream, channel, bus>>
                    \/ \E c \in Clients : \E k \in Conns : Read(c, k)
                    \/ \E c \in Clients : Translate(c)
                    \/ \E a \in Addresses : TelescopeSends(a)
                    \/ \E c \in Clients : \E k \in Conns :
                          /\ stream'[c][k] = <<>> /\ channel' = channel /\ bus' = bus
                          /\ \A d \in Clients : \A l \in Conns : d # c \/ l # k => stream'[d][l] = stream[d][l]
  OBVIOUS
<1>1. ASSUME NEW c \in Clients, NEW k \in Conns, ReaderEnds(c, k)
      PROVE  /\ stream'[c][k] = <<>> /\ channel' = channel /\ bus' = bus
             /\ \A d \in Clients : \A l \in Conns : d # c \/ l # k => stream'[d][l] = stream[d][l]
  BY <1>1 DEF ReaderEnds, eventVars, IInv, EventInv, EventTypes
<1>2. QED
  BY <1>1 DEF Next, Manager, Client, Connect, Register, CancelAdd, TakeDevice, DropDevice, DisconnectAll,
     OpenConnection, WriterEnds, RunEnds, TelescopeCloses, TranslatorEnds, vars, eventVars, connVars

LEMMA ApartNext == IInv /\ [Next]_vars => ApartInv'
<1> SUFFICES ASSUME IInv, [Next]_vars PROVE ApartInv'
  OBVIOUS
<1>0. EventTypes /\ ManagerTypes /\ OneUp /\ ApartInv
  BY DEF IInv, EventInv, OwnerInv
<1>s. \A c \in Clients : c <= created => c <= created' /\ addr'[c] = addr[c] /\ addr[c] \in Addresses
  <2>1. /\ created' \in Nat /\ created \in Nat /\ created <= created'
        /\ \A c \in 1..created : addr'[c] = addr[c] /\ addr[c] \in Addresses
    BY <1>0, ManagerSteps DEF IInv, ManagerTypes
  <2>2. Clients \subseteq Nat \ {0}
    BY Bounded DEF Clients
  <2>3. QED
    BY <2>1, <2>2
<1>n. \A b \in Addresses : sent'[b] >= sent[b] /\ sent[b] \in Nat /\ sent'[b] \in Nat
  <2>1. sent' = sent \/ \E a \in Addresses : TelescopeSends(a)
    BY DEF Next, Manager, Client, Connect, Register, CancelAdd, TakeDevice, DropDevice, DisconnectAll,
       OpenConnection, WriterEnds, RunEnds, TelescopeCloses, ReaderEnds, Read, Translate, TranslatorEnds,
       vars, eventVars, connVars
  <2>2. sent \in [Addresses -> Nat]
    BY <1>0, EventsBounded DEF EventTypes
  <2>3. ASSUME NEW a \in Addresses, TelescopeSends(a)
        PROVE  \A b \in Addresses : sent'[b] >= sent[b] /\ sent'[b] \in Nat
    <3>1. sent'[a] = sent[a] + 1 /\ \A b \in Addresses : b # a => sent'[b] = sent[b]
      BY <1>0, <2>3, SendsEffect
    <3>2. QED
      BY <2>2, <3>1
  <2>4. QED
    BY <2>1, <2>2, <2>3
<1>m. \A n \in 1..MaxEvents : n \in Nat
  BY EventsBounded
<1>1. ASSUME \A c \in Clients : \A k \in Conns : \A n \in 1..MaxEvents : Has(c, k, n)' => Has(c, k, n)
      PROVE  ApartInv'
  <2> SUFFICES ASSUME NEW c \in Clients, NEW k \in Conns, NEW n \in 1..MaxEvents, Has(c, k, n)'
               PROVE  /\ c <= created' /\ n <= sent'[addr'[c]]
                      /\ \A l \in Conns : Has(c, l, n)' => k = l
    BY DEF ApartInv
  <2>1. /\ c <= created /\ n <= sent[addr[c]]
        /\ \A l \in Conns : Has(c, l, n) => k = l
    BY <1>0, <1>1 DEF ApartInv
  <2>2. c <= created' /\ addr[c] \in Addresses /\ addr'[c] = addr[c]
    BY <1>s, <2>1
  <2>3. n <= sent'[addr'[c]]
    BY <1>m, <1>n, <2>1, <2>2
  <2>4. QED
    BY <1>1, <2>1, <2>2, <2>3
<1>2. CASE UNCHANGED <<stream, channel, bus>>
  BY <1>1, <1>2 DEF Has
<1>3. ASSUME NEW c \in Clients, NEW k \in Conns, Read(c, k) PROVE ApartInv'
  <2>1. /\ 1 \in DOMAIN stream[c][k]
        /\ \A j \in DOMAIN stream'[c][k] :
              j \in Nat /\ 1 < j + 1 /\ j + 1 \in DOMAIN stream[c][k] /\ stream'[c][k][j] = stream[c][k][j + 1]
        /\ \A d \in Clients : \A l \in Conns : d # c \/ l # k => stream'[d][l] = stream[d][l]
        /\ \A d \in Clients : d # c => channel'[d] = channel[d]
    BY <1>0, <1>3, ReadEffect
  <2>2. PICK o \in {0, 1} :
           /\ \A i \in DOMAIN channel'[c] :
                 /\ i \in Nat
                 /\ \/ i + o \in DOMAIN channel[c] /\ channel'[c][i] = channel[c][i + o]
                    \/ channel'[c][i] = [conn |-> k, event |-> stream[c][k][1]]
           /\ \A i, j \in DOMAIN channel'[c] :
                 i < j => i + o < j + o /\ i + o \in DOMAIN channel[c] /\ channel'[c][i] = channel[c][i + o]
    BY <1>0, <1>3, ReadEffect
  <2>3. bus' = bus
    BY <1>3 DEF Read
  <2>4. ASSUME NEW d \in Clients, NEW l \in Conns, NEW n \in 1..MaxEvents, Has(d, l, n)' PROVE Has(d, l, n)
    <3>1. CASE \E i \in DOMAIN stream'[d][l] : stream'[d][l][i] = n
      <4>1. PICK i \in DOMAIN stream'[d][l] : stream'[d][l][i] = n
        BY <3>1
      <4>2. \E j \in DOMAIN stream[d][l] : stream[d][l][j] = n
        BY <2>1, <4>1
      <4>3. QED
        BY <4>2 DEF Has
    <3>2. CASE \E i \in DOMAIN channel'[d] : channel'[d][i].conn = l /\ channel'[d][i].event = n
      <4>1. CASE d = c
        <5>1. PICK i \in DOMAIN channel'[c] : channel'[c][i].conn = l /\ channel'[c][i].event = n
          BY <3>2, <4>1
        <5>2. CASE i + o \in DOMAIN channel[c] /\ channel'[c][i] = channel[c][i + o]
          BY <4>1, <5>1, <5>2 DEF Has
        <5>3. CASE channel'[c][i] = [conn |-> k, event |-> stream[c][k][1]]
          <6>1. l = k /\ stream[c][k][1] = n
            BY <5>1, <5>3
          <6>2. QED
            BY <2>1, <4>1, <6>1 DEF Has
        <5>4. QED
          BY <2>2, <5>1, <5>2, <5>3
      <4>2. CASE d # c
        BY <2>1, <3>2, <4>2 DEF Has
      <4>3. QED
        BY <4>1, <4>2
    <3>3. CASE \E i \in DOMAIN bus' : bus'[i].client = d /\ bus'[i].conn = l /\ bus'[i].event = n
      BY <2>3, <3>3 DEF Has
    <3>4. QED
      BY <2>4, <3>1, <3>2, <3>3 DEF Has
  <2>5. QED
    BY <1>1, <2>4
<1>4. ASSUME NEW c \in Clients, Translate(c) PROVE ApartInv'
  <2>1. /\ 1 \in DOMAIN channel[c]
        /\ \A j \in DOMAIN channel'[c] :
              j \in Nat /\ 1 < j + 1 /\ j + 1 \in DOMAIN channel[c] /\ channel'[c][j] = channel[c][j + 1]
        /\ \A d \in Clients : d # c => channel'[d] = channel[d]
    BY <1>0, <1>4, TranslateEffect
  <2>2. /\ \A i \in DOMAIN bus' :
              \/ i \in DOMAIN bus /\ bus'[i] = bus[i]
              \/ /\ bus'[i].client = c
                 /\ bus'[i].conn = channel[c][1].conn /\ bus'[i].event = channel[c][1].event
        /\ \A i, j \in DOMAIN bus' : i < j => i \in DOMAIN bus /\ bus'[i] = bus[i]
    BY <1>0, <1>4, TranslateEffect
  <2>3. stream' = stream
    BY <1>4 DEF Translate, connVars
  <2>4. ASSUME NEW d \in Clients, NEW l \in Conns, NEW n \in 1..MaxEvents, Has(d, l, n)' PROVE Has(d, l, n)
    <3>1. CASE \E i \in DOMAIN stream'[d][l] : stream'[d][l][i] = n
      BY <2>3, <3>1 DEF Has
    <3>2. CASE \E i \in DOMAIN channel'[d] : channel'[d][i].conn = l /\ channel'[d][i].event = n
      <4>1. PICK i \in DOMAIN channel'[d] : channel'[d][i].conn = l /\ channel'[d][i].event = n
        BY <3>2
      <4>2. \E j \in DOMAIN channel[d] : channel[d][j].conn = l /\ channel[d][j].event = n
        BY <2>1, <4>1
      <4>3. QED
        BY <4>2 DEF Has
    <3>3. CASE \E i \in DOMAIN bus' : bus'[i].client = d /\ bus'[i].conn = l /\ bus'[i].event = n
      <4>1. PICK i \in DOMAIN bus' : bus'[i].client = d /\ bus'[i].conn = l /\ bus'[i].event = n
        BY <3>3
      <4>2. CASE i \in DOMAIN bus /\ bus'[i] = bus[i]
        BY <4>1, <4>2 DEF Has
      <4>3. CASE /\ bus'[i].client = c
                 /\ bus'[i].conn = channel[c][1].conn /\ bus'[i].event = channel[c][1].event
        <5>1. d = c /\ channel[c][1].conn = l /\ channel[c][1].event = n
          BY <4>1, <4>3
        <5>2. QED
          BY <2>1, <5>1 DEF Has
      <4>4. QED
        BY <2>2, <4>2, <4>3
    <3>4. QED
      BY <2>4, <3>1, <3>2, <3>3 DEF Has
  <2>5. QED
    BY <1>1, <2>4
<1>5. ASSUME NEW a \in Addresses, TelescopeSends(a) PROVE ApartInv'
  <2>1. /\ sent'[a] = sent[a] + 1 /\ sent[a] \in Nat
        /\ \A c \in Clients : \A k \in Conns :
              \/ stream'[c][k] = stream[c][k]
              \/ /\ addr[c] = a /\ conn[c][k] = "up"
                 /\ \A i \in DOMAIN stream'[c][k] :
                       \/ i \in DOMAIN stream[c][k] /\ stream'[c][k][i] = stream[c][k][i]
                       \/ stream'[c][k][i] = sent[a] + 1
                 /\ \A i, j \in DOMAIN stream'[c][k] :
                       i < j => i \in DOMAIN stream[c][k] /\ stream'[c][k][i] = stream[c][k][i]
    BY <1>0, <1>5, SendsEffect
  <2>2. channel' = channel /\ bus' = bus /\ created' = created /\ addr' = addr
    BY <1>5 DEF TelescopeSends, managerVars
  <2>3. ASSUME NEW d \in Clients, NEW l \in Conns, NEW n \in 1..MaxEvents, Has(d, l, n)'
        PROVE  Has(d, l, n) \/ (addr[d] = a /\ conn[d][l] = "up" /\ n = sent[a] + 1)
    <3>1. CASE \E i \in DOMAIN stream'[d][l] : stream'[d][l][i] = n
      <4>1. PICK i \in DOMAIN stream'[d][l] : stream'[d][l][i] = n
        BY <3>1
      <4>2. \/ \E j \in DOMAIN stream[d][l] : stream[d][l][j] = n
            \/ addr[d] = a /\ conn[d][l] = "up" /\ n = sent[a] + 1
        BY <2>1, <4>1
      <4>3. QED
        BY <4>2 DEF Has
    <3>2. CASE \E i \in DOMAIN channel'[d] : channel'[d][i].conn = l /\ channel'[d][i].event = n
      BY <2>2, <3>2 DEF Has
    <3>3. CASE \E i \in DOMAIN bus' : bus'[i].client = d /\ bus'[i].conn = l /\ bus'[i].event = n
      BY <2>2, <3>3 DEF Has
    <3>4. QED
      BY <2>3, <3>1, <3>2, <3>3 DEF Has
  <2> SUFFICES ASSUME NEW c \in Clients, NEW k \in Conns, NEW n \in 1..MaxEvents, Has(c, k, n)'
               PROVE  /\ c <= created' /\ n <= sent'[addr'[c]]
                      /\ \A l \in Conns : Has(c, l, n)' => k = l
    BY DEF ApartInv
  <2>4. ASSUME NEW l \in Conns, Has(c, l, n) PROVE c <= created /\ n <= sent[addr[c]] /\ addr[c] \in Addresses
    BY <1>0, <1>s, <2>4 DEF ApartInv
  <2>5. ASSUME NEW l \in Conns, conn[c][l] = "up" PROVE c <= created
    BY <1>0, <2>5 DEF OneUp
  <2>6. CASE Has(c, k, n)
    <3>1. c <= created /\ n <= sent[addr[c]] /\ addr[c] \in Addresses
      BY <2>4, <2>6
    <3>2. ASSUME NEW l \in Conns, Has(c, l, n)' PROVE k = l
      <4>1. ~(addr[c] = a /\ n = sent[a] + 1)
        BY <2>1, <3>1
      <4>2. Has(c, l, n)
        BY <2>3, <3>2, <4>1
      <4>3. QED
        BY <1>0, <2>6, <4>2 DEF ApartInv
    <3>3. n <= sent'[addr[c]]
      BY <1>m, <1>n, <3>1
    <3>4. QED
      BY <2>2, <3>1, <3>2, <3>3
  <2>7. CASE addr[c] = a /\ conn[c][k] = "up" /\ n = sent[a] + 1
    <3>1. ASSUME NEW l \in Conns, Has(c, l, n)' PROVE k = l
      <4>1. ~Has(c, l, n)
        BY <2>1, <2>4, <2>7
      <4>2. conn[c][l] = "up"
        BY <2>3, <3>1, <4>1
      <4>3. QED
        BY <1>0, <2>7, <4>2 DEF OneUp
    <3>2. c <= created
      BY <2>5, <2>7
    <3>3. n <= sent'[addr[c]]
      BY <2>1, <2>7
    <3>4. QED
      BY <2>2, <3>1, <3>2, <3>3
  <2>8. QED
    BY <2>3, <2>6, <2>7
<1>6. ASSUME NEW c \in Clients, NEW k \in Conns,
             stream'[c][k] = <<>>, channel' = channel, bus' = bus,
             \A d \in Clients : \A l \in Conns : d # c \/ l # k => stream'[d][l] = stream[d][l]
      PROVE  ApartInv'
  <2>1. ASSUME NEW d \in Clients, NEW l \in Conns, NEW n \in 1..MaxEvents, Has(d, l, n)' PROVE Has(d, l, n)
    <3>1. CASE d = c /\ l = k
      BY <1>6, <2>1, <3>1 DEF Has
    <3>2. CASE d # c \/ l # k
      BY <1>6, <2>1, <3>2 DEF Has
    <3>3. QED
      BY <3>1, <3>2
  <2>2. QED
    BY <1>1, <2>1
<1>7. QED
  BY <1>2, <1>3, <1>4, <1>5, <1>6, Elsewhere

\* What a connection has carried had been sent.
LEMMA Known ==
    ASSUME EventTypes, ApartInv, NEW c \in Clients, NEW k \in Conns, sent[addr[c]] \in Nat
    PROVE  /\ \A i \in DOMAIN stream[c][k] : stream[c][k][i] < sent[addr[c]] + 1
           /\ \A i \in DOMAIN channel[c] : channel[c][i].conn = k => channel[c][i].event < sent[addr[c]] + 1
           /\ \A i \in DOMAIN bus :
                 bus[i].client = c /\ bus[i].conn = k => bus[i].event < sent[addr[c]] + 1
<1>1. ASSUME NEW n \in 1..MaxEvents, Has(c, k, n) PROVE n < sent[addr[c]] + 1
  <2>1. n <= sent[addr[c]] /\ n \in Nat
    BY <1>1, EventsBounded DEF ApartInv
  <2>2. QED
    BY <2>1
<1>2. OnTheWay
  BY Way
<1>3. \A i \in DOMAIN stream[c][k] : stream[c][k][i] \in 1..MaxEvents /\ Has(c, k, stream[c][k][i])
  BY <1>2 DEF OnTheWay, Has
<1>4. \A i \in DOMAIN channel[c] :
         channel[c][i].event \in 1..MaxEvents /\ (channel[c][i].conn = k => Has(c, k, channel[c][i].event))
  BY <1>2 DEF OnTheWay, Has
<1>5. \A i \in DOMAIN bus :
         /\ bus[i].event \in 1..MaxEvents
         /\ bus[i].client = c /\ bus[i].conn = k => Has(c, k, bus[i].event)
  BY <1>2 DEF OnTheWay, Has
<1>6. QED
  BY <1>1, <1>3, <1>4, <1>5

LEMMA StreamsNext == IInv /\ [Next]_vars => StreamsInOrder'
<1> SUFFICES ASSUME IInv, [Next]_vars PROVE StreamsInOrder'
  OBVIOUS
<1>0. EventTypes /\ ManagerTypes /\ OneUp /\ ApartInv /\ StreamsInOrder /\ ChannelInOrder /\ BusInOrder
  BY DEF IInv, EventInv, OwnerInv
<1>1. ASSUME NEW c \in Clients, NEW k \in Conns, Read(c, k) PROVE StreamsInOrder'
  <2>1. /\ 1 \in DOMAIN stream[c][k]
        /\ \A j \in DOMAIN stream'[c][k] :
              j \in Nat /\ 1 < j + 1 /\ j + 1 \in DOMAIN stream[c][k] /\ stream'[c][k][j] = stream[c][k][j + 1]
        /\ \A d \in Clients : \A l \in Conns : d # c \/ l # k => stream'[d][l] = stream[d][l]
        /\ \A d \in Clients : d # c => channel'[d] = channel[d]
    BY <1>0, <1>1, ReadEffect
  <2>2. PICK o \in {0, 1} :
           /\ \A i \in DOMAIN channel'[c] :
                 /\ i \in Nat
                 /\ \/ i + o \in DOMAIN channel[c] /\ channel'[c][i] = channel[c][i + o]
                    \/ channel'[c][i] = [conn |-> k, event |-> stream[c][k][1]]
           /\ \A i, j \in DOMAIN channel'[c] :
                 i < j => i + o < j + o /\ i + o \in DOMAIN channel[c] /\ channel'[c][i] = channel[c][i + o]
    BY <1>0, <1>1, ReadEffect
  <2>3. bus' = bus
    BY <1>1 DEF Read
  <2>4. \A i, j \in DOMAIN stream'[c][k] : i < j => stream'[c][k][i] < stream'[c][k][j]
    <3> SUFFICES ASSUME NEW i \in DOMAIN stream'[c][k], NEW j \in DOMAIN stream'[c][k], i < j
                 PROVE  stream'[c][k][i] < stream'[c][k][j]
      OBVIOUS
    <3>1. i \in Nat /\ j \in Nat /\ i + 1 \in DOMAIN stream[c][k] /\ j + 1 \in DOMAIN stream[c][k]
      BY <2>1
    <3>2. i + 1 < j + 1
      BY <3>1
    <3>3. QED
      BY <1>0, <2>1, <3>1, <3>2 DEF StreamsInOrder
  <2>5. QED
    BY <1>0, <2>1, <2>4 DEF StreamsInOrder
<1>2. ASSUME NEW c \in Clients, Translate(c) PROVE StreamsInOrder'
  BY <1>0, <1>2 DEF Translate, connVars, StreamsInOrder
<1>3. ASSUME NEW a \in Addresses, TelescopeSends(a) PROVE StreamsInOrder'
  <2>1. /\ sent'[a] = sent[a] + 1 /\ sent[a] \in Nat
        /\ \A c \in Clients : \A k \in Conns :
              \/ stream'[c][k] = stream[c][k]
              \/ /\ addr[c] = a /\ conn[c][k] = "up"
                 /\ \A i \in DOMAIN stream'[c][k] :
                       \/ i \in DOMAIN stream[c][k] /\ stream'[c][k][i] = stream[c][k][i]
                       \/ stream'[c][k][i] = sent[a] + 1
                 /\ \A i, j \in DOMAIN stream'[c][k] :
                       i < j => i \in DOMAIN stream[c][k] /\ stream'[c][k][i] = stream[c][k][i]
    BY <1>0, <1>3, SendsEffect
  <2>2. channel' = channel /\ bus' = bus /\ created' = created /\ addr' = addr
    BY <1>3 DEF TelescopeSends, managerVars
  <2>3. ASSUME NEW c \in Clients, NEW k \in Conns, addr[c] = a
        PROVE  /\ \A i \in DOMAIN stream[c][k] : stream[c][k][i] < sent[a] + 1
               /\ \A i \in DOMAIN channel[c] : channel[c][i].conn = k => channel[c][i].event < sent[a] + 1
               /\ \A i \in DOMAIN bus : bus[i].client = c /\ bus[i].conn = k => bus[i].event < sent[a] + 1
    BY <1>0, <2>1, <2>3, Known
  <2>4. ASSUME NEW c \in Clients, NEW k \in Conns,
               NEW i \in DOMAIN stream'[c][k], NEW j \in DOMAIN stream'[c][k], i < j
        PROVE  stream'[c][k][i] < stream'[c][k][j]
    <3>1. CASE stream'[c][k] = stream[c][k]
      BY <1>0, <2>4, <3>1 DEF StreamsInOrder
    <3>2. CASE stream'[c][k] # stream[c][k]
      <4>1. /\ addr[c] = a
            /\ i \in DOMAIN stream[c][k] /\ stream'[c][k][i] = stream[c][k][i]
            /\ \/ j \in DOMAIN stream[c][k] /\ stream'[c][k][j] = stream[c][k][j]
               \/ stream'[c][k][j] = sent[a] + 1
        BY <2>1, <2>4, <3>2
      <4>2. QED
        BY <1>0, <2>3, <2>4, <4>1 DEF StreamsInOrder
    <3>3. QED
      BY <3>1, <3>2
  <2>5. QED
    BY <2>4 DEF StreamsInOrder
<1>4. ASSUME NEW c \in Clients, NEW k \in Conns,
             stream'[c][k] = <<>>, channel' = channel, bus' = bus,
             \A d \in Clients : \A l \in Conns : d # c \/ l # k => stream'[d][l] = stream[d][l]
      PROVE  StreamsInOrder'
  <2>1. \A d \in Clients : \A l \in Conns : stream'[d][l] = <<>> \/ stream'[d][l] = stream[d][l]
    BY <1>4
  <2>2. QED
    BY <1>0, <1>4, <2>1 DEF StreamsInOrder
<1>5. CASE UNCHANGED <<stream, channel, bus>>
  BY <1>0, <1>5 DEF StreamsInOrder
<1>6. QED
  BY <1>1, <1>2, <1>3, <1>4, <1>5, Elsewhere

LEMMA ChannelNext == IInv /\ [Next]_vars => ChannelInOrder'
<1> SUFFICES ASSUME IInv, [Next]_vars PROVE ChannelInOrder'
  OBVIOUS
<1>0. EventTypes /\ ManagerTypes /\ OneUp /\ ApartInv /\ StreamsInOrder /\ ChannelInOrder /\ BusInOrder
  BY DEF IInv, EventInv, OwnerInv
<1>1. ASSUME NEW c \in Clients, NEW k \in Conns, Read(c, k) PROVE ChannelInOrder'
  <2>1. /\ 1 \in DOMAIN stream[c][k]
        /\ \A j \in DOMAIN stream'[c][k] :
              j \in Nat /\ 1 < j + 1 /\ j + 1 \in DOMAIN stream[c][k] /\ stream'[c][k][j] = stream[c][k][j + 1]
        /\ \A d \in Clients : \A l \in Conns : d # c \/ l # k => stream'[d][l] = stream[d][l]
        /\ \A d \in Clients : d # c => channel'[d] = channel[d]
    BY <1>0, <1>1, ReadEffect
  <2>2. PICK o \in {0, 1} :
           /\ \A i \in DOMAIN channel'[c] :
                 /\ i \in Nat
                 /\ \/ i + o \in DOMAIN channel[c] /\ channel'[c][i] = channel[c][i + o]
                    \/ channel'[c][i] = [conn |-> k, event |-> stream[c][k][1]]
           /\ \A i, j \in DOMAIN channel'[c] :
                 i < j => i + o < j + o /\ i + o \in DOMAIN channel[c] /\ channel'[c][i] = channel[c][i + o]
    BY <1>0, <1>1, ReadEffect
  <2>3. bus' = bus
    BY <1>1 DEF Read
  <2>4. ASSUME NEW i \in DOMAIN channel'[c], NEW j \in DOMAIN channel'[c],
               i < j, channel'[c][i].conn = channel'[c][j].conn
        PROVE  channel'[c][i].event < channel'[c][j].event
    <3>1. i + o < j + o /\ i + o \in DOMAIN channel[c] /\ channel'[c][i] = channel[c][i + o]
      BY <2>2, <2>4
    <3>2. CASE j + o \in DOMAIN channel[c] /\ channel'[c][j] = channel[c][j + o]
      BY <1>0, <2>4, <3>1, <3>2 DEF ChannelInOrder
    <3>3. CASE channel'[c][j] = [conn |-> k, event |-> stream[c][k][1]]
      <4>1. channel[c][i + o].conn = k /\ channel'[c][j].event = stream[c][k][1]
        BY <2>4, <3>1, <3>3
      <4>2. QED
        BY <1>0, <2>1, <3>1, <4>1 DEF ChannelInOrder
    <3>4. QED
      BY <2>2, <3>2, <3>3
  <2>5. ASSUME NEW i \in DOMAIN channel'[c], NEW l \in Conns, NEW j \in DOMAIN stream'[c][l],
               channel'[c][i].conn = l
        PROVE  channel'[c][i].event < stream'[c][l][j]
    <3>1. PICK m \in DOMAIN stream[c][l] : stream'[c][l][j] = stream[c][l][m] /\ (l = k => 1 < m)
      BY <2>1
    <3>2. CASE i + o \in DOMAIN channel[c] /\ channel'[c][i] = channel[c][i + o]
      BY <1>0, <2>5, <3>1, <3>2 DEF ChannelInOrder
    <3>3. CASE channel'[c][i] = [conn |-> k, event |-> stream[c][k][1]]
      <4>1. l = k /\ channel'[c][i].event = stream[c][k][1]
        BY <2>5, <3>3
      <4>2. stream[c][k][1] < stream[c][k][m]
        BY <1>0, <2>1, <3>1, <4>1 DEF StreamsInOrder
      <4>3. QED
        BY <3>1, <4>1, <4>2
    <3>4. QED
      BY <2>2, <3>2, <3>3
  <2>6. ASSUME NEW d \in Clients, d # c
        PROVE  channel'[d] = channel[d] /\ \A l \in Conns : stream'[d][l] = stream[d][l]
    BY <2>1, <2>6
  <2>7. QED
    BY <1>0, <2>4, <2>5, <2>6 DEF ChannelInOrder
<1>2. ASSUME NEW c \in Clients, Translate(c) PROVE ChannelInOrder'
  <2>1. /\ 1 \in DOMAIN channel[c]
        /\ \A j \in DOMAIN channel'[c] :
              j \in Nat /\ 1 < j + 1 /\ j + 1 \in DOMAIN channel[c] /\ channel'[c][j] = channel[c][j + 1]
        /\ \A d \in Clients : d # c => channel'[d] = channel[d]
    BY <1>0, <1>2, TranslateEffect
  <2>2. /\ \A i \in DOMAIN bus' :
              \/ i \in DOMAIN bus /\ bus'[i] = bus[i]
              \/ /\ bus'[i].client = c
                 /\ bus'[i].conn = channel[c][1].conn /\ bus'[i].event = channel[c][1].event
        /\ \A i, j \in DOMAIN bus' : i < j => i \in DOMAIN bus /\ bus'[i] = bus[i]
    BY <1>0, <1>2, TranslateEffect
  <2>3. stream' = stream
    BY <1>2 DEF Translate, connVars
  <2>4. ASSUME NEW i \in DOMAIN channel'[c], NEW j \in DOMAIN channel'[c],
               i < j, channel'[c][i].conn = channel'[c][j].conn
        PROVE  channel'[c][i].event < channel'[c][j].event
    <3>1. i \in Nat /\ j \in Nat /\ i + 1 \in DOMAIN channel[c] /\ j + 1 \in DOMAIN channel[c]
      BY <2>1
    <3>2. i + 1 < j + 1
      BY <2>4, <3>1
    <3>3. QED
      BY <1>0, <2>1, <2>4, <3>1, <3>2 DEF ChannelInOrder
  <2>5. ASSUME NEW i \in DOMAIN channel'[c], NEW k \in Conns, NEW j \in DOMAIN stream[c][k],
               channel'[c][i].conn = k
        PROVE  channel'[c][i].event < stream[c][k][j]
    BY <1>0, <2>1, <2>5 DEF ChannelInOrder
  <2>6. \A d \in Clients : d # c => channel'[d] = channel[d]
    BY <2>1
  <2>7. QED
    BY <1>0, <2>3, <2>4, <2>5, <2>6 DEF ChannelInOrder
<1>3. ASSUME NEW a \in Addresses, TelescopeSends(a) PROVE ChannelInOrder'
  <2>1. /\ sent'[a] = sent[a] + 1 /\ sent[a] \in Nat
        /\ \A c \in Clients : \A k \in Conns :
              \/ stream'[c][k] = stream[c][k]
              \/ /\ addr[c] = a /\ conn[c][k] = "up"
                 /\ \A i \in DOMAIN stream'[c][k] :
                       \/ i \in DOMAIN stream[c][k] /\ stream'[c][k][i] = stream[c][k][i]
                       \/ stream'[c][k][i] = sent[a] + 1
                 /\ \A i, j \in DOMAIN stream'[c][k] :
                       i < j => i \in DOMAIN stream[c][k] /\ stream'[c][k][i] = stream[c][k][i]
    BY <1>0, <1>3, SendsEffect
  <2>2. channel' = channel /\ bus' = bus /\ created' = created /\ addr' = addr
    BY <1>3 DEF TelescopeSends, managerVars
  <2>3. ASSUME NEW c \in Clients, NEW k \in Conns, addr[c] = a
        PROVE  /\ \A i \in DOMAIN stream[c][k] : stream[c][k][i] < sent[a] + 1
               /\ \A i \in DOMAIN channel[c] : channel[c][i].conn = k => channel[c][i].event < sent[a] + 1
               /\ \A i \in DOMAIN bus : bus[i].client = c /\ bus[i].conn = k => bus[i].event < sent[a] + 1
    BY <1>0, <2>1, <2>3, Known
  <2>4. ASSUME NEW c \in Clients, NEW k \in Conns,
               NEW i \in DOMAIN channel[c], NEW j \in DOMAIN stream'[c][k], channel[c][i].conn = k
        PROVE  channel[c][i].event < stream'[c][k][j]
    <3>1. \/ j \in DOMAIN stream[c][k] /\ stream'[c][k][j] = stream[c][k][j]
          \/ addr[c] = a /\ stream'[c][k][j] = sent[a] + 1
      BY <2>1
    <3>2. QED
      BY <1>0, <2>3, <2>4, <3>1 DEF ChannelInOrder
  <2>5. QED
    BY <1>0, <2>2, <2>4 DEF ChannelInOrder
<1>4. ASSUME NEW c \in Clients, NEW k \in Conns,
             stream'[c][k] = <<>>, channel' = channel, bus' = bus,
             \A d \in Clients : \A l \in Conns : d # c \/ l # k => stream'[d][l] = stream[d][l]
      PROVE  ChannelInOrder'
  <2>1. \A d \in Clients : \A l \in Conns : stream'[d][l] = <<>> \/ stream'[d][l] = stream[d][l]
    BY <1>4
  <2>2. QED
    BY <1>0, <1>4, <2>1 DEF ChannelInOrder
<1>5. CASE UNCHANGED <<stream, channel, bus>>
  BY <1>0, <1>5 DEF ChannelInOrder
<1>6. QED
  BY <1>1, <1>2, <1>3, <1>4, <1>5, Elsewhere

LEMMA BusNext == IInv /\ [Next]_vars => BusInOrder'
<1> SUFFICES ASSUME IInv, [Next]_vars PROVE BusInOrder'
  OBVIOUS
<1>0. EventTypes /\ ManagerTypes /\ OneUp /\ ApartInv /\ StreamsInOrder /\ ChannelInOrder /\ BusInOrder
  BY DEF IInv, EventInv, OwnerInv
<1>1. ASSUME NEW c \in Clients, NEW k \in Conns, Read(c, k) PROVE BusInOrder'
  <2>1. /\ 1 \in DOMAIN stream[c][k]
        /\ \A j \in DOMAIN stream'[c][k] :
              j \in Nat /\ 1 < j + 1 /\ j + 1 \in DOMAIN stream[c][k] /\ stream'[c][k][j] = stream[c][k][j + 1]
        /\ \A d \in Clients : \A l \in Conns : d # c \/ l # k => stream'[d][l] = stream[d][l]
        /\ \A d \in Clients : d # c => channel'[d] = channel[d]
    BY <1>0, <1>1, ReadEffect
  <2>2. PICK o \in {0, 1} :
           /\ \A i \in DOMAIN channel'[c] :
                 /\ i \in Nat
                 /\ \/ i + o \in DOMAIN channel[c] /\ channel'[c][i] = channel[c][i + o]
                    \/ channel'[c][i] = [conn |-> k, event |-> stream[c][k][1]]
           /\ \A i, j \in DOMAIN channel'[c] :
                 i < j => i + o < j + o /\ i + o \in DOMAIN channel[c] /\ channel'[c][i] = channel[c][i + o]
    BY <1>0, <1>1, ReadEffect
  <2>3. bus' = bus
    BY <1>1 DEF Read
  <2>4. ASSUME NEW i \in DOMAIN bus, NEW d \in Clients, NEW j \in DOMAIN channel'[d],
               bus[i].client = d, bus[i].conn = channel'[d][j].conn
        PROVE  bus[i].event < channel'[d][j].event
    <3>1. CASE d # c
      <4>1. channel'[d] = channel[d]
        BY <2>1, <3>1
      <4>2. QED
        BY <1>0, <2>4, <4>1 DEF BusInOrder
    <3>2. CASE d = c /\ j + o \in DOMAIN channel[c] /\ channel'[c][j] = channel[c][j + o]
      BY <1>0, <2>4, <3>2 DEF BusInOrder
    <3>3. CASE d = c /\ channel'[c][j] = [conn |-> k, event |-> stream[c][k][1]]
      <4>1. bus[i].client = c /\ bus[i].conn = k /\ channel'[d][j].event = stream[c][k][1]
        BY <2>4, <3>3
      <4>2. bus[i].event < stream[c][k][1]
        BY <1>0, <2>1, <4>1 DEF BusInOrder
      <4>3. QED
        BY <4>1, <4>2
    <3>4. QED
      BY <2>2, <3>1, <3>2, <3>3
  <2>5. ASSUME NEW i \in DOMAIN bus, NEW d \in Clients, NEW l \in Conns, NEW j \in DOMAIN stream'[d][l],
               bus[i].client = d, bus[i].conn = l
        PROVE  bus[i].event < stream'[d][l][j]
    <3>1. PICK m \in DOMAIN stream[d][l] : stream'[d][l][j] = stream[d][l][m]
      BY <2>1
    <3>2. QED
      BY <1>0, <2>5, <3>1 DEF BusInOrder
  <2>6. QED
    BY <1>0, <2>3, <2>4, <2>5 DEF BusInOrder
<1>2. ASSUME NEW c \in Clients, Translate(c) PROVE BusInOrder'
  <2>1. /\ 1 \in DOMAIN channel[c]
        /\ \A j \in DOMAIN channel'[c] :
              j \in Nat /\ 1 < j + 1 /\ j + 1 \in DOMAIN channel[c] /\ channel'[c][j] = channel[c][j + 1]
        /\ \A d \in Clients : d # c => channel'[d] = channel[d]
    BY <1>0, <1>2, TranslateEffect
  <2>2. /\ \A i \in DOMAIN bus' :
              \/ i \in DOMAIN bus /\ bus'[i] = bus[i]
              \/ /\ bus'[i].client = c
                 /\ bus'[i].conn = channel[c][1].conn /\ bus'[i].event = channel[c][1].event
        /\ \A i, j \in DOMAIN bus' : i < j => i \in DOMAIN bus /\ bus'[i] = bus[i]
    BY <1>0, <1>2, TranslateEffect
  <2>3. stream' = stream
    BY <1>2 DEF Translate, connVars
  <2>4. ASSUME NEW d \in Clients, NEW j \in DOMAIN channel'[d]
        PROVE  \E m \in DOMAIN channel[d] : channel'[d][j] = channel[d][m] /\ (d = c => 1 < m)
    BY <2>1
  <2>6. ASSUME NEW i \in DOMAIN bus', NEW j \in DOMAIN bus',
               i < j, bus'[i].client = bus'[j].client, bus'[i].conn = bus'[j].conn
        PROVE  bus'[i].event < bus'[j].event
    <3>1. i \in DOMAIN bus /\ bus'[i] = bus[i]
      BY <2>2, <2>6
    <3>2. CASE j \in DOMAIN bus /\ bus'[j] = bus[j]
      BY <1>0, <2>6, <3>1, <3>2 DEF BusInOrder
    <3>3. CASE /\ bus'[j].client = c
               /\ bus'[j].conn = channel[c][1].conn /\ bus'[j].event = channel[c][1].event
      BY <1>0, <2>1, <2>6, <3>1, <3>3 DEF BusInOrder
    <3>4. QED
      BY <2>2, <3>2, <3>3
  <2>7. ASSUME NEW i \in DOMAIN bus', NEW d \in Clients, NEW j \in DOMAIN channel'[d],
               bus'[i].client = d, bus'[i].conn = channel'[d][j].conn
        PROVE  bus'[i].event < channel'[d][j].event
    <3>1. PICK m \in DOMAIN channel[d] : channel'[d][j] = channel[d][m] /\ (d = c => 1 < m)
      BY <2>4
    <3>2. CASE i \in DOMAIN bus /\ bus'[i] = bus[i]
      BY <1>0, <2>7, <3>1, <3>2 DEF BusInOrder
    <3>3. CASE /\ bus'[i].client = c
               /\ bus'[i].conn = channel[c][1].conn /\ bus'[i].event = channel[c][1].event
      BY <1>0, <2>1, <2>7, <3>1, <3>3 DEF ChannelInOrder
    <3>4. QED
      BY <2>2, <3>2, <3>3
  <2>8. ASSUME NEW i \in DOMAIN bus', NEW d \in Clients, NEW l \in Conns, NEW j \in DOMAIN stream[d][l],
               bus'[i].client = d, bus'[i].conn = l
        PROVE  bus'[i].event < stream[d][l][j]
    <3>1. CASE i \in DOMAIN bus /\ bus'[i] = bus[i]
      BY <1>0, <2>8, <3>1 DEF BusInOrder
    <3>2. CASE /\ bus'[i].client = c
               /\ bus'[i].conn = channel[c][1].conn /\ bus'[i].event = channel[c][1].event
      BY <1>0, <2>1, <2>8, <3>2 DEF ChannelInOrder
    <3>3. QED
      BY <2>2, <3>1, <3>2
  <2>9. QED
    BY <2>3, <2>6, <2>7, <2>8 DEF BusInOrder
<1>3. ASSUME NEW a \in Addresses, TelescopeSends(a) PROVE BusInOrder'
  <2>1. /\ sent'[a] = sent[a] + 1 /\ sent[a] \in Nat
        /\ \A c \in Clients : \A k \in Conns :
              \/ stream'[c][k] = stream[c][k]
              \/ /\ addr[c] = a /\ conn[c][k] = "up"
                 /\ \A i \in DOMAIN stream'[c][k] :
                       \/ i \in DOMAIN stream[c][k] /\ stream'[c][k][i] = stream[c][k][i]
                       \/ stream'[c][k][i] = sent[a] + 1
                 /\ \A i, j \in DOMAIN stream'[c][k] :
                       i < j => i \in DOMAIN stream[c][k] /\ stream'[c][k][i] = stream[c][k][i]
    BY <1>0, <1>3, SendsEffect
  <2>2. channel' = channel /\ bus' = bus /\ created' = created /\ addr' = addr
    BY <1>3 DEF TelescopeSends, managerVars
  <2>3. ASSUME NEW c \in Clients, NEW k \in Conns, addr[c] = a
        PROVE  /\ \A i \in DOMAIN stream[c][k] : stream[c][k][i] < sent[a] + 1
               /\ \A i \in DOMAIN channel[c] : channel[c][i].conn = k => channel[c][i].event < sent[a] + 1
               /\ \A i \in DOMAIN bus : bus[i].client = c /\ bus[i].conn = k => bus[i].event < sent[a] + 1
    BY <1>0, <2>1, <2>3, Known
  <2>4. ASSUME NEW i \in DOMAIN bus, NEW c \in Clients, NEW k \in Conns, NEW j \in DOMAIN stream'[c][k],
               bus[i].client = c, bus[i].conn = k
        PROVE  bus[i].event < stream'[c][k][j]
    <3>1. \/ j \in DOMAIN stream[c][k] /\ stream'[c][k][j] = stream[c][k][j]
          \/ addr[c] = a /\ stream'[c][k][j] = sent[a] + 1
      BY <2>1
    <3>2. QED
      BY <1>0, <2>3, <2>4, <3>1 DEF BusInOrder
  <2>5. QED
    BY <1>0, <2>2, <2>4 DEF BusInOrder
<1>4. ASSUME NEW c \in Clients, NEW k \in Conns,
             stream'[c][k] = <<>>, channel' = channel, bus' = bus,
             \A d \in Clients : \A l \in Conns : d # c \/ l # k => stream'[d][l] = stream[d][l]
      PROVE  BusInOrder'
  <2>1. \A d \in Clients : \A l \in Conns : stream'[d][l] = <<>> \/ stream'[d][l] = stream[d][l]
    BY <1>4
  <2>2. QED
    BY <1>0, <1>4, <2>1 DEF BusInOrder
<1>5. CASE UNCHANGED <<stream, channel, bus>>
  BY <1>0, <1>5 DEF BusInOrder
<1>6. QED
  BY <1>1, <1>2, <1>3, <1>4, <1>5, Elsewhere

-----------------------------------------------------------------------------
(* Theorems                                                                *)

LEMMA Inductive == Spec => []IInv
<1>1. Init => IInv
  BY OwnerInit, EventInit DEF IInv
<1>2. IInv /\ [Next]_vars => IInv'
  BY OwnerNext, TypesNext, OneUpNext, ApartNext, StreamsNext, ChannelNext, BusNext DEF IInv, EventInv
<1>3. QED
  BY <1>1, <1>2, PTL DEF Spec

\* manager.rs, backend/seestar: every variable stays in its type, for any telescopes, tasks,
\* connections and events, a count of owners never below zero among them.
THEOREM TypeCorrect == Spec => []TypeOK
<1>1. IInv => TypeOK
  BY Bounded DEF IInv, OwnerInv, ManagerTypes, EventInv, EventTypes, TypeOK, Clients
<1>2. QED
  BY <1>1, Inductive, PTL

\* manager.rs:54: whoever adds, replaces, takes and drops devices, a client is shut down
\* exactly if nothing owns it or disconnect_all found it registered.
THEOREM ShutHolds == Spec => []ShutWhenUnowned
<1>1. IInv => ShutWhenUnowned
  <2> SUFFICES ASSUME IInv, NEW c \in 1..created PROVE shut[c] <=> ~Owned(c) \/ c \in reached
    BY DEF ShutWhenUnowned
  <2>1. ManagerTypes /\ RefInv /\ (shut[c] <=> refs[c] = 0 \/ c \in reached) /\ c \in Clients
    BY Bounded DEF IInv, OwnerInv, ShutInv, ManagerTypes, Clients
  <2>2. /\ BackendCount[c] \in Nat /\ HandCount[c] \in Nat /\ HeldCount[c] \in Nat
        /\ BackendCount[c] = 0 <=> \A a \in Addresses : backends[a] # c
        /\ HandCount[c] = 0 <=> \A t \in Adders : hand[t] # c
        /\ HeldCount[c] = 0 <=> \A h \in Holders : held[h] # c
    BY <2>1, BackendCounts, HandCounts, HeldCounts
  <2>3. refs[c] = 0 <=> BackendCount[c] = 0 /\ HandCount[c] = 0 /\ HeldCount[c] = 0
    BY <2>1, <2>2 DEF RefInv
  <2>4. refs[c] = 0 <=> ~Owned(c)
    BY <2>2, <2>3 DEF Owned
  <2>5. QED
    BY <2>1, <2>4
<1>2. QED
  BY <1>1, Inductive, PTL

\* control.rs:245, event_translator.rs:26: for any capacity, lags, lost connections and
\* readers left behind, the bus has an event once from a client, and those of a connection
\* in order.
THEOREM EventsHold == Spec => []EventsOnceInOrder
<1>1. IInv => EventsOnceInOrder
  <2> SUFFICES ASSUME IInv, NEW i \in DOMAIN bus, NEW j \in DOMAIN bus,
                      i < j, bus[i].client = bus[j].client
               PROVE  /\ bus[i].event # bus[j].event
                      /\ bus[i].conn = bus[j].conn => bus[i].event < bus[j].event
    BY DEF EventsOnceInOrder
  <2>1. EventTypes /\ ApartInv /\ BusInOrder
    BY DEF IInv, EventInv
  <2>2. /\ bus[i].client \in Clients /\ bus[i].conn \in Conns /\ bus[j].conn \in Conns
        /\ bus[i].event \in 1..MaxEvents /\ bus[i].event \in Nat /\ bus[j].event \in Nat
    BY <2>1, Way DEF OnTheWay
  <2>3. bus[i].conn = bus[j].conn => bus[i].event < bus[j].event
    BY <2>1 DEF BusInOrder
  <2>4. ASSUME bus[i].event = bus[j].event PROVE bus[i].conn = bus[j].conn
    <3>1. Has(bus[i].client, bus[i].conn, bus[i].event) /\ Has(bus[i].client, bus[j].conn, bus[i].event)
      BY <2>4 DEF Has
    <3>2. QED
      BY <2>1, <2>2, <3>1 DEF ApartInv
  <2>5. QED
    BY <2>2, <2>3, <2>4
<1>2. QED
  BY <1>1, Inductive, PTL
=============================================================================
