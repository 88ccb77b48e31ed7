-------------------------- MODULE Instances_proofs --------------------------
(***************************************************************************)
(* Proofs about instances: whoever walks, loads, quits, joins or leaves a  *)
(* party, and however an instance goes, InstancesKept stays true, for any  *)
(* number of players, parties, instances and maps.                         *)
(*                                                                         *)
(* The handlers work on the state w of all of it, so the invariant is      *)
(* about such a w.  It has two parts.  Sound says what each of the helpers *)
(* keeps, also in the middle of the loops that take an instance away: the  *)
(* counts, the timers, the lists of maps and where players may be.  Named, *)
(* that an instance and its party name each other, does not hold in the    *)
(* middle of them.                                                         *)
(***************************************************************************)
EXTENDS Instances, Iteration, FiniteSetTheorems

Account == [used : BOOLEAN, party_id : Parties \cup {0}, map : Seq(Slots), users : Nat,
            idleval : BOOLEAN, idle : BOOLEAN, progress : BOOLEAN]
Copied == [instance_id : {0} \cup Numbers, src : Sources \cup {Town}]
Band == [known : BOOLEAN, instance_id : {0} \cup Numbers]
Maps == {Town} \cup Sources \cup Slots
Walker == [at : {"map", "loading", "gone"}, m : Maps, save : {Town}, party_id : Parties \cup {0}, rewarp : BOOLEAN]
Worlds == [instance : [Numbers -> Account], copy : [Slots -> Copied], party : [Parties -> Band],
           adventurer : [Adventurers -> Walker]]

Inside(w, i) == {p \in Adventurers : w.adventurer[p].at = "map" /\ InstanceOf(w, w.adventurer[p].m) = i}
Counted(w, i) == w.instance[i].users = Cardinality(Inside(w, i))
Timed(w, i) == w.instance[i].idle = (w.instance[i].used /\ w.instance[i].idleval /\ w.instance[i].users = 0)

(* The maps of an instance are listed once each, and are those that name it. *)
Listed(w, i) ==
    LET s == w.instance[i].map
    IN  /\ \A j, k \in 1 .. Len(s) : s[j] = s[k] => j = k
        /\ \A j \in 1 .. Len(s) : w.copy[s[j]].instance_id = i
        /\ \A r \in Slots : w.copy[r].instance_id = i => \E j \in 1 .. Len(s) : s[j] = r

Fresh(w, i) == ~w.instance[i].used => w.instance[i] = FreeInstance

(* A player may be, or be about to be, on a map that is in use; who is gone is on no map of an instance. *)
Placed(w, p) ==
    w.adventurer[p].m \in Slots => w.copy[w.adventurer[p].m].instance_id # 0 /\ w.adventurer[p].at # "gone"

(* All of it but, for the numbers in I, the idle timer, which instance_check_idle then sets. *)
SoundBut(w, I) ==
    /\ w \in Worlds
    /\ \A i \in Numbers : Counted(w, i) /\ Listed(w, i) /\ Fresh(w, i)
    /\ \A i \in Numbers : IF i \in I THEN ~(w.instance[i].used /\ w.instance[i].idleval) => ~w.instance[i].idle ELSE Timed(w, i)
    /\ \A p \in Adventurers : Placed(w, p)
Sound(w) == SoundBut(w, {})

Named(w) ==
    /\ \A i \in Numbers : w.instance[i].used =>
          LET q == w.instance[i].party_id IN q # 0 /\ w.party[q].known /\ w.party[q].instance_id = i
    /\ \A q \in Parties : w.party[q].instance_id # 0 => w.instance[w.party[q].instance_id].party_id = q

InstanceInv == Sound(World) /\ Named(World)

-----------------------------------------------------------------------------
LEMMA FreeIsAccount == FreeInstance \in Account /\ FreeInstance.map = << >> /\ FreeInstance.users = 0
                       /\ ~FreeInstance.used /\ ~FreeInstance.idle /\ ~FreeInstance.idleval /\ FreeInstance.party_id = 0
BY DEF FreeInstance, Account

LEMMA FreeIsCopied == FreeSlot \in Copied /\ FreeSlot.instance_id = 0
BY DEF FreeSlot, Copied

LEMMA NumbersArePositive == \A i \in Numbers : i \in Nat /\ i # 0
BY InstanceAssumption DEF Numbers

(* Only numbers in use have maps. *)
LEMMA MapsAreOfUsed ==
    ASSUME NEW w, NEW I, SoundBut(w, I), NEW s \in Slots, w.copy[s].instance_id # 0
    PROVE  w.copy[s].instance_id \in Numbers /\ w.instance[w.copy[s].instance_id].used
<1> DEFINE i == w.copy[s].instance_id
<1>1. i \in Numbers
    BY DEF SoundBut, Worlds, Copied
<1>2. Listed(w, i) /\ Fresh(w, i) /\ w.instance[i] \in Account
    BY <1>1 DEF SoundBut, Worlds
<1> HIDE DEF i
<1>3. \E j \in 1 .. Len(w.instance[i].map) : w.instance[i].map[j] = s
    BY <1>2 DEF Listed, i
<1>4. w.instance[i].used
  <2>1. CASE ~w.instance[i].used
      BY <1>2, <1>3, <2>1, FreeIsAccount DEF Fresh
  <2>2. w.instance[i].used \in BOOLEAN
      BY <1>2 DEF Account
  <2> QED BY <2>1, <2>2
<1> QED BY <1>1, <1>4 DEF i

(* An account with its count or its timer changed. *)
LEMMA UsersField ==
    ASSUME NEW x \in Account, NEW n \in Nat
    PROVE  /\ [x EXCEPT !.users = n] \in Account /\ [x EXCEPT !.users = n].users = n
           /\ \A f \in {"used", "party_id", "map", "idleval", "idle", "progress"} : [x EXCEPT !.users = n][f] = x[f]
BY DEF Account

LEMMA IdleField ==
    ASSUME NEW x \in Account, NEW b \in BOOLEAN
    PROVE  /\ [x EXCEPT !.idle = b] \in Account /\ [x EXCEPT !.idle = b].idle = b
           /\ \A f \in {"used", "party_id", "map", "idleval", "users", "progress"} : [x EXCEPT !.idle = b][f] = x[f]
BY DEF Account

(* What does not touch the lists: same maps, same parties, other counts, timers and places. *)
Alike(v, w) ==
    /\ v.copy = w.copy /\ v.party = w.party
    /\ \A i \in Numbers : /\ v.instance[i].used = w.instance[i].used /\ v.instance[i].map = w.instance[i].map
                          /\ v.instance[i].party_id = w.instance[i].party_id

(* Listed is about an instance's list of maps and the slots only. *)
LEMMA ListedAlike ==
    ASSUME NEW w, NEW v, NEW i \in Numbers, Listed(w, i),
           v.copy = w.copy, v.instance[i].map = w.instance[i].map
    PROVE  Listed(v, i)
BY Zenon DEF Listed

LEMMA CheckedIdle ==
    ASSUME NEW w, NEW i \in Numbers, SoundBut(w, {i})
    PROVE  /\ Sound(instance_check_idle(w, i))
           /\ Alike(instance_check_idle(w, i), w)
           /\ instance_check_idle(w, i).adventurer = w.adventurer
<1> DEFINE x == w.instance[i]
           b == IdleTimer(x)
           v == instance_check_idle(w, i)
<1>1. w \in Worlds /\ x \in Account /\ x.users \in Nat /\ b \in BOOLEAN
    BY DEF SoundBut, Worlds, Account, IdleTimer
<1>2. CASE ~(x.used /\ x.idleval)
  <2>1. v = w
      BY <1>2 DEF instance_check_idle
  <2>2. Timed(w, i)
      BY <1>1, <1>2 DEF SoundBut, Timed, Account
  <2> HIDE DEF v
  <2>3. Sound(w)
      BY <2>2 DEF Sound, SoundBut
  <2>4. Alike(w, w)
      BY DEF Alike
  <2> QED BY <2>1, <2>3, <2>4 DEF v
<1>3. CASE x.used /\ x.idleval
  <2> DEFINE y == [x EXCEPT !.idle = b]
             in == [w.instance EXCEPT ![i] = y]
  <2>1. v = [w EXCEPT !.instance = in]
      BY <1>1, <1>3 DEF instance_check_idle, Worlds
  <2>2. y \in Account /\ y.idle = b /\ y.used = x.used /\ y.party_id = x.party_id /\ y.map = x.map /\ y.idleval = x.idleval /\ y.users = x.users
      BY <1>1, IdleField
  <2> HIDE DEF y
  <2>3. in \in [Numbers -> Account] /\ in[i] = y /\ \A j \in Numbers \ {i} : in[j] = w.instance[j]
      BY <1>1, <2>2 DEF Worlds
  <2> HIDE DEF in, v
  <2>4. v \in Worlds /\ v.instance = in /\ v.copy = w.copy /\ v.party = w.party /\ v.adventurer = w.adventurer
      BY <1>1, <2>1, <2>3 DEF Worlds
  <2>5. Alike(v, w)
      BY <2>2, <2>3, <2>4 DEF Alike
  <2>6. \A j \in Numbers : Inside(v, j) = Inside(w, j)
      BY <2>4 DEF Inside, InstanceOf
  <2>7. \A j \in Numbers : Counted(v, j) /\ Listed(v, j)
    <3>1. ASSUME NEW j \in Numbers PROVE v.instance[j].map = w.instance[j].map /\ v.instance[j].users = w.instance[j].users
      <4>1. CASE j = i
          BY <4>1, <2>2, <2>3, <2>4
      <4>2. CASE j # i
          BY <4>2, <2>3, <2>4
      <4> QED BY <4>1, <4>2
    <3>2. \A j \in Numbers : Counted(w, j) /\ Listed(w, j)
        BY DEF SoundBut
    <3>3. \A j \in Numbers : Counted(v, j)
        BY <2>6, <3>1, <3>2 DEF Counted
    <3>4. \A j \in Numbers : Listed(v, j)
        BY <2>4, <3>1, <3>2, ListedAlike
    <3> QED BY <3>3, <3>4
  <2>8. \A j \in Numbers : Fresh(v, j)
      BY <1>3, <2>2, <2>3, <2>4 DEF SoundBut, Fresh
  <2>9. \A j \in Numbers : Timed(v, j)
    <3>1. Timed(v, i)
        BY <1>3, <2>2, <2>3, <2>4 DEF Timed, IdleTimer
    <3> QED BY <2>3, <2>4, <3>1 DEF SoundBut, Timed
  <2>10. \A p \in Adventurers : Placed(v, p)
      BY <2>4 DEF SoundBut, Placed
  <2>11. Sound(v)
      BY <2>4, <2>7, <2>8, <2>9, <2>10 DEF Sound, SoundBut
  <2> QED BY <2>4, <2>5, <2>11 DEF v
<1> QED BY <1>2, <1>3

-----------------------------------------------------------------------------
(* A player moves, and the numbers in I count it out or in. *)
LEMMA Recounted ==
    ASSUME NEW w, Sound(w), NEW v \in Worlds, NEW p \in Adventurers, NEW I \in SUBSET Numbers,
           v.copy = w.copy,
           \A q \in Adventurers \ {p} : v.adventurer[q] = w.adventurer[q],
           Placed(v, p),
           \A j \in Numbers \ I : v.instance[j] = w.instance[j] /\ (p \in Inside(v, j) <=> p \in Inside(w, j)),
           \A j \in I : /\ w.instance[j].used
                        /\ v.instance[j].used = w.instance[j].used /\ v.instance[j].map = w.instance[j].map
                        /\ v.instance[j].idleval = w.instance[j].idleval /\ v.instance[j].idle = w.instance[j].idle
                        /\ \/ p \in Inside(v, j) /\ p \notin Inside(w, j) /\ v.instance[j].users = w.instance[j].users + 1
                           \/ p \notin Inside(v, j) /\ p \in Inside(w, j) /\ v.instance[j].users = w.instance[j].users - 1
    PROVE  SoundBut(v, I)
<1>1. /\ w \in Worlds
      /\ \A j \in Numbers : Counted(w, j) /\ Listed(w, j) /\ Fresh(w, j) /\ Timed(w, j)
      /\ \A q \in Adventurers : Placed(w, q)
    BY DEF Sound, SoundBut
<1>2. ASSUME NEW j \in Numbers
      PROVE  /\ IsFiniteSet(Inside(w, j))
             /\ \A q \in Adventurers \ {p} : q \in Inside(v, j) <=> q \in Inside(w, j)
             /\ Inside(v, j) \subseteq Adventurers /\ Inside(w, j) \subseteq Adventurers
  <2>1. Inside(w, j) \in SUBSET Adventurers /\ Inside(v, j) \subseteq Adventurers
      BY DEF Inside
  <2>2. IsFiniteSet(Inside(w, j))
      BY <2>1, InstanceAssumption, FS_Subset
  <2>3. \A q \in Adventurers \ {p} : q \in Inside(v, j) <=> q \in Inside(w, j)
      BY DEF Inside, InstanceOf
  <2> QED BY <2>1, <2>2, <2>3
<1>3. ASSUME NEW j \in Numbers \ I
      PROVE  Counted(v, j) /\ Listed(v, j) /\ Fresh(v, j) /\ Timed(v, j)
  <2>1. v.instance[j] = w.instance[j] /\ Inside(v, j) = Inside(w, j)
      BY <1>2
  <2> QED BY <1>1, <2>1 DEF Counted, Listed, Fresh, Timed
<1>4. ASSUME NEW j \in I
      PROVE  /\ Counted(v, j) /\ Listed(v, j) /\ Fresh(v, j)
             /\ ~(v.instance[j].used /\ v.instance[j].idleval) => ~v.instance[j].idle
  <2>1. /\ v.instance[j].used = w.instance[j].used /\ v.instance[j].map = w.instance[j].map
        /\ v.instance[j].idleval = w.instance[j].idleval /\ v.instance[j].idle = w.instance[j].idle /\ w.instance[j].used
      OBVIOUS
  <2>2. j \in Numbers /\ Timed(w, j) /\ Listed(w, j) /\ Counted(w, j)
      BY <1>1
  <2>3. Listed(v, j)
      BY <2>1, <2>2, ListedAlike
  <2>4. Fresh(v, j) /\ (~(v.instance[j].used /\ v.instance[j].idleval) => ~v.instance[j].idle)
      BY <2>1, <2>2, Zenon DEF Fresh, Timed
  <2>5. Counted(v, j)
    <3> DEFINE in == Inside(w, j)
               n == Cardinality(in)
    <3>1. IsFiniteSet(in) /\ n \in Nat /\ w.instance[j].users = n
        BY <1>2, <2>2, FS_CardinalityType DEF Counted
    <3>2. CASE p \in Inside(v, j) /\ p \notin in /\ v.instance[j].users = w.instance[j].users + 1
      <4>1. Inside(v, j) = in \cup {p}
          BY <1>2, <2>2, <3>2
      <4> HIDE DEF in
      <4>2. Cardinality(in \cup {p}) = Cardinality(in) + 1
          BY <3>1, <3>2, FS_AddElement
      <4> QED BY <3>1, <3>2, <4>1, <4>2 DEF Counted
    <3>3. CASE p \notin Inside(v, j) /\ p \in in /\ v.instance[j].users = w.instance[j].users - 1
      <4>1. Inside(v, j) = in \ {p}
          BY <1>2, <2>2, <3>3
      <4> HIDE DEF in
      <4>2. Cardinality(in \ {p}) = Cardinality(in) - 1
          BY <3>1, <3>3, FS_RemoveElement
      <4> QED BY <3>1, <3>3, <4>1, <4>2 DEF Counted
    <3> QED BY <3>2, <3>3
  <2> QED BY <2>3, <2>4, <2>5
<1>5. \A q \in Adventurers : Placed(v, q)
    BY <1>1 DEF Placed
<1> QED BY <1>3, <1>4, <1>5 DEF SoundBut

(* Nobody is counted: a player who is on no map before and after. *)
LEMMA AwayStays ==
    ASSUME NEW w, Sound(w), NEW p \in Adventurers, NEW a \in Walker,
           w.adventurer[p].at # "map", a.at # "map" \/ InstanceOf(w, a.m) = 0,
           a.m \in Slots => w.copy[a.m].instance_id # 0 /\ a.at # "gone",
           NEW v \in Worlds, v.instance = w.instance, v.copy = w.copy,
           v.adventurer = [w.adventurer EXCEPT ![p] = a]
    PROVE  Sound(v) /\ v.adventurer[p] = a /\ \A q \in Adventurers \ {p} : v.adventurer[q] = w.adventurer[q]
<1>1. w \in Worlds /\ w.adventurer \in [Adventurers -> Walker]
    BY DEF Sound, SoundBut, Worlds
<1>2. v.adventurer[p] = a /\ \A q \in Adventurers \ {p} : v.adventurer[q] = w.adventurer[q]
    BY <1>1
<1>4. Placed(v, p)
    BY <1>2 DEF Placed
<1>5. \A j \in Numbers : p \notin Inside(v, j) /\ p \notin Inside(w, j)
    BY <1>2, NumbersArePositive DEF Inside, InstanceOf
<1>6. SoundBut(v, {})
  <2> DEFINE I == {}
  <2>1. I \in SUBSET Numbers /\ \A j \in I : FALSE
      OBVIOUS
  <2>2. \A j \in Numbers \ I : v.instance[j] = w.instance[j] /\ (p \in Inside(v, j) <=> p \in Inside(w, j))
      BY <1>5
  <2> HIDE DEF I
  <2>3. SoundBut(v, I)
      BY <1>2, <1>4, <2>1, <2>2, Recounted
  <2> QED BY <2>3 DEF I
<1> QED BY <1>2, <1>6 DEF Sound

(* A player off the map: the session loads the next one, or was gone or loading already. *)
Unloaded(a) == [a EXCEPT !.at = IF @ = "map" THEN "loading" ELSE @]

LEMMA RemoveMapKeeps ==
    ASSUME NEW w, Sound(w), NEW p \in Adventurers
    PROVE  /\ Sound(unit_remove_map(w, p)) /\ Alike(unit_remove_map(w, p), w)
           /\ unit_remove_map(w, p).adventurer = [w.adventurer EXCEPT ![p] = Unloaded(w.adventurer[p])]
<1> DEFINE x == w.adventurer[p]
           i == InstanceOf(w, x.m)
           ad == [w.adventurer EXCEPT ![p] = Unloaded(x)]
           out == [w EXCEPT !.adventurer[p].at = "loading"]
           off == unit_remove_map(w, p)
<1>1. w \in Worlds /\ x \in Walker /\ w.adventurer \in [Adventurers -> Walker] /\ Placed(w, p) /\ Alike(w, w)
    BY DEF Sound, SoundBut, Worlds, Alike
<1>2. CASE x.at # "map"
  <2>1. Unloaded(x) = x
      BY <1>1, <1>2 DEF Walker, Unloaded
  <2>2. ad = w.adventurer
      BY <1>1, <2>1
  <2>3. off = w
      BY <1>2 DEF unit_remove_map
  <2> QED BY <1>1, <2>2, <2>3
<1>3. CASE x.at = "map"
  <2>1. /\ Unloaded(x) = [x EXCEPT !.at = "loading"] /\ Unloaded(x) \in Walker
        /\ Unloaded(x).at = "loading" /\ Unloaded(x).m = x.m
      BY <1>1, <1>3 DEF Walker, Unloaded
  <2>2. out = [w EXCEPT !.adventurer = ad]
      BY <1>1, <2>1 DEF Worlds
  <2>3. ad \in [Adventurers -> Walker] /\ ad[p] = Unloaded(x) /\ \A q \in Adventurers \ {p} : ad[q] = w.adventurer[q]
      BY <1>1, <2>1
  <2> DEFINE y == Unloaded(x)
  <2> HIDE DEF ad, out
  <2>4. out \in Worlds /\ out.adventurer = ad /\ out.instance = w.instance /\ out.copy = w.copy /\ out.party = w.party
      BY <1>1, <2>2, <2>3 DEF Worlds
  <2>5. CASE i = 0
    <3>1. y \in Walker /\ y.at # "map" /\ x.m = y.m /\ InstanceOf(w, y.m) = 0
        BY <2>1, <2>5
    <3>2. off = out
        BY <1>3, <2>5 DEF unit_remove_map, out
    <3>3. y.m \in Slots => w.copy[y.m].instance_id # 0 /\ y.at # "gone"
        BY <1>1, <2>1 DEF Placed
    <3>4. out.adventurer = [w.adventurer EXCEPT ![p] = y]
        BY <2>4 DEF ad
    <3> HIDE DEF y
    <3>5. \A j \in Numbers : p \notin Inside(out, j) /\ p \notin Inside(w, j)
      <4>1. out.adventurer[p] = y
          BY <2>3, <2>4 DEF y
      <4> QED BY <2>4, <2>5, <3>1, <4>1, NumbersArePositive DEF Inside
    <3>6. Placed(out, p)
        BY <2>3, <2>4, <3>3 DEF Placed, y
    <3>7. SoundBut(out, {})
      <4> DEFINE I == {}
      <4>1. I \in SUBSET Numbers /\ \A j \in I : FALSE
          OBVIOUS
      <4>2. \A j \in Numbers \ I : out.instance[j] = w.instance[j] /\ (p \in Inside(out, j) <=> p \in Inside(w, j))
          BY <2>4, <3>5
      <4> HIDE DEF I
      <4>3. SoundBut(out, I)
          BY <2>3, <2>4, <3>6, <4>1, <4>2, Recounted
      <4> QED BY <4>3 DEF I
    <3>8. Alike(out, w)
        BY <2>4 DEF Alike
    <3> QED BY <2>4, <3>2, <3>7, <3>8 DEF Sound, ad
  <2>6. CASE i # 0
    <3>1. x.m \in Slots /\ i = w.copy[x.m].instance_id
        BY <2>6 DEF InstanceOf
    <3>2. i \in Numbers /\ w.instance[i].used
        BY <2>6, <3>1, MapsAreOfUsed DEF Sound
    <3> DEFINE n == w.instance[i].users - 1
               z == [w.instance[i] EXCEPT !.users = n]
               in == [w.instance EXCEPT ![i] = z]
               v == [out EXCEPT !.instance[i].users = @ - 1]
    <3>3. n \in Nat
      <4>1. p \in Inside(w, i) /\ Inside(w, i) \in SUBSET Adventurers
          BY <1>3 DEF Inside
      <4>2. IsFiniteSet(Inside(w, i))
          BY <4>1, InstanceAssumption, FS_Subset
      <4>3. Cardinality(Inside(w, i)) \in Nat /\ Cardinality(Inside(w, i)) # 0
          BY <4>1, <4>2, FS_CardinalityType, FS_EmptySet
      <4>4. w.instance[i].users = Cardinality(Inside(w, i))
          BY <3>2 DEF Sound, SoundBut, Counted
      <4> QED BY <4>3, <4>4
    <3>4. w.instance \in [Numbers -> Account] /\ w.instance[i] \in Account
        BY <1>1, <3>2 DEF Worlds
    <3>5. v = [out EXCEPT !.instance = in]
        BY <2>4, <3>2, <3>4 DEF Worlds
    <3>6. off = instance_check_idle(v, i)
        BY <1>3, <2>6 DEF unit_remove_map, out
    <3> HIDE DEF n
    <3>7. /\ z \in Account /\ z.users = n /\ z.used = w.instance[i].used /\ z.party_id = w.instance[i].party_id
          /\ z.map = w.instance[i].map /\ z.idleval = w.instance[i].idleval /\ z.idle = w.instance[i].idle
        BY <3>3, <3>4, UsersField
    <3> HIDE DEF z
    <3>8. in \in [Numbers -> Account] /\ in[i] = z /\ \A j \in Numbers \ {i} : in[j] = w.instance[j]
        BY <3>2, <3>4, <3>7
    <3> HIDE DEF in, v, i
    <3>9. v \in Worlds /\ v.instance = in /\ v.copy = w.copy /\ v.party = w.party /\ v.adventurer = ad
        BY <1>1, <2>3, <2>4, <3>5, <3>8 DEF Worlds
    <3>10. Alike(v, w)
        BY <3>7, <3>8, <3>9 DEF Alike
    <3>11. /\ \A j \in Numbers : p \notin Inside(v, j)
           /\ \A j \in Numbers : p \in Inside(w, j) <=> j = i
        BY <1>3, <2>1, <2>3, <3>9 DEF Inside, i
    <3>12. Placed(v, p)
        BY <1>1, <2>1, <2>3, <3>9 DEF Placed
    <3>13. SoundBut(v, {i})
      <4> DEFINE I == {i}
      <4>1. I \in SUBSET Numbers
          BY <3>2
      <4>2. \A j \in Numbers \ I : v.instance[j] = w.instance[j] /\ (p \in Inside(v, j) <=> p \in Inside(w, j))
          BY <3>8, <3>9, <3>11
      <4>3. \A j \in I : /\ w.instance[j].used
                         /\ v.instance[j].used = w.instance[j].used /\ v.instance[j].map = w.instance[j].map
                         /\ v.instance[j].idleval = w.instance[j].idleval /\ v.instance[j].idle = w.instance[j].idle
                         /\ p \notin Inside(v, j) /\ p \in Inside(w, j) /\ v.instance[j].users = w.instance[j].users - 1
          BY <3>2, <3>7, <3>8, <3>9, <3>11 DEF n
      <4> HIDE DEF I
      <4>4. SoundBut(v, I)
          BY <2>3, <3>9, <3>12, <4>1, <4>2, <4>3, Recounted
      <4> QED BY <4>4 DEF I
    <3>14. Sound(off) /\ Alike(off, v) /\ off.adventurer = ad
        BY <3>2, <3>6, <3>9, <3>13, CheckedIdle
    <3>15. Alike(off, w)
        BY <3>10, <3>14 DEF Alike
    <3> QED BY <3>14, <3>15 DEF ad
  <2> QED BY <2>5, <2>6
<1> QED BY <1>2, <1>3

-----------------------------------------------------------------------------
(* A copy of a source in an instance is a map of that instance. *)
LEMMA CopyIsOfInstance ==
    ASSUME NEW w, Sound(w), NEW m, NEW i \in Numbers, HasCopy(w, m, i)
    PROVE  CopyOf(w, m, i) \in Slots /\ w.copy[CopyOf(w, m, i)].instance_id = i
<1> DEFINE s == w.instance[i].map
           K == CopiesOf(w, m, i)
           k == CHOOSE k \in K : \A l \in K : k <= l
<1>1. s \in Seq(Slots) /\ Listed(w, i)
    BY DEF Sound, SoundBut, Worlds, Account
<1>2. K \subseteq 1 .. Len(s) /\ K # {}
    BY <1>1 DEF CopiesOf, HasCopy
<1>3. k \in 1 .. Len(s)
  <2>1. \E x \in K : \A l \in K : x <= l
    <3>1. K \subseteq Nat
        BY <1>2
    <3> HIDE DEF K
    <3> QED BY <1>2, <3>1, LeastNatural
  <2> QED BY <1>2, <2>1
<1>4. CopyOf(w, m, i) = s[k]
    BY DEF CopyOf
<1> HIDE DEF k
<1>5. s[k] \in Slots /\ w.copy[s[k]].instance_id = i
    BY <1>1, <1>3 DEF Listed
<1> QED BY <1>4, <1>5

(* Setting fields of one player is setting that player. *)
WithPlayer(w, p, x) == [w EXCEPT !.adventurer = [w.adventurer EXCEPT ![p] = x]]
Bound(w, p, m, r) == [w EXCEPT !.adventurer[p].m = m, !.adventurer[p].rewarp = r]
Quitting(w, p, m) == [w EXCEPT !.adventurer[p].at = "gone", !.adventurer[p].rewarp = FALSE, !.adventurer[p].m = m]

BoundPlayer(x, m, r) == [x EXCEPT !.m = m, !.rewarp = r]
GonePlayer(x, m) == [x EXCEPT !.at = "gone", !.rewarp = FALSE, !.m = m]

LEMMA FieldsOfOne ==
    ASSUME NEW w \in Worlds, NEW p \in Adventurers, NEW m, NEW r
    PROVE  Bound(w, p, m, r) = WithPlayer(w, p, BoundPlayer(w.adventurer[p], m, r))
<1> DEFINE f == w.adventurer
           g == [f EXCEPT ![p] = [@ EXCEPT !.m = m]]
<1>1. w = [instance |-> w.instance, copy |-> w.copy, party |-> w.party, adventurer |-> f] /\ f \in [Adventurers -> Walker]
    BY DEF Worlds
<1>2. g[p] = [f[p] EXCEPT !.m = m] /\ f[p] \in Walker
    BY <1>1
<1> HIDE DEF f
<1>3. [w EXCEPT !.adventurer[p].m = m] = [w EXCEPT !.adventurer = g]
    BY <1>1
<1>4. [w EXCEPT !.adventurer[p].m = m, !.adventurer[p].rewarp = r] = [[w EXCEPT !.adventurer = g] EXCEPT !.adventurer[p].rewarp = r]
    BY <1>3
<1> HIDE DEF g
<1>5. [[w EXCEPT !.adventurer = g] EXCEPT !.adventurer[p].rewarp = r] = [w EXCEPT !.adventurer = [g EXCEPT ![p].rewarp = r]]
    BY <1>1
<1>6. [g EXCEPT ![p].rewarp = r] = [f EXCEPT ![p] = [f[p] EXCEPT !.m = m, !.rewarp = r]]
    BY <1>1, <1>2 DEF g, Walker
<1> QED BY <1>4, <1>5, <1>6 DEF f, Bound, BoundPlayer, WithPlayer

LEMMA GoneFields ==
    ASSUME NEW w \in Worlds, NEW p \in Adventurers, NEW m
    PROVE  Quitting(w, p, m) = WithPlayer(w, p, GonePlayer(w.adventurer[p], m))
<1> DEFINE f == w.adventurer
           z == [f[p] EXCEPT !.at = "gone"]
           g == [f EXCEPT ![p] = z]
           u == [w EXCEPT !.adventurer = g]
           h == [g EXCEPT ![p] = [@ EXCEPT !.rewarp = FALSE]]
<1>1. w = [instance |-> w.instance, copy |-> w.copy, party |-> w.party, adventurer |-> f] /\ f \in [Adventurers -> Walker]
    BY DEF Worlds
<1> HIDE DEF f
<1>2. z \in Walker /\ f[p] \in Walker
    BY <1>1 DEF Walker
<1>3. [w EXCEPT !.adventurer[p].at = "gone"] = u
    BY <1>1
<1>4. [w EXCEPT !.adventurer[p].at = "gone", !.adventurer[p].rewarp = FALSE, !.adventurer[p].m = m]
      = [[u EXCEPT !.adventurer[p].rewarp = FALSE] EXCEPT !.adventurer[p].m = m]
    BY <1>3
<1> HIDE DEF z
<1>5. g \in [Adventurers -> Walker] /\ g[p] = z
    BY <1>1, <1>2
<1> HIDE DEF g
<1>6. [u EXCEPT !.adventurer[p].rewarp = FALSE] = [u EXCEPT !.adventurer = h]
    BY <1>1
<1>7. h[p] = [z EXCEPT !.rewarp = FALSE]
    BY <1>5
<1> HIDE DEF h
<1>8. [[u EXCEPT !.adventurer = h] EXCEPT !.adventurer[p].m = m] = [w EXCEPT !.adventurer = [h EXCEPT ![p].m = m]]
    BY <1>1
<1>9. [h EXCEPT ![p].m = m] = [f EXCEPT ![p] = [f[p] EXCEPT !.at = "gone", !.rewarp = FALSE, !.m = m]]
  <2>1. [h EXCEPT ![p].m = m] = [g EXCEPT ![p] = [h[p] EXCEPT !.m = m]]
      BY <1>5 DEF h
  <2>2. [g EXCEPT ![p] = [h[p] EXCEPT !.m = m]] = [f EXCEPT ![p] = [h[p] EXCEPT !.m = m]]
      BY <1>1 DEF g
  <2>3. [h[p] EXCEPT !.m = m] = [f[p] EXCEPT !.at = "gone", !.rewarp = FALSE, !.m = m]
      BY <1>2, <1>7 DEF z, Walker
  <2> QED BY <2>1, <2>2, <2>3
<1> QED BY <1>4, <1>6, <1>8, <1>9 DEF f, Quitting, GonePlayer, WithPlayer

(* pc_setpos takes who is on a map off it; an instance's map it leads to is in use. *)
LEMMA SetposKeeps ==
    ASSUME NEW w, Sound(w), NEW p \in Adventurers, NEW m \in Maps,
           w.adventurer[p].at # "gone", m \in Slots => w.copy[m].instance_id # 0,
           NEW v, v = pc_setpos(w, p, m)
    PROVE  /\ Sound(v) /\ Alike(v, w) /\ v.adventurer[p].at = "loading"
           /\ v.adventurer[p].party_id = w.adventurer[p].party_id
           /\ m \notin Sources => v.adventurer[p].m = m
           /\ \A q \in Adventurers \ {p} : v.adventurer[q] = w.adventurer[q]
<1> DEFINE x == w.adventurer[p]
           i == InstancesOf(w, x.party_id)
           to == IF m \in Sources /\ HasCopy(w, m, i) THEN CopyOf(w, m, i) ELSE m
           off == unit_remove_map(w, p)
           again == (x.at = "loading") \/ off.adventurer[p].rewarp
<1>1. w \in Worlds /\ x \in Walker
    BY DEF Sound, SoundBut, Worlds
<1>2. /\ Sound(off) /\ Alike(off, w)
      /\ off.adventurer = [w.adventurer EXCEPT ![p] = Unloaded(x)]
    BY RemoveMapKeeps
<1>3. to \in Maps /\ (to \in Slots => w.copy[to].instance_id # 0) /\ (m \notin Sources => to = m)
  <2>1. CASE ~(m \in Sources /\ HasCopy(w, m, i))
      BY <2>1
  <2>2. CASE m \in Sources /\ HasCopy(w, m, i)
    <3>1. i # 0
        BY <2>2 DEF HasCopy
    <3>2. i \in Numbers
        BY <1>1, <3>1 DEF InstancesOf, Worlds, Walker, Band
    <3>3. CopyOf(w, m, i) \in Slots /\ w.copy[CopyOf(w, m, i)].instance_id = i
        BY <2>2, <3>2, CopyIsOfInstance
    <3> QED BY <2>2, <3>1, <3>3 DEF Maps
  <2> QED BY <2>1, <2>2
<1>4. v = [off EXCEPT !.adventurer[p].m = to, !.adventurer[p].rewarp = (x.at = "loading") \/ @]
    BY DEF pc_setpos
<1> HIDE DEF to, off, i
<1>5. off \in Worlds /\ off.adventurer \in [Adventurers -> Walker] /\ off.adventurer[p] = Unloaded(x)
    BY <1>1, <1>2 DEF Sound, SoundBut, Worlds
<1>6. off.adventurer[p] \in Walker /\ off.adventurer[p].at = "loading" /\ off.adventurer[p].party_id = x.party_id
    BY <1>1, <1>5 DEF Walker, Unloaded
<1> DEFINE y == off.adventurer[p]
           a == [y EXCEPT !.m = to, !.rewarp = again]
           ad == [off.adventurer EXCEPT ![p] = a]
<1>7. again \in BOOLEAN
    BY <1>6 DEF Walker
<1>8. v = [off EXCEPT !.adventurer = ad]
  <2>2. [off EXCEPT !.adventurer[p].m = to, !.adventurer[p].rewarp = again] = [off EXCEPT !.adventurer = ad]
    <3>1. Bound(off, p, to, again) = WithPlayer(off, p, a)
      <4> HIDE DEF again
      <4>1. Bound(off, p, to, again) = WithPlayer(off, p, BoundPlayer(off.adventurer[p], to, again))
          BY <1>5, FieldsOfOne
      <4> QED BY <4>1 DEF BoundPlayer
    <3>2. Bound(off, p, to, again) = [off EXCEPT !.adventurer[p].m = to, !.adventurer[p].rewarp = again]
        BY DEF Bound
    <3>3. WithPlayer(off, p, a) = [off EXCEPT !.adventurer = ad]
        BY DEF WithPlayer
    <3> QED BY <3>1, <3>2, <3>3, Zenon
  <2>3. off.adventurer[p].m \in Maps /\ [off EXCEPT !.adventurer[p].m = to].adventurer[p].rewarp = off.adventurer[p].rewarp
      BY <1>5, <1>6 DEF Worlds, Walker
  <2> QED BY <1>4, <2>2, <2>3
<1> HIDE DEF again
<1>9. a \in Walker /\ a.at = "loading" /\ a.m = to /\ a.party_id = x.party_id
    BY <1>3, <1>6, <1>7 DEF Walker
<1> HIDE DEF a
<1>10. ad \in [Adventurers -> Walker] /\ ad[p] = a /\ \A q \in Adventurers \ {p} : ad[q] = off.adventurer[q]
    BY <1>5, <1>9
<1>11. /\ v \in Worlds /\ v.adventurer = ad
       /\ v.instance = off.instance /\ v.copy = off.copy /\ v.party = off.party
  <2> HIDE DEF ad
  <2> QED BY <1>5, <1>8, <1>10 DEF Worlds
<1>12. Sound(v)
  <2>1. off.adventurer[p].at # "map" /\ a.at # "map" /\ a.at # "gone"
      BY <1>6, <1>9
  <2>2. a.m \in Slots => off.copy[a.m].instance_id # 0
      BY <1>2, <1>3, <1>9 DEF Alike
  <2>3. v.adventurer = [off.adventurer EXCEPT ![p] = a]
      BY <1>11
  <2> HIDE DEF ad
  <2>4. a \in Walker /\ v \in Worlds /\ v.instance = off.instance /\ v.copy = off.copy /\ Sound(off)
      BY <1>2, <1>9, <1>11
  <2>5. a.m \in Slots => off.copy[a.m].instance_id # 0 /\ a.at # "gone"
      BY <2>1, <2>2
  <2> QED BY <2>1, <2>3, <2>4, <2>5, AwayStays
<1>13. Alike(v, w)
    BY <1>2, <1>11 DEF Alike
<1>14. \A q \in Adventurers \ {p} : v.adventurer[q] = w.adventurer[q]
  <2>1. \A q \in Adventurers \ {p} : off.adventurer[q] = w.adventurer[q]
      BY <1>1, <1>2 DEF Worlds
  <2> QED BY <1>10, <1>11, <2>1
<1> QED BY <1>3, <1>9, <1>10, <1>11, <1>12, <1>13, <1>14

-----------------------------------------------------------------------------
(* Every session has its turn. *)
LEMMA SessionsAreAll ==
    /\ Len(Sessions) \in Nat /\ \A n \in 1 .. Len(Sessions) : Sessions[n] \in Adventurers
    /\ \A p \in Adventurers : \E n \in 1 .. Len(Sessions) : Sessions[n] = p
<1> DEFINE n == Cardinality(Adventurers)
           D == 1 .. n
<1>1. n \in Nat /\ \E f : f \in Bijection(D, Adventurers)
    BY InstanceAssumption, FS_CardinalityType DEF ExistsBijection
<1>2. \E f \in [D -> Adventurers] : IsInjective(f)
    BY <1>1 DEF Bijection, Injection, IsInjective
<1>3. Sessions \in [D -> Adventurers] /\ IsInjective(Sessions)
    BY <1>2 DEF Sessions, SetToSeq
<1>4. Sessions \in Seq(Adventurers) /\ Len(Sessions) = n
  <2> HIDE DEF n
  <2> QED BY <1>1, <1>3
<1>5. Sessions \in Injection(D, Adventurers)
    BY <1>3 DEF Injection, IsInjective
<1>6. Cardinality(D) = n
  <2> HIDE DEF n
  <2>1. 1 \in Int /\ n \in Int
      BY <1>1
  <2>2. Cardinality(1 .. n) = IF 1 > n THEN 0 ELSE n - 1 + 1
      BY <2>1, FS_Interval
  <2> QED BY <1>1, <2>2
<1>7. Sessions \in Surjection(D, Adventurers)
    BY <1>5, <1>6, InstanceAssumption, FS_Injection
<1> QED BY <1>1, <1>3, <1>4, <1>7 DEF Surjection

(* One turn takes a player off the map m, and nobody else moves. *)
LEMMA LoadKeeps ==
    ASSUME NEW w, Sound(w), NEW m \in Slots, NEW p \in Adventurers, NEW v, v = instance_del_load(w, m, p)
    PROVE  /\ Sound(v) /\ Alike(v, w) /\ v.adventurer[p].m # m
           /\ \A q \in Adventurers \ {p} : v.adventurer[q] = w.adventurer[q]
<1>1. w.adventurer[p] \in Walker /\ Placed(w, p)
    BY DEF Sound, SoundBut, Worlds
<1>2. CASE p \in WhoMustLeave(w, m)
  <2>1. w.adventurer[p].at # "gone" /\ w.adventurer[p].save = Town
      BY <1>1, <1>2 DEF WhoMustLeave, Walker
  <2>2. Town \in Maps /\ Town \notin Slots /\ Town \notin Sources
      BY InstanceAssumption DEF Maps
  <2>3. v = pc_setpos(w, p, Town)
      BY <1>2, <2>1 DEF instance_del_load
  <2> QED BY <2>1, <2>2, <2>3, SetposKeeps
<1>3. CASE p \notin WhoMustLeave(w, m)
  <2>1. v = w /\ w.adventurer[p].m # m
      BY <1>1, <1>3 DEF instance_del_load, WhoMustLeave, Placed
  <2> QED BY <2>1 DEF Alike
<1> QED BY <1>2, <1>3

(* After all turns nobody is on it, or will be when the client has loaded. *)
LEMMA NobodyStays ==
    ASSUME NEW w, Sound(w), NEW m \in Slots
    PROVE  /\ Sound(Vacated(w, m)) /\ Alike(Vacated(w, m), w)
           /\ \A p \in Adventurers : Vacated(w, m).adventurer[p].m # m
<1> DEFINE N == Len(Sessions)
           left == CHOOSE f : f = [n \in 0 .. N |-> IF n = 0 THEN w ELSE instance_del_load(f[n - 1], m, Sessions[n])]
           B == {v \in Worlds : Sound(v) /\ Alike(v, w)}
           step == [n \in 1 .. N |-> [v \in B |-> instance_del_load(v, m, Sessions[n])]]
           Off(n) == {v \in B : \A k \in 1 .. n : v.adventurer[Sessions[k]].m # m}
           T == [n \in 0 .. N |-> Off(n)]
<1>1. Vacated(w, m) = left[N]
    BY DEF Vacated
<1>2. N \in Nat /\ \A n \in 1 .. N : Sessions[n] \in Adventurers
    BY SessionsAreAll
<1>3. w \in B
    BY DEF Sound, SoundBut, Alike
<1>4. ASSUME NEW v \in B, NEW n \in 1 .. N
      PROVE  /\ instance_del_load(v, m, Sessions[n]) \in B
             /\ instance_del_load(v, m, Sessions[n]).adventurer[Sessions[n]].m # m
             /\ \A q \in Adventurers \ {Sessions[n]} : instance_del_load(v, m, Sessions[n]).adventurer[q] = v.adventurer[q]
  <2> DEFINE u == instance_del_load(v, m, Sessions[n])
  <2>1. /\ Sound(u) /\ Alike(u, v) /\ u.adventurer[Sessions[n]].m # m
        /\ \A q \in Adventurers \ {Sessions[n]} : u.adventurer[q] = v.adventurer[q]
      BY <1>2, LoadKeeps
  <2> HIDE DEF u
  <2>2. u \in Worlds /\ Alike(u, w)
      BY <2>1 DEF Sound, SoundBut, Alike
  <2> QED BY <2>1, <2>2 DEF u
<1> HIDE DEF B, N
<1>5. step \in [1 .. N -> [B -> B]]
    BY <1>4
<1>6. PICK f \in [0 .. N -> B] : f[0] = w /\ \A n \in 1 .. N : f[n] = step[n][f[n - 1]]
  <2> HIDE DEF step, left, T
  <2>1. N \in Nat
      BY <1>2
  <2> QED BY <2>1, <1>3, <1>5, IterationExists
<1>7. \A n \in 1 .. N : f[n - 1] \in B /\ f[n] = instance_del_load(f[n - 1], m, Sessions[n])
  <2> SUFFICES ASSUME NEW n \in 1 .. N PROVE f[n - 1] \in B /\ f[n] = instance_del_load(f[n - 1], m, Sessions[n])
      OBVIOUS
  <2>1. n - 1 \in 0 .. N
      BY <1>2
  <2> QED BY <1>6, <2>1
<1>8. f = [n \in 0 .. N |-> IF n = 0 THEN w ELSE instance_del_load(f[n - 1], m, Sessions[n])]
  <2>1. ASSUME NEW n \in 0 .. N, n # 0
        PROVE  f[n] = instance_del_load(f[n - 1], m, Sessions[n])
    <3>1. n \in 1 .. N
        BY <1>2, <2>1
    <3> QED BY <1>7, <3>1
  <2> QED BY <1>6, <2>1
<1>9. left = [n \in 0 .. N |-> IF n = 0 THEN w ELSE instance_del_load(left[n - 1], m, Sessions[n])]
    BY <1>8, Zenon
<1> HIDE DEF left, step
<1>10. left[0] \in T[0]
  <2>1. 0 \in 0 .. N /\ \A k \in 1 .. 0 : FALSE
      BY <1>2
  <2> QED BY <1>3, <1>9, <2>1
<1>11. ASSUME NEW n \in 1 .. N, left[n - 1] \in T[n - 1]
       PROVE  left[n] \in T[n]
  <2>1. n - 1 \in 0 .. N /\ n \in 0 .. N /\ n # 0
      BY <1>2
  <2>2. left[n] = instance_del_load(left[n - 1], m, Sessions[n])
      BY <1>9, <2>1
  <2>3. left[n - 1] \in Off(n - 1)
      BY <1>11, <2>1
  <2>4. left[n - 1] \in B
      BY <2>3
  <2>5. /\ left[n] \in B /\ left[n].adventurer[Sessions[n]].m # m
        /\ \A q \in Adventurers \ {Sessions[n]} : left[n].adventurer[q] = left[n - 1].adventurer[q]
      BY <1>4, <2>2, <2>4
  <2>6. ASSUME NEW k \in 1 .. n
        PROVE  left[n].adventurer[Sessions[k]].m # m
    <3>1. CASE Sessions[k] = Sessions[n]
        BY <2>5, <3>1
    <3>2. CASE Sessions[k] # Sessions[n]
      <4>1. k \in 1 .. N /\ k \in 1 .. n - 1
          BY <1>2, <3>2
      <4> QED BY <1>2, <2>3, <2>5, <3>2, <4>1
    <3> QED BY <3>1, <3>2
  <2> QED BY <2>1, <2>5, <2>6
<1>12. left[N] \in T[N]
  <2> HIDE DEF T
  <2>1. \A n \in 0 .. N : left[n] \in T[n]
      BY <1>2, <1>10, <1>11, TurnInvariant
  <2>2. N \in 0 .. N
      BY <1>2
  <2> QED BY <2>1, <2>2
<1>13. left[N] \in Off(N)
  <2>1. N \in 0 .. N
      BY <1>2
  <2> QED BY <1>12, <2>1
<1> QED BY <1>1, <1>13, SessionsAreAll DEF B, N

-----------------------------------------------------------------------------
(* A list without one of its maps, which it lists once. *)
LEMMA ClosedUpLists ==
    ASSUME NEW S, NEW s \in Seq(S), NEW m, \A j, k \in 1 .. Len(s) : s[j] = s[k] => j = k,
           NEW c \in 1 .. Len(s), s[c] = m, NEW t, t = ClosedUp(s, m)
    PROVE  /\ t \in Seq(S) /\ Len(t) = Len(s) - 1
           /\ \A j \in 1 .. Len(t) : t[j] = (IF j < c THEN s[j] ELSE s[j + 1])
           /\ \A j, k \in 1 .. Len(t) : t[j] = t[k] => j = k
           /\ \A j \in 1 .. Len(t) : t[j] # m
           /\ \A j \in 1 .. Len(s) : s[j] # m => \E k \in 1 .. Len(t) : t[k] = s[j]
<1>1. PlaceOf(s, m) = c
    BY DEF PlaceOf
<1>2. t = [j \in 1 .. Len(s) - 1 |-> IF j < c THEN s[j] ELSE s[j + 1]]
    BY <1>1 DEF ClosedUp
<1>3. Len(s) \in Nat /\ Len(s) - 1 \in Nat /\ \A j \in 1 .. Len(s) : s[j] \in S
    OBVIOUS
<1>4. t \in Seq(S) /\ Len(t) = Len(s) - 1
  <2> DEFINE K == Len(s) - 1
  <2>1. K \in Nat /\ \A j \in 1 .. K : (IF j < c THEN s[j] ELSE s[j + 1]) \in S
      BY <1>3
  <2>2. t = [j \in 1 .. K |-> IF j < c THEN s[j] ELSE s[j + 1]]
      BY <1>2
  <2> HIDE DEF K
  <2>3. t \in [1 .. K -> S]
      BY <2>1, <2>2
  <2>4. t \in Seq(S) /\ Len(t) = K
      BY <2>1, <2>3
  <2> QED BY <2>4 DEF K
<1>5. \A j \in 1 .. Len(t) : t[j] = (IF j < c THEN s[j] ELSE s[j + 1])
    BY <1>2, <1>3, <1>4
<1>6. ASSUME NEW j \in 1 .. Len(t), NEW k \in 1 .. Len(t), t[j] = t[k]
      PROVE  j = k
  <2> DEFINE up(l) == IF l < c THEN l ELSE l + 1
  <2>1. up(j) \in 1 .. Len(s) /\ up(k) \in 1 .. Len(s) /\ (up(j) = up(k) => j = k)
      BY <1>3, <1>4
  <2>2. t[j] = s[up(j)] /\ t[k] = s[up(k)]
      BY <1>5
  <2> HIDE DEF up
  <2> QED BY <1>6, <2>1, <2>2
<1>7. ASSUME NEW j \in 1 .. Len(t)
      PROVE  t[j] # m
    BY <1>3, <1>4, <1>5
<1>8. ASSUME NEW j \in 1 .. Len(s), s[j] # m
      PROVE  \E k \in 1 .. Len(t) : t[k] = s[j]
  <2>1. CASE j < c
    <3>1. j \in 1 .. Len(t) /\ t[j] = s[j]
        BY <1>3, <1>4, <1>5, <2>1
    <3> QED BY <3>1
  <2>2. CASE j > c
    <3>1. j - 1 \in 1 .. Len(t) /\ t[j - 1] = s[j]
        BY <1>3, <1>4, <1>5, <2>2
    <3> QED BY <3>1
  <2> QED BY <1>8, <2>1, <2>2
<1> QED BY <1>4, <1>5, <1>6, <1>7, <1>8

(* instance_del_map: nobody is on the map, no number names it, and the instance lists the others. *)
LEMMA DelMapKeeps ==
    ASSUME NEW w, Sound(w), NEW m \in Slots, NEW i \in Numbers, w.copy[m].instance_id = i,
           NEW v, v = instance_del_map(w, m)
    PROVE  /\ Sound(v) /\ v.party = w.party
           /\ \A j \in Numbers : v.instance[j].used = w.instance[j].used /\ v.instance[j].party_id = w.instance[j].party_id
           /\ v.instance[i].map = ClosedUp(w.instance[i].map, m)
<1> DEFINE e == Vacated(w, m)
           s == w.instance[i].map
           t == ClosedUp(s, m)
           x == e.instance[i]
           y == [x EXCEPT !.map = t]
           in == [e.instance EXCEPT ![i] = y]
           co == [e.copy EXCEPT ![m] = FreeSlot]
<1>1. Sound(e) /\ Alike(e, w) /\ \A p \in Adventurers : e.adventurer[p].m # m
    BY NobodyStays
<1>2. e \in Worlds /\ x \in Account /\ x.map = s /\ e.copy = w.copy /\ e.party = w.party /\ i # 0
    BY <1>1, NumbersArePositive DEF Sound, SoundBut, Worlds, Alike
<1>3. w.instance[i].used /\ x.used
  <2>1. w.copy[m].instance_id # 0 /\ SoundBut(w, {})
      BY <1>2 DEF Sound
  <2>2. w.instance[i].used
      BY <2>1, MapsAreOfUsed
  <2> QED BY <1>1, <2>2 DEF Alike
<1>4. v = [e EXCEPT !.instance[i].map = ClosedUp(@, m), !.copy[m] = FreeSlot]
    BY DEF instance_del_map, InstanceOf
<1> HIDE DEF e
<1>5. e.instance \in [Numbers -> Account] /\ e.copy \in [Slots -> Copied] /\ s \in Seq(Slots)
    BY <1>2 DEF Worlds, Account
<1>6. v = [e EXCEPT !.instance = in, !.copy = co]
    BY <1>2, <1>4, <1>5 DEF Worlds
<1>7. Listed(e, i)
    BY <1>1 DEF Sound, SoundBut
<1>8. PICK c \in 1 .. Len(s) : s[c] = m
    BY <1>2, <1>7 DEF Listed
<1>9. /\ \A j, k \in 1 .. Len(s) : s[j] = s[k] => j = k
      /\ \A j \in 1 .. Len(s) : w.copy[s[j]].instance_id = i
      /\ \A r \in Slots : w.copy[r].instance_id = i => \E j \in 1 .. Len(s) : s[j] = r
    BY <1>2, <1>7 DEF Listed
<1> HIDE DEF s
<1>10. /\ t \in Seq(Slots) /\ Len(t) \in Nat
       /\ \A j \in 1 .. Len(t) : t[j] \in Slots /\ t[j] # m /\ \E k \in 1 .. Len(s) : t[j] = s[k]
       /\ \A j, k \in 1 .. Len(t) : t[j] = t[k] => j = k
       /\ \A j \in 1 .. Len(s) : s[j] # m => \E k \in 1 .. Len(t) : t[k] = s[j]
  <2>1. /\ t \in Seq(Slots) /\ Len(t) = Len(s) - 1
        /\ \A j \in 1 .. Len(t) : t[j] = (IF j < c THEN s[j] ELSE s[j + 1])
        /\ \A j, k \in 1 .. Len(t) : t[j] = t[k] => j = k
        /\ \A j \in 1 .. Len(t) : t[j] # m
        /\ \A j \in 1 .. Len(s) : s[j] # m => \E k \in 1 .. Len(t) : t[k] = s[j]
      BY <1>5, <1>8, <1>9, ClosedUpLists
  <2> HIDE DEF t
  <2>2. ASSUME NEW j \in 1 .. Len(t)
        PROVE  t[j] \in Slots /\ \E k \in 1 .. Len(s) : t[j] = s[k]
      BY <1>5, <2>1
  <2>3. Len(t) \in Nat
      BY <2>1
  <2>4. \A j \in 1 .. Len(t) : t[j] \in Slots /\ t[j] # m /\ \E k \in 1 .. Len(s) : t[j] = s[k]
      BY <2>1, <2>2
  <2> QED BY <2>1, <2>3, <2>4
<1> HIDE DEF t
<1>11. /\ y \in Account /\ y.map = t /\ y.used = x.used /\ y.party_id = x.party_id
       /\ y.users = x.users /\ y.idleval = x.idleval /\ y.idle = x.idle
    BY <1>2, <1>10 DEF Account
<1> HIDE DEF x, y
<1>12. in \in [Numbers -> Account] /\ in[i] = y /\ \A j \in Numbers \ {i} : in[j] = e.instance[j]
    BY <1>5, <1>11
<1>13. co \in [Slots -> Copied] /\ co[m] = FreeSlot /\ \A r \in Slots \ {m} : co[r] = w.copy[r]
    BY <1>2, <1>5, FreeIsCopied
<1> HIDE DEF in, co
<1>14. v \in Worlds /\ v.instance = in /\ v.copy = co /\ v.party = e.party /\ v.adventurer = e.adventurer
    BY <1>2, <1>6, <1>12, <1>13 DEF Worlds
<1>15. \A j \in Numbers : Inside(v, j) = Inside(e, j)
    BY <1>1, <1>2, <1>13, <1>14 DEF Inside, InstanceOf
<1>16. e.instance[i] = x
    BY DEF x
<1>17. \A j \in Numbers : Counted(e, j) /\ Listed(e, j) /\ Fresh(e, j) /\ Timed(e, j)
    BY <1>1 DEF Sound, SoundBut
<1>18. \A j \in Numbers : Counted(v, j)
    BY <1>11, <1>12, <1>14, <1>15, <1>16, <1>17 DEF Counted
<1>19. \A j \in Numbers : Timed(v, j)
  <2>1. Timed(v, i)
    <3>1. v.instance[i] = y
        BY <1>12, <1>14
    <3> QED BY <1>11, <1>16, <1>17, <3>1 DEF Timed
  <2> QED BY <1>12, <1>14, <1>17, <2>1 DEF Timed
<1>20. \A j \in Numbers : Fresh(v, j)
  <2>1. Fresh(v, i)
      BY <1>3, <1>11, <1>12, <1>14 DEF Fresh
  <2> QED BY <1>12, <1>14, <1>17, <2>1 DEF Fresh
<1>21. \A j \in Numbers : Listed(v, j)
  <2>1. Listed(v, i)
    <3>1. v.instance[i].map = t
        BY <1>11, <1>12, <1>14
    <3>2. \A j \in 1 .. Len(t) : v.copy[t[j]].instance_id = i
      <4> SUFFICES ASSUME NEW j \in 1 .. Len(t) PROVE v.copy[t[j]].instance_id = i
          OBVIOUS
      <4>1. t[j] \in Slots /\ t[j] # m
          BY <1>10
      <4>2. PICK k \in 1 .. Len(s) : t[j] = s[k]
          BY <1>10
      <4>3. w.copy[t[j]].instance_id = i
          BY <1>9, <4>2
      <4> QED BY <1>13, <1>14, <4>1, <4>3
    <3>3. \A r \in Slots : v.copy[r].instance_id = i => \E j \in 1 .. Len(t) : t[j] = r
      <4> SUFFICES ASSUME NEW r \in Slots, v.copy[r].instance_id = i PROVE \E j \in 1 .. Len(t) : t[j] = r
          OBVIOUS
      <4>1. r # m /\ w.copy[r].instance_id = i
          BY <1>2, <1>13, <1>14, FreeIsCopied
      <4>2. \E k \in 1 .. Len(s) : s[k] = r
          BY <1>9, <4>1
      <4> QED BY <1>10, <4>1, <4>2
    <3> QED BY <1>10, <3>1, <3>2, <3>3 DEF Listed
  <2>2. ASSUME NEW j \in Numbers, j # i
        PROVE  Listed(v, j)
    <3> DEFINE u == e.instance[j].map
    <3>1. u \in Seq(Slots) /\ v.instance[j].map = u
        BY <1>5, <1>12, <1>14, <2>2 DEF Account
    <3>2. Listed(e, j)
        BY <1>17
    <3>3. \A k \in 1 .. Len(u) : u[k] \in Slots /\ u[k] # m /\ v.copy[u[k]].instance_id = j
        BY <1>2, <1>13, <1>14, <2>2, <3>1, <3>2 DEF Listed
    <3>4. \A r \in Slots : v.copy[r].instance_id = j => e.copy[r].instance_id = j
        BY <1>2, <1>13, <1>14, FreeIsCopied, NumbersArePositive
    <3>5. v.instance[j].map = u /\ e.instance[j].map = u
        BY <3>1
    <3> HIDE DEF u
    <3>6. /\ \A k, l \in 1 .. Len(u) : u[k] = u[l] => k = l
          /\ \A r \in Slots : v.copy[r].instance_id = j => \E k \in 1 .. Len(u) : u[k] = r
        BY <3>2, <3>4, <3>5 DEF Listed
    <3> QED BY <3>3, <3>5, <3>6 DEF Listed
  <2> QED BY <2>1, <2>2
<1>22. \A p \in Adventurers : Placed(v, p)
  <2>1. \A p \in Adventurers : Placed(e, p)
      BY <1>1 DEF Sound, SoundBut
  <2> QED BY <1>1, <1>2, <1>13, <1>14, <2>1 DEF Placed
<1>23. Sound(v)
    BY <1>14, <1>18, <1>19, <1>20, <1>21, <1>22 DEF Sound, SoundBut
<1>24. \A j \in Numbers : v.instance[j].used = w.instance[j].used /\ v.instance[j].party_id = w.instance[j].party_id
  <2>1. v.instance[i].used = e.instance[i].used /\ v.instance[i].party_id = e.instance[i].party_id
      BY <1>11, <1>12, <1>14, <1>16
  <2>2. \A j \in Numbers \ {i} : v.instance[j] = e.instance[j]
      BY <1>12, <1>14
  <2> QED BY <1>1, <2>1, <2>2 DEF Alike
<1>25. v.instance[i].map = t
    BY <1>11, <1>12, <1>14
<1> QED BY <1>2, <1>14, <1>23, <1>24, <1>25 DEF t, s

-----------------------------------------------------------------------------
(* What is left of a list when n of it are gone. *)
From(s, n) == [j \in 1 .. Len(s) - n |-> s[j + n]]

LEMMA FromClosesUp ==
    ASSUME NEW S, NEW s \in Seq(S), NEW n \in 1 .. Len(s), NEW r, r = From(s, n - 1),
           \A j, k \in 1 .. Len(r) : r[j] = r[k] => j = k
    PROVE  /\ 1 \in 1 .. Len(r) /\ r[1] = s[n] /\ r \in Seq(S)
           /\ ClosedUp(r, s[n]) = From(s, n)
<1> DEFINE t == ClosedUp(r, s[n])
<1>1. Len(s) \in Nat /\ Len(s) - (n - 1) \in Nat /\ \A j \in 1 .. Len(s) : s[j] \in S
    OBVIOUS
<1>2. r = [j \in 1 .. Len(s) - (n - 1) |-> s[j + (n - 1)]]
    BY DEF From
<1>3. r \in Seq(S) /\ Len(r) = Len(s) - (n - 1)
  <2> DEFINE K == Len(s) - (n - 1)
  <2>1. K \in Nat /\ \A j \in 1 .. K : s[j + (n - 1)] \in S
      BY <1>1
  <2>2. r = [j \in 1 .. K |-> s[j + (n - 1)]]
      BY <1>2
  <2> HIDE DEF K
  <2>3. r \in [1 .. K -> S]
      BY <2>1, <2>2
  <2>4. r \in Seq(S) /\ Len(r) = K
      BY <2>1, <2>3
  <2> QED BY <2>4 DEF K
<1>4. 1 \in 1 .. Len(r) /\ r[1] = s[n]
    BY <1>1, <1>2, <1>3
<1>5. t \in Seq(S) /\ Len(t) = Len(r) - 1 /\ \A j \in 1 .. Len(t) : t[j] = (IF j < 1 THEN r[j] ELSE r[j + 1])
  <2> DEFINE gone == s[n]
  <2>1. r[1] = gone /\ t = ClosedUp(r, gone)
      BY <1>4
  <2> HIDE DEF gone, t
  <2> QED BY <1>3, <1>4, <2>1, ClosedUpLists, SMTT(30)
<1> HIDE DEF t
<1>6. Len(t) = Len(s) - n /\ \A j \in 1 .. Len(s) - n : t[j] = s[j + n]
  <2>1. Len(t) = Len(s) - n
      BY <1>1, <1>3, <1>5
  <2>2. ASSUME NEW j \in 1 .. Len(s) - n
        PROVE  t[j] = s[j + n]
    <3>1. j \in 1 .. Len(t) /\ ~(j < 1) /\ j + 1 \in 1 .. Len(s) - (n - 1) /\ (j + 1) + (n - 1) = j + n
        BY <1>1, <2>1
    <3>2. t[j] = r[j + 1]
        BY <1>5, <3>1
    <3>3. r[j + 1] = s[(j + 1) + (n - 1)]
        BY <1>2, <3>1
    <3> QED BY <3>1, <3>2, <3>3
  <2> QED BY <2>1, <2>2
<1>7. t = [j \in 1 .. Len(t) |-> t[j]]
    BY <1>5
<1>8. t = From(s, n)
    BY <1>6, <1>7 DEF From
<1> QED BY <1>3, <1>4, <1>8 DEF t

(* All maps of an instance go, one by one. *)
LEMMA AllMapsGo ==
    ASSUME NEW w, Sound(w), NEW i \in Numbers
    PROVE  /\ Sound(WithoutMaps(w, i)) /\ WithoutMaps(w, i).party = w.party
           /\ \A j \in Numbers : /\ WithoutMaps(w, i).instance[j].used = w.instance[j].used
                                 /\ WithoutMaps(w, i).instance[j].party_id = w.instance[j].party_id
           /\ Len(WithoutMaps(w, i).instance[i].map) = 0
<1> DEFINE s == w.instance[i].map
           N == Len(s)
           bare == CHOOSE f : f = [n \in 0 .. N |-> IF n = 0 THEN w ELSE instance_del_map(f[n - 1], s[n])]
           Kin(v) == v.party = w.party /\ \A j \in Numbers : v.instance[j].used = w.instance[j].used
                                                             /\ v.instance[j].party_id = w.instance[j].party_id
           Stage(n) == {v \in Worlds : Sound(v) /\ Kin(v) /\ v.instance[i].map = From(s, n)}
           T == [n \in 0 .. N |-> Stage(n)]
           step == [n \in 1 .. N |-> [v \in Worlds |-> IF v \in Stage(n - 1) THEN instance_del_map(v, s[n]) ELSE v]]
<1>1. WithoutMaps(w, i) = bare[N]
    BY DEF WithoutMaps
<1>2. w \in Worlds /\ s \in Seq(Slots) /\ N \in Nat
    BY DEF Sound, SoundBut, Worlds, Account
<1>3. w \in Stage(0)
  <2>1. s = From(s, 0)
      BY <1>2 DEF From
  <2> HIDE DEF s
  <2> QED BY <1>2, <2>1 DEF s
<1> HIDE DEF bare, s, N
<1>4. ASSUME NEW n \in 1 .. N, NEW v \in Stage(n - 1)
      PROVE  instance_del_map(v, s[n]) \in Stage(n)
  <2> DEFINE r == v.instance[i].map
             u == instance_del_map(v, s[n])
  <2>1. Sound(v) /\ Kin(v) /\ r = From(s, n - 1)
      OBVIOUS
  <2>2. Listed(v, i)
      BY <2>1 DEF Sound, SoundBut
  <2>3. 1 \in 1 .. Len(r) /\ r[1] = s[n] /\ ClosedUp(r, s[n]) = From(s, n)
    <3>1. \A j, k \in 1 .. Len(r) : r[j] = r[k] => j = k
        BY <2>2 DEF Listed
    <3> HIDE DEF r
    <3> QED BY <1>2, <2>1, <3>1, FromClosesUp DEF N
  <2>4. s[n] \in Slots /\ v.copy[s[n]].instance_id = i
    <3>1. s[n] \in Slots
        BY <1>2 DEF N
    <3>2. v.copy[r[1]].instance_id = i
        BY <2>2, <2>3 DEF Listed
    <3> QED BY <2>3, <3>1, <3>2
  <2>5. /\ Sound(u) /\ u.party = v.party
        /\ \A j \in Numbers : u.instance[j].used = v.instance[j].used /\ u.instance[j].party_id = v.instance[j].party_id
        /\ u.instance[i].map = ClosedUp(r, s[n])
      BY <2>1, <2>4, DelMapKeeps
  <2> HIDE DEF u
  <2>6. u \in Worlds
      BY <2>5 DEF Sound, SoundBut
  <2>7. Kin(u) /\ u.instance[i].map = From(s, n)
      BY <2>1, <2>3, <2>5
  <2> QED BY <2>5, <2>6, <2>7 DEF u
<1>5. \A n \in Nat : Stage(n) \subseteq Worlds
    OBVIOUS
<1> HIDE DEF Stage
<1>6. step \in [1 .. N -> [Worlds -> Worlds]]
  <2>1. ASSUME NEW n \in 1 .. N, NEW v \in Worlds
        PROVE  (IF v \in Stage(n - 1) THEN instance_del_map(v, s[n]) ELSE v) \in Worlds
    <3>1. n \in Nat
        BY <1>2
    <3> QED BY <1>4, <1>5, <3>1
  <2> QED BY <2>1
<1>7. PICK f \in [0 .. N -> Worlds] : f[0] = w /\ \A n \in 1 .. N : f[n] = step[n][f[n - 1]]
  <2> HIDE DEF step, T
  <2>1. N \in Nat /\ w \in Worlds
      BY <1>2
  <2> QED BY <2>1, <1>6, IterationExists
<1>8. f[0] \in T[0]
  <2>1. 0 \in 0 .. N
      BY <1>2
  <2> QED BY <1>3, <1>7, <2>1
<1>9. ASSUME NEW n \in 1 .. N, f[n - 1] \in T[n - 1]
      PROVE  f[n] = instance_del_map(f[n - 1], s[n]) /\ f[n] \in T[n]
  <2>1. n - 1 \in 0 .. N /\ n \in 0 .. N
      BY <1>2
  <2>2. f[n - 1] \in Worlds /\ f[n - 1] \in Stage(n - 1)
      BY <1>7, <1>9, <2>1
  <2>3. f[n] = instance_del_map(f[n - 1], s[n])
      BY <1>7, <2>2
  <2>4. f[n] \in Stage(n)
      BY <1>4, <2>2, <2>3
  <2> QED BY <2>1, <2>3, <2>4
<1>10. \A n \in 0 .. N : f[n] \in T[n]
  <2> HIDE DEF T, step
  <2>1. N \in Nat
      BY <1>2
  <2>2. \A n \in 1 .. N : f[n - 1] \in T[n - 1] => f[n] \in T[n]
      BY <1>9
  <2> QED BY <1>8, <2>1, <2>2, TurnInvariant
<1>11. f = [n \in 0 .. N |-> IF n = 0 THEN w ELSE instance_del_map(f[n - 1], s[n])]
  <2>1. ASSUME NEW n \in 0 .. N, n # 0
        PROVE  f[n] = instance_del_map(f[n - 1], s[n])
    <3>1. n \in 1 .. N /\ n - 1 \in 0 .. N
        BY <1>2, <2>1
    <3> QED BY <1>9, <1>10, <3>1
  <2> QED BY <1>7, <2>1
<1>12. bare = [n \in 0 .. N |-> IF n = 0 THEN w ELSE instance_del_map(bare[n - 1], s[n])]
    BY <1>11, Zenon DEF bare
<1>13. bare[N] \in Stage(N)
  <2>1. 0 \in 0 .. N /\ N \in 0 .. N /\ N \in Nat
      BY <1>2
  <2>2. bare[0] \in T[0]
      BY <1>3, <1>12, <2>1
  <2>3. ASSUME NEW n \in 1 .. N, bare[n - 1] \in T[n - 1]
        PROVE  bare[n] \in T[n]
    <3>1. n - 1 \in 0 .. N /\ n \in 0 .. N /\ n # 0
        BY <1>2
    <3>2. bare[n] = instance_del_map(bare[n - 1], s[n])
        BY <1>12, <3>1
    <3>3. bare[n - 1] \in Stage(n - 1)
        BY <2>3, <3>1
    <3>4. bare[n] \in Stage(n)
        BY <1>4, <3>2, <3>3
    <3> QED BY <3>1, <3>4
  <2>4. \A n \in 0 .. N : bare[n] \in T[n]
    <3> HIDE DEF T
    <3> QED BY <2>1, <2>2, <2>3, TurnInvariant
  <2> QED BY <2>1, <2>4
<1>14. Len(From(s, N)) = 0
  <2>1. N - N = 0 /\ Len(s) = N
      BY <1>2 DEF N
  <2> QED BY <2>1 DEF From
<1> QED BY <1>1, <1>13, <1>14 DEF Stage

-----------------------------------------------------------------------------
(* The places of players, the instances and the maps are all that Sound is about. *)
LEMMA SameSound ==
    ASSUME NEW w, Sound(w), NEW v \in Worlds, v.instance = w.instance, v.copy = w.copy,
           \A p \in Adventurers : v.adventurer[p].at = w.adventurer[p].at /\ v.adventurer[p].m = w.adventurer[p].m
    PROVE  Sound(v)
<1>1. \A j \in Numbers : Inside(v, j) = Inside(w, j)
    BY DEF Inside, InstanceOf
<1>2. /\ \A j \in Numbers : Counted(w, j) /\ Listed(w, j) /\ Fresh(w, j) /\ Timed(w, j)
      /\ \A p \in Adventurers : Placed(w, p)
    BY DEF Sound, SoundBut
<1>3. \A j \in Numbers : Counted(v, j) /\ Listed(v, j) /\ Fresh(v, j) /\ Timed(v, j)
    BY <1>1, <1>2 DEF Counted, Listed, Fresh, Timed
<1>4. \A p \in Adventurers : Placed(v, p)
    BY <1>2 DEF Placed
<1> QED BY <1>3, <1>4 DEF Sound, SoundBut

(* A number without maps may be free. *)
LEMMA FreedSound ==
    ASSUME NEW w, Sound(w), NEW i \in Numbers, Len(w.instance[i].map) = 0,
           NEW v \in Worlds, v.copy = w.copy, v.adventurer = w.adventurer,
           v.instance = [w.instance EXCEPT ![i] = FreeInstance]
    PROVE  Sound(v)
<1>1. /\ \A j \in Numbers : Counted(w, j) /\ Listed(w, j) /\ Fresh(w, j) /\ Timed(w, j)
      /\ \A p \in Adventurers : Placed(w, p)
      /\ w.instance \in [Numbers -> Account]
    BY DEF Sound, SoundBut, Worlds
<1>2. v.instance[i] = FreeInstance /\ \A j \in Numbers \ {i} : v.instance[j] = w.instance[j]
    BY <1>1
<1>3. \A j \in Numbers : Inside(v, j) = Inside(w, j)
    BY DEF Inside, InstanceOf
<1>4. \A r \in Slots : w.copy[r].instance_id # i
    BY <1>1 DEF Listed
<1>5. Inside(w, i) = {}
    BY <1>4, NumbersArePositive DEF Inside, InstanceOf
<1>6. Counted(v, i) /\ Listed(v, i) /\ Fresh(v, i) /\ Timed(v, i)
  <2>1. Counted(v, i)
      BY <1>2, <1>3, <1>5, FreeIsAccount, FS_EmptySet DEF Counted
  <2>2. Listed(v, i)
    <3>1. Len(v.instance[i].map) = 0
        BY <1>2, FreeIsAccount
    <3> QED BY <1>4, <3>1 DEF Listed
  <2>3. Fresh(v, i)
      BY <1>2 DEF Fresh
  <2>4. Timed(v, i)
    <3>1. FreeInstance.idle = FALSE /\ FreeInstance.used = FALSE
        BY DEF FreeInstance
    <3> QED BY <1>2, <3>1, Zenon DEF Timed
  <2> QED BY <2>1, <2>2, <2>3, <2>4
<1>7. \A j \in Numbers \ {i} : Counted(v, j) /\ Listed(v, j) /\ Fresh(v, j) /\ Timed(v, j)
    BY <1>1, <1>2, <1>3 DEF Counted, Listed, Fresh, Timed
<1>8. \A p \in Adventurers : Placed(v, p)
    BY <1>1 DEF Placed
<1> QED BY <1>6, <1>7, <1>8 DEF Sound, SoundBut

(* instance_destroy: the number is free, and its party has no instance. *)
LEMMA DestroyKeeps ==
    ASSUME NEW w, Sound(w), NEW i \in Numbers, NEW v, v = instance_destroy(w, i)
    PROVE  /\ Sound(v) /\ v.instance[i] = FreeInstance
           /\ \A j \in Numbers \ {i} : v.instance[j].used = w.instance[j].used /\ v.instance[j].party_id = w.instance[j].party_id
           /\ w.instance[i].party_id = 0 => v.party = w.party
           /\ \A q \in Parties : w.instance[i].party_id = q /\ w.party[q].known =>
                 v.party[q].instance_id = 0 /\ \A r \in Parties \ {q} : v.party[r] = w.party[r]
<1> DEFINE bare == WithoutMaps(w, i)
           q == bare.instance[i].party_id
           freed == [bare EXCEPT !.instance[i] = FreeInstance]
           in == [bare.instance EXCEPT ![i] = FreeInstance]
           pa == [w.party EXCEPT ![q].instance_id = 0]
<1>1. /\ Sound(bare) /\ bare.party = w.party /\ Len(bare.instance[i].map) = 0
      /\ \A j \in Numbers : bare.instance[j].used = w.instance[j].used /\ bare.instance[j].party_id = w.instance[j].party_id
    BY AllMapsGo
<1>2. bare \in Worlds /\ bare.instance \in [Numbers -> Account]
    BY <1>1 DEF Sound, SoundBut, Worlds
<1>3. v = IF q # 0 /\ freed.party[q].known THEN [freed EXCEPT !.party[q].instance_id = 0] ELSE freed
    BY DEF instance_destroy
<1> HIDE DEF bare
<1>4. freed = [bare EXCEPT !.instance = in]
    BY <1>2 DEF Worlds
<1>5. in \in [Numbers -> Account] /\ in[i] = FreeInstance /\ \A j \in Numbers \ {i} : in[j] = bare.instance[j]
    BY <1>2, FreeIsAccount
<1>6. /\ freed \in Worlds /\ freed.instance = in /\ freed.copy = bare.copy /\ freed.party = w.party
      /\ freed.adventurer = bare.adventurer
  <2> HIDE DEF in, freed
  <2> QED BY <1>1, <1>2, <1>4, <1>5 DEF Worlds
<1> HIDE DEF freed
<1>7. Sound(freed)
    BY <1>1, <1>6, FreedSound
<1>8. q = w.instance[i].party_id /\ q \in Parties \cup {0}
    BY <1>1, <1>2 DEF Account
<1> HIDE DEF in, q
<1>9. CASE ~(q # 0 /\ w.party[q].known)
  <2>1. v = freed
      BY <1>3, <1>6, <1>9
  <2>2. \A r \in Parties : ~(w.instance[i].party_id = r /\ w.party[r].known)
      BY <1>8, <1>9, InstanceAssumption
  <2> QED BY <1>1, <1>5, <1>6, <1>7, <2>1, <2>2
<1>10. CASE q # 0 /\ w.party[q].known
  <2>1. q \in Parties /\ w.party \in [Parties -> Band]
      BY <1>1, <1>2, <1>8, <1>10 DEF Worlds
  <2>2. v = [freed EXCEPT !.party = pa]
      BY <1>3, <1>6, <1>10
  <2>3. /\ pa \in [Parties -> Band] /\ pa[q].instance_id = 0
        /\ \A r \in Parties \ {q} : pa[r] = w.party[r]
      BY <2>1 DEF Band
  <2> HIDE DEF pa
  <2>4. /\ v \in Worlds /\ v.party = pa /\ v.instance = freed.instance /\ v.copy = freed.copy
        /\ v.adventurer = freed.adventurer
      BY <1>6, <2>2, <2>3 DEF Worlds
  <2>5. Sound(v)
      BY <1>7, <2>4, SameSound
  <2> QED BY <1>1, <1>5, <1>6, <1>8, <1>10, <2>3, <2>4, <2>5
<1> QED BY <1>9, <1>10

-----------------------------------------------------------------------------
(* The actions, each from a sound state w whose instances and parties name each other. *)
LEMMA Becomes ==
    ASSUME NEW v, Sound(v), Named(v), BecomesWorld(v)
    PROVE  InstanceInv'
<1>1. v \in Worlds
    BY DEF Sound, SoundBut
<1>2. World' = [instance |-> v.instance, copy |-> v.copy, party |-> v.party, adventurer |-> v.adventurer]
    BY DEF BecomesWorld, World
<1>3. World' = v
    BY <1>1, <1>2 DEF Worlds
<1>4. Sound(World') /\ Named(World')
    BY <1>3
<1> QED BY <1>4 DEF InstanceInv

LEMMA NamedAlike ==
    ASSUME NEW w \in Worlds, Named(w), NEW v, Alike(v, w)
    PROVE  Named(v)
<1>1. \A q \in Parties : w.party[q].instance_id # 0 => w.party[q].instance_id \in Numbers
    BY DEF Worlds, Band
<1> QED BY <1>1 DEF Named, Alike

(* instance_create *)
LEMMA CreateKeeps ==
    ASSUME InstanceInv, NEW q \in Parties, instance_create(q)
    PROVE  InstanceInv'
<1>1. PICK i \in Numbers :
          /\ ~instance[i].used
          /\ instance' = [instance EXCEPT ![i] = [FreeInstance EXCEPT !.used = TRUE, !.party_id = q]]
          /\ party' = [party EXCEPT ![q].instance_id = i]
    BY DEF instance_create
<1>2. party[q].known /\ party[q].instance_id = 0 /\ copy' = copy /\ adventurer' = adventurer
    BY DEF instance_create
<1> DEFINE w == World
           y == [FreeInstance EXCEPT !.used = TRUE, !.party_id = q]
           in == [instance EXCEPT ![i] = y]
           pa == [party EXCEPT ![q].instance_id = i]
           v == [instance |-> in, copy |-> copy, party |-> pa, adventurer |-> adventurer]
<1>3. Sound(w) /\ Named(w) /\ w \in Worlds
    BY DEF InstanceInv, Sound, SoundBut
<1>4. w.instance = instance /\ w.copy = copy /\ w.party = party /\ w.adventurer = adventurer
    BY DEF World
<1> HIDE DEF w
<1>5. /\ instance \in [Numbers -> Account] /\ copy \in [Slots -> Copied]
      /\ party \in [Parties -> Band] /\ adventurer \in [Adventurers -> Walker]
    BY <1>3, <1>4 DEF Worlds
<1>6. /\ y \in Account /\ y.used = TRUE /\ y.party_id = q /\ y.map = << >> /\ y.users = 0
      /\ y.idle = FALSE /\ y.idleval = FALSE
  <2>1. FreeInstance \in Account /\ FreeInstance.map = << >> /\ FreeInstance.users = 0
      BY FreeIsAccount
  <2>2. FreeInstance.idle = FALSE /\ FreeInstance.idleval = FALSE
      BY DEF FreeInstance
  <2>3. y \in Account /\ y.used = TRUE /\ y.party_id = q
      BY <2>1 DEF Account
  <2>4. y.map = FreeInstance.map /\ y.users = FreeInstance.users /\ y.idle = FreeInstance.idle /\ y.idleval = FreeInstance.idleval
      BY <2>1 DEF Account
  <2> QED BY <2>1, <2>2, <2>3, <2>4
<1> HIDE DEF y
<1>7. in \in [Numbers -> Account] /\ in[i] = y /\ \A j \in Numbers \ {i} : in[j] = instance[j]
    BY <1>5, <1>6
<1>8. /\ pa \in [Parties -> Band] /\ pa[q].instance_id = i /\ pa[q].known = party[q].known
      /\ \A r \in Parties \ {q} : pa[r] = party[r]
    BY <1>5 DEF Band
<1> HIDE DEF in, pa
<1>9. v \in Worlds /\ v.instance = in /\ v.copy = copy /\ v.party = pa /\ v.adventurer = adventurer
    BY <1>5, <1>7, <1>8 DEF Worlds
<1> HIDE DEF v
<1>10. w.instance[i] = FreeInstance
    BY <1>1, <1>3, <1>4 DEF Sound, SoundBut, Fresh
<1>11. \A j \in Numbers : Counted(w, j) /\ Listed(w, j) /\ Fresh(w, j) /\ Timed(w, j)
    BY <1>3 DEF Sound, SoundBut
<1>12. \A j \in Numbers : Inside(v, j) = Inside(w, j)
    BY <1>4, <1>9 DEF Inside, InstanceOf
<1>13. Counted(v, i) /\ Listed(v, i) /\ Fresh(v, i) /\ Timed(v, i)
  <2>1. v.instance[i] = y
      BY <1>7, <1>9
  <2>2. Counted(v, i)
      BY <1>6, <1>10, <1>11, <1>12, <2>1, FreeIsAccount DEF Counted
  <2>3. Listed(v, i)
      BY <1>4, <1>6, <1>9, <1>10, <1>11, <2>1, FreeIsAccount DEF Listed
  <2>4. Fresh(v, i)
      BY <1>6, <2>1 DEF Fresh
  <2>5. Timed(v, i)
      BY <1>6, <2>1, Zenon DEF Timed
  <2> QED BY <2>2, <2>3, <2>4, <2>5
<1>14. \A j \in Numbers \ {i} : Counted(v, j) /\ Listed(v, j) /\ Fresh(v, j) /\ Timed(v, j)
    BY <1>4, <1>7, <1>9, <1>11, <1>12 DEF Counted, Listed, Fresh, Timed
<1>15. \A p \in Adventurers : Placed(v, p)
    BY <1>3, <1>4, <1>9 DEF Sound, SoundBut, Placed
<1>16. Sound(v)
    BY <1>9, <1>13, <1>14, <1>15 DEF Sound, SoundBut
<1>17. Named(v)
  <2>1. ASSUME NEW j \in Numbers, v.instance[j].used
        PROVE  LET r == v.instance[j].party_id IN r # 0 /\ v.party[r].known /\ v.party[r].instance_id = j
    <3>1. CASE j = i
        BY <1>2, <1>6, <1>7, <1>8, <1>9, <3>1, InstanceAssumption
    <3>2. CASE j # i
      <4> DEFINE r == w.instance[j].party_id
      <4>1. v.instance[j] = w.instance[j] /\ w.instance[j].used
          BY <1>4, <1>7, <1>9, <2>1, <3>2
      <4>2. r # 0 /\ w.party[r].known /\ w.party[r].instance_id = j /\ r \in Parties \cup {0}
          BY <1>3, <4>1 DEF Named, Worlds, Account
      <4>3. r \in Parties \ {q}
          BY <1>2, <1>4, <4>2, NumbersArePositive
      <4> QED BY <1>4, <1>8, <1>9, <4>1, <4>2, <4>3
    <3> QED BY <3>1, <3>2
  <2>2. ASSUME NEW r \in Parties, v.party[r].instance_id # 0
        PROVE  v.instance[v.party[r].instance_id].party_id = r
    <3>1. CASE r = q
        BY <1>6, <1>7, <1>8, <1>9, <3>1
    <3>2. CASE r # q
      <4> DEFINE j == w.party[r].instance_id
      <4>1. v.party[r] = w.party[r] /\ j # 0
          BY <1>4, <1>8, <1>9, <2>2, <3>2
      <4>2. j \in Numbers /\ w.instance[j].party_id = r
          BY <1>3, <4>1 DEF Named, Worlds, Band
      <4>3. j # i
          BY <1>10, <4>2, FreeIsAccount, InstanceAssumption
      <4> QED BY <1>4, <1>7, <1>9, <4>1, <4>2, <4>3
    <3> QED BY <3>1, <3>2
  <2> QED BY <2>1, <2>2 DEF Named
<1>18. BecomesWorld(v)
    BY <1>1, <1>2, <1>9 DEF BecomesWorld, in, pa, y
<1> QED BY <1>16, <1>17, <1>18, Becomes

LEMMA WorldNow ==
    ASSUME InstanceInv
    PROVE  /\ Sound(World) /\ Named(World) /\ World \in Worlds
           /\ World.instance = instance /\ World.copy = copy /\ World.party = party /\ World.adventurer = adventurer
           /\ instance \in [Numbers -> Account] /\ copy \in [Slots -> Copied]
           /\ party \in [Parties -> Band] /\ adventurer \in [Adventurers -> Walker]
<1>1. Sound(World) /\ Named(World) /\ World \in Worlds
    BY DEF InstanceInv, Sound, SoundBut
<1>2. World.instance = instance /\ World.copy = copy /\ World.party = party /\ World.adventurer = adventurer
    BY DEF World
<1> QED BY <1>1, <1>2 DEF Worlds

(* instance_add_map: the slot was free, so it is on no list. *)
LEMMA AddMapKeeps ==
    ASSUME InstanceInv, NEW m \in Sources, NEW i \in Numbers, instance_add_map(m, i)
    PROVE  InstanceInv'
<1>1. PICK s \in Slots :
          /\ copy[s].instance_id = 0
          /\ copy' = [copy EXCEPT ![s] = [instance_id |-> i, src |-> m]]
          /\ instance' = [instance EXCEPT ![i].map = Append(@, s)]
    BY DEF instance_add_map
<1>2. instance[i].used /\ party' = party /\ adventurer' = adventurer
    BY DEF instance_add_map
<1> DEFINE w == World
           x == instance[i]
           l == x.map
           t == Append(l, s)
           y == [x EXCEPT !.map = t]
           in == [instance EXCEPT ![i] = y]
           c == [instance_id |-> i, src |-> m]
           co == [copy EXCEPT ![s] = c]
           v == [instance |-> in, copy |-> co, party |-> party, adventurer |-> adventurer]
<1>3. /\ Sound(w) /\ Named(w) /\ w \in Worlds
      /\ w.instance = instance /\ w.copy = copy /\ w.party = party /\ w.adventurer = adventurer
      /\ instance \in [Numbers -> Account] /\ copy \in [Slots -> Copied]
      /\ party \in [Parties -> Band] /\ adventurer \in [Adventurers -> Walker]
    BY WorldNow
<1> HIDE DEF w
<1>4. /\ \A j \in Numbers : Counted(w, j) /\ Listed(w, j) /\ Fresh(w, j) /\ Timed(w, j)
      /\ \A p \in Adventurers : Placed(w, p)
    BY <1>3 DEF Sound, SoundBut
<1>5. instance' = in /\ copy' = co
    BY <1>1, <1>3 DEF Account
<1>6. x \in Account /\ l \in Seq(Slots) /\ t \in Seq(Slots) /\ i # 0
    BY <1>3, NumbersArePositive DEF Account
<1>7. /\ \A j, k \in 1 .. Len(l) : l[j] = l[k] => j = k
      /\ \A j \in 1 .. Len(l) : copy[l[j]].instance_id = i
      /\ \A r \in Slots : copy[r].instance_id = i => \E j \in 1 .. Len(l) : l[j] = r
    BY <1>3, <1>4 DEF Listed
<1> HIDE DEF l
<1>8. /\ Len(l) \in Nat /\ Len(t) = Len(l) + 1 /\ t[Len(t)] = s
      /\ \A j \in 1 .. Len(l) : t[j] = l[j] /\ l[j] # s /\ l[j] \in Slots
    BY <1>1, <1>6, <1>7
<1>9. /\ y \in Account /\ y.map = t /\ y.used = x.used /\ y.party_id = x.party_id
      /\ y.users = x.users /\ y.idleval = x.idleval /\ y.idle = x.idle
    BY <1>6 DEF Account
<1>10. c \in Copied /\ c.instance_id = i
    BY DEF Copied
<1> HIDE DEF t, y, x, c
<1>11. in \in [Numbers -> Account] /\ in[i] = y /\ \A j \in Numbers \ {i} : in[j] = instance[j]
    BY <1>3, <1>9
<1>12. co \in [Slots -> Copied] /\ co[s] = c /\ \A r \in Slots \ {s} : co[r] = copy[r]
    BY <1>3, <1>10
<1> HIDE DEF in, co
<1>13. v \in Worlds /\ v.instance = in /\ v.copy = co /\ v.party = party /\ v.adventurer = adventurer
    BY <1>3, <1>11, <1>12 DEF Worlds
<1> HIDE DEF v
<1>14. instance[i] = x
    BY DEF x
<1>15. \A p \in Adventurers : adventurer[p].m # s
    BY <1>1, <1>3, <1>4 DEF Placed
<1>16. \A j \in Numbers : Inside(v, j) = Inside(w, j)
    BY <1>3, <1>12, <1>13, <1>15 DEF Inside, InstanceOf
<1>17. Counted(v, i) /\ Listed(v, i) /\ Fresh(v, i) /\ Timed(v, i)
  <2>1. v.instance[i] = y /\ w.instance[i] = x
      BY <1>3, <1>11, <1>13, <1>14
  <2>2. Counted(v, i)
      BY <1>4, <1>9, <1>16, <2>1 DEF Counted
  <2>3. Listed(v, i)
    <3>1. \A j, k \in 1 .. Len(t) : t[j] = t[k] => j = k
        BY <1>7, <1>8
    <3>2. ASSUME NEW j \in 1 .. Len(t)
          PROVE  co[t[j]].instance_id = i
      <4>1. CASE j = Len(t)
          BY <1>8, <1>10, <1>12, <4>1
      <4>2. CASE j # Len(t)
        <5>1. j \in 1 .. Len(l)
            BY <1>8, <4>2
        <5> QED BY <1>7, <1>8, <1>12, <5>1
      <4> QED BY <4>1, <4>2
    <3>3. ASSUME NEW r \in Slots, co[r].instance_id = i
          PROVE  \E j \in 1 .. Len(t) : t[j] = r
      <4>1. CASE r = s
          BY <1>8, <4>1
      <4>2. CASE r # s
        <5>1. PICK j \in 1 .. Len(l) : l[j] = r
            BY <1>7, <1>12, <3>3, <4>2
        <5>2. j \in 1 .. Len(t) /\ t[j] = r
            BY <1>8, <5>1
        <5> QED BY <5>2
      <4> QED BY <4>1, <4>2
    <3>4. v.instance[i].map = t
        BY <1>9, <2>1
    <3> QED BY <1>13, <3>1, <3>2, <3>3, <3>4 DEF Listed
  <2>4. Fresh(v, i)
      BY <1>2, <1>9, <1>14, <2>1 DEF Fresh
  <2>5. Timed(v, i)
      BY <1>4, <1>9, <2>1, Zenon DEF Timed
  <2> QED BY <2>2, <2>3, <2>4, <2>5
<1>18. ASSUME NEW j \in Numbers, j # i
       PROVE  Counted(v, j) /\ Listed(v, j) /\ Fresh(v, j) /\ Timed(v, j)
  <2>1. v.instance[j] = w.instance[j]
      BY <1>3, <1>11, <1>13, <1>18
  <2>2. Counted(v, j) /\ Fresh(v, j) /\ Timed(v, j)
      BY <1>4, <1>16, <2>1 DEF Counted, Fresh, Timed
  <2>3. Listed(v, j)
    <3> DEFINE u == w.instance[j].map
    <3>1. u \in Seq(Slots) /\ Listed(w, j)
        BY <1>3, <1>4 DEF Account
    <3>2. \A k \in 1 .. Len(u) : u[k] \in Slots /\ u[k] # s /\ v.copy[u[k]].instance_id = j
        BY <1>1, <1>3, <1>12, <1>13, <3>1, NumbersArePositive DEF Listed
    <3>3. \A r \in Slots : v.copy[r].instance_id = j => w.copy[r].instance_id = j
        BY <1>3, <1>10, <1>12, <1>13, <1>18
    <3> QED BY <2>1, <3>1, <3>2, <3>3 DEF Listed
  <2> QED BY <2>2, <2>3
<1>19. \A p \in Adventurers : Placed(v, p)
    BY <1>3, <1>4, <1>12, <1>13, <1>15 DEF Placed
<1>20. Sound(v)
    BY <1>13, <1>17, <1>18, <1>19 DEF Sound, SoundBut
<1>21. Named(v)
  <2>1. \A j \in Numbers : v.instance[j].used = w.instance[j].used /\ v.instance[j].party_id = w.instance[j].party_id
      BY <1>3, <1>9, <1>11, <1>13, <1>14
  <2>2. \A q \in Parties : w.party[q].instance_id # 0 => w.party[q].instance_id \in Numbers
      BY <1>3 DEF Band
  <2> QED BY <1>3, <1>13, <2>1, <2>2 DEF Named
<1>22. BecomesWorld(v)
    BY <1>2, <1>5, <1>13 DEF BecomesWorld
<1> QED BY <1>20, <1>21, <1>22, Becomes

(* instance_set_timeout *)
LEMMA SetTimeoutKeeps ==
    ASSUME InstanceInv, NEW i \in Numbers, NEW progress \in BOOLEAN, NEW idle \in BOOLEAN,
           instance_set_timeout(i, progress, idle)
    PROVE  InstanceInv'
<1> DEFINE w == World
           x == instance[i]
           y == [x EXCEPT !.progress = progress, !.idleval = idle, !.idle = FALSE]
           in == [instance EXCEPT ![i] = y]
           set == [World EXCEPT !.instance[i] = [@ EXCEPT !.progress = progress, !.idleval = idle, !.idle = FALSE]]
           v == [instance |-> in, copy |-> copy, party |-> party, adventurer |-> adventurer]
<1>1. instance[i].used /\ BecomesWorld(instance_check_idle(set, i))
    BY DEF instance_set_timeout
<1>2. /\ Sound(w) /\ Named(w) /\ w \in Worlds
      /\ w.instance = instance /\ w.copy = copy /\ w.party = party /\ w.adventurer = adventurer
      /\ instance \in [Numbers -> Account] /\ copy \in [Slots -> Copied]
      /\ party \in [Parties -> Band] /\ adventurer \in [Adventurers -> Walker]
    BY WorldNow
<1>3. set = v
    BY <1>2 DEF World
<1> HIDE DEF w, set
<1>4. /\ \A j \in Numbers : Counted(w, j) /\ Listed(w, j) /\ Fresh(w, j) /\ Timed(w, j)
      /\ \A p \in Adventurers : Placed(w, p)
    BY <1>2 DEF Sound, SoundBut
<1>5. x \in Account
    BY <1>2
<1>6. /\ y \in Account /\ y.map = x.map /\ y.used = x.used /\ y.party_id = x.party_id
      /\ y.users = x.users /\ y.idle = FALSE
    BY <1>5 DEF Account
<1> HIDE DEF y
<1>7. in \in [Numbers -> Account] /\ in[i] = y /\ \A j \in Numbers \ {i} : in[j] = instance[j]
    BY <1>2, <1>6
<1> HIDE DEF in
<1>8. v \in Worlds /\ v.instance = in /\ v.copy = copy /\ v.party = party /\ v.adventurer = adventurer
    BY <1>2, <1>7 DEF Worlds
<1> HIDE DEF v
<1>9. \A j \in Numbers : Inside(v, j) = Inside(w, j)
    BY <1>2, <1>8 DEF Inside, InstanceOf
<1>10. Counted(v, i) /\ Listed(v, i) /\ Fresh(v, i) /\ ~v.instance[i].idle
  <2>1. v.instance[i] = y /\ w.instance[i] = x
      BY <1>2, <1>7, <1>8
  <2>2. Counted(v, i)
      BY <1>4, <1>6, <1>9, <2>1 DEF Counted
  <2>3. Listed(v, i)
      BY <1>2, <1>4, <1>6, <1>8, <2>1 DEF Listed
  <2>4. Fresh(v, i)
      BY <1>1, <1>6, <2>1 DEF Fresh
  <2> QED BY <1>6, <2>1, <2>2, <2>3, <2>4
<1>11. \A j \in Numbers \ {i} : Counted(v, j) /\ Listed(v, j) /\ Fresh(v, j) /\ Timed(v, j)
    BY <1>2, <1>4, <1>7, <1>8, <1>9 DEF Counted, Listed, Fresh, Timed
<1>12. \A p \in Adventurers : Placed(v, p)
    BY <1>2, <1>4, <1>8 DEF Placed
<1>13. SoundBut(v, {i})
    BY <1>8, <1>10, <1>11, <1>12 DEF SoundBut
<1>14. Alike(v, w)
    BY <1>2, <1>6, <1>7, <1>8 DEF Alike
<1> DEFINE u == instance_check_idle(v, i)
<1>15. Sound(u) /\ Alike(u, v)
    BY <1>13, CheckedIdle
<1>16. BecomesWorld(u)
    BY <1>1, <1>3
<1> HIDE DEF u
<1>17. Named(u)
  <2>1. Alike(u, w)
      BY <1>14, <1>15 DEF Alike
  <2> QED BY <1>2, <2>1, NamedAlike
<1> QED BY <1>15, <1>16, <1>17, Becomes

(* An instance goes, and its party has none. *)
LEMMA DestroyNamed ==
    ASSUME NEW w, Sound(w), Named(w), NEW i \in Numbers, w.instance[i].used, NEW v, v = instance_destroy(w, i)
    PROVE  Sound(v) /\ Named(v)
<1> DEFINE q == w.instance[i].party_id
<1>1. w \in Worlds
    BY DEF Sound, SoundBut
<1>2. /\ Sound(v) /\ v.instance[i] = FreeInstance
      /\ \A j \in Numbers \ {i} : v.instance[j].used = w.instance[j].used /\ v.instance[j].party_id = w.instance[j].party_id
      /\ \A r \in Parties : q = r /\ w.party[r].known =>
            v.party[r].instance_id = 0 /\ \A t \in Parties \ {r} : v.party[t] = w.party[t]
    BY DestroyKeeps
<1>3. q \in Parties /\ q # 0 /\ w.party[q].known /\ w.party[q].instance_id = i
    BY <1>1 DEF Named, Worlds, Account
<1> HIDE DEF q
<1>4. /\ v.party[q].instance_id = 0
      /\ \A r \in Parties \ {q} : v.party[r] = w.party[r]
    BY <1>2, <1>3
<1>5. ASSUME NEW j \in Numbers, v.instance[j].used
      PROVE  LET r == v.instance[j].party_id IN r # 0 /\ v.party[r].known /\ v.party[r].instance_id = j
  <2> DEFINE r == w.instance[j].party_id
  <2>1. j # i
      BY <1>2, <1>5, FreeIsAccount
  <2>2. w.instance[j].used /\ v.instance[j].party_id = r
      BY <1>2, <1>5, <2>1
  <2>3. r # 0 /\ w.party[r].known /\ w.party[r].instance_id = j /\ r \in Parties \cup {0}
      BY <1>1, <2>2 DEF Named, Worlds, Account
  <2>4. r \in Parties \ {q}
      BY <1>3, <2>1, <2>3
  <2> QED BY <1>4, <2>2, <2>3, <2>4
<1>6. ASSUME NEW r \in Parties, v.party[r].instance_id # 0
      PROVE  v.instance[v.party[r].instance_id].party_id = r
  <2> DEFINE j == w.party[r].instance_id
  <2>1. r # q /\ v.party[r] = w.party[r] /\ j # 0
      BY <1>4, <1>6
  <2>2. j \in Numbers /\ w.instance[j].party_id = r
      BY <1>1, <2>1 DEF Named, Worlds, Band
  <2>3. j # i
      BY <2>1, <2>2 DEF q
  <2> QED BY <1>2, <2>1, <2>2, <2>3
<1> QED BY <1>2, <1>5, <1>6 DEF Named

LEMMA DestroyedKeeps ==
    ASSUME InstanceInv, NEW i \in Numbers, DestroyedByScript(i)
    PROVE  InstanceInv'
<1>1. World.instance[i].used /\ BecomesWorld(instance_destroy(World, i))
    BY WorldNow DEF DestroyedByScript
<1>2. Sound(World) /\ Named(World)
    BY DEF InstanceInv
<1> DEFINE v == instance_destroy(World, i)
<1>3. Sound(v) /\ Named(v)
    BY <1>1, <1>2, DestroyNamed
<1> QED BY <1>1, <1>3, Becomes

(* instance_detachmap *)
LEMMA DetachKeeps ==
    ASSUME InstanceInv, NEW m \in Sources, NEW i \in Numbers, instance_detachmap(m, i)
    PROVE  InstanceInv'
<1> DEFINE w == World
           s == CopyOf(w, m, i)
           v == instance_del_map(w, s)
<1>1. HasCopy(w, m, i) /\ BecomesWorld(v)
    BY DEF instance_detachmap
<1>2. Sound(w) /\ Named(w) /\ w \in Worlds
    BY WorldNow
<1> HIDE DEF w
<1>3. s \in Slots /\ w.copy[s].instance_id = i
    BY <1>1, <1>2, CopyIsOfInstance
<1> HIDE DEF s
<1>4. /\ Sound(v) /\ v.party = w.party
      /\ \A j \in Numbers : v.instance[j].used = w.instance[j].used /\ v.instance[j].party_id = w.instance[j].party_id
    BY <1>2, <1>3, DelMapKeeps
<1> HIDE DEF v
<1>5. \A q \in Parties : w.party[q].instance_id # 0 => w.party[q].instance_id \in Numbers
    BY <1>2 DEF Worlds, Band
<1>6. Named(v)
    BY <1>2, <1>4, <1>5 DEF Named
<1> QED BY <1>1, <1>4, <1>6, Becomes

(* party_broken: an instance that names no party goes without the party being told. *)
Orphan(i) == [World EXCEPT !.instance[i].party_id = 0]

LEMMA AloneGoes ==
    ASSUME InstanceInv, NEW i \in Numbers, instance[i].used, NEW v, v = instance_destroy(Orphan(i), i)
    PROVE  /\ Sound(v) /\ v.party = party /\ v.instance[i] = FreeInstance
           /\ \A j \in Numbers \ {i} : v.instance[j].used = instance[j].used /\ v.instance[j].party_id = instance[j].party_id
<1> DEFINE w == World
           x == instance[i]
           y == [x EXCEPT !.party_id = 0]
           in == [instance EXCEPT ![i] = y]
           u == [instance |-> in, copy |-> copy, party |-> party, adventurer |-> adventurer]
<1>1. /\ Sound(w) /\ w \in Worlds
      /\ w.instance = instance /\ w.copy = copy /\ w.party = party /\ w.adventurer = adventurer
      /\ instance \in [Numbers -> Account] /\ copy \in [Slots -> Copied]
      /\ party \in [Parties -> Band] /\ adventurer \in [Adventurers -> Walker]
    BY WorldNow
<1>2. u = Orphan(i)
    BY <1>1 DEF World, Orphan
<1> HIDE DEF w
<1>3. /\ \A j \in Numbers : Counted(w, j) /\ Listed(w, j) /\ Fresh(w, j) /\ Timed(w, j)
      /\ \A p \in Adventurers : Placed(w, p)
    BY <1>1 DEF Sound, SoundBut
<1>4. /\ y \in Account /\ y.map = x.map /\ y.used = x.used /\ y.party_id = 0
      /\ y.users = x.users /\ y.idle = x.idle /\ y.idleval = x.idleval
    BY <1>1 DEF Account
<1> HIDE DEF y
<1>5. in \in [Numbers -> Account] /\ in[i] = y /\ \A j \in Numbers \ {i} : in[j] = instance[j]
    BY <1>1, <1>4
<1> HIDE DEF in
<1>6. u \in Worlds /\ u.instance = in /\ u.copy = copy /\ u.party = party /\ u.adventurer = adventurer
    BY <1>1, <1>5 DEF Worlds
<1> HIDE DEF u
<1>7. \A j \in Numbers : Inside(u, j) = Inside(w, j)
    BY <1>1, <1>6 DEF Inside, InstanceOf
<1>8. Counted(u, i) /\ Listed(u, i) /\ Fresh(u, i) /\ Timed(u, i)
  <2>1. u.instance[i] = y /\ w.instance[i] = x
      BY <1>1, <1>5, <1>6
  <2>2. Counted(u, i)
      BY <1>3, <1>4, <1>7, <2>1 DEF Counted
  <2>3. Listed(u, i)
      BY <1>1, <1>3, <1>4, <1>6, <2>1 DEF Listed
  <2>4. Fresh(u, i)
      BY <1>4, <2>1 DEF Fresh
  <2>5. Timed(u, i)
      BY <1>3, <1>4, <2>1, Zenon DEF Timed
  <2> QED BY <2>2, <2>3, <2>4, <2>5
<1>9. \A j \in Numbers \ {i} : Counted(u, j) /\ Listed(u, j) /\ Fresh(u, j) /\ Timed(u, j)
    BY <1>1, <1>3, <1>5, <1>6, <1>7 DEF Counted, Listed, Fresh, Timed
<1>10. \A p \in Adventurers : Placed(u, p)
    BY <1>1, <1>3, <1>6 DEF Placed
<1>11. Sound(u)
    BY <1>6, <1>8, <1>9, <1>10 DEF Sound, SoundBut
<1>12. v = instance_destroy(u, i)
    BY <1>2
<1>13. u.instance[i].party_id = 0
    BY <1>4, <1>5, <1>6
<1>14. /\ Sound(v) /\ v.instance[i] = FreeInstance /\ v.party = u.party
       /\ \A j \in Numbers \ {i} : v.instance[j].used = u.instance[j].used /\ v.instance[j].party_id = u.instance[j].party_id
    BY <1>11, <1>12, <1>13, DestroyKeeps
<1> QED BY <1>5, <1>6, <1>14

LEMMA BrokenKeeps ==
    ASSUME InstanceInv, NEW q \in Parties, party_broken(q)
    PROVE  InstanceInv'
<1> DEFINE i == party[q].instance_id
           alone == IF i = 0 THEN World ELSE instance_destroy([World EXCEPT !.instance[i].party_id = 0], i)
           none == [known |-> FALSE, instance_id |-> 0]
           pa == [alone.party EXCEPT ![q] = none]
           ad == [p \in Adventurers |-> IF alone.adventurer[p].party_id = q /\ alone.adventurer[p].at # "gone"
                                        THEN [alone.adventurer[p] EXCEPT !.party_id = 0] ELSE alone.adventurer[p]]
           v == [alone EXCEPT !.party[q] = none, !.adventurer = ad]
<1>1. BecomesWorld(v)
    BY DEF party_broken
<1>2. /\ Sound(World) /\ Named(World)
      /\ World.instance = instance /\ World.party = party
      /\ instance \in [Numbers -> Account] /\ party \in [Parties -> Band]
    BY WorldNow
<1>3. i \in Numbers \cup {0}
    BY <1>2 DEF Band
<1>4. /\ Sound(alone) /\ alone.party = party
      /\ i # 0 => alone.instance[i] = FreeInstance
      /\ \A j \in Numbers \ {i} : alone.instance[j].used = instance[j].used /\ alone.instance[j].party_id = instance[j].party_id
  <2>1. CASE i = 0
    <3>1. alone = World
        BY <2>1
    <3> HIDE DEF alone
    <3> QED BY <1>2, <2>1, <3>1
  <2>2. CASE i # 0
    <3>1. i \in Numbers /\ instance[i].party_id = q
        BY <1>2, <1>3, <2>2 DEF Named
    <3>2. instance[i].used
      <4>1. Fresh(World, i)
          BY <1>2, <3>1 DEF Sound, SoundBut
      <4>2. q # 0
          BY InstanceAssumption
      <4> QED BY <1>2, <3>1, <4>1, <4>2, FreeIsAccount DEF Fresh
    <3>3. alone = instance_destroy(Orphan(i), i)
        BY <2>2 DEF Orphan
    <3> HIDE DEF alone, i
    <3> QED BY <3>1, <3>2, <3>3, AloneGoes
  <2> QED BY <2>1, <2>2
<1> HIDE DEF alone
<1>5. alone \in Worlds /\ alone.adventurer \in [Adventurers -> Walker]
    BY <1>4 DEF Sound, SoundBut, Worlds
<1>6. v = [alone EXCEPT !.party = pa, !.adventurer = ad]
    BY <1>5 DEF Worlds
<1>7. /\ ad \in [Adventurers -> Walker]
      /\ \A p \in Adventurers : ad[p].at = alone.adventurer[p].at /\ ad[p].m = alone.adventurer[p].m
  <2>1. ASSUME NEW p \in Adventurers
        PROVE  ad[p] \in Walker /\ ad[p].at = alone.adventurer[p].at /\ ad[p].m = alone.adventurer[p].m
    <3>1. alone.adventurer[p] \in Walker
        BY <1>5
    <3> QED BY <3>1 DEF Walker
  <2> QED BY <2>1
<1>8. /\ pa \in [Parties -> Band] /\ pa[q].instance_id = 0
      /\ \A r \in Parties \ {q} : pa[r] = party[r]
    BY <1>2, <1>4 DEF Band
<1> HIDE DEF ad, pa
<1>9. v \in Worlds /\ v.instance = alone.instance /\ v.copy = alone.copy /\ v.party = pa /\ v.adventurer = ad
    BY <1>5, <1>6, <1>7, <1>8 DEF Worlds
<1> HIDE DEF v
<1>10. Sound(v)
    BY <1>4, <1>7, <1>9, SameSound
<1>11. Named(v)
  <2>1. ASSUME NEW j \in Numbers, v.instance[j].used
        PROVE  LET r == v.instance[j].party_id IN r # 0 /\ v.party[r].known /\ v.party[r].instance_id = j
    <3> DEFINE r == instance[j].party_id
    <3>1. j # i
        BY <1>4, <1>9, <2>1, FreeIsAccount, NumbersArePositive
    <3>2. instance[j].used /\ v.instance[j].party_id = r
        BY <1>4, <1>9, <2>1, <3>1
    <3>3. r # 0 /\ party[r].known /\ party[r].instance_id = j /\ r \in Parties \cup {0}
        BY <1>2, <3>2 DEF Named, Account
    <3>4. r \in Parties \ {q}
        BY <3>1, <3>3
    <3> QED BY <1>8, <1>9, <3>2, <3>3, <3>4
  <2>2. ASSUME NEW r \in Parties, v.party[r].instance_id # 0
        PROVE  v.instance[v.party[r].instance_id].party_id = r
    <3> DEFINE j == party[r].instance_id
    <3>1. r # q /\ v.party[r] = party[r] /\ j # 0
        BY <1>8, <1>9, <2>2
    <3>2. j \in Numbers /\ instance[j].party_id = r
        BY <1>2, <3>1 DEF Named, Band
    <3>3. j # i
      <4>1. i # 0 => instance[i].party_id = q
          BY <1>2 DEF Named
      <4> QED BY <3>1, <3>2, <4>1
    <3> QED BY <1>4, <1>9, <3>1, <3>2, <3>3
  <2> QED BY <2>1, <2>2 DEF Named
<1> QED BY <1>1, <1>10, <1>11, Becomes

(* party_member_withdraw, and instance_check_kick in it *)
LEMMA WithdrawKeeps ==
    ASSUME InstanceInv, NEW p \in Adventurers, party_member_withdraw(p)
    PROVE  InstanceInv'
<1> DEFINE x == adventurer[p]
           y == [x EXCEPT !.party_id = 0]
           ad == [adventurer EXCEPT ![p] = y]
           w == [World EXCEPT !.adventurer[p].party_id = 0]
           on == pc_setpos(w, p, w.adventurer[p].save)
           kick == party[x.party_id].instance_id # 0 /\ InstanceOf(w, w.adventurer[p].m) # 0
<1>1. x.at # "gone" /\ BecomesWorld(IF kick THEN on ELSE w)
    BY DEF party_member_withdraw
<1>2. /\ Sound(World) /\ Named(World) /\ World \in Worlds
      /\ World.instance = instance /\ World.copy = copy /\ World.party = party /\ World.adventurer = adventurer
      /\ adventurer \in [Adventurers -> Walker]
    BY WorldNow
<1>3. w = [World EXCEPT !.adventurer = ad]
    BY <1>2 DEF Worlds
<1>4. y \in Walker /\ y.at = x.at /\ y.m = x.m /\ y.save = Town
    BY <1>2 DEF Walker
<1> HIDE DEF w, y
<1>5. ad \in [Adventurers -> Walker] /\ ad[p] = y /\ \A r \in Adventurers \ {p} : ad[r] = adventurer[r]
    BY <1>2, <1>4
<1> HIDE DEF ad
<1>6. /\ w \in Worlds /\ w.adventurer = ad /\ w.instance = World.instance /\ w.copy = World.copy /\ w.party = World.party
    BY <1>2, <1>3, <1>5 DEF Worlds
<1>7. Sound(w)
  <2>1. \A r \in Adventurers : w.adventurer[r].at = World.adventurer[r].at /\ w.adventurer[r].m = World.adventurer[r].m
      BY <1>2, <1>4, <1>5, <1>6
  <2> QED BY <1>2, <1>6, <2>1, SameSound
<1>8. Named(w)
  <2>1. Alike(w, World)
      BY <1>6 DEF Alike
  <2> QED BY <1>2, <2>1, NamedAlike
<1>9. Sound(on) /\ Named(on)
  <2>1. w.adventurer[p].at # "gone" /\ on = pc_setpos(w, p, Town)
      BY <1>1, <1>4, <1>5, <1>6
  <2>2. Town \in Maps /\ Town \notin Slots
      BY InstanceAssumption DEF Maps
  <2>3. Sound(on) /\ Alike(on, w)
      BY <1>7, <2>1, <2>2, SetposKeeps
  <2> QED BY <1>6, <1>8, <2>3, NamedAlike
<1> HIDE DEF on, kick
<1>10. CASE kick
    BY <1>1, <1>9, <1>10, Becomes
<1>11. CASE ~kick
    BY <1>1, <1>7, <1>8, <1>11, Becomes
<1> QED BY <1>10, <1>11

(* pc_setpos of a session that is there, by a script or by the player. *)
LEMMA GoesKeeps ==
    ASSUME InstanceInv, NEW p \in Adventurers, adventurer[p].at # "gone", NEW m \in Maps,
           m \in Slots => copy[m].instance_id # 0, BecomesWorld(pc_setpos(World, p, m))
    PROVE  InstanceInv'
<1> DEFINE v == pc_setpos(World, p, m)
<1>1. /\ Sound(World) /\ Named(World) /\ World \in Worlds
      /\ World.copy = copy /\ World.adventurer = adventurer
    BY WorldNow
<1>2. Sound(v) /\ Alike(v, World)
    BY <1>1, SetposKeeps
<1>3. Named(v)
    BY <1>1, <1>2, NamedAlike
<1> QED BY <1>2, <1>3, Becomes

LEMMA WalksKeeps ==
    ASSUME InstanceInv, NEW p \in Adventurers, NEW m \in {Town} \cup Sources, Walks(p, m)
    PROVE  InstanceInv'
<1>1. m \in Maps /\ m \notin Slots
    BY InstanceAssumption DEF Maps
<1> QED BY <1>1, GoesKeeps DEF Walks

LEMMA EntersKeeps ==
    ASSUME InstanceInv, NEW p \in Adventurers, NEW s \in Slots, EntersCopy(p, s)
    PROVE  InstanceInv'
<1>1. s \in Maps
    BY DEF Maps
<1> QED BY <1>1, GoesKeeps DEF EntersCopy

(* A party that is new, or a new member of one. *)
LEMMA KnownKeeps ==
    ASSUME InstanceInv, NEW q \in Parties, PartyKnown(q)
    PROVE  InstanceInv'
<1> DEFINE new == [known |-> TRUE, instance_id |-> 0]
           pa == [party EXCEPT ![q] = new]
           v == [instance |-> instance, copy |-> copy, party |-> pa, adventurer |-> adventurer]
<1>1. /\ ~party[q].known /\ party' = pa
      /\ instance' = instance /\ copy' = copy /\ adventurer' = adventurer
    BY DEF PartyKnown
<1>2. /\ Sound(World) /\ Named(World)
      /\ World.instance = instance /\ World.copy = copy /\ World.party = party /\ World.adventurer = adventurer
      /\ instance \in [Numbers -> Account] /\ copy \in [Slots -> Copied]
      /\ party \in [Parties -> Band] /\ adventurer \in [Adventurers -> Walker]
    BY WorldNow
<1>3. new \in Band /\ new.instance_id = 0
    BY DEF Band
<1> HIDE DEF new
<1>4. pa \in [Parties -> Band] /\ pa[q].instance_id = 0 /\ \A r \in Parties \ {q} : pa[r] = party[r]
    BY <1>2, <1>3
<1> HIDE DEF pa
<1>5. v \in Worlds /\ v.instance = instance /\ v.copy = copy /\ v.party = pa /\ v.adventurer = adventurer
    BY <1>2, <1>4 DEF Worlds
<1> HIDE DEF v
<1>6. Sound(v)
    BY <1>2, <1>5, SameSound
<1>7. Named(v)
  <2>1. ASSUME NEW j \in Numbers, v.instance[j].used
        PROVE  LET r == v.instance[j].party_id IN r # 0 /\ v.party[r].known /\ v.party[r].instance_id = j
    <3> DEFINE r == instance[j].party_id
    <3>1. r # 0 /\ party[r].known /\ party[r].instance_id = j /\ r \in Parties \cup {0}
        BY <1>2, <1>5, <2>1 DEF Named, Account
    <3>2. r \in Parties \ {q}
        BY <1>1, <3>1
    <3> QED BY <1>4, <1>5, <3>1, <3>2
  <2>2. ASSUME NEW r \in Parties, v.party[r].instance_id # 0
        PROVE  v.instance[v.party[r].instance_id].party_id = r
    <3>1. v.party[r] = party[r]
        BY <1>4, <1>5, <2>2
    <3> QED BY <1>2, <1>5, <2>2, <3>1 DEF Named
  <2> QED BY <2>1, <2>2 DEF Named
<1>8. BecomesWorld(v)
    BY <1>1, <1>5 DEF BecomesWorld
<1> QED BY <1>6, <1>7, <1>8, Becomes

LEMMA JoinsKeeps ==
    ASSUME InstanceInv, NEW p \in Adventurers, NEW q \in Parties, JoinsParty(p, q)
    PROVE  InstanceInv'
<1> DEFINE y == [adventurer[p] EXCEPT !.party_id = q]
           ad == [adventurer EXCEPT ![p] = y]
           v == [instance |-> instance, copy |-> copy, party |-> party, adventurer |-> ad]
<1>1. adventurer' = ad /\ instance' = instance /\ copy' = copy /\ party' = party
    BY DEF JoinsParty
<1>2. /\ Sound(World) /\ Named(World) /\ World \in Worlds
      /\ World.instance = instance /\ World.copy = copy /\ World.party = party /\ World.adventurer = adventurer
      /\ instance \in [Numbers -> Account] /\ copy \in [Slots -> Copied]
      /\ party \in [Parties -> Band] /\ adventurer \in [Adventurers -> Walker]
    BY WorldNow
<1>3. y \in Walker /\ y.at = adventurer[p].at /\ y.m = adventurer[p].m
    BY <1>2 DEF Walker
<1> HIDE DEF y
<1>4. ad \in [Adventurers -> Walker] /\ \A r \in Adventurers : ad[r].at = adventurer[r].at /\ ad[r].m = adventurer[r].m
    BY <1>2, <1>3
<1> HIDE DEF ad
<1>5. v \in Worlds /\ v.instance = instance /\ v.copy = copy /\ v.party = party /\ v.adventurer = ad
    BY <1>2, <1>4 DEF Worlds
<1> HIDE DEF v
<1>6. Sound(v) /\ Alike(v, World)
    BY <1>2, <1>4, <1>5, SameSound DEF Alike
<1>7. Named(v)
    BY <1>2, <1>6, NamedAlike
<1>8. BecomesWorld(v)
    BY <1>1, <1>5 DEF BecomesWorld
<1> QED BY <1>6, <1>7, <1>8, Becomes

(* map_quit: who is gone is on no map of an instance. *)
LEMMA QuitsKeeps ==
    ASSUME InstanceInv, NEW p \in Adventurers, QuitsMap(p)
    PROVE  InstanceInv'
<1> DEFINE off == unit_remove_map(World, p)
           x == off.adventurer[p]
           m == IF InstanceOf(off, x.m) # 0 THEN x.save ELSE x.m
           y == [x EXCEPT !.at = "gone", !.rewarp = FALSE, !.m = m]
           ad == [off.adventurer EXCEPT ![p] = y]
           v == [off EXCEPT !.adventurer[p].at = "gone", !.adventurer[p].rewarp = FALSE, !.adventurer[p].m = m]
<1>1. adventurer[p].at # "gone" /\ BecomesWorld(v)
    BY DEF QuitsMap
<1>2. /\ Sound(World) /\ Named(World) /\ World \in Worlds /\ World.adventurer = adventurer
      /\ adventurer \in [Adventurers -> Walker]
    BY WorldNow
<1>3. /\ Sound(off) /\ Alike(off, World)
      /\ off.adventurer = [adventurer EXCEPT ![p] = Unloaded(adventurer[p])]
    BY <1>2, RemoveMapKeeps
<1> HIDE DEF off
<1>4. off \in Worlds /\ off.adventurer \in [Adventurers -> Walker] /\ x \in Walker /\ Placed(off, p)
    BY <1>3 DEF Sound, SoundBut, Worlds
<1>5. x.at # "map"
    BY <1>1, <1>2, <1>3 DEF Unloaded, Walker
<1>6. v = [off EXCEPT !.adventurer = ad]
  <2>1. Quitting(off, p, m) = WithPlayer(off, p, y)
    <3>1. Quitting(off, p, m) = WithPlayer(off, p, GonePlayer(off.adventurer[p], m))
        BY <1>4, GoneFields
    <3> QED BY <3>1 DEF GonePlayer
  <2>2. v = Quitting(off, p, m)
      BY DEF Quitting
  <2>3. WithPlayer(off, p, y) = [off EXCEPT !.adventurer = ad]
      BY DEF WithPlayer
  <2> QED BY <2>1, <2>2, <2>3, Zenon
<1>7. m \in Maps /\ m \notin Slots
  <2>1. CASE InstanceOf(off, x.m) # 0
      BY <1>4, <2>1, InstanceAssumption DEF Walker, Maps
  <2>2. CASE InstanceOf(off, x.m) = 0
      BY <1>4, <2>2 DEF Placed, InstanceOf, Walker
  <2> QED BY <2>1, <2>2
<1> HIDE DEF m, x, v
<1>8. y \in Walker /\ y.at = "gone" /\ y.m = m
    BY <1>4, <1>7 DEF Walker
<1> HIDE DEF y
<1>9. ad \in [Adventurers -> Walker]
    BY <1>4, <1>8
<1>10. /\ v \in Worlds /\ v.adventurer = [off.adventurer EXCEPT ![p] = y]
       /\ v.instance = off.instance /\ v.copy = off.copy /\ v.party = off.party
  <2>1. v.adventurer = ad /\ v \in Worlds /\ v.instance = off.instance /\ v.copy = off.copy /\ v.party = off.party
    <3> HIDE DEF ad
    <3> QED BY <1>4, <1>6, <1>9 DEF Worlds
  <2> QED BY <2>1
<1> HIDE DEF ad
<1>11. Sound(v)
  <2>1. off.adventurer[p].at # "map"
      BY <1>5 DEF x
  <2>2. y.at # "map" /\ y.m \notin Slots
      BY <1>7, <1>8
  <2>3. y \in Walker /\ Sound(off)
      BY <1>3, <1>8
  <2> QED BY <1>10, <2>1, <2>2, <2>3, AwayStays
<1>12. Named(v)
  <2>1. Alike(v, World)
      BY <1>3, <1>10 DEF Alike
  <2> QED BY <1>2, <2>1, NamedAlike
<1> QED BY <1>1, <1>11, <1>12, Becomes

(* pc_authok: the session comes to the map it was saved on, which is no map of an instance. *)
LEMMA LogsKeeps ==
    ASSUME InstanceInv, NEW p \in Adventurers, LogsOnto(p)
    PROVE  InstanceInv'
<1> DEFINE x == [adventurer[p] EXCEPT !.at = "loading"]
           back == [adventurer EXCEPT ![p] = x]
           w == [World EXCEPT !.adventurer[p].at = "loading"]
           on == pc_setpos(w, p, adventurer[p].m)
           y == [on.adventurer[p] EXCEPT !.rewarp = FALSE]
           ad == [on.adventurer EXCEPT ![p] = y]
           v == [on EXCEPT !.adventurer[p].rewarp = FALSE]
<1>1. adventurer[p].at = "gone" /\ BecomesWorld(v)
    BY DEF LogsOnto
<1>2. /\ Sound(World) /\ Named(World) /\ World \in Worlds
      /\ World.adventurer = adventurer /\ World.copy = copy
      /\ adventurer \in [Adventurers -> Walker]
    BY WorldNow
<1>3. adventurer[p].m \in Maps /\ adventurer[p].m \notin Slots
    BY <1>1, <1>2 DEF Sound, SoundBut, Placed, Walker
<1>4. w = [World EXCEPT !.adventurer = back]
    BY <1>2 DEF Worlds
<1> HIDE DEF w
<1>5. x \in Walker /\ x.at = "loading" /\ x.m = adventurer[p].m
    BY <1>2 DEF Walker
<1> HIDE DEF x
<1>6. back \in [Adventurers -> Walker] /\ back[p] = x
    BY <1>2, <1>5
<1>7. /\ w \in Worlds /\ w.adventurer = back
      /\ w.instance = World.instance /\ w.copy = World.copy /\ w.party = World.party
  <2> HIDE DEF back
  <2> QED BY <1>2, <1>4, <1>6 DEF Worlds
<1>8. Sound(w)
  <2>1. World.adventurer[p].at # "map" /\ x.at # "map" /\ x.m \notin Slots
      BY <1>1, <1>2, <1>3, <1>5
  <2>2. w.adventurer = [World.adventurer EXCEPT ![p] = x]
      BY <1>2, <1>7
  <2> HIDE DEF back
  <2>3. x \in Walker /\ Sound(World)
      BY <1>2, <1>5
  <2> QED BY <1>7, <2>1, <2>2, <2>3, AwayStays
<1>9. Sound(on) /\ Alike(on, w)
  <2>1. w.adventurer[p].at # "gone"
      BY <1>5, <1>6, <1>7
  <2> QED BY <1>3, <1>8, <2>1, SetposKeeps
<1> HIDE DEF on
<1>10. on \in Worlds /\ on.adventurer \in [Adventurers -> Walker] /\ on.adventurer[p] \in Walker
    BY <1>9 DEF Sound, SoundBut, Worlds
<1>11. v = [on EXCEPT !.adventurer = ad]
    BY <1>10 DEF Worlds
<1>12. y \in Walker /\ y.at = on.adventurer[p].at /\ y.m = on.adventurer[p].m
    BY <1>10 DEF Walker
<1> HIDE DEF v, y
<1>13. /\ ad \in [Adventurers -> Walker]
       /\ \A r \in Adventurers : ad[r].at = on.adventurer[r].at /\ ad[r].m = on.adventurer[r].m
    BY <1>10, <1>12
<1> HIDE DEF ad
<1>14. /\ v \in Worlds /\ v.adventurer = ad
       /\ v.instance = on.instance /\ v.copy = on.copy /\ v.party = on.party
    BY <1>10, <1>11, <1>13 DEF Worlds
<1>15. Sound(v)
    BY <1>9, <1>13, <1>14, SameSound
<1>16. Named(v)
  <2>1. Alike(v, World)
      BY <1>7, <1>9, <1>14 DEF Alike
  <2> QED BY <1>2, <2>1, NamedAlike
<1> QED BY <1>1, <1>15, <1>16, Becomes

(* clif_parse_LoadEndAck: who has loaded is on the map, and counted on one of an instance. *)
LEMMA LoadedKeeps ==
    ASSUME InstanceInv, NEW p \in Adventurers, MapLoaded(p)
    PROVE  InstanceInv'
<1> DEFINE x == adventurer[p]
           i == InstanceOf(World, x.m)
           still == [World EXCEPT !.adventurer[p].rewarp = FALSE]
           on == [World EXCEPT !.adventurer[p].at = "map"]
           in == [on EXCEPT !.instance[i].users = @ + 1]
<1>1. /\ x.at = "loading"
      /\ BecomesWorld(IF x.rewarp THEN still ELSE IF i = 0 THEN on ELSE instance_check_idle(in, i))
    BY DEF MapLoaded
<1>2. /\ Sound(World) /\ Named(World) /\ World \in Worlds
      /\ World.instance = instance /\ World.copy = copy /\ World.party = party /\ World.adventurer = adventurer
      /\ instance \in [Numbers -> Account] /\ adventurer \in [Adventurers -> Walker] /\ x \in Walker
    BY WorldNow
<1>3. CASE x.rewarp
  <2> DEFINE y == [x EXCEPT !.rewarp = FALSE]
             ad == [adventurer EXCEPT ![p] = y]
  <2>1. still = [World EXCEPT !.adventurer = ad]
      BY <1>2 DEF Worlds
  <2>2. y \in Walker /\ y.at = x.at /\ y.m = x.m
      BY <1>2 DEF Walker
  <2> HIDE DEF still, y
  <2>3. ad \in [Adventurers -> Walker] /\ \A r \in Adventurers : ad[r].at = adventurer[r].at /\ ad[r].m = adventurer[r].m
      BY <1>2, <2>2
  <2> HIDE DEF ad
  <2>4. /\ still \in Worlds /\ still.adventurer = ad
        /\ still.instance = World.instance /\ still.copy = World.copy /\ still.party = World.party
      BY <1>2, <2>1, <2>3 DEF Worlds
  <2>5. Sound(still)
      BY <1>2, <2>3, <2>4, SameSound
  <2>6. Alike(still, World)
      BY <2>4 DEF Alike
  <2>7. Named(still)
      BY <1>2, <2>6, NamedAlike
  <2>8. BecomesWorld(still)
      BY <1>1, <1>3
  <2> QED BY <2>5, <2>7, <2>8, Becomes
<1>4. CASE ~x.rewarp
  <2> DEFINE y == [x EXCEPT !.at = "map"]
             ad == [adventurer EXCEPT ![p] = y]
  <2>1. on = [World EXCEPT !.adventurer = ad]
      BY <1>2 DEF Worlds
  <2>2. y \in Walker /\ y.at = "map" /\ y.m = x.m
      BY <1>2 DEF Walker
  <2> HIDE DEF on, y
  <2>3. ad \in [Adventurers -> Walker] /\ ad[p] = y /\ \A r \in Adventurers \ {p} : ad[r] = adventurer[r]
      BY <1>2, <2>2
  <2>4. /\ on \in Worlds /\ on.adventurer = ad
        /\ on.instance = World.instance /\ on.copy = World.copy /\ on.party = World.party
    <3> HIDE DEF ad
    <3> QED BY <1>2, <2>1, <2>3 DEF Worlds
  <2>5. y.m \in Slots => World.copy[y.m].instance_id # 0
      BY <1>2, <2>2 DEF Sound, SoundBut, Placed
  <2>6. CASE i = 0
    <3>1. World.adventurer[p].at # "map" /\ InstanceOf(World, y.m) = 0 /\ y.at # "gone"
        BY <1>1, <1>2, <2>2, <2>6
    <3>2. on.adventurer = [World.adventurer EXCEPT ![p] = y]
        BY <1>2, <2>4
    <3> HIDE DEF ad
    <3>3. y \in Walker /\ Sound(World)
        BY <1>2, <2>2
    <3>4. Sound(on)
        BY <2>4, <2>5, <3>1, <3>2, <3>3, AwayStays
    <3>5. Alike(on, World)
        BY <2>4 DEF Alike
    <3>6. Named(on)
        BY <1>2, <3>5, NamedAlike
    <3>7. BecomesWorld(on)
        BY <1>1, <1>4, <2>6
    <3> QED BY <3>4, <3>6, <3>7, Becomes
  <2>7. CASE i # 0
    <3>1. x.m \in Slots /\ i = World.copy[x.m].instance_id
        BY <2>7 DEF InstanceOf
    <3>2. i \in Numbers /\ instance[i].used
        BY <1>2, <2>7, <3>1, MapsAreOfUsed DEF Sound
    <3> DEFINE n == instance[i].users + 1
               z == [instance[i] EXCEPT !.users = n]
               acc == [instance EXCEPT ![i] = z]
    <3>3. instance[i] \in Account /\ n \in Nat
        BY <1>2, <3>2 DEF Account
    <3>4. in = [on EXCEPT !.instance = acc]
        BY <1>2, <2>4, <3>2 DEF Worlds
    <3>5. BecomesWorld(instance_check_idle(in, i))
        BY <1>1, <1>4, <2>7
    <3> HIDE DEF n, in, ad
    <3>6. /\ z \in Account /\ z.users = n /\ z.used = instance[i].used /\ z.party_id = instance[i].party_id
          /\ z.map = instance[i].map /\ z.idleval = instance[i].idleval /\ z.idle = instance[i].idle
        BY <3>3, UsersField
    <3> HIDE DEF z
    <3>7. acc \in [Numbers -> Account] /\ acc[i] = z /\ \A j \in Numbers \ {i} : acc[j] = instance[j]
        BY <1>2, <3>2, <3>6
    <3> HIDE DEF acc
    <3>8. in \in Worlds /\ in.instance = acc /\ in.copy = World.copy /\ in.party = World.party /\ in.adventurer = ad
        BY <2>4, <3>4, <3>7 DEF Worlds
    <3> HIDE DEF i
    <3>9. /\ \A j \in Numbers : p \in Inside(in, j) <=> j = i
          /\ \A j \in Numbers : p \notin Inside(World, j)
        BY <1>1, <1>2, <2>2, <2>3, <3>8 DEF Inside, InstanceOf, i
    <3>10. Placed(in, p)
        BY <2>2, <2>3, <2>5, <3>8 DEF Placed
    <3>11. SoundBut(in, {i})
      <4> DEFINE I == {i}
      <4>1. I \in SUBSET Numbers
          BY <3>2
      <4>2. \A j \in Numbers \ I : in.instance[j] = World.instance[j] /\ (p \in Inside(in, j) <=> p \in Inside(World, j))
          BY <1>2, <3>7, <3>8, <3>9
      <4>3. \A j \in I : /\ World.instance[j].used
                         /\ in.instance[j].used = World.instance[j].used /\ in.instance[j].map = World.instance[j].map
                         /\ in.instance[j].idleval = World.instance[j].idleval /\ in.instance[j].idle = World.instance[j].idle
                         /\ p \in Inside(in, j) /\ p \notin Inside(World, j) /\ in.instance[j].users = World.instance[j].users + 1
          BY <1>2, <3>2, <3>6, <3>7, <3>8, <3>9 DEF n
      <4>4. \A q \in Adventurers \ {p} : in.adventurer[q] = World.adventurer[q]
          BY <1>2, <2>3, <3>8
      <4> HIDE DEF I
      <4>5. SoundBut(in, I)
          BY <1>2, <3>8, <3>10, <4>1, <4>2, <4>3, <4>4, Recounted
      <4> QED BY <4>5 DEF I
    <3> DEFINE u == instance_check_idle(in, i)
    <3>12. Sound(u) /\ Alike(u, in)
        BY <3>2, <3>11, CheckedIdle
    <3>13. Alike(in, World)
        BY <1>2, <3>6, <3>7, <3>8 DEF Alike
    <3> HIDE DEF u
    <3>14. Named(u)
      <4>1. Alike(u, World)
          BY <3>12, <3>13 DEF Alike
      <4> QED BY <1>2, <4>1, NamedAlike
    <3>15. BecomesWorld(u)
        BY <3>5 DEF u
    <3> QED BY <3>12, <3>14, <3>15, Becomes
  <2> QED BY <2>6, <2>7
<1> QED BY <1>3, <1>4

-----------------------------------------------------------------------------
LEMMA InstanceInitInv ==
    ASSUME SavesOutside, InstanceInit
    PROVE  InstanceInv
<1> DEFINE w == World
<1>1. w.instance = instance /\ w.copy = copy /\ w.party = party /\ w.adventurer = adventurer
    BY DEF World
<1>2. /\ instance = [i \in Numbers |-> FreeInstance]
      /\ copy = [s \in Slots |-> FreeSlot]
      /\ party = [q \in Parties |-> [known |-> TRUE, instance_id |-> 0]]
    BY DEF InstanceInit
<1>3. PICK home \in [Adventurers -> SavePoints], into \in [Adventurers -> Parties] :
          adventurer = [p \in Adventurers |-> [at |-> "map", m |-> Town, save |-> home[p], party_id |-> into[p], rewarp |-> FALSE]]
    BY DEF InstanceInit
<1>4. /\ instance \in [Numbers -> Account] /\ copy \in [Slots -> Copied] /\ party \in [Parties -> Band]
      /\ adventurer \in [Adventurers -> Walker] /\ \A p \in Adventurers : adventurer[p].m = Town
  <2>1. instance \in [Numbers -> Account] /\ copy \in [Slots -> Copied]
      BY <1>2, FreeIsAccount, FreeIsCopied
  <2>2. party \in [Parties -> Band]
      BY <1>2 DEF Band
  <2>3. ASSUME NEW p \in Adventurers
        PROVE  adventurer[p] \in Walker /\ adventurer[p].m = Town
      BY <1>3 DEF SavePoints, Walker, Maps
  <2>4. adventurer \in [Adventurers -> Walker]
      BY <1>3, <2>3
  <2> QED BY <2>1, <2>2, <2>3, <2>4
<1>5. World \in Worlds
    BY <1>4 DEF World, Worlds
<1> HIDE DEF w
<1>6. \A p \in Adventurers : Placed(w, p) /\ InstanceOf(w, w.adventurer[p].m) = 0
    BY <1>1, <1>4, InstanceAssumption DEF Placed, InstanceOf
<1>7. ASSUME NEW i \in Numbers
      PROVE  Counted(w, i) /\ Listed(w, i) /\ Fresh(w, i) /\ Timed(w, i)
  <2>1. w.instance[i] = FreeInstance
      BY <1>1, <1>2
  <2>2. Inside(w, i) = {}
      BY <1>6, NumbersArePositive DEF Inside
  <2>3. Counted(w, i)
      BY <2>1, <2>2, FreeIsAccount, FS_EmptySet DEF Counted
  <2>4. Listed(w, i)
    <3>1. Len(w.instance[i].map) = 0
        BY <2>1, FreeIsAccount
    <3>2. \A r \in Slots : w.copy[r].instance_id # i
        BY <1>1, <1>2, FreeIsCopied, NumbersArePositive
    <3> QED BY <3>1, <3>2 DEF Listed
  <2>5. Fresh(w, i)
      BY <2>1 DEF Fresh
  <2>6. Timed(w, i)
    <3>1. FreeInstance.idle = FALSE /\ FreeInstance.used = FALSE
        BY DEF FreeInstance
    <3> QED BY <2>1, <3>1, Zenon DEF Timed
  <2> QED BY <2>3, <2>4, <2>5, <2>6
<1>8. Sound(w)
  <2>1. w \in Worlds
      BY <1>5 DEF w
  <2> QED BY <1>6, <1>7, <2>1 DEF Sound, SoundBut
<1>9. Named(w)
    BY <1>1, <1>2, FreeIsAccount DEF Named
<1> QED BY <1>8, <1>9 DEF InstanceInv, w

LEMMA InstanceNextInv == InstanceInv /\ [InstanceNext]_instanceVars => InstanceInv'
<1> SUFFICES ASSUME InstanceInv, [InstanceNext]_instanceVars PROVE InstanceInv'
    OBVIOUS
<1>1. CASE UNCHANGED instanceVars
  <2>1. BecomesWorld(World)
      BY <1>1, WorldNow DEF BecomesWorld, instanceVars
  <2> QED BY <2>1, Becomes DEF InstanceInv
<1>2. CASE \E q \in Parties : instance_create(q) \/ party_broken(q) \/ PartyKnown(q)
    BY <1>2, CreateKeeps, BrokenKeeps, KnownKeeps
<1>3. ASSUME NEW i \in Numbers,
             \/ \E m \in Sources : instance_add_map(m, i) \/ instance_detachmap(m, i)
             \/ \E progress, idle \in BOOLEAN : instance_set_timeout(i, progress, idle)
             \/ DestroyedByScript(i) \/ TimeIsOver(i) \/ IdleIsOver(i)
      PROVE  InstanceInv'
  <2>1. CASE \E m \in Sources : instance_add_map(m, i) \/ instance_detachmap(m, i)
      BY <2>1, AddMapKeeps, DetachKeeps
  <2>2. CASE \E progress, idle \in BOOLEAN : instance_set_timeout(i, progress, idle)
      BY <2>2, SetTimeoutKeeps
  <2>3. CASE DestroyedByScript(i) \/ TimeIsOver(i) \/ IdleIsOver(i)
      BY <2>3, DestroyedKeeps DEF TimeIsOver, IdleIsOver
  <2> QED BY <1>3, <2>1, <2>2, <2>3
<1>4. ASSUME NEW p \in Adventurers,
             \/ \E m \in {Town} \cup Sources : Walks(p, m)
             \/ \E s \in Slots : EntersCopy(p, s)
             \/ \E q \in Parties : JoinsParty(p, q)
             \/ party_member_withdraw(p) \/ MapLoaded(p) \/ QuitsMap(p) \/ LogsOnto(p)
      PROVE  InstanceInv'
    BY <1>4, WalksKeeps, EntersKeeps, JoinsKeeps, WithdrawKeeps, LoadedKeeps, QuitsKeeps, LogsKeeps
<1> QED BY <1>1, <1>2, <1>3, <1>4 DEF InstanceNext

LEMMA InstanceInvKept == InstanceInv => InstancesKept
<1> SUFFICES ASSUME InstanceInv PROVE InstancesKept
    OBVIOUS
<1>1. /\ Sound(World) /\ Named(World)
      /\ World.instance = instance /\ World.copy = copy /\ World.party = party /\ World.adventurer = adventurer
      /\ instance \in [Numbers -> Account] /\ copy \in [Slots -> Copied]
    BY WorldNow
<1>2. /\ \A i \in Numbers : Counted(World, i) /\ Listed(World, i) /\ Timed(World, i)
      /\ \A p \in Adventurers : Placed(World, p)
    BY <1>1 DEF Sound, SoundBut
<1>3. ASSUME NEW i \in Numbers
      PROVE  LET inside == {p \in Adventurers : adventurer[p].at = "map" /\ adventurer[p].m \in ToSet(instance[i].map)}
             IN  /\ instance[i].used => LET q == instance[i].party_id IN q # 0 /\ party[q].known /\ party[q].instance_id = i
                 /\ instance[i].users = Cardinality(inside)
                 /\ instance[i].idle = (instance[i].used /\ instance[i].idleval /\ inside = {})
                 /\ ToSet(instance[i].map) = {s \in Slots : copy[s].instance_id = i}
  <2> DEFINE t == instance[i].map
             inside == {p \in Adventurers : adventurer[p].at = "map" /\ adventurer[p].m \in ToSet(t)}
  <2>1. t \in Seq(Slots) /\ Listed(World, i) /\ i # 0
      BY <1>1, <1>2, NumbersArePositive DEF Account
  <2>2. ToSet(t) = {s \in Slots : copy[s].instance_id = i}
    <3>1. DOMAIN t = 1 .. Len(t) /\ \A j \in 1 .. Len(t) : t[j] \in Slots
        BY <2>1
    <3>2. /\ \A j \in 1 .. Len(t) : copy[t[j]].instance_id = i
          /\ \A r \in Slots : copy[r].instance_id = i => \E j \in 1 .. Len(t) : t[j] = r
        BY <1>1, <2>1 DEF Listed
    <3> HIDE DEF t
    <3> QED BY <3>1, <3>2 DEF ToSet
  <2> HIDE DEF t
  <2>3. inside = Inside(World, i)
      BY <1>1, <2>1, <2>2 DEF Inside, InstanceOf
  <2>4. IsFiniteSet(inside)
    <3>1. inside \in SUBSET Adventurers
        OBVIOUS
    <3> QED BY <3>1, InstanceAssumption, FS_Subset
  <2> HIDE DEF inside
  <2>5. instance[i].users = Cardinality(inside)
      BY <1>1, <1>2, <2>3 DEF Counted
  <2>6. instance[i].users = 0 <=> inside = {}
      BY <2>4, <2>5, FS_EmptySet
  <2>7. instance[i].idle = (instance[i].used /\ instance[i].idleval /\ inside = {})
    <3>1. instance[i].idle = (instance[i].used /\ instance[i].idleval /\ instance[i].users = 0)
        BY <1>1, <1>2 DEF Timed
    <3> QED BY <2>6, <3>1, Zenon
  <2>8. instance[i].used => LET q == instance[i].party_id IN q # 0 /\ party[q].known /\ party[q].instance_id = i
      BY <1>1 DEF Named
  <2> QED BY <2>2, <2>5, <2>7, <2>8 DEF inside, t
<1>4. \A q \in Parties : party[q].instance_id # 0 => instance[party[q].instance_id].party_id = q
    BY <1>1 DEF Named
<1>5. NobodyOnFreedMap
    BY <1>1, <1>2 DEF NobodyOnFreedMap, Placed
<1> QED BY <1>3, <1>4, <1>5 DEF InstancesKept

(* As long as nobody saves on a map that is copied for the own party, an instance and its party name
   each other, its maps name it and no other map does, it counts exactly who is on them, its idle timer
   is set exactly while nobody is, and nobody is, or will be when the client has loaded, on a map that
   was taken away: InstancesKept. *)
THEOREM InstancesAlwaysKept ==
    ASSUME SavesOutside
    PROVE  InstanceSpec => []InstancesKept
<1>1. InstanceInit => InstanceInv
    BY InstanceInitInv
<1>2. InstanceInv /\ [InstanceNext]_instanceVars => InstanceInv'
    BY InstanceNextInv
<1>3. InstanceInv => InstancesKept
    BY InstanceInvKept
<1> QED BY <1>1, <1>2, <1>3, PTL DEF InstanceSpec

LEMMA InstanceInvTypes == SavesOutside /\ InstanceInv => InstanceTypeOK
<1> SUFFICES ASSUME SavesOutside, InstanceInv PROVE InstanceTypeOK
    OBVIOUS
<1>1. /\ Sound(World) /\ World.instance = instance
      /\ instance \in [Numbers -> Account] /\ copy \in [Slots -> Copied]
      /\ party \in [Parties -> Band] /\ adventurer \in [Adventurers -> Walker]
    BY WorldNow
<1>2. ASSUME NEW i \in Numbers
      PROVE  /\ instance[i].party_id \in Parties \cup {0} /\ instance[i].users \in 0 .. Cardinality(Adventurers)
             /\ ToSet(instance[i].map) \subseteq Slots
  <2>1. instance[i] \in Account /\ Counted(World, i)
      BY <1>1 DEF Sound, SoundBut
  <2>2. instance[i].map \in Seq(Slots) /\ instance[i].users = Cardinality(Inside(World, i))
      BY <1>1, <2>1 DEF Account, Counted
  <2>3. ToSet(instance[i].map) \subseteq Slots
      BY <2>2 DEF ToSet
  <2>4. Inside(World, i) \in SUBSET Adventurers
      BY DEF Inside
  <2>5. /\ Cardinality(Inside(World, i)) \in Nat /\ Cardinality(Adventurers) \in Nat
        /\ Cardinality(Inside(World, i)) <= Cardinality(Adventurers)
      BY <2>4, InstanceAssumption, FS_Subset, FS_CardinalityType
  <2> QED BY <2>1, <2>2, <2>3, <2>5 DEF Account
<1>3. adventurer \in [Adventurers -> [at : {"map", "loading", "gone"}, m : {Town} \cup Sources \cup Slots, save : SavePoints,
                                      party_id : Parties \cup {0}, rewarp : BOOLEAN]]
    BY <1>1 DEF Walker, Maps, SavePoints
<1> QED BY <1>1, <1>2, <1>3 DEF InstanceTypeOK, Copied, Band

(* No instance counts more players than there are, and its list names slots only: InstanceTypeOK. *)
THEOREM InstanceTypes ==
    ASSUME SavesOutside
    PROVE  InstanceSpec => []InstanceTypeOK
<1>1. InstanceInit => InstanceInv
    BY InstanceInitInv
<1>2. InstanceInv /\ [InstanceNext]_instanceVars => InstanceInv'
    BY InstanceNextInv
<1>3. InstanceInv => InstanceTypeOK
    BY InstanceInvTypes
<1> QED BY <1>1, <1>2, <1>3, PTL DEF InstanceSpec
=============================================================================
