------------------------------ MODULE Instances ------------------------------
(***************************************************************************)
(* Instances, instance.c: copies of maps that a party gets for itself and  *)
(* that are taken away, with everybody on them, by a script, with the      *)
(* party, when their time is over or when nobody was in them for a while.  *)
(* The same slots of instance[] and map[] serve the next ones.             *)
(*                                                                         *)
(* Scripts are outside: their commands run at any time, for any instance   *)
(* in use.  Time is outside too: a timer that is set may run.              *)
(*                                                                         *)
(* Left out: npcs and monsters of the copies, variables of an instance,    *)
(* windows, usebasename, the states idle and busy (nothing here depends on *)
(* them), the limits MAX_MAP_PER_INSTANCE and of map indexes, maps of      *)
(* other map servers and jail.                                             *)
(***************************************************************************)
EXTENDS Naturals, FiniteSets, Sequences, SequencesExt

CONSTANTS Adventurers,
          Parties,        \* party ids, not 0
          MaxInstance,    \* MAX_INSTANCE: numbers below it, 0 stands for none
          Sources,        \* maps that are copied
          Town,           \* a map that is not
          Slots,          \* the entries of map[] from instance_start on, numbers
          SavesOutside    \* TRUE: no save point lies on a map that is copied for the player's party

ASSUME InstanceAssumption ==
    /\ IsFiniteSet(Adventurers) /\ MaxInstance \in Nat
    /\ 0 \notin Parties /\ Town \notin Sources \cup Slots /\ Sources \cap Slots = {}

VARIABLES instance,       \* per number: state, party_id, map, users, the idle time and which timers are set
          copy,           \* per slot: the number of the instance and the source, instance_id 0 for a free slot
          party,          \* per party: known to the map server, instance_id
          adventurer      \* per player: the session, its map bl.m, save point, party and state.rewarp

instanceVars == <<instance, copy, party, adventurer>>

FreeInstance == [used |-> FALSE, party_id |-> 0, map |-> << >>, users |-> 0, idleval |-> FALSE, idle |-> FALSE, progress |-> FALSE]
FreeSlot == [instance_id |-> 0, src |-> Town]
Numbers == 1 .. MaxInstance - 1
SavePoints == IF SavesOutside THEN {Town} ELSE {Town} \cup Sources

InstanceTypeOK ==
    /\ \A i \in Numbers : /\ instance[i].party_id \in Parties \cup {0} /\ instance[i].users \in 0 .. Cardinality(Adventurers)
                          /\ ToSet(instance[i].map) \subseteq Slots
    /\ copy \in [Slots -> [instance_id : {0} \cup Numbers, src : Sources \cup {Town}]]
    /\ party \in [Parties -> [known : BOOLEAN, instance_id : {0} \cup Numbers]]
    /\ adventurer \in [Adventurers -> [at : {"map", "loading", "gone"}, m : {Town} \cup Sources \cup Slots, save : SavePoints,
                                       party_id : Parties \cup {0}, rewarp : BOOLEAN]]

InstanceInit ==
    /\ instance = [i \in Numbers |-> FreeInstance]
    /\ copy = [s \in Slots |-> FreeSlot]
    /\ party = [q \in Parties |-> [known |-> TRUE, instance_id |-> 0]]
    /\ \E home \in [Adventurers -> SavePoints], in \in [Adventurers -> Parties] :
          adventurer = [p \in Adventurers |-> [at |-> "map", m |-> Town, save |-> home[p], party_id |-> in[p], rewarp |-> FALSE]]

-----------------------------------------------------------------------------
(* Operators that several handlers call take and return the state w of all of it. *)
World == [instance |-> instance, copy |-> copy, party |-> party, adventurer |-> adventurer]
BecomesWorld(w) == instance' = w.instance /\ copy' = w.copy /\ party' = w.party /\ adventurer' = w.adventurer

InstanceOf(w, m) == IF m \in Slots THEN w.copy[m].instance_id ELSE 0
InstancesOf(w, q) == IF q = 0 \/ ~w.party[q].known THEN 0 ELSE w.party[q].instance_id

(* instance_map2imap: the copy of source m in instance i, 0 if there is none. *)
CopiesOf(w, m, i) == {k \in DOMAIN w.instance[i].map : w.copy[w.instance[i].map[k]].src = m}
HasCopy(w, m, i) == i # 0 /\ w.instance[i].used /\ CopiesOf(w, m, i) # {}
CopyOf(w, m, i) == w.instance[i].map[CHOOSE k \in CopiesOf(w, m, i) : \A l \in CopiesOf(w, m, i) : k <= l]

(* instance_check_idle: of a number in use with an idle time, the timer is set when nobody is inside. *)
IdleTimer(x) == x.users = 0
instance_check_idle(w, i) ==
    IF w.instance[i].used /\ w.instance[i].idleval THEN [w EXCEPT !.instance[i].idle = IdleTimer(w.instance[i])] ELSE w

(* unit_remove_map_ of a player who is on a map. *)
unit_remove_map(w, p) ==
    LET i == InstanceOf(w, w.adventurer[p].m)
        out == [w EXCEPT !.adventurer[p].at = "loading"]
    IN  IF w.adventurer[p].at # "map" THEN w
        ELSE IF i = 0 THEN out
        ELSE instance_check_idle([out EXCEPT !.instance[i].users = @ - 1], i)

(* pc_setpos on this map server: a source leads to the party's copy of it. *)
pc_setpos(w, p, m) ==
    LET i == InstancesOf(w, w.adventurer[p].party_id)
        to == IF m \in Sources /\ HasCopy(w, m, i) THEN CopyOf(w, m, i) ELSE m
        off == unit_remove_map(w, p)
    IN  [off EXCEPT !.adventurer[p].m = to,
                    !.adventurer[p].rewarp = (w.adventurer[p].at = "loading") \/ @]

(* instance_del_map: every session whose bl.m it is goes to the save point (instance_del_load). *)
OnlyWhoAreOnIt(w, m) == {p \in Adventurers : w.adventurer[p].m = m /\ w.adventurer[p].at = "map"} \* a mistake the runs must notice
WhoMustLeave(w, m) == {p \in Adventurers : w.adventurer[p].m = m /\ w.adventurer[p].at # "gone"}

instance_del_load(w, m, p) == IF p \in WhoMustLeave(w, m) THEN pc_setpos(w, p, w.adventurer[p].save) ELSE w

Sessions == SetToSeq(Adventurers)
Vacated(w, m) ==
    LET left[n \in 0 .. Len(Sessions)] == IF n = 0 THEN w ELSE instance_del_load(left[n - 1], m, Sessions[n])
    IN  left[Len(Sessions)]

(* The list of the instance's maps closes up behind the one that goes. *)
PlaceOf(s, m) == CHOOSE j \in DOMAIN s : s[j] = m
ClosedUp(s, m) == [j \in 1 .. Len(s) - 1 |-> IF j < PlaceOf(s, m) THEN s[j] ELSE s[j + 1]]
instance_del_map(w, m) == [Vacated(w, m) EXCEPT !.instance[InstanceOf(w, m)].map = ClosedUp(@, m), !.copy[m] = FreeSlot]

(* The maps go one by one, each time the first; the timers, also one that was set again meanwhile, and
   the number are free, and the party may have another instance. *)
WithoutMaps(w, i) ==
    LET maps == w.instance[i].map
        bare[n \in 0 .. Len(maps)] == IF n = 0 THEN w ELSE instance_del_map(bare[n - 1], maps[n])
    IN  bare[Len(maps)]

instance_destroy(w, i) ==
    LET bare == WithoutMaps(w, i)
        q == bare.instance[i].party_id
        freed == [bare EXCEPT !.instance[i] = FreeInstance]
    IN  IF q # 0 /\ freed.party[q].known THEN [freed EXCEPT !.party[q].instance_id = 0] ELSE freed

-----------------------------------------------------------------------------
instance_create(q) ==
    /\ party[q].known /\ party[q].instance_id = 0
    /\ \E i \in Numbers :
          /\ ~instance[i].used /\ \A j \in Numbers : j < i => instance[j].used
          /\ instance' = [instance EXCEPT ![i] = [FreeInstance EXCEPT !.used = TRUE, !.party_id = q]]
          /\ party' = [party EXCEPT ![q].instance_id = i]
    /\ UNCHANGED <<copy, adventurer>>

instance_add_map(m, i) ==
    /\ instance[i].used
    /\ \E s \in Slots :
          /\ copy[s].instance_id = 0 /\ \A r \in Slots : r < s => copy[r].instance_id # 0
          /\ copy' = [copy EXCEPT ![s] = [instance_id |-> i, src |-> m]]
          /\ instance' = [instance EXCEPT ![i].map = Append(@, s)]
    /\ UNCHANGED <<party, adventurer>>

instance_set_timeout(i, progress, idle) ==
    /\ instance[i].used
    /\ BecomesWorld(instance_check_idle(
           [World EXCEPT !.instance[i] = [@ EXCEPT !.progress = progress, !.idleval = idle, !.idle = FALSE]], i))

(* A script's instance_destroy and instance_detachmap. *)
DestroyedByScript(i) == instance[i].used /\ BecomesWorld(instance_destroy(World, i))
instance_detachmap(m, i) == HasCopy(World, m, i) /\ BecomesWorld(instance_del_map(World, CopyOf(World, m, i)))

(* instance_destroy_timer, of a timer that is set. *)
TimeIsOver(i) == instance[i].progress /\ DestroyedByScript(i)
IdleIsOver(i) == instance[i].idle /\ DestroyedByScript(i)

(* party_broken: the instance goes without the party being told, and then the party. *)
party_broken(q) ==
    LET i == party[q].instance_id
        alone == IF i = 0 THEN World ELSE instance_destroy([World EXCEPT !.instance[i].party_id = 0], i)
    IN  /\ party[q].known
        /\ BecomesWorld([alone EXCEPT
              !.party[q] = [known |-> FALSE, instance_id |-> 0],
              !.adventurer = [p \in Adventurers |-> IF alone.adventurer[p].party_id = q /\ alone.adventurer[p].at # "gone"
                                                    THEN [alone.adventurer[p] EXCEPT !.party_id = 0] ELSE alone.adventurer[p]]])

(* party_member_withdraw: who leaves the party is warped out of any instance (instance_check_kick). *)
party_member_withdraw(p) ==
    LET q == adventurer[p].party_id
        w == [World EXCEPT !.adventurer[p].party_id = 0]
    IN  /\ adventurer[p].at # "gone" /\ q # 0 /\ party[q].known
        /\ BecomesWorld(IF party[q].instance_id # 0 /\ InstanceOf(w, w.adventurer[p].m) # 0
                        THEN pc_setpos(w, p, w.adventurer[p].save) ELSE w)

(* party_recv_info of a party that is new to the map server, and party_member_added. *)
PartyKnown(q) == /\ ~party[q].known
                 /\ party' = [party EXCEPT ![q] = [known |-> TRUE, instance_id |-> 0]]
                 /\ UNCHANGED <<instance, copy, adventurer>>
JoinsParty(p, q) == /\ adventurer[p].at # "gone" /\ adventurer[p].party_id = 0 /\ party[q].known
                    /\ adventurer' = [adventurer EXCEPT ![p].party_id = q]
                    /\ UNCHANGED <<instance, copy, party>>

(* A script or a warp, on the map or while the client loads one. *)
Walks(p, m) == adventurer[p].at # "gone" /\ m \in {Town} \cup Sources /\ BecomesWorld(pc_setpos(World, p, m))
EntersCopy(p, s) == adventurer[p].at # "gone" /\ copy[s].instance_id # 0 /\ BecomesWorld(pc_setpos(World, p, s))

(* clif_parse_LoadEndAck *)
MapLoaded(p) ==
    LET i == InstanceOf(World, adventurer[p].m)
    IN  /\ adventurer[p].at = "loading"
        /\ IF adventurer[p].rewarp THEN BecomesWorld([World EXCEPT !.adventurer[p].rewarp = FALSE])
           ELSE LET on == [World EXCEPT !.adventurer[p].at = "map"]
                IN  BecomesWorld(IF i = 0 THEN on ELSE instance_check_idle([on EXCEPT !.instance[i].users = @ + 1], i))

(* map_quit: off the map, and off the instance's map for the save. *)
QuitsMap(p) ==
    LET off == unit_remove_map(World, p)
        m == off.adventurer[p].m
    IN  /\ adventurer[p].at # "gone"
        /\ BecomesWorld([off EXCEPT !.adventurer[p].at = "gone", !.adventurer[p].rewarp = FALSE,
                                    !.adventurer[p].m = IF InstanceOf(off, m) # 0 THEN off.adventurer[p].save ELSE m])

(* pc_authok, to the last map; the session is not active yet, so this is no rewarp. *)
LogsOnto(p) == /\ adventurer[p].at = "gone"
             /\ BecomesWorld([pc_setpos([World EXCEPT !.adventurer[p].at = "loading"], p, adventurer[p].m)
                                 EXCEPT !.adventurer[p].rewarp = FALSE])

InstanceNext ==
    \/ \E q \in Parties : instance_create(q) \/ party_broken(q) \/ PartyKnown(q)
    \/ \E i \in Numbers :
          \/ \E m \in Sources : instance_add_map(m, i) \/ instance_detachmap(m, i)
          \/ \E progress, idle \in BOOLEAN : instance_set_timeout(i, progress, idle)
          \/ DestroyedByScript(i) \/ TimeIsOver(i) \/ IdleIsOver(i)
    \/ \E p \in Adventurers :
          \/ \E m \in {Town} \cup Sources : Walks(p, m)
          \/ \E s \in Slots : EntersCopy(p, s)
          \/ \E q \in Parties : JoinsParty(p, q)
          \/ party_member_withdraw(p) \/ MapLoaded(p) \/ QuitsMap(p) \/ LogsOnto(p)
InstanceSpec == InstanceInit /\ [][InstanceNext]_instanceVars

(* Nobody is, or will be when the client has loaded, on a map that was taken away. *)
NobodyOnFreedMap == \A p \in Adventurers : adventurer[p].m \in Slots => copy[adventurer[p].m].instance_id # 0

(* An instance and its party name each other; its maps name it, and no other map does; it counts who
   is on them, so that its idle timer is set exactly while nobody is and it is neither taken away from
   under somebody for being idle nor kept for ever; and nobody is on a map that was taken away. *)
InstancesKept ==
    /\ \A i \in Numbers :
          LET inside == {p \in Adventurers : adventurer[p].at = "map" /\ adventurer[p].m \in ToSet(instance[i].map)}
          IN  /\ instance[i].used => LET q == instance[i].party_id IN q # 0 /\ party[q].known /\ party[q].instance_id = i
              /\ instance[i].users = Cardinality(inside)
              /\ instance[i].idle = (instance[i].used /\ instance[i].idleval /\ inside = {})
              /\ ToSet(instance[i].map) = {s \in Slots : copy[s].instance_id = i}
    /\ \A q \in Parties : party[q].instance_id # 0 => instance[party[q].instance_id].party_id = q
    /\ NobodyOnFreedMap
=============================================================================
