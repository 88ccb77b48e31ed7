----------------------------- MODULE Companions -----------------------------
(***************************************************************************)
(* Pets, homunculi and mercenaries: pet.c, homunculus.c, mercenary.c,      *)
(* intif.c and unit.c on the map server, int_pet.c, int_homun.c and        *)
(* int_mercenary.c on the char server.                                     *)
(*                                                                         *)
(* Each is a row of SQL that a character names (pet_id, hom_id, mer_id),   *)
(* and while the character plays an object on the map server with a copy   *)
(* of the row.  Rows are made, read, saved and deleted by packets without  *)
(* any lock.  A pet that is not out is an egg, an item that changes hands. *)
(*                                                                         *)
(* The character itself is saved when it quits only, and its packets are   *)
(* in order with the others: keeper[p] holds its row while it is gone.     *)
(* Left out: food, names, equipment, skills and loot; other characters of  *)
(* the account; acknowledgements; failures of the link and of SQL.         *)
(***************************************************************************)
EXTENDS InterLink, Functions

CONSTANTS Keepers,      \* characters
          KeeperServer, \* the map server they play on
          Breeds,       \* classes of monsters that can be pets
          AnyBreed,     \* catch_target_class 0
          NoBreed,      \* catch_target_class -1
          NoKeeper,     \* char_id 0, the owner of an egg
          MaxEggs,      \* MAX_INVENTORY: how many eggs fit
          MaxRows,      \* bound: the last id given to a row of any kind
          Calm          \* does a player await the answer about a companion before asking again?

ASSUME CompanionAssumption ==
    /\ KeeperServer \in MapServers /\ NoKeeper \notin Keepers
    /\ AnyBreed # NoBreed /\ {AnyBreed, NoBreed} \cap Breeds = {}
    /\ MaxEggs \in Nat /\ MaxRows \in Nat \ {0, 1} /\ Calm \in BOOLEAN

VARIABLES keeper,  \* per character: where it is, and the fields of map_session_data named below
          eggs,    \* per character: the eggs in its inventory
          floor,   \* the eggs that lie about
          petRows, homRows, merRows,  \* the tables
          rowsMade,    \* per kind: the last id given
          orphans, \* rows nobody was told of: their maker left before the answer.  For the property only
          grown    \* homunculi that gained experience.  For the property only

companionVars == <<keeper, eggs, floor, petRows, homRows, merRows, rowsMade, orphans, grown>>
bags == <<eggs, floor>>
tables == <<petRows, homRows, merRows, rowsMade>>
chronicle == <<orphans, grown>>

RowIds == 0 .. MaxRows     \* 0: none
k0 == KeeperServer

(* struct s_pet with incuvate (an egg) and intimate > 0; s_homunculus with vaporize, battle_status.hp
   > 0, intimacy > 0 and whether it gained experience; s_mercenary and whether its contract runs. *)
Pet == [id : RowIds, breed : Breeds \cup {NoBreed}, owner : Keepers \cup {NoKeeper}, egg : BOOLEAN, loves : BOOLEAN]
Hom == [id : RowIds, owner : Keepers \cup {NoKeeper}, vapor : BOOLEAN, alive : BOOLEAN, loyal : BOOLEAN, wise : BOOLEAN]
Mer == [id : RowIds, owner : Keepers \cup {NoKeeper}, serves : BOOLEAN]
NoPet == [id |-> 0, breed |-> NoBreed, owner |-> NoKeeper, egg |-> FALSE, loves |-> FALSE]
NoHom == [id |-> 0, owner |-> NoKeeper, vapor |-> FALSE, alive |-> FALSE, loyal |-> FALSE, wise |-> FALSE]
NoMer == [id |-> 0, owner |-> NoKeeper, serves |-> FALSE]
Egg == [id : RowIds \ {0}, breed : Breeds]

CompanionTypeOK ==
    /\ keeper \in [Keepers -> [at : {"gone", "coming", "loading", "map"},
                               pet_id : RowIds, pd : Pet, shown : BOOLEAN,
                               lure : Breeds \cup {AnyBreed, NoBreed}, menu : BOOLEAN,
                               hom_id : RowIds, hd : Hom, mer_id : RowIds, md : Mer]]
    /\ eggs \in [Keepers -> SUBSET Egg] /\ floor \subseteq Egg
    /\ \A p \in Keepers : Cardinality(eggs[p]) <= MaxEggs
    /\ petRows \subseteq Pet /\ homRows \subseteq Hom /\ merRows \subseteq Mer
    /\ rowsMade \in [{"pet", "hom", "mer"} -> RowIds]

NewKeeper == [at |-> "map", pet_id |-> 0, pd |-> NoPet, shown |-> FALSE, lure |-> AnyBreed, menu |-> FALSE,
              hom_id |-> 0, hd |-> NoHom, mer_id |-> 0, md |-> NoMer]

(* Two eggs of one breed lie about from earlier times. *)
OldEggs == {[id |-> i, breed |-> CHOOSE m \in Breeds : TRUE] : i \in 1 .. 2}
CompanionInit ==
    /\ LinkInit
    /\ keeper = [p \in Keepers |-> NewKeeper]
    /\ eggs = [p \in Keepers |-> {}] /\ floor = OldEggs
    /\ petRows = {[id |-> egg.id, breed |-> egg.breed, owner |-> NoKeeper, egg |-> TRUE, loves |-> TRUE]
                   : egg \in OldEggs}
    /\ homRows = {} /\ merRows = {}
    /\ rowsMade = [kind \in {"pet", "hom", "mer"} |-> IF kind = "pet" THEN 2 ELSE 1]
    /\ orphans = {} /\ grown = {}

OnMap(p) == keeper[p].at = "map"
Known(p) == keeper[p].at \in {"loading", "map"}      \* map_id2sd, map_charid2sd
OnLink == Range(toInter[k0]) \cup Range(fromInter[k0])
PetTalk == {"create", "created", "petload", "pet"}
HomTalk == {"homcreate", "homload", "hom"}
MerTalk == {"mercreate", "merload", "mer"}
AsksFreely(p, talk) == Calm => ~\E msg \in OnLink : msg.t \in talk /\ msg.p = p
(* Bound: rows for all that is asked for. *)
MayMake(kind, request) ==
    rowsMade[kind] + Cardinality({i \in DOMAIN toInter[k0] : toInter[k0][i].t = request}) < MaxRows

PetSave(pet) == [t |-> "petsave", pet |-> pet]
PetDelete(id) == [t |-> "petdelete", id |-> id]
HomSave(hom) == [t |-> "homsave", hom |-> hom]
HomDelete(id) == [t |-> "homdelete", id |-> id]
MerSave(mer) == [t |-> "mersave", mer |-> mer]
MerDelete(id) == [t |-> "merdelete", id |-> id]
IfSo(condition, msgs) == IF condition THEN msgs ELSE <<>>

ActiveHom(hd) == hd # NoHom /\ ~hd.vapor /\ hd.alive     \* merc_is_hom_active
HasPet(k) == k.pd # NoPet
HasHom(k) == k.hd # NoHom
HasMer(k) == k.md # NoMer

(* unit_remove_map of a companion on the map that loves its master no more, or whose contract
   ended: unit_free deletes it and clears the id. *)
LeavesPet(k) == HasPet(k) /\ k.shown /\ ~k.pd.loves
LeavesHom(k) == ActiveHom(k.hd) /\ ~k.hd.loyal
LeavesMer(k) == HasMer(k) /\ ~k.md.serves
Left(k) ==
    [k EXCEPT !.pet_id = IF LeavesPet(k) THEN 0 ELSE @, !.pd = IF LeavesPet(k) THEN NoPet ELSE @,
              !.shown = FALSE,
              !.hom_id = IF LeavesHom(k) THEN 0 ELSE @, !.hd = IF LeavesHom(k) THEN NoHom ELSE @,
              !.mer_id = IF LeavesMer(k) THEN 0 ELSE @, !.md = IF LeavesMer(k) THEN NoMer ELSE @]
LeftMsgs(k) == IfSo(LeavesPet(k), <<PetDelete(k.pd.id)>>) \o IfSo(LeavesHom(k), <<HomDelete(k.hd.id)>>)
               \o IfSo(LeavesMer(k), <<MerDelete(k.md.id)>>)

(* chrif_save, behind the character itself *)
SaveMsgs(k) == IfSo(k.pet_id > 0 /\ HasPet(k), <<PetSave(k.pd)>>) \o IfSo(ActiveHom(k.hd), <<HomSave(k.hd)>>)
               \o IfSo(HasMer(k) /\ k.md.serves, <<MerSave(k.md)>>)

(* unit_free of each of them *)
FreeMsgs(k) ==
    IfSo(HasPet(k), <<IF k.pd.loves THEN PetSave(k.pd) ELSE PetDelete(k.pd.id)>>)
    \o IfSo(HasHom(k), <<IF k.hd.loyal THEN HomSave(k.hd) ELSE HomDelete(k.hd.id)>>)
    \o IfSo(HasMer(k), <<IF k.md.serves THEN MerSave(k.md) ELSE MerDelete(k.md.id)>>)

----------------------------------------------------------------------------
(* Characters come and go. *)

(* The client changes map servers and asks for the character; a new session has no lure. *)
KeeperEnters(p) ==
    /\ keeper[p].at = "gone" /\ Room(k0)
    /\ keeper' = [keeper EXCEPT ![p].at = "coming"]
    /\ Send(k0, <<[t |-> "keeperauth", p |-> p]>>)
    /\ UNCHANGED <<fromInter, ends, bags, tables, chronicle>>

(* pc_authok and pc_reg_received *)
KeeperArrives(p) ==
    LET k == keeper[p] IN
    /\ k.at = "coming" /\ fromInter[k0] # <<>>
    /\ Head(fromInter[k0]) = [t |-> "keeperauthok", p |-> p]
    /\ keeper' = [keeper EXCEPT ![p].at = "loading"]
    /\ TakenBy(k0)
    /\ Send(k0, IfSo(k.pet_id > 0, <<[t |-> "petload", p |-> p, id |-> k.pet_id]>>)
                \o IfSo(k.hom_id > 0, <<[t |-> "homload", p |-> p, id |-> k.hom_id]>>)
                \o IfSo(k.mer_id > 0, <<[t |-> "merload", p |-> p, id |-> k.mer_id]>>))
    /\ UNCHANGED <<ends, bags, tables, chronicle>>

(* pet_return_egg: where the egg goes *)
GoesToBag(p, egg) ==
    IF Cardinality(eggs[p]) < MaxEggs
    THEN eggs' = [eggs EXCEPT ![p] = @ \cup {egg}] /\ UNCHANGED floor
    ELSE floor' = floor \cup {egg} /\ UNCHANGED eggs
MayReturn(k) == HasPet(k) /\ k.pet_id # 0 /\ k.pd.loves /\ ~k.pd.egg     \* pet_menu
WithoutPet(k) == [k EXCEPT !.pet_id = 0, !.pd = NoPet, !.shown = FALSE]

(* clif_parse_LoadEndAck: during guild wars pets return to their eggs. *)
CompanionsAppear(p, war) ==
    LET k == keeper[p] IN
    /\ k.at = "loading"
    /\ IF war /\ MayReturn(k)
       THEN /\ keeper' = [keeper EXCEPT ![p] = [WithoutPet(k) EXCEPT !.at = "map"]]
            /\ GoesToBag(p, [id |-> k.pd.id, breed |-> k.pd.breed])
            /\ Send(k0, <<PetSave([k.pd EXCEPT !.egg = TRUE])>>)
       ELSE /\ keeper' = [keeper EXCEPT ![p].at = "map", ![p].shown = HasPet(k) /\ ~war]
            /\ UNCHANGED <<toInter, bags>>
    /\ UNCHANGED <<fromInter, ends, tables, chronicle>>

(* pc_setpos within the map server *)
KeeperWarps(p) ==
    LET k == keeper[p] IN
    /\ OnMap(p)
    /\ keeper' = [keeper EXCEPT ![p] = [Left(k) EXCEPT !.at = "loading"]]
    /\ Send(k0, LeftMsgs(k))
    /\ UNCHANGED <<fromInter, ends, bags, tables, chronicle>>

(* map_quit: the character leaves the map, is saved, and its companions are freed.  What that
   clears behind the save is not saved. *)
KeeperQuits(p) ==
    LET k == keeper[p]
        saved == IF OnMap(p) THEN Left(k) ELSE k IN
    /\ Known(p)
    /\ keeper' = [keeper EXCEPT ![p] = [NewKeeper EXCEPT !.at = "gone", !.pet_id = saved.pet_id,
                                                         !.hom_id = saved.hom_id, !.mer_id = saved.mer_id]]
    /\ Send(k0, IfSo(OnMap(p), LeftMsgs(k)) \o SaveMsgs(saved) \o FreeMsgs(saved))
    /\ UNCHANGED <<fromInter, ends, bags, tables, chronicle>>

(* pc_autosave, @save *)
KeeperSaved(p) ==
    /\ Known(p) /\ Room(k0) /\ SaveMsgs(keeper[p]) # <<>>
    /\ Send(k0, SaveMsgs(keeper[p]))
    /\ UNCHANGED <<fromInter, ends, keeper, bags, tables, chronicle>>

(* pc_dead: the pet may lose heart, the homunculus is vaporized if so configured, the mercenary
   runs away. *)
KeeperDies(p, grief, auto_vapor) ==
    LET k == keeper[p]
        vapor == auto_vapor /\ ActiveHom(k.hd)
        hom == [k.hd EXCEPT !.vapor = TRUE] IN
    /\ OnMap(p) /\ Room(k0)
    /\ keeper' = [keeper EXCEPT
           ![p].pd = IF HasPet(k) /\ k.pet_id > 0 /\ grief THEN [@ EXCEPT !.loves = FALSE] ELSE @,
           ![p].hom_id = IF vapor /\ ~k.hd.loyal THEN 0 ELSE @,
           ![p].hd = IF ~vapor THEN @ ELSE IF k.hd.loyal THEN hom ELSE NoHom,
           ![p].mer_id = IF HasMer(k) THEN 0 ELSE @,
           ![p].md = NoMer]
    /\ Send(k0, IfSo(vapor, <<HomSave(hom)>>) \o IfSo(vapor /\ ~k.hd.loyal, <<HomDelete(k.hd.id)>>)
                \o IfSo(HasMer(k), <<MerDelete(k.md.id)>>))
    /\ UNCHANGED <<fromInter, ends, bags, tables, chronicle>>

----------------------------------------------------------------------------
(* Pets. *)

(* A lure is used (breed 0: any), or another item: pc_useitem drops the lure first. *)
pet_catch_process1(p, target) ==
    /\ OnMap(p) /\ Room(k0) /\ AsksFreely(p, {"create", "created"})
    /\ keeper[p].lure # target
    /\ keeper' = [keeper EXCEPT ![p].lure = target]
    /\ UNCHANGED <<pipes, ends, bags, tables, chronicle>>

UsesAnotherItem(p) ==
    /\ OnMap(p) /\ keeper[p].lure # NoBreed
    /\ keeper' = [keeper EXCEPT ![p].lure = NoBreed]
    /\ UNCHANGED <<pipes, ends, bags, tables, chronicle>>

(* The lure is tried on a monster of class m, if it is one; caught or not is drawn. *)
pet_catch_process2(p, m, caught) ==
    LET lure == IF keeper[p].lure = AnyBreed /\ m \in Breeds THEN m ELSE keeper[p].lure
        success == m \in Breeds /\ lure = m /\ caught IN
    /\ OnMap(p) /\ Room(k0)
    /\ success => MayMake("pet", "create")
    /\ keeper' = [keeper EXCEPT ![p].lure = IF success THEN m ELSE NoBreed]
    /\ Send(k0, IfSo(success, <<[t |-> "create", p |-> p, breed |-> m]>>))
    /\ UNCHANGED <<fromInter, ends, bags, tables, chronicle>>

(* makepet and @makeegg *)
makepet(p, m) ==
    /\ OnMap(p) /\ Room(k0) /\ AsksFreely(p, {"create", "created"}) /\ MayMake("pet", "create")
    /\ keeper' = [keeper EXCEPT ![p].lure = m]
    /\ Send(k0, <<[t |-> "create", p |-> p, breed |-> m]>>)
    /\ UNCHANGED <<fromInter, ends, bags, tables, chronicle>>

pet_get_egg(p) ==
    LET msg == Head(fromInter[k0])
        breed == keeper[p].lure IN
    /\ fromInter[k0] # <<>> /\ msg.t = "created" /\ msg.p = p
    /\ TakenBy(k0)
    /\ \/ ~Known(p) /\ orphans' = orphans \cup {<<"pet", msg.id>>} /\ UNCHANGED <<toInter, keeper, bags>>
       \/ /\ Known(p) /\ breed \notin Breeds
          /\ keeper' = [keeper EXCEPT ![p].lure = NoBreed]
          /\ Send(k0, <<PetDelete(msg.id)>>)
          /\ UNCHANGED <<bags, orphans>>
       \/ /\ Known(p) /\ breed \in Breeds
          /\ keeper' = [keeper EXCEPT ![p].lure = NoBreed]
          /\ GoesToBag(p, [id |-> msg.id, breed |-> breed])
          /\ UNCHANGED <<toInter, orphans>>
    /\ UNCHANGED <<ends, tables, grown>>

(* birthpet and @hatch: the incubator lists the eggs of the inventory. *)
birthpet(p) ==
    /\ OnMap(p) /\ keeper[p].pet_id = 0 /\ ~keeper[p].menu /\ AsksFreely(p, PetTalk)
    /\ keeper' = [keeper EXCEPT ![p].menu = TRUE]
    /\ UNCHANGED <<pipes, ends, bags, tables, chronicle>>

pet_select_egg(p, egg) ==
    /\ OnMap(p) /\ Room(k0) /\ keeper[p].menu /\ egg \in eggs[p]
    /\ keeper' = [keeper EXCEPT ![p].menu = FALSE]
    /\ Send(k0, <<[t |-> "petload", p |-> p, id |-> egg.id]>>)
    /\ UNCHANGED <<fromInter, ends, bags, tables, chronicle>>

InBag(p, id) == {egg \in eggs[p] : egg.id = id}
MayHatchUnseen(p, pet) == keeper[p].pet_id = 0
MayHatch(p, pet) == InBag(p, pet.id) # {} /\ keeper[p].pet_id = 0

(* pet_data_init: the pet that is now out, and what is sent. *)
InitPet(p, pet) ==
    LET k == keeper[p] IN
    IF pet.owner # p THEN [k |-> [k EXCEPT !.pet_id = 0], msgs |-> <<>>]
    ELSE IF k.pet_id \notin {0, pet.id}
    THEN [k |-> [k EXCEPT !.pet_id = 0], msgs |-> <<PetSave([pet EXCEPT !.egg = TRUE])>>]
    ELSE [k |-> [k EXCEPT !.pet_id = pet.id, !.pd = pet, !.shown = OnMap(p)], msgs |-> <<>>]

pet_recv_petdata(p) ==
    LET k == keeper[p]
        msg == Head(fromInter[k0])
        pet == msg.pet
        hatched == [pet EXCEPT !.egg = FALSE, !.owner = p]
        old == InitPet(p, pet) IN
    /\ fromInter[k0] # <<>> /\ msg.t = "pet" /\ msg.p = p
    /\ TakenBy(k0)
    /\ \/ ~Known(p) /\ UNCHANGED <<toInter, keeper, eggs>>
       \/ /\ Known(p) /\ \/ pet = NoPet
                         \/ pet.egg /\ ~MayHatch(p, pet)
          /\ keeper' = [keeper EXCEPT ![p].pet_id = 0]
          /\ UNCHANGED <<toInter, eggs>>
       \/ /\ Known(p) /\ pet # NoPet /\ pet.egg /\ MayHatch(p, pet)
          /\ keeper' = [keeper EXCEPT ![p].pet_id = pet.id, ![p].pd = hatched, ![p].shown = OnMap(p)]
          /\ eggs' = [eggs EXCEPT ![p] = @ \ InBag(p, pet.id)]
          /\ Send(k0, <<PetSave(hatched)>>)
       \/ /\ Known(p) /\ pet # NoPet /\ ~pet.egg
          /\ keeper' = [keeper EXCEPT ![p] = old.k]
          /\ Send(k0, old.msgs)
          /\ UNCHANGED eggs
    /\ UNCHANGED <<ends, floor, tables, chronicle>>

pet_return_egg(p) ==
    LET k == keeper[p] IN
    /\ OnMap(p) /\ Room(k0) /\ MayReturn(k)
    /\ keeper' = [keeper EXCEPT ![p] = WithoutPet(k)]
    /\ GoesToBag(p, [id |-> k.pd.id, breed |-> k.pd.breed])
    /\ Send(k0, <<PetSave([k.pd EXCEPT !.egg = TRUE])>>)
    /\ UNCHANGED <<fromInter, ends, tables, chronicle>>

(* The last of its intimacy is gone: hunger, or food when it is not hungry. *)
pet_hungry(p) ==
    /\ Known(p) /\ keeper[p].pet_id # 0 /\ HasPet(keeper[p]) /\ keeper[p].pd.loves
    /\ keeper' = [keeper EXCEPT ![p].pd.loves = FALSE]
    /\ UNCHANGED <<pipes, ends, bags, tables, chronicle>>

DropEgg(p, egg) ==
    /\ OnMap(p) /\ egg \in eggs[p]
    /\ eggs' = [eggs EXCEPT ![p] = @ \ {egg}] /\ floor' = floor \cup {egg}
    /\ UNCHANGED <<pipes, ends, keeper, tables, chronicle>>

TakeEgg(p, egg) ==
    /\ OnMap(p) /\ egg \in floor /\ Cardinality(eggs[p]) < MaxEggs
    /\ eggs' = [eggs EXCEPT ![p] = @ \cup {egg}] /\ floor' = floor \ {egg}
    /\ UNCHANGED <<pipes, ends, keeper, tables, chronicle>>

(* map_clearflooritem_timer: an egg nobody took is gone, and the pet in it. *)
EggRots(egg) ==
    /\ egg \in floor /\ Room(k0)
    /\ floor' = floor \ {egg}
    /\ Send(k0, <<PetDelete(egg.id)>>)
    /\ UNCHANGED <<fromInter, ends, keeper, eggs, tables, chronicle>>

----------------------------------------------------------------------------
(* Homunculi. *)

(* merc_call_homunculus: make one, load it, or let it out. *)
merc_call_homunculus(p) ==
    LET k == keeper[p]
        out == [k.hd EXCEPT !.vapor = FALSE] IN
    /\ OnMap(p) /\ Room(k0)
    /\ ~HasHom(k) => AsksFreely(p, HomTalk)
    /\ \/ /\ k.hom_id = 0 /\ MayMake("hom", "homcreate")
          /\ Send(k0, <<[t |-> "homcreate", p |-> p]>>) /\ UNCHANGED keeper
       \/ /\ k.hom_id # 0 /\ ~HasHom(k)
          /\ Send(k0, <<[t |-> "homload", p |-> p, id |-> k.hom_id]>>) /\ UNCHANGED keeper
       \/ /\ k.hom_id # 0 /\ HasHom(k) /\ k.hd.vapor
          /\ keeper' = [keeper EXCEPT ![p].hd = out]
          /\ Send(k0, <<HomSave(out)>>)
    /\ UNCHANGED <<fromInter, ends, bags, tables, chronicle>>

(* merc_hom_recv_data, after a creation and after a load: what was there is overwritten, all but
   battle_status.  An answer that there is no such row does nothing: the zeros it carries are
   not the owner's, nor its hom_id. *)
merc_hom_recv_data(p) ==
    LET k == keeper[p]
        msg == Head(fromInter[k0])
        hom == [msg.hom EXCEPT !.owner = p]
        own == msg.hom.owner = p \/ k.hom_id = msg.hom.id IN
    /\ fromInter[k0] # <<>> /\ msg.t = "hom" /\ msg.p = p
    /\ TakenBy(k0)
    /\ IF Known(p) /\ own /\ msg.hom # NoHom
       THEN keeper' = [keeper EXCEPT ![p].hom_id = IF @ = 0 THEN msg.hom.id ELSE @,
                                     ![p].hd = IF HasHom(k) THEN [hom EXCEPT !.alive = k.hd.alive] ELSE hom]
       ELSE UNCHANGED keeper
    /\ orphans' = IF msg.new /\ ~Known(p) THEN orphans \cup {<<"hom", msg.hom.id>>} ELSE orphans
    /\ UNCHANGED <<toInter, ends, bags, tables, grown>>

(* AM_REST; also who loses the skill *)
merc_hom_vaporize(p) ==
    LET k == keeper[p]
        hom == [k.hd EXCEPT !.vapor = TRUE] IN
    /\ OnMap(p) /\ Room(k0) /\ ActiveHom(k.hd)
    /\ keeper' = [keeper EXCEPT ![p].hom_id = IF k.hd.loyal THEN @ ELSE 0,
                                ![p].hd = IF k.hd.loyal THEN hom ELSE NoHom]
    /\ Send(k0, <<HomSave(hom)>> \o IfSo(~k.hd.loyal, <<HomDelete(k.hd.id)>>))
    /\ UNCHANGED <<fromInter, ends, bags, tables, chronicle>>

(* merc_hom_dead: it is taken off the map. *)
merc_hom_dead(p) ==
    LET k == keeper[p] IN
    /\ OnMap(p) /\ Room(k0) /\ ActiveHom(k.hd)
    /\ keeper' = [keeper EXCEPT ![p].hom_id = IF k.hd.loyal THEN @ ELSE 0,
                                ![p].hd = IF k.hd.loyal THEN [@ EXCEPT !.alive = FALSE] ELSE NoHom]
    /\ Send(k0, IfSo(~k.hd.loyal, <<HomDelete(k.hd.id)>>))
    /\ UNCHANGED <<fromInter, ends, bags, tables, chronicle>>

merc_resurrect_homunculus(p) ==
    LET k == keeper[p] IN
    /\ OnMap(p) /\ Room(k0) /\ k.hom_id # 0
    /\ ~HasHom(k) => AsksFreely(p, HomTalk)
    /\ \/ ~HasHom(k) /\ Send(k0, <<[t |-> "homload", p |-> p, id |-> k.hom_id]>>) /\ UNCHANGED keeper
       \/ /\ HasHom(k) /\ ~k.hd.vapor /\ ~k.hd.alive
          /\ keeper' = [keeper EXCEPT ![p].hd.alive = TRUE]
          /\ UNCHANGED toInter
    /\ UNCHANGED <<fromInter, ends, bags, tables, chronicle>>

(* merc_hom_delete: hunger took the last of its intimacy, or its master dismisses it.  It can
   only leave the map if it is on it. *)
merc_hom_delete(p) ==
    LET k == keeper[p] IN
    /\ Known(p) /\ Room(k0) /\ ActiveHom(k.hd)
    /\ IF OnMap(p)
       THEN /\ keeper' = [keeper EXCEPT ![p].hom_id = 0, ![p].hd = NoHom]
            /\ Send(k0, <<HomDelete(k.hd.id)>>)
       ELSE /\ keeper' = [keeper EXCEPT ![p].hd.loyal = FALSE]
            /\ UNCHANGED toInter
    /\ UNCHANGED <<fromInter, ends, bags, tables, chronicle>>

merc_hom_gainexp(p) ==
    /\ OnMap(p) /\ ActiveHom(keeper[p].hd) /\ ~keeper[p].hd.wise
    /\ keeper' = [keeper EXCEPT ![p].hd.wise = TRUE]
    /\ grown' = grown \cup {keeper[p].hd.id}
    /\ UNCHANGED <<pipes, ends, bags, tables, orphans>>

----------------------------------------------------------------------------
(* Mercenaries. *)

mercenary_create(p) ==
    /\ OnMap(p) /\ Room(k0) /\ ~HasMer(keeper[p]) /\ keeper[p].mer_id = 0
    /\ AsksFreely(p, MerTalk) /\ MayMake("mer", "mercreate")
    /\ Send(k0, <<[t |-> "mercreate", p |-> p]>>)
    /\ UNCHANGED <<fromInter, ends, keeper, bags, tables, chronicle>>

(* After a creation and after a load; ok: there is such a row of this character. *)
merc_data_received(p) ==
    LET msg == Head(fromInter[k0]) IN
    /\ fromInter[k0] # <<>> /\ msg.t = "mer" /\ msg.p = p
    /\ TakenBy(k0)
    /\ IF ~Known(p) THEN UNCHANGED keeper
       ELSE IF msg.mer = NoMer THEN keeper' = [keeper EXCEPT ![p].mer_id = 0]
       ELSE keeper' = [keeper EXCEPT ![p].mer_id = msg.mer.id,
                                     ![p].md = [msg.mer EXCEPT !.serves = HasMer(keeper[p]) => keeper[p].md.serves]]
    /\ orphans' = IF msg.new /\ ~Known(p) THEN orphans \cup {<<"mer", msg.mer.id>>} ELSE orphans
    /\ UNCHANGED <<toInter, ends, bags, tables, grown>>

(* merc_delete: the contract ended, the mercenary died or was dismissed. *)
merc_delete(p) ==
    LET k == keeper[p] IN
    /\ Known(p) /\ Room(k0) /\ HasMer(k) /\ (k.md.serves \/ OnMap(p))
    /\ IF OnMap(p)
       THEN /\ keeper' = [keeper EXCEPT ![p].mer_id = 0, ![p].md = NoMer]
            /\ Send(k0, <<MerDelete(k.md.id)>>)
       ELSE /\ keeper' = [keeper EXCEPT ![p].md.serves = FALSE]
            /\ UNCHANGED toInter
    /\ UNCHANGED <<fromInter, ends, bags, tables, chronicle>>

----------------------------------------------------------------------------
(* The char server. *)

Requested(t) == toInter[k0] # <<>> /\ Head(toInter[k0]).t = t /\ TakenFrom(k0)
NewId(kind) == rowsMade[kind] + 1
Saved(rows, row) == {IF r.id = row.id THEN row ELSE r : r \in rows}       \* UPDATE ... WHERE id
RowsWithout(rows, id) == {r \in rows : r.id # id}
RowOf(rows, id, none) == IF \E r \in rows : r.id = id THEN CHOOSE r \in rows : r.id = id ELSE none

(* The character server lets the map server have the character. *)
keeper_auth ==
    /\ Requested("keeperauth")
    /\ Reply(k0, <<[t |-> "keeperauthok", p |-> Head(toInter[k0]).p]>>)
    /\ UNCHANGED tables

mapif_create_pet ==
    LET msg == Head(toInter[k0]) IN
    /\ Requested("create")
    /\ petRows' = petRows \cup {[id |-> NewId("pet"), breed |-> msg.breed, owner |-> NoKeeper,
                                 egg |-> TRUE, loves |-> TRUE]}
    /\ rowsMade' = [rowsMade EXCEPT !["pet"] = NewId("pet")]
    /\ Reply(k0, <<[t |-> "created", p |-> msg.p, id |-> NewId("pet")]>>)
    /\ UNCHANGED <<homRows, merRows>>

(* An egg is anybody's, a pet its owner's. *)
mapif_load_pet ==
    LET msg == Head(toInter[k0])
        row == RowOf(petRows, msg.id, NoPet)
        pet == IF row.egg THEN [row EXCEPT !.owner = NoKeeper] ELSE IF row.owner = msg.p THEN row ELSE NoPet IN
    /\ Requested("petload")
    /\ Reply(k0, <<[t |-> "pet", p |-> msg.p, pet |-> pet]>>)
    /\ UNCHANGED tables

mapif_save_pet ==
    /\ Requested("petsave")
    /\ petRows' = Saved(petRows, Head(toInter[k0]).pet)
    /\ UNCHANGED <<fromInter, homRows, merRows, rowsMade>>

mapif_delete_pet ==
    /\ Requested("petdelete")
    /\ petRows' = RowsWithout(petRows, Head(toInter[k0]).id)
    /\ UNCHANGED <<fromInter, homRows, merRows, rowsMade>>

mapif_homunculus_create ==
    LET p == Head(toInter[k0]).p
        hom == [id |-> NewId("hom"), owner |-> p, vapor |-> FALSE, alive |-> TRUE, loyal |-> TRUE, wise |-> FALSE] IN
    /\ Requested("homcreate")
    /\ homRows' = homRows \cup {hom}
    /\ rowsMade' = [rowsMade EXCEPT !["hom"] = NewId("hom")]
    /\ Reply(k0, <<[t |-> "hom", p |-> p, hom |-> hom, new |-> TRUE]>>)
    /\ UNCHANGED <<petRows, merRows>>

mapif_homunculus_load ==
    LET msg == Head(toInter[k0]) IN
    /\ Requested("homload")
    /\ Reply(k0, <<[t |-> "hom", p |-> msg.p, hom |-> RowOf(homRows, msg.id, NoHom), new |-> FALSE]>>)
    /\ UNCHANGED tables

mapif_homunculus_save ==
    /\ Requested("homsave")
    /\ homRows' = Saved(homRows, Head(toInter[k0]).hom)
    /\ UNCHANGED <<fromInter, petRows, merRows, rowsMade>>

mapif_homunculus_delete ==
    /\ Requested("homdelete")
    /\ homRows' = RowsWithout(homRows, Head(toInter[k0]).id)
    /\ UNCHANGED <<fromInter, petRows, merRows, rowsMade>>

mapif_mercenary_create ==
    LET p == Head(toInter[k0]).p
        mer == [id |-> NewId("mer"), owner |-> p, serves |-> TRUE] IN
    /\ Requested("mercreate")
    /\ merRows' = merRows \cup {mer}
    /\ rowsMade' = [rowsMade EXCEPT !["mer"] = NewId("mer")]
    /\ Reply(k0, <<[t |-> "mer", p |-> p, mer |-> mer, new |-> TRUE]>>)
    /\ UNCHANGED <<petRows, homRows>>

mapif_mercenary_load ==
    LET msg == Head(toInter[k0])
        own == {row \in merRows : row.owner = msg.p} IN
    /\ Requested("merload")
    /\ Reply(k0, <<[t |-> "mer", p |-> msg.p, mer |-> RowOf(own, msg.id, NoMer), new |-> FALSE]>>)
    /\ UNCHANGED tables

mapif_mercenary_save ==
    /\ Requested("mersave")
    /\ merRows' = Saved(merRows, Head(toInter[k0]).mer)
    /\ UNCHANGED <<fromInter, petRows, homRows, rowsMade>>

mapif_mercenary_delete ==
    /\ Requested("merdelete")
    /\ merRows' = RowsWithout(merRows, Head(toInter[k0]).id)
    /\ UNCHANGED <<fromInter, petRows, homRows, rowsMade>>

CharServes ==
    /\ \/ keeper_auth \/ mapif_create_pet \/ mapif_load_pet \/ mapif_save_pet \/ mapif_delete_pet
       \/ mapif_homunculus_create \/ mapif_homunculus_load \/ mapif_homunculus_save \/ mapif_homunculus_delete
       \/ mapif_mercenary_create \/ mapif_mercenary_load \/ mapif_mercenary_save \/ mapif_mercenary_delete
    /\ UNCHANGED <<ends, keeper, bags, chronicle>>

KeeperMoves(p) ==
    \/ KeeperEnters(p) \/ KeeperArrives(p) \/ KeeperWarps(p) \/ KeeperQuits(p) \/ KeeperSaved(p)
    \/ \E war \in BOOLEAN : CompanionsAppear(p, war)
    \/ \E grief, auto_vapor \in BOOLEAN : KeeperDies(p, grief, auto_vapor)

PetCatching(p) ==
    \/ \E m \in Breeds \cup {AnyBreed} : pet_catch_process1(p, m)
    \/ UsesAnotherItem(p)
    \/ \E m \in Breeds \cup {NoBreed}, caught \in BOOLEAN : pet_catch_process2(p, m, caught)
    \/ \E m \in Breeds : makepet(p, m)
    \/ pet_get_egg(p)

PetKeeping(p) ==
    \/ birthpet(p) \/ pet_recv_petdata(p) \/ pet_return_egg(p) \/ pet_hungry(p)
    \/ \E egg \in eggs[p] : pet_select_egg(p, egg) \/ DropEgg(p, egg)
    \/ \E egg \in floor : TakeEgg(p, egg)

HomMoves(p) ==
    \/ merc_call_homunculus(p) \/ merc_hom_recv_data(p) \/ merc_hom_vaporize(p) \/ merc_hom_dead(p)
    \/ merc_resurrect_homunculus(p) \/ merc_hom_delete(p) \/ merc_hom_gainexp(p)

MerMoves(p) == mercenary_create(p) \/ merc_data_received(p) \/ merc_delete(p)

CompanionNext ==
    \/ CharServes
    \/ \E p \in Keepers : KeeperMoves(p) \/ PetCatching(p) \/ PetKeeping(p) \/ HomMoves(p) \/ MerMoves(p)
    \/ \E egg \in floor : EggRots(egg)

----------------------------------------------------------------------------
Doomed(t) == {msg.id : msg \in {msg \in Range(toInter[k0]) : msg.t = t}}
Answers(t) == {i \in DOMAIN fromInter[k0] : fromInter[k0][i].t = t}
EggPlaces(id) == {p \in Keepers : \E egg \in eggs[p] : egg.id = id} \cup {l \in {NoKeeper} : \E egg \in floor : egg.id = id}
NothingOnTheWay == Quiet(k0)

(* Every pet is in one place: an egg in one inventory or on the floor, or the pet that one character
   names, or the answer to its creation.  A row that says otherwise is being deleted, or its maker
   left before the answer.  An egg hatches what its name promises, and once nothing is on its
   way the row says whether it is an egg, and if not whose. *)
PetsInOnePlace ==
    /\ \A row \in petRows : row.id \notin Doomed("petdelete") /\ <<"pet", row.id>> \notin orphans =>
           Cardinality(EggPlaces(row.id)) + Cardinality({p \in Keepers : keeper[p].pet_id = row.id})
           + Cardinality({i \in Answers("created") : fromInter[k0][i].id = row.id}) = 1
    /\ \A p \in Keepers : HasPet(keeper[p]) => keeper[p].pd.id = keeper[p].pet_id
    /\ \A egg \in floor \cup UNION Range(eggs) : \E row \in petRows : row.id = egg.id /\ row.breed = egg.breed
    /\ NothingOnTheWay => \A row \in petRows : <<"pet", row.id>> \notin orphans =>
           /\ row.egg <=> EggPlaces(row.id) # {}
           /\ ~row.egg => row.owner \in Keepers /\ keeper[row.owner].pet_id = row.id

(* No homunculus and no mercenary is without the one master who names it, the object of a character
   is the row it names, and what a homunculus learnt is in its row when its master has gone. *)
ServantsKept ==
    /\ \A row \in homRows : row.id \notin Doomed("homdelete") /\ <<"hom", row.id>> \notin orphans =>
           \/ keeper[row.owner].hom_id = row.id
           \/ \E i \in Answers("hom") : fromInter[k0][i].hom.id = row.id /\ fromInter[k0][i].new
    /\ \A row \in merRows : row.id \notin Doomed("merdelete") /\ <<"mer", row.id>> \notin orphans =>
           \/ keeper[row.owner].mer_id = row.id
           \/ \E i \in Answers("mer") : fromInter[k0][i].mer.id = row.id /\ fromInter[k0][i].new
    /\ \A p \in Keepers : /\ HasHom(keeper[p]) => keeper[p].hd.id = keeper[p].hom_id
                          /\ HasMer(keeper[p]) => keeper[p].md.id = keeper[p].mer_id
    /\ NothingOnTheWay => \A row \in homRows : row.id \in grown /\ ~Known(row.owner) => row.wise

(* What a player sees as its companions is what the tables say of them, whatever it does and
   whenever it leaves: PetsInOnePlace and ServantsKept, and every variable has its shape. *)
CompanionsKept == CompanionTypeOK /\ PetsInOnePlace /\ ServantsKept
=============================================================================
