---------------------------- MODULE GuildStorage ----------------------------
(***************************************************************************)
(* The storage of a guild and the own storage of its members: storage.c    *)
(* and intif.c on the map servers, int_storage.c on the char server.       *)
(*                                                                         *)
(* The char server holds the guild storage in SQL.  A map server asks for  *)
(* it once, keeps its copy, lets one member open it at a time and saves it *)
(* when it was changed; a save is acknowledged.  A member's own storage    *)
(* and belongings are saved with the character (see Handoff): here they    *)
(* simply follow the member.  Goods are told apart one by one, so that one *)
(* that is lost or doubled shows.                                          *)
(***************************************************************************)
EXTENDS InterLink

CONSTANTS Members,          \* characters that are or may be in the guild
          StorageServers,   \* the map servers they play on: with two, see GoodsInOnePlace
          Goods,            \* items, each a different one
          MaxGuildStorage,  \* MAX_GUILD_STORAGE
          Nowhere           \* not on a map server

ASSUME NowhereAssumption == Nowhere \notin MapServers /\ StorageServers \subseteq MapServers
ASSUME MaxGuildStorageAssumption == MaxGuildStorage \in Nat

VARIABLES copy,     \* per map server: guild_storage_db
          known,    \* per map server: is the guild in guild_db?
          member,   \* per member: where, whether prev # NULL, the storage_flag, guild_id
          carried,  \* per member: inventory and cart
          own,      \* per member: status.storage
          exists,   \* is the guild in SQL?
          stored    \* the guild storage in SQL

storageVars == <<copy, known, member, carried, own, exists, stored>>
charSide == <<exists, stored>>

NoCopy == [here |-> FALSE, items |-> {}, open |-> FALSE, dirty |-> FALSE]
Loaded(items) == [here |-> TRUE, items |-> items, open |-> FALSE, dirty |-> FALSE]

StorageTypeOK ==
    /\ copy \in [MapServers -> [here : BOOLEAN, items : SUBSET Goods, open : BOOLEAN, dirty : BOOLEAN]]
    /\ known \in [MapServers -> BOOLEAN]
    /\ member \in [Members -> [at : MapServers \cup {Nowhere}, onMap : BOOLEAN,
                               flag : 0 .. 2, guild : BOOLEAN]]
    /\ carried \in [Members -> SUBSET Goods]
    /\ own \in [Members -> SUBSET Goods]
    /\ exists \in BOOLEAN /\ stored \subseteq Goods
    /\ \A m \in MapServers : Cardinality(copy[m].items) <= MaxGuildStorage

StorageInit ==
    /\ LinkInit
    /\ copy = [m \in MapServers |-> NoCopy]
    /\ known = [m \in MapServers |-> TRUE]
    /\ member \in [Members -> [at : StorageServers, onMap : {TRUE}, flag : {0}, guild : {TRUE}]]
    /\ \E p \in Members : carried = [q \in Members |-> IF q = p THEN Goods ELSE {}]
    /\ own = [p \in Members |-> {}]
    /\ exists = TRUE /\ stored = {}

On(p, m) == member[p].at = m
Acts(p) == member[p].at # Nowhere /\ member[p].onMap    \* clif_parse drops the others' packets
Save(items) == [t |-> "save", items |-> items]

(* storage_guild_storagesave *)
SaveOf(m) == IF copy[m].here /\ copy[m].dirty THEN <<Save(copy[m].items)>> ELSE <<>>

(* The part of chrif_save that concerns the guild storage. *)
chrif_saves(p, m) == IF member[p].flag = 2 THEN SaveOf(m) ELSE <<>>

----------------------------------------------------------------------------
(* Opening. *)

(* storage_storageopen *)
storage_storageopen(p) ==
    /\ Acts(p) /\ member[p].flag = 0
    /\ member' = [member EXCEPT ![p].flag = 1]
    /\ UNCHANGED <<linkVars, copy, known, carried, own, charSide>>

(* storage_guild_storageopen on map server m. *)
MayOpenIgnoringOthers(p, m) == member[p].guild /\ member[p].flag = 0   \* a mistake the runs must notice
MayOpen(p, m) == member[p].guild /\ member[p].flag = 0 /\ ~copy[m].open

(* Bound: two may ask for the storage before the first is answered, nothing else on the way. *)
OnTheWay(m) == toInter[m] \o fromInter[m]
MayAsk(m) == Room(m) \/ (Len(OnTheWay(m)) = 1 /\ OnTheWay(m)[1].t \in {"load", "loaded"})

storage_guild_storageopen(p) ==
    LET m == member[p].at IN
    /\ Acts(p) /\ MayOpen(p, m) /\ MayAsk(m)
    /\ IF copy[m].here
       THEN /\ copy' = [copy EXCEPT ![m].open = TRUE]
            /\ member' = [member EXCEPT ![p].flag = 2]
            /\ UNCHANGED toInter
       ELSE /\ Send(m, <<[t |-> "load", p |-> p]>>)      \* intif_request_guild_storage
            /\ UNCHANGED <<copy, member>>
    /\ UNCHANGED <<fromInter, ends, known, carried, own, charSide>>

(* intif_parse_LoadGuildStorage *)
AcceptableIfClosed(m) == ~copy[m].open    \* a mistake the runs must notice
Acceptable(m) == ~copy[m].open /\ ~copy[m].dirty

intif_parse_LoadGuildStorage(m, p, items) ==
    IF On(p, m) /\ known[m] /\ Acceptable(m)
    THEN LET opens == member[p].guild /\ member[p].flag = 0
         IN /\ copy' = [copy EXCEPT ![m] = [Loaded(items) EXCEPT !.open = opens]]
            /\ member' = [member EXCEPT ![p].flag = IF opens THEN 2 ELSE @]
    ELSE /\ copy' = [copy EXCEPT ![m].here = @ \/ (On(p, m) /\ known[m])]   \* idb_ensure
         /\ UNCHANGED member

----------------------------------------------------------------------------
(* Moving goods.  Capacity is checked before the other side is changed. *)

(* storage_storageadd, storage_storageget and the cart's *)
MoveOwn(p, x) ==
    /\ Acts(p) /\ member[p].flag = 1
    /\ \/ /\ x \in carried[p]
          /\ carried' = [carried EXCEPT ![p] = @ \ {x}]
          /\ own' = [own EXCEPT ![p] = @ \cup {x}]
       \/ /\ x \in own[p]
          /\ carried' = [carried EXCEPT ![p] = @ \cup {x}]
          /\ own' = [own EXCEPT ![p] = @ \ {x}]
    /\ UNCHANGED <<linkVars, copy, known, member, charSide>>

(* storage_guild_storageadd, storage_guild_storageaddfromcart *)
storage_guild_storageadd(p, x) ==
    LET m == member[p].at IN
    /\ Acts(p) /\ member[p].flag = 2
    /\ copy[m].here /\ copy[m].open
    /\ x \in carried[p] /\ Cardinality(copy[m].items) < MaxGuildStorage
    /\ copy' = [copy EXCEPT ![m].items = @ \cup {x}, ![m].dirty = TRUE]
    /\ carried' = [carried EXCEPT ![p] = @ \ {x}]
    /\ UNCHANGED <<linkVars, known, member, own, charSide>>

(* storage_guild_storageget, storage_guild_storagegettocart *)
storage_guild_storageget(p, x) ==
    LET m == member[p].at IN
    /\ Acts(p) /\ member[p].flag = 2
    /\ copy[m].here /\ copy[m].open
    /\ x \in copy[m].items
    /\ copy' = [copy EXCEPT ![m].items = @ \ {x}, ![m].dirty = TRUE]
    /\ carried' = [carried EXCEPT ![p] = @ \cup {x}]
    /\ UNCHANGED <<linkVars, known, member, own, charSide>>

----------------------------------------------------------------------------
(* Saving and closing. *)

(* storage_guild_storageclose and storage_guild_storage_quit(sd, 0): save, then close. *)
SavedByClosing(p, m) == IF copy[m].open THEN chrif_saves(p, m) ELSE <<>>
Closed(m) == [copy EXCEPT ![m].open = FALSE]

(* clif_parse_CloseKafra *)
clif_parse_CloseKafra(p) ==
    LET m == member[p].at IN
    /\ Acts(p) /\ member[p].flag # 0
    /\ Send(m, SavedByClosing(p, m))
    /\ copy' = IF member[p].flag = 2 THEN Closed(m) ELSE copy
    /\ member' = [member EXCEPT ![p].flag = 0]
    /\ UNCHANGED <<fromInter, ends, known, carried, own, charSide>>

(* pc_autosave: chrif_save(sd, 0) leaves the storage open. *)
autosave(p) ==
    LET m == member[p].at IN
    /\ member[p].at # Nowhere /\ joined[m] /\ Room(m)
    /\ chrif_saves(p, m) # <<>>
    /\ Send(m, chrif_saves(p, m))
    /\ UNCHANGED <<fromInter, ends, storageVars>>

(* pc_setpos within the map server: unit_remove_map_ closes, unless already loading. *)
unit_remove_map_pc(p) ==
    LET m == member[p].at IN
    /\ Acts(p)
    /\ Send(m, SavedByClosing(p, m))
    /\ copy' = IF member[p].flag = 2 THEN Closed(m) ELSE copy
    /\ member' = [member EXCEPT ![p].flag = 0, ![p].onMap = FALSE]
    /\ UNCHANGED <<fromInter, ends, known, carried, own, charSide>>

LoadEndAck(p) ==
    /\ member[p].at # Nowhere /\ ~member[p].onMap
    /\ member' = [member EXCEPT ![p].onMap = TRUE]
    /\ UNCHANGED <<linkVars, copy, known, carried, own, charSide>>

(* map_quit, also for a change of map server.  On the map: unit_remove_map_ closes.
   Loading a map it does not; then chrif_save(sd, 1) closes what is open, but only
   behind its return for a lost char server. *)
QuitCloses(p, m) == member[p].flag = 2 /\ (member[p].onMap \/ joined[m])

map_quit(p) ==
    LET m == member[p].at IN
    /\ m # Nowhere
    /\ Send(m, SavedByClosing(p, m))
    /\ copy' = IF QuitCloses(p, m) THEN Closed(m) ELSE copy
    /\ member' = [member EXCEPT ![p] = [at |-> Nowhere, onMap |-> FALSE, flag |-> 0, guild |-> @.guild]]
    /\ UNCHANGED <<fromInter, ends, known, carried, own, charSide>>

(* A character enters a map server; its guild_id is from the char server. *)
pc_authok(p, m) ==
    /\ member[p].at = Nowhere /\ joined[m]
    /\ member' = [member EXCEPT ![p].at = m, ![p].guild = @ /\ exists]
    /\ UNCHANGED <<linkVars, copy, known, carried, own, charSide>>

(* guild_member_withdraw: the storage is closed while the member still has the guild_id. *)
member_leaves_guild(p) ==
    LET m == member[p].at IN
    /\ m # Nowhere /\ member[p].guild /\ known[m]
    /\ Send(m, SavedByClosing(p, m))
    /\ copy' = IF member[p].flag = 2 THEN Closed(m) ELSE copy
    /\ member' = [member EXCEPT ![p].guild = FALSE, ![p].flag = IF @ = 2 THEN 0 ELSE @]
    /\ UNCHANGED <<fromInter, ends, known, carried, own, charSide>>

(* guild_member_added *)
member_joins_guild(p) ==
    LET m == member[p].at IN
    /\ m # Nowhere /\ ~member[p].guild /\ known[m]
    /\ member' = [member EXCEPT ![p].guild = TRUE]
    /\ UNCHANGED <<linkVars, copy, known, carried, own, charSide>>

(* guild_broken, with storage_guild_storage_quit(sd, 1) and guild_storage_delete. *)
storage_of_broken(m) ==
    /\ known' = [known EXCEPT ![m] = FALSE]
    /\ copy' = [copy EXCEPT ![m] = NoCopy]
    /\ member' = [p \in Members |->
           IF On(p, m) /\ member[p].guild
           THEN [member[p] EXCEPT !.guild = FALSE, !.flag = IF @ = 2 THEN 0 ELSE @]
           ELSE member[p]]

(* storage_guild_storagesaved *)
storage_guild_storagesaved(m) ==
    copy' = [copy EXCEPT ![m].dirty = @ /\ copy[m].open]

----------------------------------------------------------------------------
(* Packets 0x3818, 0x3819 and 0x3836. *)
intif_parse(m) ==
    /\ joined[m] /\ fromInter[m] # <<>>
    /\ LET msg == Head(fromInter[m]) IN
       \/ /\ msg.t = "loaded"
          /\ intif_parse_LoadGuildStorage(m, msg.p, msg.items)
          /\ UNCHANGED known
       \/ msg.t = "saved" /\ storage_guild_storagesaved(m) /\ UNCHANGED <<known, member>>
       \/ msg.t = "broken" /\ storage_of_broken(m)
    /\ TakenBy(m)
    /\ UNCHANGED <<toInter, ends, carried, own, charSide>>

(* mapif_parse_LoadGuildStorage: guild id 0 when there is no such guild, which is ignored.
   mapif_parse_SaveGuildStorage: acknowledged in any case. *)
inter_storage_parse_frommap(m) ==
    /\ wire[m] /\ toInter[m] # <<>>
    /\ LET msg == Head(toInter[m]) IN
       \/ /\ msg.t = "load"
          /\ Reply(m, IF exists THEN <<[t |-> "loaded", p |-> msg.p, items |-> stored]>> ELSE <<>>)
          /\ UNCHANGED stored
       \/ /\ msg.t = "save"
          /\ stored' = IF exists THEN msg.items ELSE stored
          /\ Reply(m, <<[t |-> "saved"]>>)
    /\ TakenFrom(m)
    /\ UNCHANGED <<ends, copy, known, member, carried, own, exists>>

(* mapif_parse_BreakGuild *)
mapif_parse_BreakGuild ==
    /\ exists
    /\ exists' = FALSE /\ stored' = {}
    /\ ToAll(<<[t |-> "broken"]>>)
    /\ UNCHANGED <<toInter, ends, copy, known, member, carried, own>>

do_reconnect_storage_never(m) ==   \* a mistake the runs must notice
    /\ LinkReady(m, <<>>)
    /\ UNCHANGED storageVars

(* do_reconnect_storage, with storage_reconnect_sub *)
do_reconnect_storage(m) ==
    /\ LinkReady(m, IF copy[m].open THEN <<>> ELSE SaveOf(m))
    /\ UNCHANGED storageVars

----------------------------------------------------------------------------
StorageUser(p) ==
    \/ storage_storageopen(p)
    \/ storage_guild_storageopen(p)
    \/ \E x \in Goods : MoveOwn(p, x) \/ storage_guild_storageadd(p, x) \/ storage_guild_storageget(p, x)
    \/ clif_parse_CloseKafra(p)
    \/ autosave(p)
    \/ unit_remove_map_pc(p)
    \/ LoadEndAck(p)
    \/ map_quit(p)
    \/ \E m \in StorageServers : pc_authok(p, m)
    \/ member_leaves_guild(p)
    \/ member_joins_guild(p)

StorageLink(m) ==
    \/ intif_parse(m)
    \/ inter_storage_parse_frommap(m)
    \/ LinkLost(m) /\ UNCHANGED storageVars
    \/ do_reconnect_storage(m)

StorageNext ==
    \/ \E p \in Members : StorageUser(p)
    \/ \E m \in StorageServers : StorageLink(m) \/ (CutWire(m) /\ UNCHANGED storageVars)
    \/ mapif_parse_BreakGuild

StorageSpec == StorageInit /\ [][StorageNext]_<<linkVars, storageVars>>

----------------------------------------------------------------------------
(* A guild storage is open on a map server exactly while one of the members there has its
   window open, and no two do: storage_status in the shared copy and storage_flag in the
   sessions are changed by different functions.  Only when the connection to the char server
   was lost can it be left open by nobody (see map_quit). *)
StorageOpenedByOne ==
    \A m \in MapServers :
        LET users == {p \in Members : On(p, m) /\ member[p].flag = 2} IN
        /\ Cardinality(users) <= 1
        /\ users # {} => copy[m].here /\ copy[m].open
        /\ copy[m].open /\ cuts = 0 => users # {}

(* With one map server every item is in one place: with a member, in a member's storage, or in
   the guild's, which is the map server's copy or, while it has none, SQL.  An answer that
   replaces the copy (intif_parse_LoadGuildStorage) must not bring back what was taken since,
   nor drop what was put in. *)
TheStorage == IF \E m \in MapServers : copy[m].here
              THEN UNION {copy[m].items : m \in MapServers} ELSE stored
GoodsInOnePlace ==
    exists /\ (\A m \in MapServers : known[m]) =>
        \A x \in Goods :
            Cardinality({p \in Members : x \in carried[p]})
              + Cardinality({p \in Members : x \in own[p]})
              + (IF x \in TheStorage THEN 1 ELSE 0) = 1

(* A closed storage that was changed is saved: also when the save or its acknowledgement is lost
   with the connection, it is sent again.  As long as no connection failed, what SQL then holds
   is what the copy holds. *)
Unsaved(m) == copy[m].here /\ ~copy[m].open /\ copy[m].dirty
Differs(m) == exists /\ known[m] /\ copy[m].here /\ ~copy[m].open /\ copy[m].items # stored
ChangedStorageSaved ==
    \A m \in StorageServers :
        /\ Unsaved(m) ~> ~Unsaved(m)
        /\ Differs(m) ~> ~Differs(m) \/ cuts # 0
=============================================================================
