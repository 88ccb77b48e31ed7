------------------------ MODULE GuildStorage_proofs ------------------------
(***************************************************************************)
(* A guild storage is open on a map server for one member at most, holds   *)
(* no more than it may, and is not left open by nobody while connections   *)
(* hold: for any members, map servers and goods, any order of opening,     *)
(* closing, warping, quitting and leaving the guild, and any packets on    *)
(* the way.                                                                *)
(***************************************************************************)
EXTENDS GuildStorage, TLAPS, FiniteSetTheorems

(* What a guild storage may hold, and the packets that carry it. *)
Contents == {items \in SUBSET Goods : IsFiniteSet(items) /\ Cardinality(items) <= MaxGuildStorage}
ToPacket == [t : {"load"}, p : Members] \cup [t : {"save"}, items : Contents]
FromPacket == [t : {"loaded"}, p : Members, items : Contents] \cup [t : {"saved", "broken"}]
Copy == [here : BOOLEAN, items : Contents, open : BOOLEAN, dirty : BOOLEAN]
Member == [at : MapServers \cup {Nowhere}, onMap : BOOLEAN, flag : 0 .. 2, guild : BOOLEAN]

Types ==
    /\ toInter \in [MapServers -> Seq(ToPacket)] /\ fromInter \in [MapServers -> Seq(FromPacket)]
    /\ wire \in [MapServers -> BOOLEAN] /\ joined \in [MapServers -> BOOLEAN] /\ cuts \in Nat
    /\ copy \in [MapServers -> Copy] /\ known \in [MapServers -> BOOLEAN]
    /\ member \in [Members -> Member]
    /\ carried \in [Members -> SUBSET Goods] /\ own \in [Members -> SUBSET Goods]
    /\ exists \in BOOLEAN /\ stored \in Contents

Uses(p) == member[p].flag = 2
UsersOpen == \A p \in Members : Uses(p) => /\ member[p].at \in MapServers /\ member[p].guild
                                           /\ copy[member[p].at].here /\ copy[member[p].at].open
OneUser == \A p, q \in Members : Uses(p) /\ Uses(q) /\ member[p].at = member[q].at => p = q
NotLeftOpen ==
    cuts = 0 => \A m \in MapServers : /\ wire[m] /\ joined[m]
                                      /\ copy[m].open => \E p \in Members : Uses(p) /\ member[p].at = m

Opened == UsersOpen /\ OneUser /\ NotLeftOpen
StorageInv == Types /\ Opened

----------------------------------------------------------------------------
(* Contents and packets. *)

LEMMA EmptyContents == {} \in Contents
BY FS_EmptySet, MaxGuildStorageAssumption DEF Contents

LEMMA PutContents ==
    ASSUME NEW items \in Contents, NEW x \in Goods, Cardinality(items) < MaxGuildStorage
    PROVE  items \cup {x} \in Contents
<1>1. IsFiniteSet(items) /\ Cardinality(items) \in Nat
    BY FS_CardinalityType DEF Contents
<1>2. /\ IsFiniteSet(items \cup {x})
      /\ Cardinality(items \cup {x}) = Cardinality(items) \/ Cardinality(items \cup {x}) = Cardinality(items) + 1
    BY <1>1, FS_AddElement
<1>3. Cardinality(items \cup {x}) <= MaxGuildStorage
    BY <1>1, <1>2, MaxGuildStorageAssumption
<1> QED BY <1>2, <1>3 DEF Contents

LEMMA TakeContents ==
    ASSUME NEW items \in Contents, NEW x
    PROVE  items \ {x} \in Contents
<1>1. IsFiniteSet(items) /\ Cardinality(items) \in Nat /\ Cardinality(items) <= MaxGuildStorage
    BY FS_CardinalityType DEF Contents
<1>2. IsFiniteSet(items \ {x}) /\ Cardinality(items \ {x}) <= Cardinality(items)
    BY <1>1, FS_Subset
<1>3. Cardinality(items \ {x}) \in Nat
    BY <1>2, FS_CardinalityType
<1>4. Cardinality(items \ {x}) <= MaxGuildStorage
    BY <1>1, <1>2, <1>3, MaxGuildStorageAssumption
<1> QED BY <1>2, <1>4 DEF Contents

LEMMA SendType ==
    ASSUME Types, NEW m \in MapServers, NEW msgs \in Seq(ToPacket), Send(m, msgs)
    PROVE  toInter' \in [MapServers -> Seq(ToPacket)]
BY DEF Types, Send, Sent

LEMMA ReplyType ==
    ASSUME Types, NEW m \in MapServers, NEW msgs \in Seq(FromPacket), Reply(m, msgs)
    PROVE  fromInter' \in [MapServers -> Seq(FromPacket)]
BY DEF Types, Reply

LEMMA SaveType ==
    ASSUME Types, NEW m \in MapServers
    PROVE  SaveOf(m) \in Seq(ToPacket)
<1>1. Save(copy[m].items) \in ToPacket
    BY DEF Types, Copy, Save, ToPacket
<1> QED BY <1>1 DEF SaveOf

LEMMA SavedType ==
    ASSUME Types, NEW m \in MapServers, NEW p \in Members
    PROVE  chrif_saves(p, m) \in Seq(ToPacket) /\ SavedByClosing(p, m) \in Seq(ToPacket)
BY SaveType DEF chrif_saves, SavedByClosing

LEMMA ClosedType ==
    ASSUME Types, NEW m \in MapServers
    PROVE  /\ Closed(m) \in [MapServers -> Copy] /\ Closed(m)[m].open = FALSE
           /\ \A n \in MapServers \ {m} : Closed(m)[n] = copy[n]
BY DEF Types, Closed, Copy

(* A member gets another record. *)
LEMMA MemberType ==
    ASSUME StorageInv, NEW p \in Members, NEW new \in Member, member' = [member EXCEPT ![p] = new]
    PROVE  /\ member' \in [Members -> Member] /\ member'[p] = new
           /\ \A q \in Members \ {p} : member'[q] = member[q]
BY DEF StorageInv, Types

LEMMA FieldType ==
    ASSUME NEW old \in Member, NEW guild \in BOOLEAN, NEW onMap \in BOOLEAN, NEW at \in MapServers \cup {Nowhere}
    PROVE  /\ [old EXCEPT !.guild = guild] \in Member
           /\ [old EXCEPT !.onMap = onMap] \in Member
           /\ [old EXCEPT !.at = at, !.guild = guild] \in Member
BY DEF Member

LEMMA OpensType == ASSUME NEW old \in Member PROVE [old EXCEPT !.flag = 2] \in Member
BY DEF Member

LEMMA RecordType ==
    ASSUME NEW at \in MapServers \cup {Nowhere}, NEW onMap \in BOOLEAN, NEW flag \in 0 .. 2, NEW guild \in BOOLEAN,
           NEW new, new = [at |-> at, onMap |-> onMap, flag |-> flag, guild |-> guild]
    PROVE  new \in Member /\ new.flag = flag
BY DEF Member

LEMMA WarpsType ==
    ASSUME NEW old \in Member, NEW new, new = [old EXCEPT !.flag = 0, !.onMap = FALSE]
    PROVE  new \in Member /\ new.flag # 2
<1>1. new = [at |-> old.at, onMap |-> FALSE, flag |-> 0, guild |-> old.guild]
    BY DEF Member
<1>2. old.at \in MapServers \cup {Nowhere} /\ old.guild \in BOOLEAN /\ FALSE \in BOOLEAN /\ 0 \in 0 .. 2
    BY DEF Member
<1>3. new \in Member /\ new.flag = 0
    BY <1>1, <1>2, RecordType, Zenon
<1> QED BY <1>3

LEMMA FlagType ==
    ASSUME NEW old \in Member, NEW f \in 0 .. 2
    PROVE  [old EXCEPT !.flag = f] \in Member /\ [old EXCEPT !.flag = f].flag = f
BY DEF Member

LEMMA LeavesType ==
    ASSUME NEW old \in Member
    PROVE  \E new \in Member :
              new.flag # 2 /\ new = [old EXCEPT !.guild = FALSE, !.flag = IF old.flag = 2 THEN 0 ELSE old.flag]
<1>1. PICK mid : mid = [old EXCEPT !.guild = FALSE]
    OBVIOUS
<1>2. mid \in Member
    BY <1>1 DEF Member
<1>3. PICK f \in 0 .. 2 : f = (IF old.flag = 2 THEN 0 ELSE old.flag) /\ f # 2
    BY DEF Member
<1>4. PICK new : new = [mid EXCEPT !.flag = f]
    OBVIOUS
<1>5. new \in Member /\ new.flag = f
    BY <1>2, <1>3, <1>4, FlagType
<1>6. new = [old EXCEPT !.guild = FALSE, !.flag = IF old.flag = 2 THEN 0 ELSE old.flag]
    BY <1>1, <1>3, <1>4, Zenon
<1> QED BY <1>3, <1>5, <1>6

----------------------------------------------------------------------------
(* What closing, opening and everything else do to Opened. *)

(* Member p stops using the storage and whoever used it closes it; the others stay. *)
LEMMA ClosesOpened ==
    ASSUME StorageInv, NEW p \in Members, NEW m \in MapServers, member[p].at = m,
           copy' = IF Uses(p) THEN Closed(m) ELSE copy,
           member' \in [Members -> Member], ~Uses(p)',
           \A q \in Members \ {p} : member'[q] = member[q],
           UNCHANGED <<wire, joined, cuts>>
    PROVE  Opened'
<1>1. /\ copy' \in [MapServers -> Copy]
      /\ \A n \in MapServers \ {m} : copy'[n] = copy[n]
      /\ IF Uses(p) THEN copy'[m].open = FALSE ELSE copy'[m] = copy[m]
    BY ClosedType DEF StorageInv, Types
<1>2. UsersOpen'
    BY <1>1 DEF StorageInv, Opened, UsersOpen, OneUser, Uses
<1>3. OneUser'
    BY DEF StorageInv, Opened, OneUser, Uses
<1>4. NotLeftOpen'
    BY <1>1 DEF StorageInv, Opened, NotLeftOpen, Uses
<1> QED BY <1>2, <1>3, <1>4 DEF Opened

(* Nobody's use changes, and no copy is opened or closed. *)
LEMMA SameOpened ==
    ASSUME StorageInv,
           \A n \in MapServers : copy'[n].open = copy[n].open /\ (copy[n].here => copy'[n].here),
           \A q \in Members : Uses(q)' = Uses(q) /\ (Uses(q) => member'[q].at = member[q].at /\ member'[q].guild),
           cuts' \in Nat, cuts' = 0 => cuts = 0 /\ UNCHANGED <<wire, joined>>
    PROVE  Opened'
BY DEF StorageInv, Opened, UsersOpen, OneUser, NotLeftOpen, Uses

(* p opens a storage that is closed. *)
LEMMA OpensOpened ==
    ASSUME StorageInv, NEW p \in Members, NEW m \in MapServers, member[p].at = m, member[p].guild, ~copy[m].open,
           copy'[m].here /\ copy'[m].open, \A n \in MapServers \ {m} : copy'[n] = copy[n],
           member' = [member EXCEPT ![p].flag = 2],
           UNCHANGED <<wire, joined, cuts>>
    PROVE  Opened'
<1>1. Uses(p)' /\ member'[p].at = m /\ member'[p].guild /\ \A q \in Members \ {p} : member'[q] = member[q]
    BY DEF StorageInv, Types, Member, Uses
<1>2. \A q \in Members : Uses(q) => member[q].at # m
    BY DEF StorageInv, Opened, UsersOpen
<1>3. UsersOpen'
    BY <1>1, <1>2 DEF StorageInv, Opened, UsersOpen, Uses
<1>4. OneUser'
    BY <1>1, <1>2 DEF StorageInv, Opened, OneUser, Uses
<1>5. NotLeftOpen'
    BY <1>1 DEF StorageInv, Opened, NotLeftOpen, Uses
<1> QED BY <1>3, <1>4, <1>5 DEF Opened

----------------------------------------------------------------------------
(* The players' actions. *)

LEMMA OpenOwnInv == ASSUME StorageInv, NEW p \in Members, storage_storageopen(p) PROVE StorageInv'
<1> DEFINE new == [member[p] EXCEPT !.flag = 1]
<1>a. member[p] \in Member /\ member[p].flag = 0
    BY DEF storage_storageopen, StorageInv, Types
<1>b. new \in Member /\ new.flag = 1
    BY <1>a DEF Member
<1>c. member' = [member EXCEPT ![p] = new]
    BY DEF storage_storageopen, StorageInv, Types
<1> HIDE DEF new
<1>1. member' \in [Members -> Member] /\ member'[p] = new /\ \A q \in Members \ {p} : member'[q] = member[q]
    BY <1>b, <1>c, MemberType
<1>2. \A q \in Members : Uses(q)' = Uses(q) /\ (Uses(q) => member'[q] = member[q])
    BY <1>1, <1>a, <1>b DEF Uses
<1>3. Opened'
    BY <1>2, SameOpened DEF storage_storageopen, linkVars, StorageInv, Types, Opened, UsersOpen
<1> QED BY <1>1, <1>3 DEF storage_storageopen, linkVars, charSide, StorageInv, Types

LEMMA OpenGuildInv == ASSUME StorageInv, NEW p \in Members, storage_guild_storageopen(p) PROVE StorageInv'
<1> DEFINE m == member[p].at
<1>1. m \in MapServers /\ member[p].guild /\ ~copy[m].open
    BY DEF storage_guild_storageopen, Acts, MayOpen, StorageInv, Types, Member
<1>2. CASE copy[m].here
  <2>1. copy' = [copy EXCEPT ![m].open = TRUE] /\ member' = [member EXCEPT ![p].flag = 2] /\ UNCHANGED toInter
      BY <1>2 DEF storage_guild_storageopen
  <2>2. copy' \in [MapServers -> Copy] /\ copy'[m].open /\ copy'[m].here /\ \A n \in MapServers \ {m} : copy'[n] = copy[n]
      BY <1>1, <1>2, <2>1 DEF StorageInv, Types, Copy
  <2>3. member' \in [Members -> Member]
    <3>1. [member[p] EXCEPT !.flag = 2] \in Member
        BY OpensType DEF StorageInv, Types
    <3>2. member' = [member EXCEPT ![p] = [member[p] EXCEPT !.flag = 2]]
        BY <2>1 DEF StorageInv, Types
    <3> QED BY <3>1, <3>2, MemberType
  <2>4. Opened'
      BY <1>1, <2>1, <2>2, OpensOpened DEF storage_guild_storageopen, ends
  <2> QED BY <2>1, <2>2, <2>3, <2>4 DEF storage_guild_storageopen, ends, charSide, StorageInv, Types
<1>3. CASE ~copy[m].here
  <2>1. Send(m, <<[t |-> "load", p |-> p]>>) /\ UNCHANGED <<copy, member>>
      BY <1>3 DEF storage_guild_storageopen
  <2>2. <<[t |-> "load", p |-> p]>> \in Seq(ToPacket)
      BY DEF ToPacket
  <2>3. toInter' \in [MapServers -> Seq(ToPacket)]
      BY <1>1, <2>1, <2>2, SendType DEF StorageInv
  <2>4. Opened'
      BY <2>1 DEF storage_guild_storageopen, ends, StorageInv, Opened, UsersOpen, OneUser, NotLeftOpen, Uses
  <2> QED BY <2>1, <2>3, <2>4 DEF storage_guild_storageopen, ends, charSide, StorageInv, Types
<1> QED BY <1>2, <1>3

LEMMA MoveOwnInv == ASSUME StorageInv, NEW p \in Members, NEW x \in Goods, MoveOwn(p, x) PROVE StorageInv'
<1>1. carried' \in [Members -> SUBSET Goods] /\ own' \in [Members -> SUBSET Goods]
  <2>1. carried \in [Members -> SUBSET Goods] /\ own \in [Members -> SUBSET Goods]
      BY DEF StorageInv, Types
  <2>2. /\ carried[p] \ {x} \in SUBSET Goods /\ carried[p] \cup {x} \in SUBSET Goods
        /\ own[p] \ {x} \in SUBSET Goods /\ own[p] \cup {x} \in SUBSET Goods
      BY <2>1
  <2>3. CASE /\ carried' = [carried EXCEPT ![p] = carried[p] \ {x}]
             /\ own' = [own EXCEPT ![p] = own[p] \cup {x}]
      BY <2>1, <2>2, <2>3
  <2>4. CASE /\ carried' = [carried EXCEPT ![p] = carried[p] \cup {x}]
             /\ own' = [own EXCEPT ![p] = own[p] \ {x}]
      BY <2>1, <2>2, <2>4
  <2> QED BY <2>1, <2>3, <2>4 DEF MoveOwn
<1>2. Opened'
    BY DEF MoveOwn, linkVars, StorageInv, Opened, UsersOpen, OneUser, NotLeftOpen, Uses
<1> QED BY <1>1, <1>2 DEF MoveOwn, linkVars, charSide, StorageInv, Types

(* Goods go in or out of the copy on p's map server: who uses it stays. *)
LEMMA MoveGuildInv ==
    ASSUME StorageInv, NEW p \in Members, member[p].at \in MapServers, NEW items \in Contents,
           copy' = [copy EXCEPT ![member[p].at].items = items, ![member[p].at].dirty = TRUE],
           carried' \in [Members -> SUBSET Goods], UNCHANGED <<linkVars, known, member, own, charSide>>
    PROVE  StorageInv'
<1>1. copy' \in [MapServers -> Copy]
    BY DEF StorageInv, Types, Copy
<1>2. \A n \in MapServers : copy'[n].open = copy[n].open /\ copy'[n].here = copy[n].here
    BY DEF StorageInv, Types, Copy
<1>3. Opened'
    BY <1>2, ZenonT(40) DEF linkVars, StorageInv, Opened, UsersOpen, OneUser, NotLeftOpen, Uses
<1> QED BY <1>1, <1>3 DEF linkVars, charSide, StorageInv, Types

LEMMA PutGuildInv ==
    ASSUME StorageInv, NEW p \in Members, NEW x \in Goods,
           storage_guild_storageadd(p, x) \/ storage_guild_storageget(p, x)
    PROVE  StorageInv'
<1> DEFINE m == member[p].at
<1>1. m \in MapServers
    BY DEF storage_guild_storageadd, storage_guild_storageget, Acts, StorageInv, Types, Member
<1>2. copy[m].items \in Contents
    BY <1>1 DEF StorageInv, Types, Copy
<1>3. CASE storage_guild_storageadd(p, x)
  <2>1. copy[m].items \cup {x} \in Contents
      BY <1>2, <1>3, PutContents DEF storage_guild_storageadd
  <2>2. copy' = [copy EXCEPT ![m].items = copy[m].items \cup {x}, ![m].dirty = TRUE]
      BY <1>1, <1>3 DEF storage_guild_storageadd, StorageInv, Types
  <2>3. carried' \in [Members -> SUBSET Goods]
      BY <1>3 DEF storage_guild_storageadd, StorageInv, Types
  <2> QED BY <1>1, <1>3, <2>1, <2>2, <2>3, MoveGuildInv DEF storage_guild_storageadd
<1>4. CASE storage_guild_storageget(p, x)
  <2>1. copy[m].items \ {x} \in Contents
      BY <1>2, TakeContents
  <2>2. copy' = [copy EXCEPT ![m].items = copy[m].items \ {x}, ![m].dirty = TRUE]
      BY <1>1, <1>4 DEF storage_guild_storageget, StorageInv, Types
  <2>3. carried' \in [Members -> SUBSET Goods]
      BY <1>4 DEF storage_guild_storageget, StorageInv, Types
  <2> QED BY <1>1, <1>4, <2>1, <2>2, <2>3, MoveGuildInv DEF storage_guild_storageget
<1> QED BY <1>3, <1>4

(* The ways of closing differ in what the member does besides. *)
LEMMA ClosingInv ==
    ASSUME StorageInv, NEW p \in Members, NEW m \in MapServers, member[p].at = m,
           Send(m, SavedByClosing(p, m)),
           copy' = IF Uses(p) THEN Closed(m) ELSE copy,
           NEW new \in Member, new.flag # 2, member' = [member EXCEPT ![p] = new],
           UNCHANGED <<fromInter, ends, known, carried, own, charSide>>
    PROVE  StorageInv'
<1>1. member' \in [Members -> Member] /\ ~Uses(p)' /\ \A q \in Members \ {p} : member'[q] = member[q]
    BY DEF StorageInv, Types, Uses
<1>2. copy' \in [MapServers -> Copy]
    BY ClosedType DEF StorageInv, Types
<1>3. toInter' \in [MapServers -> Seq(ToPacket)]
    BY SendType, SavedType DEF StorageInv
<1>4. Opened'
    BY <1>1, ClosesOpened DEF ends
<1> QED BY <1>1, <1>2, <1>3, <1>4 DEF ends, charSide, StorageInv, Types

LEMMA CloseKafraInv == ASSUME StorageInv, NEW p \in Members, clif_parse_CloseKafra(p) PROVE StorageInv'
<1> DEFINE new == [member[p] EXCEPT !.flag = 0]
<1>1. member[p].at \in MapServers
    BY DEF clif_parse_CloseKafra, Acts, StorageInv, Types, Member
<1>2. member[p] \in Member
    BY DEF StorageInv, Types
<1>3. new \in Member /\ new.flag # 2
    BY <1>2 DEF Member
<1>4. member' = [member EXCEPT ![p] = new]
    BY DEF clif_parse_CloseKafra, StorageInv, Types
<1> HIDE DEF new
<1> QED BY <1>1, <1>3, <1>4, ClosingInv DEF clif_parse_CloseKafra, Uses

LEMMA WarpInv == ASSUME StorageInv, NEW p \in Members, unit_remove_map_pc(p) PROVE StorageInv'
<1> DEFINE new == [member[p] EXCEPT !.flag = 0, !.onMap = FALSE]
<1>1. member[p].at \in MapServers
    BY DEF unit_remove_map_pc, Acts, StorageInv, Types, Member
<1>2. member[p] \in Member
    BY DEF StorageInv, Types
<1>3. new \in Member /\ new.flag # 2
    BY <1>2, WarpsType
<1>4. member' = [member EXCEPT ![p] = new]
    BY DEF unit_remove_map_pc, StorageInv, Types
<1> HIDE DEF new
<1> QED BY <1>1, <1>3, <1>4, ClosingInv DEF unit_remove_map_pc, Uses

LEMMA WithdrawInv == ASSUME StorageInv, NEW p \in Members, member_leaves_guild(p) PROVE StorageInv'
<1>1. member[p].at \in MapServers
    BY DEF member_leaves_guild, StorageInv, Types, Member
<1>2. member[p] \in Member
    BY DEF StorageInv, Types
<1>3. PICK new \in Member :
        /\ new.flag # 2
        /\ new = [member[p] EXCEPT !.guild = FALSE, !.flag = IF member[p].flag = 2 THEN 0 ELSE member[p].flag]
    BY <1>2, LeavesType, Zenon
<1>4. member' = [member EXCEPT ![p] = new]
    BY <1>3 DEF member_leaves_guild, StorageInv, Types
<1>5. new \in Member /\ new.flag # 2
    BY <1>3
<1> QED BY <1>1, <1>4, <1>5, ClosingInv DEF member_leaves_guild, Uses

(* Quitting is the one way that may leave the storage open, while the char server is lost. *)
LEMMA QuitInv == ASSUME StorageInv, NEW p \in Members, map_quit(p) PROVE StorageInv'
<1> DEFINE m == member[p].at
           new == [at |-> Nowhere, onMap |-> FALSE, flag |-> 0, guild |-> member[p].guild]
<1>1. m \in MapServers
    BY DEF map_quit, StorageInv, Types, Member
<1>2. new \in Member /\ new.flag # 2 /\ member' = [member EXCEPT ![p] = new]
    BY DEF map_quit, StorageInv, Types, Member
<1> HIDE DEF new
<1>3. CASE QuitCloses(p, m) \/ ~Uses(p)
    BY <1>1, <1>2, <1>3, ClosingInv DEF map_quit, QuitCloses, Uses
<1>4. CASE ~QuitCloses(p, m) /\ Uses(p)
  <2>1. copy' = copy /\ ~joined[m]
      BY <1>4 DEF map_quit, QuitCloses, Uses
  <2>2. cuts # 0
      BY <1>1, <2>1 DEF StorageInv, Opened, NotLeftOpen
  <2>3. member' \in [Members -> Member] /\ ~Uses(p)' /\ \A q \in Members \ {p} : member'[q] = member[q]
      BY <1>2 DEF StorageInv, Types, Uses
  <2>4. Opened'
      BY <2>1, <2>2, <2>3 DEF map_quit, ends, StorageInv, Opened, UsersOpen, OneUser, NotLeftOpen, Uses
  <2>5. toInter' \in [MapServers -> Seq(ToPacket)]
      BY <1>1, SendType, SavedType DEF map_quit, StorageInv
  <2> QED BY <2>1, <2>3, <2>4, <2>5 DEF map_quit, ends, charSide, StorageInv, Types
<1> QED BY <1>3, <1>4

LEMMA AutosaveInv == ASSUME StorageInv, NEW p \in Members, autosave(p) PROVE StorageInv'
<1>1. member[p].at \in MapServers
    BY DEF autosave, StorageInv, Types, Member
<1>2. toInter' \in [MapServers -> Seq(ToPacket)]
    BY <1>1, SendType, SavedType DEF autosave, StorageInv
<1>3. Opened'
    BY DEF autosave, ends, storageVars, StorageInv, Opened, UsersOpen, OneUser, NotLeftOpen, Uses
<1> QED BY <1>2, <1>3 DEF autosave, ends, storageVars, StorageInv, Types

(* A member who does not use the storage changes in anything but that, or one keeps place and guild. *)
LEMMA KeepsInv ==
    ASSUME StorageInv, NEW p \in Members, NEW new \in Member, member' = [member EXCEPT ![p] = new],
           new.flag = member[p].flag, Uses(p) => new.at = member[p].at /\ new.guild,
           UNCHANGED <<linkVars, copy, known, carried, own, charSide>>
    PROVE  StorageInv'
<1>1. member' \in [Members -> Member] /\ member'[p] = new /\ \A q \in Members \ {p} : member'[q] = member[q]
    BY MemberType
<1>2. \A q \in Members : Uses(q)' = Uses(q) /\ (Uses(q) => member'[q].at = member[q].at /\ member'[q].guild)
    BY <1>1 DEF Uses, StorageInv, Opened, UsersOpen
<1>3. Opened'
    BY <1>2, SameOpened DEF linkVars, StorageInv, Types
<1> QED BY <1>1, <1>3 DEF linkVars, charSide, StorageInv, Types

LEMMA ComesInv ==
    ASSUME StorageInv, NEW p \in Members,
           LoadEndAck(p) \/ (\E m \in StorageServers : pc_authok(p, m)) \/ member_joins_guild(p)
    PROVE  StorageInv'
<1>1. member[p] \in Member /\ (Uses(p) => member[p].at # Nowhere /\ member[p].guild)
    BY NowhereAssumption DEF StorageInv, Types, Opened, UsersOpen
<1>2. CASE LoadEndAck(p)
  <2> DEFINE new == [member[p] EXCEPT !.onMap = TRUE]
  <2>1. new \in Member /\ new.flag = member[p].flag /\ new.at = member[p].at /\ new.guild = member[p].guild
      BY <1>1, FieldType DEF Member
  <2>2. member' = [member EXCEPT ![p] = new]
      BY <1>2 DEF LoadEndAck, StorageInv, Types
  <2> HIDE DEF new
  <2> QED BY <1>1, <1>2, <2>1, <2>2, KeepsInv DEF LoadEndAck
<1>3. ASSUME NEW m \in StorageServers, pc_authok(p, m) PROVE StorageInv'
  <2> DEFINE new == [member[p] EXCEPT !.at = m, !.guild = @ /\ exists]
  <2>1. new \in Member /\ new.flag = member[p].flag
    <3>1. m \in MapServers \cup {Nowhere} /\ (member[p].guild /\ exists) \in BOOLEAN
        BY NowhereAssumption
    <3> QED BY <1>1, <3>1, FieldType DEF Member
  <2>2. member' = [member EXCEPT ![p] = new]
      BY <1>3 DEF pc_authok, StorageInv, Types
  <2>3. ~Uses(p)
      BY <1>1, <1>3 DEF pc_authok
  <2> HIDE DEF new
  <2> QED BY <1>3, <2>1, <2>2, <2>3, KeepsInv DEF pc_authok
<1>4. CASE member_joins_guild(p)
  <2> DEFINE new == [member[p] EXCEPT !.guild = TRUE]
  <2>1. new \in Member /\ new.flag = member[p].flag /\ new.at = member[p].at /\ new.guild
      BY <1>1, FieldType DEF Member
  <2>2. member' = [member EXCEPT ![p] = new]
      BY <1>4 DEF member_joins_guild, StorageInv, Types
  <2> HIDE DEF new
  <2> QED BY <1>1, <1>4, <2>1, <2>2, KeepsInv DEF member_joins_guild
<1> QED BY <1>2, <1>3, <1>4

----------------------------------------------------------------------------
(* The connection. *)

LEMMA LoadedInv ==
    ASSUME StorageInv, NEW m \in MapServers, NEW p \in Members, NEW items \in Contents,
           intif_parse_LoadGuildStorage(m, p, items), fromInter' \in [MapServers -> Seq(FromPacket)],
           UNCHANGED <<toInter, ends, known, carried, own, charSide>>
    PROVE  StorageInv'
<1> DEFINE opens == member[p].guild /\ member[p].flag = 0
<1>0. member[p] \in Member /\ opens \in BOOLEAN
    BY DEF StorageInv, Types, Member
<1>1. CASE On(p, m) /\ known[m] /\ Acceptable(m)
  <2>1. /\ copy' = [copy EXCEPT ![m] = [here |-> TRUE, items |-> items, open |-> opens, dirty |-> FALSE]]
        /\ member' = [member EXCEPT ![p].flag = IF opens THEN 2 ELSE @]
      BY <1>1, SMTT(30) DEF intif_parse_LoadGuildStorage, Loaded
  <2>2. ~copy[m].open /\ member[p].at = m
      BY <1>1 DEF Acceptable, On
  <2> HIDE DEF opens
  <2>3. [here |-> TRUE, items |-> items, open |-> opens, dirty |-> FALSE] \in Copy
      BY <1>0 DEF Copy
  <2>4. /\ copy' \in [MapServers -> Copy]
        /\ copy'[m] = [here |-> TRUE, items |-> items, open |-> opens, dirty |-> FALSE]
        /\ \A n \in MapServers \ {m} : copy'[n] = copy[n]
      BY <2>1, <2>3 DEF StorageInv, Types
  <2>5. CASE opens
    <3>1. member' = [member EXCEPT ![p].flag = 2] /\ member[p].guild
        BY <2>1, <2>5 DEF opens
    <3>2. copy'[m].here /\ copy'[m].open
        BY <2>4, <2>5
    <3>3. Opened'
        BY <2>2, <2>4, <3>1, <3>2, OpensOpened DEF ends
    <3>4. member' \in [Members -> Member]
      <4>1. [member[p] EXCEPT !.flag = 2] \in Member
          BY <1>0, OpensType
      <4>2. member' = [member EXCEPT ![p] = [member[p] EXCEPT !.flag = 2]]
          BY <3>1 DEF StorageInv, Types
      <4> QED BY <4>1, <4>2, MemberType
    <3> QED BY <2>4, <3>3, <3>4 DEF ends, charSide, StorageInv, Types
  <2>6. CASE ~opens
    <3>1. member' = member
      <4>1. member' = [member EXCEPT ![p] = [member[p] EXCEPT !.flag = member[p].flag]]
          BY <2>1, <2>6 DEF StorageInv, Types
      <4>2. [member[p] EXCEPT !.flag = member[p].flag] = member[p]
          BY <1>0 DEF Member
      <4> QED BY <4>1, <4>2 DEF StorageInv, Types
    <3>2. \A n \in MapServers : copy'[n].open = copy[n].open /\ (copy[n].here => copy'[n].here)
      <4>1. copy'[m].open = FALSE /\ copy'[m].here /\ copy[m].open = FALSE
          BY <2>2, <2>4, <2>6 DEF StorageInv, Types, Copy
      <4> QED BY <2>4, <4>1
    <3>3. Opened'
        BY <3>1, <3>2 DEF ends, StorageInv, Opened, UsersOpen, OneUser, NotLeftOpen, Uses
    <3> QED BY <2>4, <3>1, <3>3 DEF ends, charSide, StorageInv, Types
  <2> QED BY <2>5, <2>6
<1>2. CASE ~(On(p, m) /\ known[m] /\ Acceptable(m))
  <2>1. copy' = [copy EXCEPT ![m].here = @ \/ (On(p, m) /\ known[m])] /\ member' = member
      BY <1>2 DEF intif_parse_LoadGuildStorage
  <2>2. (On(p, m) /\ known[m]) \in BOOLEAN
      BY DEF On, StorageInv, Types
  <2>3. copy' \in [MapServers -> Copy]
      BY <2>1, <2>2, ZenonT(40) DEF StorageInv, Types, Copy
  <2>4. \A n \in MapServers : copy'[n].open = copy[n].open /\ (copy[n].here => copy'[n].here)
      BY <2>1, <2>2 DEF StorageInv, Types, Copy
  <2>5. Opened'
      BY <2>1, <2>4 DEF ends, StorageInv, Opened, UsersOpen, OneUser, NotLeftOpen, Uses
  <2> QED BY <2>1, <2>3, <2>5 DEF ends, charSide, StorageInv, Types
<1> QED BY <1>1, <1>2

LEMMA SavedInv ==
    ASSUME StorageInv, NEW m \in MapServers, storage_guild_storagesaved(m), UNCHANGED <<known, member>>,
           fromInter' \in [MapServers -> Seq(FromPacket)], UNCHANGED <<toInter, ends, carried, own, charSide>>
    PROVE  StorageInv'
<1>1. copy' \in [MapServers -> Copy]
    BY ZenonT(40) DEF storage_guild_storagesaved, StorageInv, Types, Copy
<1>2. \A n \in MapServers : copy'[n].open = copy[n].open /\ copy'[n].here = copy[n].here
    BY DEF storage_guild_storagesaved, StorageInv, Types, Copy
<1>3. Opened'
    BY <1>2 DEF ends, StorageInv, Opened, UsersOpen, OneUser, NotLeftOpen, Uses
<1> QED BY <1>1, <1>3 DEF ends, charSide, StorageInv, Types

(* Who uses the storage is in the guild, so breaking it up closes the storage for good. *)
LEMMA BrokenInv ==
    ASSUME StorageInv, NEW m \in MapServers, storage_of_broken(m),
           fromInter' \in [MapServers -> Seq(FromPacket)], UNCHANGED <<toInter, ends, carried, own, charSide>>
    PROVE  StorageInv'
<1>1. known' \in [MapServers -> BOOLEAN]
    BY DEF storage_of_broken, StorageInv, Types
<1>2. NoCopy \in Copy /\ ~NoCopy.open
    BY EmptyContents DEF NoCopy, Copy
<1>3. /\ copy' \in [MapServers -> Copy] /\ ~copy'[m].open
      /\ \A n \in MapServers \ {m} : copy'[n] = copy[n]
    BY <1>2 DEF storage_of_broken, StorageInv, Types
<1>4. \A q \in Members :
        /\ member'[q] \in Member
        /\ IF member[q].at = m /\ member[q].guild THEN member'[q].flag # 2 ELSE member'[q] = member[q]
  <2> SUFFICES ASSUME NEW q \in Members
               PROVE  /\ member'[q] \in Member
                      /\ IF member[q].at = m /\ member[q].guild THEN member'[q].flag # 2 ELSE member'[q] = member[q]
      OBVIOUS
  <2>1. member[q] \in Member
      BY DEF StorageInv, Types
  <2>2. CASE member[q].at = m /\ member[q].guild
    <3>1. member'[q] = [member[q] EXCEPT !.guild = FALSE, !.flag = IF member[q].flag = 2 THEN 0 ELSE member[q].flag]
        BY <2>2 DEF storage_of_broken, On
    <3>2. PICK new \in Member :
            /\ new.flag # 2
            /\ new = [member[q] EXCEPT !.guild = FALSE, !.flag = IF member[q].flag = 2 THEN 0 ELSE member[q].flag]
        BY <2>1, LeavesType, Zenon
    <3> QED BY <2>2, <3>1, <3>2
  <2>3. CASE ~(member[q].at = m /\ member[q].guild)
      BY <2>1, <2>3 DEF storage_of_broken, On
  <2> QED BY <2>2, <2>3
<1>5. member' \in [Members -> Member]
    BY <1>4 DEF storage_of_broken
<1>6. \A q \in Members : Uses(q)' => Uses(q) /\ member[q].at # m /\ member'[q] = member[q]
    BY <1>4 DEF Uses, StorageInv, Opened, UsersOpen
<1>7. \A q \in Members : Uses(q) /\ member[q].at # m => member'[q] = member[q] /\ Uses(q)'
    BY <1>4 DEF Uses
<1>8. UsersOpen'
    BY <1>3, <1>6 DEF StorageInv, Opened, UsersOpen
<1>9. OneUser'
    BY <1>6 DEF StorageInv, Opened, OneUser
<1>10. NotLeftOpen'
    BY <1>3, <1>7, ZenonT(40) DEF ends, StorageInv, Opened, NotLeftOpen
<1> QED BY <1>1, <1>3, <1>5, <1>8, <1>9, <1>10 DEF Opened, ends, charSide, StorageInv, Types

LEMMA ParseInv == ASSUME StorageInv, NEW m \in MapServers, intif_parse(m) PROVE StorageInv'
<1> DEFINE msg == Head(fromInter[m])
<1>1. fromInter[m] \in Seq(FromPacket) /\ fromInter[m] # <<>>
    BY DEF intif_parse, StorageInv, Types
<1>2. msg \in FromPacket /\ Tail(fromInter[m]) \in Seq(FromPacket)
    BY <1>1
<1>3. fromInter' \in [MapServers -> Seq(FromPacket)]
    BY <1>2 DEF intif_parse, TakenBy, StorageInv, Types
<1>4. CASE msg.t = "loaded" /\ intif_parse_LoadGuildStorage(m, msg.p, msg.items) /\ UNCHANGED known
  <2>1. msg.p \in Members /\ msg.items \in Contents
      BY <1>2, <1>4 DEF FromPacket
  <2> QED BY <1>3, <1>4, <2>1, LoadedInv DEF intif_parse
<1>5. CASE msg.t = "saved" /\ storage_guild_storagesaved(m) /\ UNCHANGED <<known, member>>
    BY <1>3, <1>5, SavedInv DEF intif_parse
<1>6. CASE msg.t = "broken" /\ storage_of_broken(m)
    BY <1>3, <1>6, BrokenInv DEF intif_parse
<1> QED BY <1>4, <1>5, <1>6 DEF intif_parse

LEMMA InterInv == ASSUME StorageInv, NEW m \in MapServers, inter_storage_parse_frommap(m) PROVE StorageInv'
<1> DEFINE msg == Head(toInter[m])
<1>1. toInter[m] \in Seq(ToPacket) /\ toInter[m] # <<>>
    BY DEF inter_storage_parse_frommap, StorageInv, Types
<1>2. msg \in ToPacket /\ Tail(toInter[m]) \in Seq(ToPacket)
    BY <1>1
<1>3. toInter' \in [MapServers -> Seq(ToPacket)]
    BY <1>2 DEF inter_storage_parse_frommap, TakenFrom, StorageInv, Types
<1>4. fromInter' \in [MapServers -> Seq(FromPacket)] /\ stored' \in Contents
  <2>1. CASE msg.t = "load"
    <3> DEFINE reply == IF exists THEN <<[t |-> "loaded", p |-> msg.p, items |-> stored]>> ELSE <<>>
    <3>1. msg.p \in Members /\ stored \in Contents
        BY <1>2, <2>1 DEF ToPacket, StorageInv, Types
    <3>2. [t |-> "loaded", p |-> msg.p, items |-> stored] \in FromPacket
        BY <3>1 DEF FromPacket
    <3>3. reply \in Seq(FromPacket)
        BY <3>2
    <3>4. Reply(m, reply) /\ stored' = stored
        BY <2>1 DEF inter_storage_parse_frommap
    <3> QED BY <3>1, <3>3, <3>4, ReplyType DEF StorageInv
  <2>2. CASE msg.t = "save"
    <3>1. msg.items \in Contents /\ stored \in Contents
        BY <1>2, <2>2 DEF ToPacket, StorageInv, Types
    <3>2. <<[t |-> "saved"]>> \in Seq(FromPacket)
        BY DEF FromPacket
    <3>3. Reply(m, <<[t |-> "saved"]>>) /\ stored' = IF exists THEN msg.items ELSE stored
        BY <2>2 DEF inter_storage_parse_frommap
    <3> QED BY <3>1, <3>2, <3>3, ReplyType DEF StorageInv
  <2> QED BY <2>1, <2>2 DEF inter_storage_parse_frommap
<1>5. Opened'
    BY DEF inter_storage_parse_frommap, ends, StorageInv, Opened, UsersOpen, OneUser, NotLeftOpen, Uses
<1> QED BY <1>3, <1>4, <1>5 DEF inter_storage_parse_frommap, ends, StorageInv, Types

LEMMA BreakInv == ASSUME StorageInv, mapif_parse_BreakGuild PROVE StorageInv'
<1>1. <<[t |-> "broken"]>> \in Seq(FromPacket)
    BY DEF FromPacket
<1>2. fromInter' \in [MapServers -> Seq(FromPacket)]
    BY <1>1 DEF mapif_parse_BreakGuild, ToAll, StorageInv, Types
<1>3. Opened'
    BY DEF mapif_parse_BreakGuild, ends, StorageInv, Opened, UsersOpen, OneUser, NotLeftOpen, Uses
<1> QED BY <1>2, <1>3, EmptyContents DEF mapif_parse_BreakGuild, ends, StorageInv, Types

(* The connection fails, the map server notices, and it connects again. *)
LEMMA CutInv == ASSUME StorageInv, NEW m \in MapServers, CutWire(m), UNCHANGED storageVars PROVE StorageInv'
<1>1. /\ toInter' \in [MapServers -> Seq(ToPacket)] /\ fromInter' \in [MapServers -> Seq(FromPacket)]
      /\ wire' \in [MapServers -> BOOLEAN] /\ cuts' \in Nat /\ cuts' # 0
    BY DEF CutWire, StorageInv, Types
<1>2. Opened'
    BY <1>1 DEF storageVars, StorageInv, Opened, UsersOpen, OneUser, NotLeftOpen, Uses
<1> QED BY <1>1, <1>2 DEF CutWire, storageVars, StorageInv, Types

LEMMA LostInv == ASSUME StorageInv, NEW m \in MapServers, LinkLost(m), UNCHANGED storageVars PROVE StorageInv'
<1>1. cuts # 0 /\ cuts' = cuts
    BY DEF LinkLost, StorageInv, Opened, NotLeftOpen
<1>2. Opened'
    BY <1>1 DEF storageVars, StorageInv, Opened, UsersOpen, OneUser, NotLeftOpen, Uses
<1> QED BY <1>2 DEF LinkLost, pipes, storageVars, StorageInv, Types

LEMMA ReconnectInv == ASSUME StorageInv, NEW m \in MapServers, do_reconnect_storage(m) PROVE StorageInv'
<1> DEFINE msgs == IF copy[m].open THEN <<>> ELSE SaveOf(m)
<1>1. msgs \in Seq(ToPacket)
    BY SaveType DEF StorageInv
<1>2. LinkReady(m, msgs) /\ UNCHANGED storageVars
    BY DEF do_reconnect_storage
<1> HIDE DEF msgs
<1>3. cuts # 0 /\ cuts' = cuts
    BY <1>2 DEF LinkReady, StorageInv, Opened, NotLeftOpen
<1>4. Opened'
    BY <1>2, <1>3 DEF storageVars, StorageInv, Opened, UsersOpen, OneUser, NotLeftOpen, Uses
<1> QED BY <1>1, <1>2, <1>4 DEF LinkReady, storageVars, StorageInv, Types

----------------------------------------------------------------------------
LEMMA InitInv == StorageInit => StorageInv
<1> SUFFICES ASSUME StorageInit PROVE StorageInv
    OBVIOUS
<1>1. NoCopy \in Copy /\ ~NoCopy.open
    BY EmptyContents DEF NoCopy, Copy
<1>2. copy \in [MapServers -> Copy] /\ \A m \in MapServers : ~copy[m].open
    BY <1>1 DEF StorageInit
<1>3. member \in [Members -> Member] /\ \A p \in Members : ~Uses(p)
  <2> DEFINE Start == [at : StorageServers, onMap : {TRUE}, flag : {0}, guild : {TRUE}]
  <2>1. \A new \in Start : new \in Member /\ new.flag # 2
    <3> SUFFICES ASSUME NEW new \in Start PROVE new \in Member /\ new.flag # 2
        OBVIOUS
    <3>1. new.at \in StorageServers /\ new = [at |-> new.at, onMap |-> TRUE, flag |-> 0, guild |-> TRUE]
        OBVIOUS
    <3>2. new.at \in MapServers \cup {Nowhere} /\ TRUE \in BOOLEAN /\ 0 \in 0 .. 2
        BY <3>1, NowhereAssumption
    <3>3. new \in Member /\ new.flag = 0
        BY <3>1, <3>2, RecordType, Zenon
    <3> QED BY <3>3
  <2>2. member \in [Members -> Start]
      BY DEF StorageInit
  <2> HIDE DEF Start
  <2>3. \A p \in Members : member[p] \in Start
      BY <2>2
  <2> QED BY <2>1, <2>2, <2>3 DEF Uses
<1>4. carried \in [Members -> SUBSET Goods] /\ own \in [Members -> SUBSET Goods]
    BY DEF StorageInit
<1>5. /\ toInter \in [MapServers -> Seq(ToPacket)] /\ fromInter \in [MapServers -> Seq(FromPacket)]
      /\ wire \in [MapServers -> BOOLEAN] /\ joined \in [MapServers -> BOOLEAN] /\ cuts \in Nat
      /\ \A m \in MapServers : wire[m] /\ joined[m]
    BY DEF StorageInit, LinkInit
<1>6. Opened
    BY <1>2, <1>3, <1>5 DEF Opened, UsersOpen, OneUser, NotLeftOpen
<1> QED BY <1>2, <1>3, <1>4, <1>5, <1>6, EmptyContents DEF StorageInit, StorageInv, Types

LEMMA StepInv == StorageInv /\ [StorageNext]_<<linkVars, storageVars>> => StorageInv'
<1> SUFFICES ASSUME StorageInv, [StorageNext]_<<linkVars, storageVars>> PROVE StorageInv'
    OBVIOUS
<1>1. ASSUME NEW p \in Members, StorageUser(p) PROVE StorageInv'
    BY <1>1, OpenOwnInv, OpenGuildInv, MoveOwnInv, PutGuildInv, CloseKafraInv, AutosaveInv, WarpInv,
       QuitInv, ComesInv, WithdrawInv, Zenon DEF StorageUser
<1>2. ASSUME NEW m \in StorageServers, StorageLink(m) \/ (CutWire(m) /\ UNCHANGED storageVars) PROVE StorageInv'
  <2>1. m \in MapServers
      BY NowhereAssumption
  <2> QED BY <1>2, <2>1, ParseInv, InterInv, LostInv, ReconnectInv, CutInv, Zenon DEF StorageLink
<1>3. CASE mapif_parse_BreakGuild
    BY <1>3, BreakInv
<1>4. CASE UNCHANGED <<linkVars, storageVars>>
    BY <1>4 DEF linkVars, storageVars, StorageInv, Types, Opened, UsersOpen, OneUser, NotLeftOpen, Uses
<1> QED BY <1>1, <1>2, <1>3, <1>4, Zenon DEF StorageNext

(* The types and the relation between sessions and copies, for every instance. *)
THEOREM StorageInvariant == StorageSpec => []StorageInv
BY InitInv, StepInv, PTL DEF StorageSpec

LEMMA AtMostOne ==
    ASSUME NEW S, \A a, b \in S : a = b
    PROVE  Cardinality(S) <= 1
<1>1. CASE S = {}
    BY <1>1, FS_EmptySet
<1>2. CASE S # {}
  <2>1. PICK a \in S : TRUE
      BY <1>2
  <2>2. S = {a}
      BY <2>1
  <2> QED BY <2>2, FS_Singleton
<1> QED BY <1>1, <1>2

(* On each map server one member at most has the guild storage open, the copy there says so, and
   while no connection failed it says so only then. *)
THEOREM OpenedByOneMember == StorageSpec => []StorageOpenedByOne
<1>1. StorageInv => StorageOpenedByOne
  <2> SUFFICES ASSUME StorageInv, NEW m \in MapServers
               PROVE  LET users == {p \in Members : On(p, m) /\ member[p].flag = 2} IN
                      /\ Cardinality(users) <= 1
                      /\ users # {} => copy[m].here /\ copy[m].open
                      /\ copy[m].open /\ cuts = 0 => users # {}
      BY DEF StorageOpenedByOne
  <2> DEFINE users == {p \in Members : On(p, m) /\ member[p].flag = 2}
  <2>1. \A a, b \in users : a = b
      BY DEF On, Uses, StorageInv, Opened, OneUser
  <2>2. users # {} => copy[m].here /\ copy[m].open
      BY DEF On, Uses, StorageInv, Opened, UsersOpen
  <2>3. copy[m].open /\ cuts = 0 => users # {}
      BY DEF On, Uses, StorageInv, Opened, NotLeftOpen
  <2> HIDE DEF users
  <2>4. Cardinality(users) <= 1
      BY <2>1, AtMostOne
  <2> QED BY <2>2, <2>3, <2>4 DEF users
<1> QED BY <1>1, StorageInvariant, PTL

(* No copy and no packet ever holds more than MAX_GUILD_STORAGE, whatever answers replace a copy. *)
THEOREM StorageNeverOverfull == StorageSpec => [](\A m \in MapServers : Cardinality(copy[m].items) <= MaxGuildStorage)
<1>1. StorageInv => \A m \in MapServers : Cardinality(copy[m].items) <= MaxGuildStorage
    BY DEF StorageInv, Types, Copy, Contents
<1> QED BY <1>1, StorageInvariant, PTL

----------------------------------------------------------------------------
(* One map server, m: where the goods are.  An answer that is on the way replaces the copy if it
   is accepted (Acceptable), so it must hold what the copy holds by then: until the map server has
   a copy, what SQL holds; afterwards the goods of the copy, or the copy is dirty and refuses. *)
Fits(m, items) == IF copy[m].here THEN copy[m].dirty \/ items = copy[m].items ELSE items = stored
AnswersFit(m) ==
    /\ \A i \in 1 .. Len(fromInter[m]) : fromInter[m][i].t = "loaded" => Fits(m, fromInter[m][i].items)
    /\ \A i \in 1 .. Len(toInter[m]) : toInter[m][i].t = "load" => Fits(m, stored)

(* Dirty is cleared by acknowledgements: they come behind all the answers. *)
LoadsBeforeSaves(m) ==
    /\ \A i, j \in 1 .. Len(toInter[m]) : i < j /\ toInter[m][i].t = "save" => toInter[m][j].t # "load"
    /\ \A i, j \in 1 .. Len(fromInter[m]) : i < j /\ fromInter[m][i].t = "saved" => fromInter[m][j].t # "loaded"
    /\ \A i \in 1 .. Len(fromInter[m]), j \in 1 .. Len(toInter[m]) :
           fromInter[m][i].t = "saved" => toInter[m][j].t # "load"

NothingToSave(m) ==
    ~copy[m].here =>
        /\ copy[m] = NoCopy
        /\ \A i \in 1 .. Len(toInter[m]) : toInter[m][i].t # "save"
        /\ \A i \in 1 .. Len(fromInter[m]) : fromInter[m][i].t # "saved"

NotBroken(m) == \A i \in 1 .. Len(fromInter[m]) : fromInter[m][i].t # "broken"
CutIsEmpty(m) == (~joined[m] => ~wire[m]) /\ (~wire[m] => toInter[m] = <<>> /\ fromInter[m] = <<>>)
Answers(m) == AnswersFit(m) /\ LoadsBeforeSaves(m) /\ NothingToSave(m) /\ NotBroken(m) /\ CutIsEmpty(m)

Held(m) == IF copy[m].here THEN copy[m].items ELSE stored
Apart(m) ==
    /\ \A p \in Members : carried[p] \cap Held(m) = {} /\ own[p] \cap Held(m) = {}
    /\ \A p, q \in Members : carried[p] \cap own[q] = {}
    /\ \A p, q \in Members : p # q => carried[p] \cap carried[q] = {} /\ own[p] \cap own[q] = {}
    /\ \A x \in Goods : x \in Held(m) \/ \E p \in Members : x \in carried[p] \cup own[p]

OnlyHere(m) ==
    /\ \A p \in Members : member[p].at \in {m, Nowhere}
    /\ \A n \in MapServers \ {m} : copy[n] = NoCopy
GoodsInv(m) == OnlyHere(m) /\ (exists => Answers(m) /\ Apart(m))

(* What a queue is after a packet came in or was taken. *)
LEMMA AppendedAt ==
    ASSUME NEW S, NEW s \in Seq(S), NEW e \in S
    PROVE  /\ Len(s \o <<e>>) = Len(s) + 1 /\ Len(s) \in Nat
           /\ \A i \in 1 .. Len(s) + 1 : (s \o <<e>>)[i] = IF i <= Len(s) THEN s[i] ELSE e
OBVIOUS

LEMMA TakenAt ==
    ASSUME NEW S, NEW s \in Seq(S), s # <<>>
    PROVE  /\ Len(Tail(s)) = Len(s) - 1 /\ Len(s) \in Nat \ {0} /\ Head(s) = s[1]
           /\ \A i \in 1 .. Len(s) - 1 : Tail(s)[i] = s[i + 1]
OBVIOUS

(* Nothing goes to or comes from the char server but a save behind all, and the copy keeps its
   goods or is dirty. *)
SaveSent(m) ==
    \/ toInter'[m] = toInter[m]
    \/ copy[m].here /\ wire[m] /\ \E e \in ToPacket : e.t = "save" /\ toInter'[m] = toInter[m] \o <<e>>

LEMMA AnswersKept ==
    ASSUME StorageInv, NEW m \in MapServers, Answers(m), SaveSent(m), UNCHANGED <<wire, joined, stored>>,
           fromInter'[m] = fromInter[m], copy'[m].here = copy[m].here,
           ~copy[m].here => copy'[m] = copy[m],
           copy'[m].dirty \/ (copy'[m].items = copy[m].items /\ copy'[m].dirty = copy[m].dirty)
    PROVE  Answers(m)'
<1>1. toInter[m] \in Seq(ToPacket) /\ fromInter[m] \in Seq(FromPacket)
    BY DEF StorageInv, Types
<1>2. \A items : Fits(m, items) => Fits(m, items)'
    BY DEF Fits
<1>3. CASE toInter'[m] = toInter[m]
    BY <1>2, <1>3 DEF Answers, AnswersFit, LoadsBeforeSaves, NothingToSave, NotBroken, CutIsEmpty
<1>4. ASSUME copy[m].here, wire[m], NEW e \in ToPacket, e.t = "save", toInter'[m] = toInter[m] \o <<e>>
      PROVE  Answers(m)'
  <2>1. /\ Len(toInter'[m]) = Len(toInter[m]) + 1 /\ Len(toInter[m]) \in Nat
        /\ \A i \in 1 .. Len(toInter[m]) + 1 : toInter'[m][i] = IF i <= Len(toInter[m]) THEN toInter[m][i] ELSE e
      BY <1>1, <1>4, AppendedAt
  <2>2. \A i \in 1 .. Len(toInter'[m]) : toInter'[m][i].t = "load" => i \in 1 .. Len(toInter[m]) /\ toInter'[m][i] = toInter[m][i]
      BY <1>4, <2>1
  <2>3. AnswersFit(m)'
      BY <1>2, <2>2 DEF Answers, AnswersFit
  <2>4. LoadsBeforeSaves(m)'
    <3>1. \A i, j \in 1 .. Len(toInter'[m]) : i < j /\ toInter'[m][i].t = "save" => toInter'[m][j].t # "load"
        BY <2>1, <2>2 DEF Answers, LoadsBeforeSaves
    <3>2. \A i \in 1 .. Len(fromInter[m]), j \in 1 .. Len(toInter'[m]) : fromInter[m][i].t = "saved" => toInter'[m][j].t # "load"
        BY <2>2 DEF Answers, LoadsBeforeSaves
    <3> QED BY <3>1, <3>2 DEF Answers, LoadsBeforeSaves
  <2>5. NothingToSave(m)' /\ NotBroken(m)' /\ CutIsEmpty(m)'
      BY <1>4 DEF Answers, NothingToSave, NotBroken, CutIsEmpty
  <2> QED BY <2>3, <2>4, <2>5 DEF Answers
<1> QED BY <1>3, <1>4 DEF SaveSent

(* Saving sends at most that. *)
LEMMA SavesAreSent ==
    ASSUME StorageInv, NEW m \in MapServers, NEW msgs, Send(m, msgs), msgs \in {<<>>, SaveOf(m)}
    PROVE  SaveSent(m)
<1>1. toInter[m] \in Seq(ToPacket)
    BY DEF StorageInv, Types
<1>2. CASE msgs = <<>> \/ ~(joined[m] /\ wire[m])
    BY <1>1, <1>2 DEF Send, Sent, SaveSent, StorageInv, Types
<1>3. CASE msgs # <<>> /\ joined[m] /\ wire[m]
  <2>1. copy[m].here /\ msgs = <<Save(copy[m].items)>>
      BY <1>3 DEF SaveOf
  <2>2. Save(copy[m].items) \in ToPacket /\ Save(copy[m].items).t = "save"
      BY DEF StorageInv, Types, Copy, Save, ToPacket
  <2>3. toInter'[m] = toInter[m] \o msgs
      BY <1>3 DEF Send, Sent, StorageInv, Types
  <2> QED BY <1>3, <2>1, <2>2, <2>3 DEF SaveSent
<1> QED BY <1>2, <1>3

(* The goods stay where they are. *)
LEMMA GoodsKept ==
    ASSUME NEW m \in MapServers, Apart(m), Held(m)' = Held(m), UNCHANGED <<carried, own>>
    PROVE  Apart(m)'
BY DEF Apart

(* Players' steps that move no goods. *)
LEMMA CalmGoods ==
    ASSUME StorageInv, NEW m \in MapServers, GoodsInv(m), SaveSent(m),
           copy'[m].here = copy[m].here, copy'[m].items = copy[m].items, copy'[m].dirty = copy[m].dirty,
           ~copy[m].here => copy'[m] = copy[m],
           \A n \in MapServers \ {m} : copy'[n] = copy[n],
           \A q \in Members : member'[q].at \in {member[q].at, m, Nowhere},
           UNCHANGED <<fromInter, ends, carried, own, charSide>>
    PROVE  GoodsInv(m)'
<1>1. OnlyHere(m)'
    BY DEF GoodsInv, OnlyHere
<1>2. ASSUME exists PROVE Answers(m)' /\ Apart(m)'
  <2>1. Answers(m)'
      BY <1>2, AnswersKept DEF GoodsInv, ends, charSide
  <2>2. Held(m)' = Held(m)
      BY DEF Held, charSide
  <2> QED BY <1>2, <2>1, <2>2, GoodsKept DEF GoodsInv
<1> QED BY <1>1, <1>2 DEF GoodsInv, charSide

LEMMA ClosedNoCopy == ASSUME NEW old, old = NoCopy PROVE [old EXCEPT !.open = FALSE] = old
<1>1. old \in [here : BOOLEAN, items : SUBSET Goods, open : BOOLEAN, dirty : BOOLEAN] /\ old.open = FALSE
    BY DEF NoCopy
<1> QED BY <1>1

LEMMA ClosingGoods ==
    ASSUME StorageInv, NEW m \in MapServers, GoodsInv(m), exists, SaveSent(m), copy' \in {copy, Closed(m)},
           \A q \in Members : member'[q].at \in {member[q].at, m, Nowhere},
           UNCHANGED <<fromInter, ends, carried, own, charSide>>
    PROVE  GoodsInv(m)'
<1>1. copy[m] \in Copy
    BY DEF StorageInv, Types
<1>2. copy' = [copy EXCEPT ![m] = [copy[m] EXCEPT !.open = FALSE]] \/ copy' = copy
    BY DEF Closed, StorageInv, Types
<1>3. PICK new : new = [copy[m] EXCEPT !.open = FALSE]
    OBVIOUS
<1>4. new.here = copy[m].here /\ new.items = copy[m].items /\ new.dirty = copy[m].dirty
    BY <1>1, <1>3 DEF Copy
<1>5. ~copy[m].here => new = copy[m]
    BY <1>3, ClosedNoCopy DEF GoodsInv, Answers, NothingToSave
<1>6. copy' \in [MapServers -> {new} \cup Copy] /\ (copy'[m] = new \/ copy'[m] = copy[m]) /\ \A n \in MapServers \ {m} : copy'[n] = copy[n]
    BY <1>2, <1>3 DEF StorageInv, Types
<1> QED BY <1>4, <1>5, <1>6, CalmGoods

(* Once the guild is broken up, only the other map servers matter. *)
LEMMA BrokenGoods ==
    ASSUME StorageInv, NEW m \in MapServers, GoodsInv(m), ~exists',
           \A n \in MapServers \ {m} : copy'[n] = copy[n],
           \A q \in Members : member'[q].at \in {member[q].at, m, Nowhere}
    PROVE  GoodsInv(m)'
BY DEF GoodsInv, OnlyHere

----------------------------------------------------------------------------
(* The players' actions. *)

LEMMA ActsHere ==
    ASSUME StorageInv, NEW m \in MapServers, GoodsInv(m), NEW p \in Members, member[p].at # Nowhere
    PROVE  member[p].at = m
BY DEF GoodsInv, OnlyHere

LEMMA SavingSent ==
    ASSUME StorageInv, NEW m \in MapServers, NEW p \in Members,
           Send(m, SavedByClosing(p, m)) \/ Send(m, chrif_saves(p, m))
    PROVE  SaveSent(m)
<1>1. SavedByClosing(p, m) \in {<<>>, SaveOf(m)} /\ chrif_saves(p, m) \in {<<>>, SaveOf(m)}
    BY DEF SavedByClosing, chrif_saves
<1> QED BY <1>1, SavesAreSent

(* A member's record changes in anything but the map server. *)
LEMMA StaysHere ==
    ASSUME StorageInv, NEW m, NEW p \in Members, NEW new, new.at \in {member[p].at, m, Nowhere},
           member' = [member EXCEPT ![p] = new]
    PROVE  \A q \in Members : member'[q].at \in {member[q].at, m, Nowhere}
<1>1. member'[p] = new /\ \A q \in Members \ {p} : member'[q] = member[q]
    BY DEF StorageInv, Types
<1> QED BY <1>1

LEMMA ClosesGoods ==
    ASSUME StorageInv, NEW m \in MapServers, GoodsInv(m), NEW p \in Members,
           \/ clif_parse_CloseKafra(p) \/ unit_remove_map_pc(p) \/ map_quit(p)
           \/ member_leaves_guild(p) \/ autosave(p)
    PROVE  GoodsInv(m)'
<1>1. member[p].at = m /\ member[p] \in Member
    BY ActsHere, NowhereAssumption
       DEF clif_parse_CloseKafra, unit_remove_map_pc, map_quit, member_leaves_guild, autosave, Acts, StorageInv, Types
<1>2. SaveSent(m)
    BY <1>1, SavingSent, Zenon
       DEF clif_parse_CloseKafra, unit_remove_map_pc, map_quit, member_leaves_guild, autosave
<1>3. copy' \in {copy, Closed(m)} /\ UNCHANGED <<fromInter, ends, carried, own, charSide>>
    BY <1>1 DEF clif_parse_CloseKafra, unit_remove_map_pc, map_quit, member_leaves_guild, autosave, storageVars, charSide
<1>4. \A q \in Members : member'[q].at \in {member[q].at, m, Nowhere}
  <2>1. CASE clif_parse_CloseKafra(p)
    <3>1. member' = [member EXCEPT ![p] = [member[p] EXCEPT !.flag = 0]]
        BY <2>1 DEF clif_parse_CloseKafra, StorageInv, Types
    <3>2. [member[p] EXCEPT !.flag = 0].at = member[p].at
        BY <1>1 DEF Member
    <3> QED BY <3>1, <3>2, StaysHere
  <2>2. CASE unit_remove_map_pc(p)
    <3>1. PICK new : new = [member[p] EXCEPT !.flag = 0, !.onMap = FALSE]
        OBVIOUS
    <3>2. member' = [member EXCEPT ![p] = new]
        BY <2>2, <3>1 DEF unit_remove_map_pc, StorageInv, Types
    <3>3. new.at = member[p].at
        BY <1>1, <3>1 DEF Member
    <3> QED BY <3>2, <3>3, StaysHere
  <2>3. CASE map_quit(p)
    <3>1. member' = [member EXCEPT ![p] = [at |-> Nowhere, onMap |-> FALSE, flag |-> 0, guild |-> member[p].guild]]
        BY <2>3 DEF map_quit, StorageInv, Types
    <3> QED BY <3>1, StaysHere
  <2>4. CASE member_leaves_guild(p)
    <3>1. PICK mid : mid = [member[p] EXCEPT !.guild = FALSE]
        OBVIOUS
    <3>2. mid \in Member /\ mid.at = member[p].at
        BY <1>1, <3>1 DEF Member
    <3>3. PICK new : new = [mid EXCEPT !.flag = IF member[p].flag = 2 THEN 0 ELSE member[p].flag]
        OBVIOUS
    <3>4. new.at = mid.at
        BY <3>2, <3>3 DEF Member
    <3>5. new = [member[p] EXCEPT !.guild = FALSE, !.flag = IF member[p].flag = 2 THEN 0 ELSE member[p].flag]
        BY <3>1, <3>3, Zenon
    <3>6. member' = [member EXCEPT ![p] = new]
        BY <2>4, <3>5 DEF member_leaves_guild, StorageInv, Types
    <3> QED BY <3>2, <3>4, <3>6, StaysHere
  <2>5. CASE autosave(p)
      BY <2>5 DEF autosave, storageVars
  <2> QED BY <2>1, <2>2, <2>3, <2>4, <2>5
<1>5. CASE exists
    BY <1>2, <1>3, <1>4, <1>5, ClosingGoods
<1>6. CASE ~exists
  <2>1. \A n \in MapServers \ {m} : copy'[n] = copy[n]
      BY <1>3, ClosedType DEF StorageInv
  <2>2. ~exists'
      BY <1>3, <1>6 DEF charSide
  <2> QED BY <1>4, <2>1, <2>2, BrokenGoods
<1> QED BY <1>5, <1>6

LEMMA QuietGoods ==
    ASSUME StorageInv, NEW m \in MapServers, GoodsInv(m), NEW p \in Members,
           storage_storageopen(p) \/ LoadEndAck(p) \/ pc_authok(p, m) \/ member_joins_guild(p)
    PROVE  GoodsInv(m)'
<1>1. member[p] \in Member
    BY DEF StorageInv, Types
<1>2. \A q \in Members : member'[q].at \in {member[q].at, m, Nowhere}
  <2>1. CASE storage_storageopen(p)
    <3>1. member' = [member EXCEPT ![p] = [member[p] EXCEPT !.flag = 1]]
        BY <2>1 DEF storage_storageopen, StorageInv, Types
    <3>2. [member[p] EXCEPT !.flag = 1].at = member[p].at
        BY <1>1 DEF Member
    <3> QED BY <3>1, <3>2, StaysHere
  <2>2. CASE LoadEndAck(p)
    <3>1. member' = [member EXCEPT ![p] = [member[p] EXCEPT !.onMap = TRUE]]
        BY <2>2 DEF LoadEndAck, StorageInv, Types
    <3>2. [member[p] EXCEPT !.onMap = TRUE].at = member[p].at
        BY <1>1 DEF Member
    <3> QED BY <3>1, <3>2, StaysHere
  <2>3. CASE pc_authok(p, m)
    <3>1. PICK new : new = [member[p] EXCEPT !.at = m, !.guild = @ /\ exists]
        OBVIOUS
    <3>2. member' = [member EXCEPT ![p] = new]
        BY <2>3, <3>1 DEF pc_authok, StorageInv, Types
    <3>3. new.at = m
        BY <1>1, <3>1 DEF Member
    <3> QED BY <3>2, <3>3, StaysHere
  <2>4. CASE member_joins_guild(p)
    <3>1. member' = [member EXCEPT ![p] = [member[p] EXCEPT !.guild = TRUE]]
        BY <2>4 DEF member_joins_guild, StorageInv, Types
    <3>2. [member[p] EXCEPT !.guild = TRUE].at = member[p].at
        BY <1>1 DEF Member
    <3> QED BY <3>1, <3>2, StaysHere
  <2> QED BY <2>1, <2>2, <2>3, <2>4
<1>3. UNCHANGED <<linkVars, copy, carried, own, charSide>>
    BY DEF storage_storageopen, LoadEndAck, pc_authok, member_joins_guild, charSide, linkVars
<1>4. SaveSent(m)
    BY <1>3 DEF SaveSent, linkVars
<1> QED BY <1>2, <1>3, <1>4, CalmGoods DEF linkVars, ends, charSide

(* The first to open asks for the storage; whoever opens it later finds the copy. *)
LEMMA OpensGoods ==
    ASSUME StorageInv, NEW m \in MapServers, GoodsInv(m), NEW p \in Members, storage_guild_storageopen(p)
    PROVE  GoodsInv(m)'
<1>1. member[p].at = m /\ member[p] \in Member /\ copy[m] \in Copy
    BY ActsHere DEF storage_guild_storageopen, Acts, StorageInv, Types
<1>2. CASE copy[m].here
  <2>1. copy' = [copy EXCEPT ![m].open = TRUE] /\ UNCHANGED toInter
        /\ member' = [member EXCEPT ![p] = [member[p] EXCEPT !.flag = 2]]
      BY <1>1, <1>2 DEF storage_guild_storageopen, StorageInv, Types
  <2>2. [member[p] EXCEPT !.flag = 2].at = member[p].at
      BY <1>1 DEF Member
  <2>3. \A q \in Members : member'[q].at \in {member[q].at, m, Nowhere}
      BY <2>1, <2>2, StaysHere
  <2>4. /\ copy'[m].here = copy[m].here /\ copy'[m].items = copy[m].items /\ copy'[m].dirty = copy[m].dirty
        /\ \A n \in MapServers \ {m} : copy'[n] = copy[n]
      BY <1>1, <2>1 DEF Copy, StorageInv, Types
  <2>5. SaveSent(m)
      BY <2>1 DEF SaveSent
  <2> QED BY <1>2, <2>3, <2>4, <2>5, CalmGoods DEF storage_guild_storageopen
<1>3. CASE ~copy[m].here
  <2> DEFINE e == [t |-> "load", p |-> p]
  <2>1. Send(m, <<e>>) /\ UNCHANGED <<fromInter, ends, copy, member, carried, own, charSide>>
      BY <1>1, <1>3 DEF storage_guild_storageopen
  <2>2. e \in ToPacket /\ e.t = "load"
      BY DEF ToPacket
  <2> HIDE DEF e
  <2>3. toInter'[m] = toInter[m] \/ (wire[m] /\ toInter'[m] = toInter[m] \o <<e>>)
      BY <2>1 DEF Send, Sent, StorageInv, Types
  <2>4. CASE toInter'[m] = toInter[m]
    <3>1. SaveSent(m)
        BY <2>4 DEF SaveSent
    <3> QED BY <2>1, <3>1, CalmGoods
  <2>5. CASE wire[m] /\ toInter'[m] = toInter[m] \o <<e>>
    <3>1. toInter[m] \in Seq(ToPacket)
        BY DEF StorageInv, Types
    <3>2. /\ Len(toInter'[m]) = Len(toInter[m]) + 1 /\ Len(toInter[m]) \in Nat
          /\ \A i \in 1 .. Len(toInter[m]) + 1 : toInter'[m][i] = IF i <= Len(toInter[m]) THEN toInter[m][i] ELSE e
        BY <2>2, <2>5, <3>1, AppendedAt
    <3>3. \A i \in 1 .. Len(toInter'[m]) :
             (i \in 1 .. Len(toInter[m]) /\ toInter'[m][i] = toInter[m][i]) \/ toInter'[m][i].t = "load"
        BY <2>2, <3>2
    <3>4. ASSUME exists PROVE Answers(m)' /\ Apart(m)'
      <4>1. /\ Answers(m) /\ copy[m] = NoCopy
            /\ \A i \in 1 .. Len(toInter[m]) : toInter[m][i].t # "save"
            /\ \A i \in 1 .. Len(fromInter[m]) : fromInter[m][i].t # "saved"
          BY <1>3, <3>4 DEF GoodsInv, Answers, NothingToSave
      <4>2. AnswersFit(m)'
          BY <1>3, <2>1, <4>1 DEF Answers, AnswersFit, Fits, charSide
      <4>3. \A i \in 1 .. Len(toInter'[m]) : toInter'[m][i].t # "save"
          BY <3>3, <4>1
      <4>4. LoadsBeforeSaves(m)' /\ NothingToSave(m)'
          BY <2>1, <4>1, <4>3 DEF LoadsBeforeSaves, NothingToSave
      <4>5. NotBroken(m)' /\ CutIsEmpty(m)'
          BY <2>1, <2>5, <4>1 DEF Answers, NotBroken, CutIsEmpty, ends
      <4>6. Apart(m)'
          BY <2>1, <3>4 DEF GoodsInv, Apart, Held, charSide
      <4> QED BY <4>2, <4>4, <4>5, <4>6 DEF Answers
    <3> QED BY <2>1, <3>4 DEF GoodsInv, OnlyHere, charSide
  <2> QED BY <2>3, <2>4, <2>5
<1> QED BY <1>2, <1>3

----------------------------------------------------------------------------
(* Goods are moved. *)

LEMMA MoveOwnGoods ==
    ASSUME StorageInv, NEW m \in MapServers, GoodsInv(m), NEW p \in Members, NEW x \in Goods, MoveOwn(p, x)
    PROVE  GoodsInv(m)'
<1>1. UNCHANGED <<linkVars, copy, member, charSide>>
    BY DEF MoveOwn
<1>2. OnlyHere(m)'
    BY <1>1 DEF GoodsInv, OnlyHere
<1>3. ASSUME exists PROVE Answers(m)' /\ Apart(m)'
  <2>1. SaveSent(m)
      BY <1>1 DEF SaveSent, linkVars
  <2>2. Answers(m)'
      BY <1>1, <1>3, <2>1, AnswersKept DEF GoodsInv, linkVars, charSide
  <2>3. Apart(m) /\ Held(m)' = Held(m)
      BY <1>1, <1>3 DEF GoodsInv, Held, charSide
  <2>4. carried \in [Members -> SUBSET Goods] /\ own \in [Members -> SUBSET Goods]
      BY DEF StorageInv, Types
  <2>5. \A q \in Members \ {p} : carried'[q] = carried[q] /\ own'[q] = own[q]
      BY <2>4 DEF MoveOwn
  <2>6. ASSUME x \in carried[p] /\ carried'[p] = carried[p] \ {x} /\ own'[p] = own[p] \cup {x}
       PROVE  Apart(m)'
    <3>1. \A q \in Members : carried'[q] \cap Held(m)' = {} /\ own'[q] \cap Held(m)' = {}
        BY <2>3, <2>5, <2>6 DEF Apart
    <3>2. \A y \in Goods : y \in Held(m)' \/ \E q \in Members : y \in carried'[q] \cup own'[q]
        BY <2>3, <2>5, <2>6 DEF Apart
    <3>3. \A q, r \in Members : carried'[q] \cap own'[r] = {}
        BY <2>3, <2>5, <2>6 DEF Apart
    <3>4. \A q, r \in Members : q # r => carried'[q] \cap carried'[r] = {} /\ own'[q] \cap own'[r] = {}
        BY <2>3, <2>5, <2>6 DEF Apart
    <3> QED BY <3>1, <3>2, <3>3, <3>4, Zenon DEF Apart
  <2>7. ASSUME x \in own[p] /\ carried'[p] = carried[p] \cup {x} /\ own'[p] = own[p] \ {x}
       PROVE  Apart(m)'
    <3>1. \A q \in Members : carried'[q] \cap Held(m)' = {} /\ own'[q] \cap Held(m)' = {}
        BY <2>3, <2>5, <2>7 DEF Apart
    <3>2. \A y \in Goods : y \in Held(m)' \/ \E q \in Members : y \in carried'[q] \cup own'[q]
        BY <2>3, <2>5, <2>7 DEF Apart
    <3>3. \A q, r \in Members : carried'[q] \cap own'[r] = {}
        BY <2>3, <2>5, <2>7 DEF Apart
    <3>4. \A q, r \in Members : q # r => carried'[q] \cap carried'[r] = {} /\ own'[q] \cap own'[r] = {}
        BY <2>3, <2>5, <2>7 DEF Apart
    <3> QED BY <3>1, <3>2, <3>3, <3>4, Zenon DEF Apart
  <2>8. Apart(m)'
      BY <2>4, <2>6, <2>7 DEF MoveOwn
  <2> QED BY <2>2, <2>8
<1> QED BY <1>1, <1>2, <1>3 DEF GoodsInv, charSide

(* The user of the storage puts an item into the copy or takes one out: it becomes dirty. *)
LEMMA MoveGuildGoods ==
    ASSUME StorageInv, NEW m \in MapServers, GoodsInv(m), NEW p \in Members, NEW x \in Goods,
           storage_guild_storageadd(p, x) \/ storage_guild_storageget(p, x)
    PROVE  GoodsInv(m)'
<1>1. member[p].at = m /\ copy[m] \in Copy /\ copy[m].here
    BY ActsHere DEF storage_guild_storageadd, storage_guild_storageget, Acts, StorageInv, Types
<1>2. UNCHANGED <<linkVars, member, own, charSide>>
    BY DEF storage_guild_storageadd, storage_guild_storageget
<1>3. carried \in [Members -> SUBSET Goods]
    BY DEF StorageInv, Types
<1>4. \E items \in {copy[m].items \cup {x}, copy[m].items \ {x}} :
          copy' = [copy EXCEPT ![m].items = items, ![m].dirty = TRUE]
    BY <1>1 DEF storage_guild_storageadd, storage_guild_storageget, StorageInv, Types
<1>5. /\ copy'[m].here /\ copy'[m].dirty /\ \A n \in MapServers \ {m} : copy'[n] = copy[n]
      /\ \/ /\ x \in carried[p] /\ carried'[p] = carried[p] \ {x} /\ copy'[m].items = copy[m].items \cup {x}
         \/ /\ x \in copy[m].items /\ carried'[p] = carried[p] \cup {x} /\ copy'[m].items = copy[m].items \ {x}
  <2>1. copy'[m].here /\ copy'[m].dirty /\ \A n \in MapServers \ {m} : copy'[n] = copy[n]
      BY <1>1, <1>4 DEF StorageInv, Types, Copy
  <2>2. CASE storage_guild_storageadd(p, x)
    <3>1. copy' = [copy EXCEPT ![m].items = copy[m].items \cup {x}, ![m].dirty = TRUE]
        BY <1>1, <2>2 DEF storage_guild_storageadd, StorageInv, Types
    <3>2. copy'[m].items = copy[m].items \cup {x}
        BY <1>1, <3>1 DEF StorageInv, Types, Copy
    <3> QED BY <1>1, <1>3, <2>1, <2>2, <3>2 DEF storage_guild_storageadd
  <2>3. CASE storage_guild_storageget(p, x)
    <3>1. copy' = [copy EXCEPT ![m].items = copy[m].items \ {x}, ![m].dirty = TRUE]
        BY <1>1, <2>3 DEF storage_guild_storageget, StorageInv, Types
    <3>2. copy'[m].items = copy[m].items \ {x}
        BY <1>1, <3>1 DEF StorageInv, Types, Copy
    <3> QED BY <1>1, <1>3, <2>1, <2>3, <3>2 DEF storage_guild_storageget
  <2> QED BY <2>2, <2>3
<1>6. OnlyHere(m)'
    BY <1>2, <1>5 DEF GoodsInv, OnlyHere
<1>7. ASSUME exists PROVE Answers(m)' /\ Apart(m)'
  <2>1. SaveSent(m)
      BY <1>2 DEF SaveSent, linkVars
  <2>2. Answers(m)'
      BY <1>1, <1>2, <1>5, <1>7, <2>1, AnswersKept DEF GoodsInv, linkVars, charSide
  <2>3. Apart(m) /\ Held(m) = copy[m].items /\ Held(m)' = copy'[m].items
      BY <1>1, <1>5, <1>7 DEF GoodsInv, Held
  <2>4. \A q \in Members \ {p} : carried'[q] = carried[q]
      BY <1>3 DEF storage_guild_storageadd, storage_guild_storageget
  <2>5. ASSUME x \in carried[p] /\ carried'[p] = carried[p] \ {x} /\ Held(m)' = Held(m) \cup {x}
       PROVE  Apart(m)'
    <3>1. \A q \in Members : carried'[q] \cap Held(m)' = {} /\ own[q] \cap Held(m)' = {}
        BY <2>3, <2>4, <2>5 DEF Apart
    <3>2. \A y \in Goods : y \in Held(m)' \/ \E q \in Members : y \in carried'[q] \cup own[q]
        BY <2>3, <2>4, <2>5 DEF Apart
    <3>3. /\ \A q, r \in Members : carried'[q] \cap own[r] = {}
          /\ \A q, r \in Members : q # r => carried'[q] \cap carried'[r] = {} /\ own[q] \cap own[r] = {}
        BY <2>3, <2>4, <2>5 DEF Apart
    <3>4. own' = own
        BY <1>2
    <3> QED BY <3>1, <3>2, <3>3, <3>4, Zenon DEF Apart
  <2>6. ASSUME x \in Held(m) /\ carried'[p] = carried[p] \cup {x} /\ Held(m)' = Held(m) \ {x}
       PROVE  Apart(m)'
    <3>1. \A q \in Members : carried'[q] \cap Held(m)' = {} /\ own[q] \cap Held(m)' = {}
        BY <2>3, <2>4, <2>6 DEF Apart
    <3>2. \A y \in Goods : y \in Held(m)' \/ \E q \in Members : y \in carried'[q] \cup own[q]
        BY <2>3, <2>4, <2>6 DEF Apart
    <3>3. /\ \A q, r \in Members : carried'[q] \cap own[r] = {}
          /\ \A q, r \in Members : q # r => carried'[q] \cap carried'[r] = {} /\ own[q] \cap own[r] = {}
        BY <2>3, <2>4, <2>6 DEF Apart
    <3>4. own' = own
        BY <1>2
    <3> QED BY <3>1, <3>2, <3>3, <3>4, Zenon DEF Apart
  <2> QED BY <1>5, <2>2, <2>3, <2>5, <2>6
<1> QED BY <1>2, <1>6, <1>7 DEF GoodsInv, charSide

----------------------------------------------------------------------------
(* The connection. *)

(* The next packet of the char server is taken. *)
LEMMA AnswerTaken ==
    ASSUME StorageInv, NEW m \in MapServers, Answers(m), fromInter[m] # <<>>,
           fromInter'[m] = Tail(fromInter[m]), toInter'[m] = toInter[m]
    PROVE  /\ Head(fromInter[m]) = fromInter[m][1] /\ Len(fromInter[m]) \in Nat \ {0}
           /\ Len(fromInter'[m]) = Len(fromInter[m]) - 1
           /\ \A i \in 1 .. Len(fromInter'[m]) : i + 1 \in 1 .. Len(fromInter[m]) /\ fromInter'[m][i] = fromInter[m][i + 1]
           /\ LoadsBeforeSaves(m)' /\ NotBroken(m)'
<1>1. fromInter[m] \in Seq(FromPacket)
    BY DEF StorageInv, Types
<1>2. /\ Len(fromInter'[m]) = Len(fromInter[m]) - 1 /\ Len(fromInter[m]) \in Nat \ {0}
      /\ Head(fromInter[m]) = fromInter[m][1]
      /\ \A i \in 1 .. Len(fromInter[m]) - 1 : fromInter'[m][i] = fromInter[m][i + 1]
    BY <1>1, TakenAt
<1>3. \A i \in 1 .. Len(fromInter'[m]) : i + 1 \in 1 .. Len(fromInter[m]) /\ fromInter'[m][i] = fromInter[m][i + 1]
    BY <1>2
<1>4. NotBroken(m)'
    BY <1>3 DEF Answers, NotBroken
<1>5. \A i, j \in 1 .. Len(fromInter'[m]) : i < j /\ fromInter'[m][i].t = "saved" => fromInter'[m][j].t # "loaded"
  <2> SUFFICES ASSUME NEW i \in 1 .. Len(fromInter'[m]), NEW j \in 1 .. Len(fromInter'[m]),
                      i < j, fromInter'[m][i].t = "saved"
               PROVE  fromInter'[m][j].t # "loaded"
      OBVIOUS
  <2>1. i + 1 < j + 1
      BY <1>2
  <2> QED BY <1>3, <2>1 DEF Answers, LoadsBeforeSaves
<1>6. LoadsBeforeSaves(m)'
    BY <1>3, <1>5 DEF Answers, LoadsBeforeSaves
<1> QED BY <1>2, <1>3, <1>4, <1>6

(* An answer is accepted or refused: either way the goods of the storage stay what they were. *)
LEMMA LoadedGoods ==
    ASSUME StorageInv, NEW m \in MapServers, Answers(m), Apart(m), fromInter[m] # <<>>,
           NEW p \in Members, NEW items \in Contents,
           Head(fromInter[m]).t = "loaded", Head(fromInter[m]).items = items,
           intif_parse_LoadGuildStorage(m, p, items),
           fromInter'[m] = Tail(fromInter[m]), UNCHANGED <<toInter, ends, carried, own, charSide>>
    PROVE  Answers(m)' /\ Apart(m)' /\ \A n \in MapServers \ {m} : copy'[n] = copy[n]
<1>1. /\ Head(fromInter[m]) = fromInter[m][1] /\ 1 \in 1 .. Len(fromInter[m])
      /\ \A i \in 1 .. Len(fromInter'[m]) : i + 1 \in 1 .. Len(fromInter[m]) /\ fromInter'[m][i] = fromInter[m][i + 1]
      /\ LoadsBeforeSaves(m)' /\ NotBroken(m)'
    BY AnswerTaken
<1>2. Fits(m, items)
    BY <1>1 DEF Answers, AnswersFit
<1>3. copy[m] \in Copy /\ copy \in [MapServers -> Copy]
    BY DEF StorageInv, Types
<1>4. CutIsEmpty(m)'
    BY <1>1 DEF Answers, CutIsEmpty, ends
<1>5. CASE On(p, m) /\ known[m] /\ Acceptable(m)
  <2> DEFINE opens == member[p].guild /\ member[p].flag = 0
  <2>1. PICK new : new = [Loaded(items) EXCEPT !.open = opens]
      OBVIOUS
  <2>2. copy' = [copy EXCEPT ![m] = new]
      BY <1>5, <2>1 DEF intif_parse_LoadGuildStorage
  <2>3. new.here /\ new.items = items /\ ~new.dirty
      BY <2>1 DEF Loaded
  <2>4. copy'[m].here /\ copy'[m].items = items /\ ~copy'[m].dirty /\ \A n \in MapServers \ {m} : copy'[n] = copy[n]
      BY <1>3, <2>2, <2>3
  <2>5. \A other : Fits(m, other) => Fits(m, other)'
      BY <1>2, <1>5, <2>4 DEF Fits, Acceptable
  <2>6. AnswersFit(m)'
      BY <1>1, <2>5 DEF Answers, AnswersFit, charSide
  <2>7. NothingToSave(m)'
      BY <2>4 DEF NothingToSave
  <2>8. Held(m)' = Held(m)
      BY <1>2, <1>5, <2>4 DEF Held, Fits, Acceptable
  <2> QED BY <1>1, <1>4, <2>4, <2>6, <2>7, <2>8, GoodsKept DEF Answers
<1>6. CASE ~(On(p, m) /\ known[m] /\ Acceptable(m))
  <2>1. copy' = [copy EXCEPT ![m].here = @ \/ (On(p, m) /\ known[m])]
      BY <1>6 DEF intif_parse_LoadGuildStorage
  <2>2. PICK new : new = [copy[m] EXCEPT !.here = @ \/ (On(p, m) /\ known[m])]
      OBVIOUS
  <2>3. copy' = [copy EXCEPT ![m] = new]
      BY <1>3, <2>1, <2>2
  <2>4. copy[m].here = (copy[m].here \/ (On(p, m) /\ known[m]))
    <3>1. ~copy[m].here => ~copy[m].open /\ ~copy[m].dirty
        BY DEF Answers, NothingToSave, NoCopy
    <3> QED BY <1>3, <1>6, <3>1 DEF Acceptable, Copy
  <2>5. new = [copy[m] EXCEPT !.here = copy[m].here]
      BY <2>2, <2>4, Zenon
  <2>6. new = copy[m]
      BY <1>3, <2>5 DEF Copy
  <2>7. copy' = copy
      BY <1>3, <2>3, <2>6
  <2>8. AnswersFit(m)'
      BY <1>1, <2>7 DEF Answers, AnswersFit, Fits, charSide
  <2>9. NothingToSave(m)'
      BY <1>1, <2>7 DEF Answers, NothingToSave
  <2>10. Held(m)' = Held(m)
      BY <2>7 DEF Held, charSide
  <2> QED BY <1>1, <1>4, <2>7, <2>8, <2>9, <2>10, GoodsKept DEF Answers
<1> QED BY <1>5, <1>6

(* An acknowledgement clears dirty: there is no answer behind it that could be accepted then. *)
LEMMA SavedGoods ==
    ASSUME StorageInv, NEW m \in MapServers, Answers(m), Apart(m), fromInter[m] # <<>>,
           Head(fromInter[m]).t = "saved", storage_guild_storagesaved(m),
           fromInter'[m] = Tail(fromInter[m]), UNCHANGED <<toInter, ends, carried, own, charSide>>
    PROVE  Answers(m)' /\ Apart(m)' /\ \A n \in MapServers \ {m} : copy'[n] = copy[n]
<1>1. /\ Head(fromInter[m]) = fromInter[m][1] /\ Len(fromInter[m]) \in Nat \ {0}
      /\ Len(fromInter'[m]) = Len(fromInter[m]) - 1
      /\ \A i \in 1 .. Len(fromInter'[m]) : i + 1 \in 1 .. Len(fromInter[m]) /\ fromInter'[m][i] = fromInter[m][i + 1]
      /\ LoadsBeforeSaves(m)' /\ NotBroken(m)'
    BY AnswerTaken
<1>2. copy[m].here
    BY <1>1 DEF Answers, NothingToSave
<1>3. copy'[m].here = copy[m].here /\ copy'[m].items = copy[m].items /\ \A n \in MapServers \ {m} : copy'[n] = copy[n]
    BY DEF storage_guild_storagesaved, StorageInv, Types, Copy
<1>4. \A i \in 1 .. Len(fromInter'[m]) : fromInter'[m][i].t # "loaded"
  <2> SUFFICES ASSUME NEW i \in 1 .. Len(fromInter'[m]) PROVE fromInter'[m][i].t # "loaded"
      OBVIOUS
  <2>1. 1 \in 1 .. Len(fromInter[m]) /\ 1 < i + 1
      BY <1>1
  <2> QED BY <1>1, <2>1 DEF Answers, LoadsBeforeSaves
<1>5. \A j \in 1 .. Len(toInter[m]) : toInter[m][j].t # "load"
    BY <1>1 DEF Answers, LoadsBeforeSaves
<1>6. AnswersFit(m)'
    BY <1>4, <1>5 DEF AnswersFit
<1>7. NothingToSave(m)'
    BY <1>2, <1>3 DEF NothingToSave
<1>8. CutIsEmpty(m)'
    BY <1>1 DEF Answers, CutIsEmpty, ends
<1>9. Held(m)' = Held(m)
    BY <1>3 DEF Held, charSide
<1> QED BY <1>1, <1>3, <1>6, <1>7, <1>8, <1>9, GoodsKept DEF Answers

LEMMA ParseGoods ==
    ASSUME StorageInv, NEW m \in MapServers, GoodsInv(m), intif_parse(m)
    PROVE  GoodsInv(m)'
<1> DEFINE msg == Head(fromInter[m])
<1>1. /\ fromInter[m] \in Seq(FromPacket) /\ fromInter[m] # <<>> /\ msg \in FromPacket
      /\ fromInter'[m] = Tail(fromInter[m]) /\ UNCHANGED <<toInter, ends, carried, own, charSide>>
    BY DEF intif_parse, TakenBy, StorageInv, Types
<1>2. \A q \in Members : member'[q].at = member[q].at
  <2>1. CASE msg.t = "loaded" /\ intif_parse_LoadGuildStorage(m, msg.p, msg.items)
    <3>1. msg.p \in Members
        BY <1>1, <2>1 DEF FromPacket
    <3>2. member' = member \/ member' = [member EXCEPT ![msg.p].flag =
                                              IF member[msg.p].guild /\ member[msg.p].flag = 0 THEN 2 ELSE @]
        BY <2>1 DEF intif_parse_LoadGuildStorage
    <3>3. PICK flag : member' = member \/ member' = [member EXCEPT ![msg.p] = [member[msg.p] EXCEPT !.flag = flag]]
        BY <3>1, <3>2 DEF StorageInv, Types
    <3>4. [member[msg.p] EXCEPT !.flag = flag].at = member[msg.p].at
        BY <3>1 DEF StorageInv, Types, Member
    <3> HIDE DEF msg
    <3> QED BY <3>1, <3>3, <3>4 DEF StorageInv, Types
  <2>2. CASE member' = member
      BY <2>2
  <2>3. CASE storage_of_broken(m)
    <3> SUFFICES ASSUME NEW q \in Members PROVE member'[q].at = member[q].at
        OBVIOUS
    <3>0. member[q] \in Member
        BY DEF StorageInv, Types
    <3>1. CASE On(q, m) /\ member[q].guild
      <4>1. PICK mid : mid = [member[q] EXCEPT !.guild = FALSE]
          OBVIOUS
      <4>2. mid \in Member /\ mid.at = member[q].at
          BY <3>0, <4>1 DEF Member
      <4>3. PICK new : new = [mid EXCEPT !.flag = IF member[q].flag = 2 THEN 0 ELSE member[q].flag]
          OBVIOUS
      <4>4. new.at = mid.at
          BY <4>2, <4>3 DEF Member
      <4>5. new = [member[q] EXCEPT !.guild = FALSE, !.flag = IF member[q].flag = 2 THEN 0 ELSE member[q].flag]
          BY <4>1, <4>3, Zenon
      <4>6. member'[q] = new
          BY <2>3, <3>1, <4>5 DEF storage_of_broken
      <4> QED BY <4>2, <4>4, <4>6
    <3>2. CASE ~(On(q, m) /\ member[q].guild)
        BY <2>3, <3>2 DEF storage_of_broken
    <3> QED BY <3>1, <3>2
  <2> QED BY <2>1, <2>2, <2>3 DEF intif_parse
<1>3. CASE exists
  <2>0. Answers(m) /\ Apart(m)
      BY <1>3 DEF GoodsInv
  <2>1. msg.t # "broken"
    <3>1. msg = fromInter[m][1] /\ 1 \in 1 .. Len(fromInter[m])
        BY <1>1, TakenAt
    <3> QED BY <2>0, <3>1 DEF Answers, NotBroken
  <2>2. Answers(m)' /\ Apart(m)' /\ \A n \in MapServers \ {m} : copy'[n] = copy[n]
    <3>1. CASE msg.t = "loaded" /\ intif_parse_LoadGuildStorage(m, msg.p, msg.items)
      <4>1. msg.p \in Members /\ msg.items \in Contents
          BY <1>1, <3>1 DEF FromPacket
      <4> QED BY <1>1, <2>0, <3>1, <4>1, LoadedGoods
    <3>2. CASE msg.t = "saved" /\ storage_guild_storagesaved(m)
        BY <1>1, <2>0, <3>2, SavedGoods
    <3> QED BY <2>1, <3>1, <3>2 DEF intif_parse
  <2> QED BY <1>2, <2>2 DEF GoodsInv, OnlyHere
<1>4. CASE ~exists
  <2>1. \A n \in MapServers \ {m} : copy'[n] = copy[n]
      BY DEF intif_parse, intif_parse_LoadGuildStorage, storage_guild_storagesaved, storage_of_broken, StorageInv, Types
  <2> QED BY <1>1, <1>2, <1>4, <2>1, BrokenGoods DEF charSide
<1> QED BY <1>3, <1>4

(* The char server answers the next packet: a request with what SQL holds, a save behind all. *)
LEMMA InterGoods ==
    ASSUME StorageInv, NEW m \in MapServers, GoodsInv(m), inter_storage_parse_frommap(m)
    PROVE  GoodsInv(m)'
<1> DEFINE msg == Head(toInter[m])
<1>1. /\ toInter[m] \in Seq(ToPacket) /\ toInter[m] # <<>> /\ msg \in ToPacket /\ wire[m]
      /\ fromInter[m] \in Seq(FromPacket)
      /\ toInter'[m] = Tail(toInter[m]) /\ UNCHANGED <<ends, copy, member, carried, own, exists>>
    BY DEF inter_storage_parse_frommap, TakenFrom, StorageInv, Types
<1>2. CASE ~exists
    BY <1>1, <1>2, BrokenGoods
<1>3. CASE exists
  <2>1. Answers(m) /\ Apart(m) /\ OnlyHere(m)'
      BY <1>1, <1>3 DEF GoodsInv, OnlyHere
  <2>2. /\ msg = toInter[m][1] /\ Len(toInter[m]) \in Nat \ {0} /\ Len(toInter'[m]) = Len(toInter[m]) - 1
        /\ \A i \in 1 .. Len(toInter[m]) - 1 : toInter'[m][i] = toInter[m][i + 1]
      BY <1>1, TakenAt
  <2>3. /\ 1 \in 1 .. Len(toInter[m])
        /\ \A i \in 1 .. Len(toInter'[m]) : 1 < i + 1 /\ i + 1 \in 1 .. Len(toInter[m]) /\ toInter'[m][i] = toInter[m][i + 1]
      BY <2>2
  <2>4. \A i, j \in 1 .. Len(toInter'[m]) : i < j /\ toInter'[m][i].t = "save" => toInter'[m][j].t # "load"
    <3> SUFFICES ASSUME NEW i \in 1 .. Len(toInter'[m]), NEW j \in 1 .. Len(toInter'[m]),
                        i < j, toInter'[m][i].t = "save"
                 PROVE  toInter'[m][j].t # "load"
        OBVIOUS
    <3>1. i + 1 < j + 1
        BY <2>2
    <3> QED BY <2>1, <2>3, <3>1 DEF Answers, LoadsBeforeSaves
  <2>5. CutIsEmpty(m)'
      BY <1>1, <2>1 DEF Answers, CutIsEmpty, ends
  <2>6. CASE msg.t = "load"
    <3> DEFINE e == [t |-> "loaded", p |-> msg.p, items |-> stored]
    <3>1. e \in FromPacket /\ e.t = "loaded" /\ e.items = stored
        BY <1>1, <2>6 DEF ToPacket, FromPacket, StorageInv, Types
    <3>2. stored' = stored /\ fromInter'[m] = fromInter[m] \o <<e>>
        BY <1>1, <1>3, <2>6 DEF inter_storage_parse_frommap, Reply, StorageInv, Types
    <3> HIDE DEF e
    <3>3. /\ Len(fromInter'[m]) = Len(fromInter[m]) + 1 /\ Len(fromInter[m]) \in Nat
          /\ \A i \in 1 .. Len(fromInter[m]) + 1 : fromInter'[m][i] = IF i <= Len(fromInter[m]) THEN fromInter[m][i] ELSE e
        BY <1>1, <3>1, <3>2, AppendedAt
    <3>4. \A i \in 1 .. Len(fromInter'[m]) :
             (i \in 1 .. Len(fromInter[m]) /\ fromInter'[m][i] = fromInter[m][i]) \/ fromInter'[m][i] = e
        BY <3>3
    <3>5. \A items : Fits(m, items)' = Fits(m, items)
        BY <1>1, <3>2 DEF Fits
    <3>6. Fits(m, stored)
        BY <2>1, <2>2, <2>3, <2>6 DEF Answers, AnswersFit
    <3>7. AnswersFit(m)'
        BY <2>1, <2>3, <3>1, <3>2, <3>4, <3>5, <3>6 DEF Answers, AnswersFit
    <3>8. \A i \in 1 .. Len(fromInter[m]) : fromInter[m][i].t # "saved"
        BY <2>1, <2>2, <2>3, <2>6 DEF Answers, LoadsBeforeSaves
    <3>9. \A i \in 1 .. Len(fromInter'[m]) : fromInter'[m][i].t # "saved"
        BY <3>1, <3>4, <3>8
    <3>10. LoadsBeforeSaves(m)'
        BY <2>4, <3>9 DEF LoadsBeforeSaves
    <3>11. NothingToSave(m)'
        BY <1>1, <2>1, <2>3, <3>9 DEF Answers, NothingToSave
    <3>12. NotBroken(m)'
        BY <2>1, <3>1, <3>4 DEF Answers, NotBroken
    <3>13. Held(m)' = Held(m)
        BY <1>1, <3>2 DEF Held
    <3>14. Apart(m)'
        BY <1>1, <2>1, <3>13, GoodsKept
    <3> QED BY <2>1, <2>5, <3>7, <3>10, <3>11, <3>12, <3>14 DEF GoodsInv, Answers
  <2>7. CASE msg.t = "save"
    <3> DEFINE e == [t |-> "saved"]
    <3>1. e \in FromPacket /\ e.t = "saved"
        BY DEF FromPacket
    <3>2. fromInter'[m] = fromInter[m] \o <<e>>
        BY <1>1, <2>7 DEF inter_storage_parse_frommap, Reply, StorageInv, Types
    <3> HIDE DEF e
    <3>3. /\ Len(fromInter'[m]) = Len(fromInter[m]) + 1 /\ Len(fromInter[m]) \in Nat
          /\ \A i \in 1 .. Len(fromInter[m]) + 1 : fromInter'[m][i] = IF i <= Len(fromInter[m]) THEN fromInter[m][i] ELSE e
        BY <1>1, <3>1, <3>2, AppendedAt
    <3>4. \A i \in 1 .. Len(fromInter'[m]) :
             (i \in 1 .. Len(fromInter[m]) /\ fromInter'[m][i] = fromInter[m][i]) \/ fromInter'[m][i] = e
        BY <3>3
    <3>5. copy[m].here
        BY <2>1, <2>2, <2>3, <2>7 DEF Answers, NothingToSave
    <3>6. \A items : Fits(m, items)' = Fits(m, items)
        BY <1>1, <3>5 DEF Fits
    <3>7. \A i \in 1 .. Len(toInter'[m]) : toInter'[m][i].t # "load"
        BY <2>1, <2>2, <2>3, <2>7 DEF Answers, LoadsBeforeSaves
    <3>8. AnswersFit(m)'
        BY <2>1, <3>1, <3>4, <3>6, <3>7 DEF Answers, AnswersFit
    <3>9. \A i, j \in 1 .. Len(fromInter'[m]) : i < j /\ fromInter'[m][i].t = "saved" => fromInter'[m][j].t # "loaded"
      <4> SUFFICES ASSUME NEW i \in 1 .. Len(fromInter'[m]), NEW j \in 1 .. Len(fromInter'[m]),
                          i < j, fromInter'[m][i].t = "saved", fromInter'[m][j].t = "loaded"
                   PROVE  FALSE
          OBVIOUS
      <4>1. j \in 1 .. Len(fromInter[m]) /\ fromInter'[m][j] = fromInter[m][j]
          BY <3>1, <3>4
      <4>2. i \in 1 .. Len(fromInter[m]) /\ fromInter'[m][i] = fromInter[m][i]
          BY <3>3, <4>1
      <4> QED BY <2>1, <4>1, <4>2 DEF Answers, LoadsBeforeSaves
    <3>10. LoadsBeforeSaves(m)'
        BY <2>4, <3>7, <3>9 DEF LoadsBeforeSaves
    <3>11. NothingToSave(m)'
        BY <1>1, <3>5 DEF NothingToSave
    <3>12. NotBroken(m)'
        BY <2>1, <3>1, <3>4 DEF Answers, NotBroken
    <3>13. Held(m)' = Held(m)
        BY <1>1, <3>5 DEF Held
    <3>14. Apart(m)'
        BY <1>1, <2>1, <3>13, GoodsKept
    <3> QED BY <2>1, <2>5, <3>8, <3>10, <3>11, <3>12, <3>14 DEF GoodsInv, Answers
  <2> QED BY <2>6, <2>7 DEF inter_storage_parse_frommap
<1> QED BY <1>2, <1>3

LEMMA BreakGoods ==
    ASSUME NEW m \in MapServers, StorageInv, GoodsInv(m), mapif_parse_BreakGuild
    PROVE  GoodsInv(m)'
BY BrokenGoods DEF mapif_parse_BreakGuild

(* The connection fails, the map server notices, and it connects again. *)
LEMMA LinkGoods ==
    ASSUME StorageInv, NEW m \in MapServers, GoodsInv(m),
           \/ CutWire(m) /\ UNCHANGED storageVars
           \/ LinkLost(m) /\ UNCHANGED storageVars
           \/ do_reconnect_storage(m)
    PROVE  GoodsInv(m)'
<1>1. UNCHANGED storageVars
    BY DEF do_reconnect_storage
<1>2. CASE ~exists
    BY <1>1, <1>2, BrokenGoods DEF storageVars
<1>3. CASE exists
  <2>1. Answers(m) /\ Apart(m)' /\ OnlyHere(m)'
      BY <1>1, <1>3 DEF GoodsInv, OnlyHere, Apart, Held, storageVars
  <2>2. CASE CutWire(m)
    <3>1. toInter'[m] = <<>> /\ fromInter'[m] = <<>>
        BY <2>2 DEF CutWire, StorageInv, Types
    <3>2. ~wire'[m]
        BY <2>2 DEF CutWire, StorageInv, Types
    <3>3. Len(toInter'[m]) = 0 /\ Len(fromInter'[m]) = 0
        BY <3>1
    <3>4. AnswersFit(m)' /\ LoadsBeforeSaves(m)' /\ NotBroken(m)'
        BY <3>3 DEF AnswersFit, LoadsBeforeSaves, NotBroken
    <3>5. NothingToSave(m)' /\ CutIsEmpty(m)'
        BY <1>1, <2>1, <3>1, <3>2, <3>3 DEF Answers, NothingToSave, CutIsEmpty, storageVars
    <3> QED BY <2>1, <3>4, <3>5 DEF GoodsInv, Answers
  <2>3. CASE LinkLost(m)
    <3>1. UNCHANGED <<toInter, fromInter, wire>> /\ ~wire[m]
        BY <2>3 DEF LinkLost, pipes
    <3>2. AnswersFit(m)' /\ LoadsBeforeSaves(m)' /\ NotBroken(m)' /\ NothingToSave(m)' /\ CutIsEmpty(m)'
        BY <1>1, <2>1, <3>1
           DEF Answers, AnswersFit, Fits, LoadsBeforeSaves, NotBroken, NothingToSave, CutIsEmpty, storageVars
    <3> QED BY <2>1, <3>2 DEF GoodsInv, Answers
  <2>4. CASE do_reconnect_storage(m)
    <3>1. ~joined[m] /\ joined'[m] /\ wire'[m] /\ UNCHANGED fromInter
        BY <2>4 DEF do_reconnect_storage, LinkReady, StorageInv, Types
    <3>2. Len(fromInter[m]) = 0
        BY <2>1, <3>1 DEF Answers, CutIsEmpty
    <3>3. toInter'[m] = <<>> \/ (copy[m].here /\ toInter'[m] = <<Save(copy[m].items)>>)
        BY <2>4 DEF do_reconnect_storage, LinkReady, SaveOf, StorageInv, Types
    <3>4. \A i \in 1 .. Len(toInter'[m]) : copy[m].here /\ toInter'[m][i].t = "save"
        BY <3>3 DEF Save
    <3>5. AnswersFit(m)' /\ LoadsBeforeSaves(m)' /\ NotBroken(m)'
        BY <3>1, <3>2, <3>4 DEF AnswersFit, LoadsBeforeSaves, NotBroken
    <3>6. NothingToSave(m)' /\ CutIsEmpty(m)'
        BY <1>1, <2>1, <3>1, <3>2, <3>4 DEF Answers, NothingToSave, CutIsEmpty, storageVars
    <3> QED BY <2>1, <3>5, <3>6 DEF GoodsInv, Answers
  <2> QED BY <2>2, <2>3, <2>4
<1> QED BY <1>2, <1>3

----------------------------------------------------------------------------
LEMMA InitGoods ==
    ASSUME NEW m, StorageServers = {m}, StorageInit
    PROVE  GoodsInv(m)
<1>1. m \in MapServers
    BY NowhereAssumption
<1>2. /\ \A p \in Members : member[p].at = m
      /\ \A n \in MapServers : copy[n] = NoCopy /\ toInter[n] = <<>> /\ fromInter[n] = <<>> /\ wire[n] /\ joined[n]
      /\ stored = {}
    BY DEF StorageInit, LinkInit
<1>3. OnlyHere(m)
    BY <1>2 DEF OnlyHere
<1>4. Len(toInter[m]) = 0 /\ Len(fromInter[m]) = 0
    BY <1>1, <1>2
<1>5. Answers(m)
    BY <1>1, <1>2, <1>4 DEF Answers, AnswersFit, LoadsBeforeSaves, NothingToSave, NotBroken, CutIsEmpty
<1>6. Held(m) = {}
    BY <1>1, <1>2 DEF Held, NoCopy
<1>7. Apart(m)
    BY <1>6 DEF Apart, StorageInit
<1> QED BY <1>3, <1>5, <1>7 DEF GoodsInv

LEMMA StepGoods ==
    ASSUME NEW m, StorageServers = {m}, StorageInv, GoodsInv(m), [StorageNext]_<<linkVars, storageVars>>
    PROVE  GoodsInv(m)'
<1>1. m \in MapServers
    BY NowhereAssumption
<1>2. ASSUME NEW p \in Members, StorageUser(p) PROVE GoodsInv(m)'
    BY <1>1, <1>2, QuietGoods, OpensGoods, MoveOwnGoods, MoveGuildGoods, ClosesGoods, Zenon DEF StorageUser
<1>3. ASSUME StorageLink(m) \/ (CutWire(m) /\ UNCHANGED storageVars) PROVE GoodsInv(m)'
    BY <1>1, <1>3, ParseGoods, InterGoods, LinkGoods, Zenon DEF StorageLink
<1>4. CASE mapif_parse_BreakGuild
    BY <1>1, <1>4, BreakGoods
<1>5. CASE UNCHANGED <<linkVars, storageVars>>
    BY <1>5 DEF linkVars, storageVars, GoodsInv, OnlyHere, Answers, AnswersFit, Fits, LoadsBeforeSaves,
                NothingToSave, NotBroken, CutIsEmpty, Apart, Held
<1> QED BY <1>2, <1>3, <1>4, <1>5 DEF StorageNext

LEMMA StorageHeld ==
    ASSUME NEW m \in MapServers, OnlyHere(m)
    PROVE  TheStorage = Held(m)
<1>1. \A n \in MapServers \ {m} : ~copy[n].here /\ copy[n].items = {}
    BY DEF OnlyHere, NoCopy
<1>2. UNION {copy[n].items : n \in MapServers} = copy[m].items
    BY <1>1
<1>3. (\E n \in MapServers : copy[n].here) <=> copy[m].here
    BY <1>1
<1> QED BY <1>2, <1>3, Zenon DEF TheStorage, Held

LEMMA OneHolder ==
    ASSUME NEW x \in Goods, NEW holding, NEW p \in Members, \A q \in Members : x \in holding[q] <=> q = p
    PROVE  Cardinality({q \in Members : x \in holding[q]}) = 1
<1>1. {q \in Members : x \in holding[q]} = {p}
    OBVIOUS
<1> QED BY <1>1, FS_Singleton

LEMMA NoHolder ==
    ASSUME NEW x \in Goods, NEW holding, \A q \in Members : x \notin holding[q]
    PROVE  Cardinality({q \in Members : x \in holding[q]}) = 0
<1>1. {q \in Members : x \in holding[q]} = {}
    OBVIOUS
<1> QED BY <1>1, FS_EmptySet

LEMMA ApartOnePlace ==
    ASSUME NEW m \in MapServers, OnlyHere(m), Apart(m), NEW x \in Goods
    PROVE  Cardinality({p \in Members : x \in carried[p]}) + Cardinality({p \in Members : x \in own[p]})
             + (IF x \in TheStorage THEN 1 ELSE 0) = 1
<1>1. TheStorage = Held(m)
    BY StorageHeld
<1>2. CASE x \in Held(m)
  <2>1. \A q \in Members : x \notin carried[q] /\ x \notin own[q]
      BY <1>2 DEF Apart
  <2> QED BY <1>1, <1>2, <2>1, NoHolder
<1>3. ASSUME NEW p \in Members, x \in carried[p]
      PROVE  Cardinality({q \in Members : x \in carried[q]}) + Cardinality({q \in Members : x \in own[q]})
               + (IF x \in TheStorage THEN 1 ELSE 0) = 1
  <2>1. /\ \A q \in Members : x \in carried[q] <=> q = p
        /\ \A q \in Members : x \notin own[q]
        /\ x \notin Held(m)
      BY <1>3 DEF Apart
  <2> QED BY <1>1, <2>1, NoHolder, OneHolder
<1>4. ASSUME NEW p \in Members, x \in own[p]
      PROVE  Cardinality({q \in Members : x \in carried[q]}) + Cardinality({q \in Members : x \in own[q]})
               + (IF x \in TheStorage THEN 1 ELSE 0) = 1
  <2>1. /\ \A q \in Members : x \in own[q] <=> q = p
        /\ \A q \in Members : x \notin carried[q]
        /\ x \notin Held(m)
      BY <1>4 DEF Apart
  <2> QED BY <1>1, <2>1, NoHolder, OneHolder
<1>5. x \in Held(m) \/ \E p \in Members : x \in carried[p] \cup own[p]
    BY DEF Apart
<1> QED BY <1>2, <1>3, <1>4, <1>5

(* With one map server, and until the guild is broken up, every item is in one place: no answer that
   replaces the map server's copy brings one back or drops one, however it is overtaken by opening,
   closing, saving, acknowledgements and lost connections.  With two map servers this is false. *)
THEOREM GoodsAreInOnePlace ==
    ASSUME NEW m, StorageServers = {m}
    PROVE  StorageSpec => []GoodsInOnePlace
<1>1. StorageInit => GoodsInv(m)
    BY InitGoods
<1>2. StorageInv /\ GoodsInv(m) /\ [StorageNext]_<<linkVars, storageVars>> => GoodsInv(m)'
    BY StepGoods
<1>3. GoodsInv(m) => GoodsInOnePlace
  <2> SUFFICES ASSUME GoodsInv(m), exists, NEW x \in Goods
               PROVE  Cardinality({p \in Members : x \in carried[p]}) + Cardinality({p \in Members : x \in own[p]})
                        + (IF x \in TheStorage THEN 1 ELSE 0) = 1
      BY DEF GoodsInOnePlace
  <2>1. m \in MapServers /\ OnlyHere(m) /\ Apart(m)
      BY NowhereAssumption DEF GoodsInv
  <2> QED BY <2>1, ApartOnePlace
<1> QED BY <1>1, <1>2, <1>3, StorageInvariant, PTL DEF StorageSpec
=============================================================================
