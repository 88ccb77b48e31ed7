-------------------------------- MODULE Guild --------------------------------
(***************************************************************************)
(* Guilds: guild.c and intif.c on the map servers, int_guild.c on the char *)
(* server.  As with parties the char server keeps every guild, each map    *)
(* server a copy with pointers to the sessions of its members, and every   *)
(* change is asked of the char server and done when it answers.  Unlike    *)
(* party.c the handlers give up in two places: nobody takes a guild back   *)
(* whose founder left before the answer (guild_created), and a copy keeps  *)
(* a member who is withdrawn while none is online there                    *)
(* (guild_member_withdraw).  forsaken remembers the guilds concerned.      *)
(* Levels, skills, positions but the master's, emblems, notices, castles   *)
(* and the rows in SQL are left out; links do not fail here.               *)
(***************************************************************************)
EXTENDS InterLink, Functions

CONSTANTS Guildsmen,    \* characters, each of its own account
          MaxGuild,     \* MAX_GUILD
          MaxAlliances, \* battle_config.max_guild_alliance
          MaxRelations, \* MAX_GUILDALLIANCE
          MaxGuilds,    \* bound: how many guilds there are
          MaxDeeds,     \* bound: how much players do, all together
          NoGuildsman,  \* an empty place in a guild
          Elsewhere,    \* not on a map server
          Patient       \* does a player await an answer before the next request?

ASSUME GuildAssumption ==
    /\ {MaxGuild, MaxAlliances, MaxRelations, MaxGuilds} \subseteq Nat \ {0} /\ MaxDeeds \in Nat
    /\ NoGuildsman \notin Guildsmen /\ Elsewhere \notin MapServers /\ Patient \in BOOLEAN

VARIABLES guild,    \* the char server's guild_db_, which reads from SQL what it lacks
          founded,  \* the last guild id given
          guildOf,  \* per map server: guild_db
          guildsman,\* per player: the fields of map_session_data about guilds
          rowGuild, \* per player: guild_id of the character in SQL
          copyGuild,\* per player: the same in char_db_, for the map server
          forsaken, \* guilds for which a handler gave up
          deeds     \* how much players did

guildVars == <<guild, founded, guildOf, guildsman, rowGuild, copyGuild, forsaken, deeds>>
guildDb == <<guild, founded, rowGuild, copyGuild>>
guildCopies  == <<guildOf, guildsman, forsaken>>

GuildIds == 1 .. MaxGuilds
Seats == 1 .. MaxGuild
Relations == 1 .. MaxRelations
NoSeat == [who |-> NoGuildsman, top |-> FALSE]       \* top: position 0, the guild master's
NoRelation == [id |-> 0, foe |-> FALSE]              \* foe: opposition
NoGuild == [exists |-> FALSE, seat |-> [i \in Seats |-> NoSeat], master |-> NoGuildsman,
            alliance |-> [j \in Relations |-> NoRelation]]
NoGuildCopy == [guild |-> NoGuild, sd |-> {}]        \* sd: the seats with member[].sd
GuildRecords == [exists : BOOLEAN,
                 seat : [Seats -> [who : Guildsmen \cup {NoGuildsman}, top : BOOLEAN]],
                 master : Guildsmen \cup {NoGuildsman},
                 alliance : [Relations -> [id : 0 .. MaxGuilds, foe : BOOLEAN]]]

GuildTypeOK ==
    /\ guild \in [GuildIds -> GuildRecords]
    /\ founded \in 0 .. MaxGuilds
    /\ guildOf \in [MapServers -> [GuildIds -> [guild : GuildRecords, sd : SUBSET Seats]]]
    /\ guildsman \in [Guildsmen ->
           [at : MapServers \cup {Elsewhere}, id : 0 .. MaxGuilds, invite : 0 .. MaxGuilds,
            alliance : 0 .. MaxGuilds, asker : Guildsmen \cup {NoGuildsman},
            chief : BOOLEAN, loaded : BOOLEAN, moves : BOOLEAN]]
    /\ rowGuild \in [Guildsmen -> 0 .. MaxGuilds] /\ copyGuild \in [Guildsmen -> 0 .. MaxGuilds]
    /\ forsaken \subseteq GuildIds /\ deeds \in 0 .. MaxDeeds

InGuild(m, g) == [at |-> m, id |-> g, invite |-> 0, alliance |-> 0, asker |-> NoGuildsman,
                  chief |-> FALSE, loaded |-> FALSE, moves |-> FALSE]

(* s[g][i] sits in seat i of guild g, the master in the first.  Nobody plays, or all play on one
   map server, which knows their guilds. *)
OldGuild(s) == [NoGuild EXCEPT !.exists = TRUE, !.master = s[1],
                               !.seat = [i \in Seats |-> [who |-> s[i], top |-> i = 1]]]
OldMembers == {s \in [Seats -> Guildsmen \cup {NoGuildsman}] :
                   s[1] # NoGuildsman /\ \A i, j \in Seats : i # j /\ s[i] # NoGuildsman => s[i] # s[j]}
HasSeat(q, p) == \E i \in Seats : q.seat[i].who = p
Mine(p) == IF \E g \in GuildIds : HasSeat(guild[g], p)
           THEN CHOOSE g \in GuildIds : HasSeat(guild[g], p) ELSE 0

GuildInit ==
    /\ LinkInit
    /\ founded \in 0 .. MaxGuilds
    /\ guild \in [GuildIds -> {NoGuild} \cup {OldGuild(s) : s \in OldMembers}]
    /\ \A g \in GuildIds : guild[g].exists <=> g <= founded
    /\ \A g, h \in GuildIds, p \in Guildsmen : HasSeat(guild[g], p) /\ HasSeat(guild[h], p) => g = h
    /\ rowGuild = [p \in Guildsmen |-> Mine(p)]
    /\ copyGuild = rowGuild /\ forsaken = {} /\ deeds = 0
    /\ \/ /\ guildOf = [m \in MapServers |-> [g \in GuildIds |-> NoGuildCopy]]
          /\ guildsman = [p \in Guildsmen |-> InGuild(Elsewhere, 0)]
       \/ LET m == CHOOSE m \in MapServers : TRUE IN
          /\ guildOf = [n \in MapServers |-> [g \in GuildIds |->
                 IF n = m /\ guild[g].exists
                 THEN [guild |-> guild[g], sd |-> {i \in Seats : guild[g].seat[i] # NoSeat}] ELSE NoGuildCopy]]
          /\ guildsman = [p \in Guildsmen |-> [InGuild(m, Mine(p)) EXCEPT
                 !.loaded = TRUE, !.chief = \E g \in GuildIds : guild[g].master = p]]

Guildmates(q) == {q.seat[i].who : i \in Seats} \ {NoGuildsman}
Lowest(I) == CHOOSE i \in I : \A j \in I : i <= j
SeatOf(q, p) == Lowest({i \in Seats : q.seat[i].who = p})    \* guild_getindex
FreeSeats(q) == {i \in Seats : q.seat[i] = NoSeat}
MayManage(q, p) == HasSeat(q, p) /\ q.seat[SeatOf(q, p)].top
OnServer(p, m) == p \in Guildsmen /\ guildsman[p].at = m     \* map_id2sd
Own(p) == guildOf[guildsman[p].at][guildsman[p].id].guild    \* guild_search(sd->status.guild_id)
InKnownGuild(p) == /\ guildsman[p].at # Elsewhere /\ guildsman[p].loaded /\ guildsman[p].id # 0
                   /\ Own(p).exists
Quit(g, p) == [t |-> "leave", id |-> g, p |-> p]

(* Relations of one guild to the others. *)
Count(q, foe) == Cardinality({j \in Relations : q.alliance[j].id # 0 /\ q.alliance[j].foe = foe})
With(q, g) == {j \in Relations : q.alliance[j].id = g}
WithAs(q, g, foe) == {j \in With(q, g) : q.alliance[j].foe = foe}
Related(q, g, foe) == LET J == With(q, 0) IN
    IF J = {} THEN q ELSE [q EXCEPT !.alliance[Lowest(J)] = [id |-> g, foe |-> foe]]
Unrelated(q, g, foe) == LET J == WithAs(q, g, foe) IN
    IF J = {} THEN q ELSE [q EXCEPT !.alliance[Lowest(J)] = NoRelation]

----------------------------------------------------------------------------
(* What players ask for. *)

(* A patient player waits until its request to found or to join a guild, or its consent to an
   alliance, is answered. *)
Awaited(p) == \E m \in MapServers : \E msg \in Range(toInter[m]) \cup Range(fromInter[m]) :
                  \/ msg.t \in {"create", "created", "add", "added"} /\ msg.p = p
                  \/ msg.t \in {"ally", "allied"} /\ msg.by = p
Unhurried(p) == Patient => ~Awaited(p)

guild_create(p) ==
    LET m == guildsman[p].at IN
    /\ m # Elsewhere /\ guildsman[p].loaded /\ Room(m)
    /\ guildsman[p].id = 0 /\ Unhurried(p)
    /\ founded < MaxGuilds
    /\ Send(m, <<[t |-> "create", p |-> p]>>)
    /\ UNCHANGED <<fromInter, ends, guildDb, guildCopies>>

guild_invite(p, q) ==
    LET m == guildsman[p].at IN
    /\ InKnownGuild(p) /\ MayManage(Own(p), p)
    /\ OnServer(q, m) /\ guildsman[q].id = 0 /\ guildsman[q].invite = 0
    /\ FreeSeats(Own(p)) # {}
    /\ guildsman' = [guildsman EXCEPT ![q].invite = guildsman[p].id]
    /\ UNCHANGED <<linkVars, guildDb, guildOf, forsaken>>

(* An accepted invitation stands until the char server answers. *)
guild_reply_invite(p, accepts) ==
    LET m == guildsman[p].at
        g == guildsman[p].invite
        joins == accepts /\ FreeSeats(guildOf[m][g].guild) # {} /\ guildOf[m][g].guild.exists
    IN
    /\ m # Elsewhere /\ g # 0 /\ guildsman[p].id = 0
    /\ accepts => Unhurried(p)
    /\ Send(m, IF joins THEN <<[t |-> "add", id |-> g, p |-> p]>> ELSE <<>>)
    /\ guildsman' = IF joins THEN guildsman ELSE [guildsman EXCEPT ![p].invite = 0]
    /\ UNCHANGED <<fromInter, ends, guildDb, guildOf, forsaken>>

(* guild_leave when p = q, else guild_expulsion, which spares the master. *)
guild_leave(p, q) ==
    /\ InKnownGuild(p) /\ Room(guildsman[p].at)
    /\ p = q \/ (MayManage(Own(p), p) /\ HasSeat(Own(p), q) /\ Own(p).master # q)
    /\ Send(guildsman[p].at, <<Quit(guildsman[p].id, q)>>)
    /\ UNCHANGED <<fromInter, ends, guildDb, guildCopies>>

(* atcommand_changegm *)
guild_gm_change(p, q) ==
    LET m == guildsman[p].at IN
    /\ InKnownGuild(p) /\ Own(p).master = p /\ Room(m)
    /\ q # p /\ OnServer(q, m) /\ guildsman[q].id = guildsman[p].id
    /\ Send(m, <<[t |-> "master", id |-> guildsman[p].id, p |-> q]>>)
    /\ UNCHANGED <<fromInter, ends, guildDb, guildCopies>>

guild_break(p) ==
    /\ InKnownGuild(p) /\ guildsman[p].chief /\ Guildmates(Own(p)) \subseteq {p}
    /\ Send(guildsman[p].at, <<[t |-> "break", id |-> guildsman[p].id]>>)
    /\ UNCHANGED <<fromInter, ends, guildDb, guildCopies>>

----------------------------------------------------------------------------
(* Alliances.  A packet: guild id makes an alliance with guild with, or declares it a foe, or
   removes that; by and of are the players to be answered. *)
Ally(g, h, p, q, remove, foe) ==
    [t |-> "ally", id |-> g, with |-> h, by |-> p, of |-> q, remove |-> remove, foe |-> foe]

guild_reqalliance(p, q) ==
    LET m == guildsman[p].at IN
    /\ InKnownGuild(p) /\ guildsman[p].chief
    /\ OnServer(q, m) /\ guildsman[q].id \notin {0, guildsman[p].id} /\ Own(q).exists
    /\ \A r \in {p, q} : Count(Own(r), FALSE) < MaxAlliances
    /\ guildsman[q].alliance = 0
    /\ WithAs(Own(p), guildsman[q].id, FALSE) = {}
    /\ guildsman' = [guildsman EXCEPT ![q].alliance = guildsman[p].id, ![q].asker = p]
    /\ UNCHANGED <<linkVars, guildDb, guildOf, forsaken>>

(* Nothing happens when the asker is gone or has changed guild.  Old oppositions are removed
   before the alliance is made. *)
guild_reply_reqalliance(p, accepts) ==
    LET m == guildsman[p].at
        q == guildsman[p].asker
        g == guildsman[p].id
        h == guildsman[p].alliance
        peace(a, b, r, s) == IF WithAs(guildOf[m][a].guild, b, TRUE) = {} THEN <<>>
                             ELSE <<Ally(a, b, r, s, TRUE, TRUE)>>
    IN
    /\ m # Elsewhere /\ h # 0 /\ OnServer(q, m) /\ guildsman[q].id = h
    /\ accepts => Unhurried(p)
    /\ IF accepts
       THEN /\ \A i \in {g, h} : i # 0 /\ guildOf[m][i].guild.exists
                                 /\ Count(guildOf[m][i].guild, FALSE) < MaxAlliances
            /\ Send(m, peace(g, h, p, q) \o peace(h, g, q, p) \o <<Ally(g, h, p, q, FALSE, FALSE)>>)
            /\ UNCHANGED guildsman
       ELSE /\ guildsman' = [guildsman EXCEPT ![p].alliance = 0, ![p].asker = NoGuildsman]
            /\ UNCHANGED toInter
    /\ UNCHANGED <<fromInter, ends, guildDb, guildOf, forsaken>>

guild_delalliance(p, h, foe) ==
    LET m == guildsman[p].at IN
    /\ InKnownGuild(p) /\ guildsman[p].chief /\ Room(m)
    /\ WithAs(Own(p), h, foe) # {}
    /\ Send(m, <<Ally(guildsman[p].id, h, p, NoGuildsman, TRUE, foe)>>)
    /\ UNCHANGED <<fromInter, ends, guildDb, guildCopies>>

guild_opposition(p, q) ==
    LET m == guildsman[p].at
        h == guildsman[q].id
        broken == IF WithAs(Own(p), h, FALSE) = {} THEN <<>> ELSE <<Ally(guildsman[p].id, h, p, q, TRUE, FALSE)>>
    IN
    /\ InKnownGuild(p) /\ guildsman[p].chief /\ Room(m)
    /\ OnServer(q, m) /\ h \notin {0, guildsman[p].id}
    /\ Count(Own(p), TRUE) < MaxAlliances /\ WithAs(Own(p), h, TRUE) = {}
    /\ Send(m, broken \o <<Ally(guildsman[p].id, h, p, q, FALSE, TRUE)>>)
    /\ UNCHANGED <<fromInter, ends, guildDb, guildCopies>>

----------------------------------------------------------------------------
(* Coming and going. *)

(* A player is handed over only when it is saved (see Handoff), and one at a time. *)
OnItsWay(p) == \E m \in MapServers : \E msg \in Range(toInter[m]) \cup Range(fromInter[m]) :
                   msg.t \in {"char", "authreq", "auth"} /\ msg.p = p

(* From another map server, or by parse_char (0x66), which reads the character from SQL. *)
guildsman_arrives(p, m) ==
    /\ guildsman[p].at = Elsewhere /\ ~OnItsWay(p)
    /\ copyGuild' = IF guildsman[p].moves THEN copyGuild ELSE [copyGuild EXCEPT ![p] = rowGuild[p]]
    /\ Send(m, <<[t |-> "authreq", p |-> p]>>)
    /\ UNCHANGED <<fromInter, ends, guild, founded, rowGuild, guildCopies>>

(* clif_parse_LoadEndAck *)
Short(p) == IF guildsman[p].id = 0 \/ ~Own(p).exists THEN <<>>
            ELSE <<[t |-> "short", id |-> guildsman[p].id, p |-> p]>>
guild_send_memberinfoshort(p) ==
    /\ guildsman[p].at # Elsewhere /\ ~guildsman[p].loaded
    /\ Send(guildsman[p].at, Short(p))
    /\ guildsman' = [guildsman EXCEPT ![p].loaded = TRUE]
    /\ UNCHANGED <<fromInter, ends, guildDb, guildOf, forsaken>>

(* map_quit, or pc_setpos to another map server: chrif_save, then unit_free with
   guild_send_memberinfoshort, which takes the pointer out of the copy. *)
WithoutPointer(p) ==
    LET m == guildsman[p].at
        g == guildsman[p].id
    IN IF g # 0 /\ HasSeat(Own(p), p)
       THEN [guildOf EXCEPT ![m][g].sd = @ \ {SeatOf(Own(p), p)}] ELSE guildOf

guildsman_leaves(p, moves) ==
    LET m == guildsman[p].at IN
    /\ m # Elsewhere
    /\ Send(m, <<[t |-> "char", p |-> p, id |-> guildsman[p].id]>> \o Short(p))
    /\ guildOf' = WithoutPointer(p)
    /\ guildsman' = [guildsman EXCEPT ![p] = [InGuild(Elsewhere, 0) EXCEPT !.moves = moves]]
    /\ UNCHANGED <<fromInter, ends, guildDb, forsaken>>

(* unit_remove_map: a warp on the same map server refuses what is asked of the player, an
   invitation it has accepted too, unless it is in a guild by now; an alliance only when the
   asker is still there. *)
guildsman_warps(p) ==
    LET s == guildsman[p]
        refused == OnServer(s.asker, s.at) /\ guildsman[s.asker].id = s.alliance
    IN
    /\ s.at # Elsewhere /\ s.loaded
    /\ guildsman' = [guildsman EXCEPT ![p] =
           [s EXCEPT !.loaded = FALSE,
                     !.invite = IF s.id = 0 THEN 0 ELSE @,
                     !.alliance = IF refused THEN 0 ELSE @,
                     !.asker = IF refused THEN NoGuildsman ELSE @]]
    /\ UNCHANGED <<linkVars, guildDb, guildOf, forsaken>>

----------------------------------------------------------------------------
(* The char server: inter_guild_parse_frommap. *)

Info(g, q) == [t |-> "info", id |-> g, guild |-> q]

CreateGuild(m, p) ==
    LET g == founded + 1
        q == OldGuild([i \in Seats |-> IF i = 1 THEN p ELSE NoGuildsman])
    IN
    /\ \/ /\ g \in GuildIds
          /\ founded' = g
          /\ guild' = [guild EXCEPT ![g] = q]
          /\ Reply(m, <<[t |-> "created", p |-> p, id |-> g], Info(g, q)>>)
       \/ /\ Reply(m, <<[t |-> "created", p |-> p, id |-> 0]>>)     \* the name is taken or not allowed
          /\ UNCHANGED <<guild, founded>>
    /\ UNCHANGED rowGuild

GuildInfo(m, g) ==
    /\ Reply(m, IF guild[g].exists THEN <<Info(g, guild[g])>> ELSE <<[t |-> "noinfo", id |-> g]>>)
    /\ UNCHANGED <<guild, founded, rowGuild>>

GuildAddMember(m, g, p) ==
    LET free == FreeSeats(guild[g])
        q == [guild[g] EXCEPT !.seat[Lowest(free)] = [who |-> p, top |-> FALSE]]
        added(ok) == [t |-> "added", id |-> g, p |-> p, ok |-> ok]
    IN
    /\ IF guild[g].exists /\ free # {}
       THEN /\ guild' = [guild EXCEPT ![g] = q]
            /\ fromInter' = [n \in MapServers |->
                                 fromInter[n] \o (IF n = m THEN <<added(TRUE)>> ELSE <<>>) \o <<Info(g, q)>>]
       ELSE Reply(m, <<added(FALSE)>>) /\ UNCHANGED guild
    /\ UNCHANGED <<founded, rowGuild>>

Broken(g) == [t |-> "broken", id |-> g]

(* mapif_parse_GuildLeave; the last member breaks the guild. *)
GuildLeave(m, g, p) ==
    LET q == [guild[g] EXCEPT !.seat[SeatOf(guild[g], p)] = NoSeat]
        withdraw == [t |-> "withdraw", id |-> g, p |-> p]
        rows == [rowGuild EXCEPT ![p] = 0]
    IN
    /\ IF ~guild[g].exists THEN rowGuild' = rows /\ UNCHANGED <<fromInter, guild>>
       ELSE IF ~HasSeat(guild[g], p) THEN UNCHANGED <<fromInter, guild, rowGuild>>
       ELSE IF Guildmates(q) = {}
       THEN /\ guild' = [guild EXCEPT ![g] = NoGuild]
            /\ rowGuild' = [r \in Guildsmen |-> IF rows[r] = g THEN 0 ELSE rows[r]]
            /\ ToAll(<<withdraw, Broken(g)>>)
       ELSE /\ guild' = [guild EXCEPT ![g] = q]
            /\ rowGuild' = rows
            /\ fromInter' = [n \in MapServers |->
                                 fromInter[n] \o <<withdraw>> \o IF n = m THEN <<Info(g, q)>> ELSE <<>>]
    /\ UNCHANGED founded

BreakGuild(g) ==
    /\ IF guild[g].exists
       THEN /\ guild' = [guild EXCEPT ![g] = NoGuild]
            /\ rowGuild' = [p \in Guildsmen |-> IF rowGuild[p] = g THEN 0 ELSE rowGuild[p]]
            /\ ToAll(<<Broken(g)>>)
       ELSE UNCHANGED <<guild, rowGuild, fromInter>>
    /\ UNCHANGED founded

(* mapif_parse_GuildChangeMemberInfoShort *)
MemberInfoShort(g, p) ==
    /\ IF guild[g].exists /\ HasSeat(guild[g], p)
       THEN ToAll(<<[t |-> "short", id |-> g, p |-> p]>>) ELSE UNCHANGED fromInter
    /\ UNCHANGED <<guild, founded, rowGuild>>

(* The old master takes the seat and the position of the new one. *)
Promoted(q, p) ==
    LET i == SeatOf(q, p) IN
    [q EXCEPT !.master = p,
              !.seat = [@ EXCEPT ![i] = [who |-> q.seat[1].who, top |-> q.seat[i].top],
                                 ![1] = [who |-> p, top |-> TRUE]]]
GuildMasterChange(g, p) ==
    /\ IF guild[g].exists /\ HasSeat(guild[g], p)
       THEN /\ guild' = [guild EXCEPT ![g] = Promoted(@, p)]
            /\ ToAll(<<[t |-> "master", id |-> g, p |-> p]>>)
       ELSE UNCHANGED <<guild, fromInter>>
    /\ UNCHANGED <<founded, rowGuild>>

(* What a packet does to the guilds it names: an opposition is of the first only. *)
Allied(q, other, msg) == IF msg.remove THEN Unrelated(q, other, msg.foe) ELSE Related(q, other, msg.foe)
BothAllied(guilds, msg) ==
    LET first == [guilds EXCEPT ![msg.id] = Allied(@, msg.with, msg)]
    IN IF msg.foe THEN first ELSE [first EXCEPT ![msg.with] = Allied(@, msg.id, msg)]

(* mapif_parse_GuildAlliance and mapif_parse_GuildDeleteAlliance *)
GuildAlliance(msg) ==
    LET g == msg.id
        h == msg.with
        J == With(guild[g], h)
        ack == ToAll(<<[msg EXCEPT !.t = "allied"]>>)
    IN
    /\ IF guild[g].exists /\ ~guild[h].exists /\ msg.remove /\ J # {}
       THEN guild' = [guild EXCEPT ![g].alliance[Lowest(J)] = NoRelation] /\ ack
       ELSE IF guild[g].exists /\ guild[h].exists
       THEN guild' = BothAllied(guild, msg) /\ ack
       ELSE UNCHANGED <<guild, fromInter>>
    /\ UNCHANGED <<founded, rowGuild>>

(* mmo_char_tosql, and the answer to chrif_authreq *)
SaveGuildsman(p, g) ==
    /\ rowGuild' = [rowGuild EXCEPT ![p] = g]
    /\ copyGuild' = [copyGuild EXCEPT ![p] = g]
    /\ UNCHANGED <<fromInter, guild, founded>>
AuthGuildsman(m, p) ==
    /\ Reply(m, <<[t |-> "auth", p |-> p, id |-> copyGuild[p]]>>)
    /\ UNCHANGED <<guild, founded, rowGuild>>

inter_guild_parse_frommap(m) ==
    /\ toInter[m] # <<>>
    /\ LET msg == Head(toInter[m]) IN
       \/ /\ \/ msg.t = "create" /\ CreateGuild(m, msg.p)
             \/ msg.t = "info" /\ GuildInfo(m, msg.id)
             \/ msg.t = "add" /\ GuildAddMember(m, msg.id, msg.p)
             \/ msg.t = "leave" /\ GuildLeave(m, msg.id, msg.p)
             \/ msg.t = "break" /\ BreakGuild(msg.id)
             \/ msg.t = "short" /\ MemberInfoShort(msg.id, msg.p)
             \/ msg.t = "master" /\ GuildMasterChange(msg.id, msg.p)
             \/ msg.t = "ally" /\ GuildAlliance(msg)
             \/ msg.t = "authreq" /\ AuthGuildsman(m, msg.p)
          /\ UNCHANGED copyGuild
       \/ msg.t = "char" /\ SaveGuildsman(msg.p, msg.id)
    /\ TakenFrom(m)
    /\ UNCHANGED <<ends, guildCopies, deeds>>

----------------------------------------------------------------------------
(* The map servers: intif_parse_Guild*.  Each handler says what becomes of the copies, the
   sessions and the forsaken, and what is sent. *)

Knows(m, g) == guildOf[m][g].guild.exists
Belongs(p, m, g) == OnServer(p, m) /\ guildsman[p].id = g

(* guild_sd_check: whoever is here with another guild, or none, is taken out. *)
Strays(m, g, q, sess) == {i \in Seats : OnServer(q.seat[i].who, m) /\ sess[q.seat[i].who].id # g}
Listed(m, g, q, sess) == {i \in Seats : OnServer(q.seat[i].who, m) /\ sess[q.seat[i].who].id = g}
Expelled(g, q, I) ==
    LET upto[i \in 0 .. MaxGuild] ==
            IF i = 0 THEN <<>> ELSE upto[i - 1] \o IF i \in I THEN <<Quit(g, q.seat[i].who)>> ELSE <<>>
    IN upto[MaxGuild]

guild_member_joined_believing(m, p, g) ==              \* a mistake the runs must notice
    /\ guildsman' = [guildsman EXCEPT ![p] = InGuild(m, g)]
    /\ Send(m, IF g # 0 /\ ~Knows(m, g) THEN <<[t |-> "info", id |-> g]>> ELSE <<>>)
    /\ UNCHANGED <<guildOf, forsaken>>

(* pc_reg_received with guild_member_joined: the copy is searched, or asked for. *)
guild_member_joined(m, p, g) ==
    LET known == g # 0 /\ Knows(m, g)
        q == guildOf[m][g].guild
        member == known /\ HasSeat(q, p)
        session == [InGuild(m, g) EXCEPT !.chief = known /\ q.master = p,
                                         !.id = IF known /\ ~member THEN 0 ELSE @]
    IN
    /\ guildsman' = [guildsman EXCEPT ![p] = session]
    /\ guildOf' = IF member THEN [guildOf EXCEPT ![m][g].sd = @ \cup {SeatOf(q, p)}] ELSE guildOf
    /\ Send(m, IF g # 0 /\ ~known THEN <<[t |-> "info", id |-> g]>> ELSE <<>>)
    /\ UNCHANGED forsaken

(* The first time the members here are checked (guild_check_member). *)
guild_recv_info(m, g, q) ==
    LET checked == IF Knows(m, g) THEN guildsman
                   ELSE [p \in Guildsmen |->
                           [guildsman[p] EXCEPT !.id = IF Belongs(p, m, g) /\ ~HasSeat(q, p) THEN 0 ELSE @,
                                                !.chief = @ \/ (OnServer(p, m) /\ q.master = p)]]
    IN
    /\ guildsman' = checked
    /\ guildOf' = [guildOf EXCEPT ![m][g] = [guild |-> q, sd |-> Listed(m, g, q, checked)]]
    /\ Send(m, Expelled(g, q, Strays(m, g, q, checked)))
    /\ UNCHANGED forsaken

guild_recv_noinfo(m, g) ==
    /\ guildsman' = [p \in Guildsmen |-> IF Belongs(p, m, g) THEN [guildsman[p] EXCEPT !.id = 0]
                                         ELSE guildsman[p]]
    /\ UNCHANGED <<toInter, guildOf, forsaken>>

(* The founder may be gone: the guild stays with a master who knows nothing of it. *)
guild_created(m, p, g) ==
    /\ guildsman' = IF OnServer(p, m) /\ g # 0 THEN [guildsman EXCEPT ![p].id = g] ELSE guildsman
    /\ forsaken' = IF OnServer(p, m) \/ g = 0 THEN forsaken ELSE forsaken \cup {g}
    /\ UNCHANGED <<toInter, guildOf>>

(* The invitation may be void by now, or the player gone: then the member is taken out again. *)
guild_member_added(m, g, p, ok) ==
    LET invited == OnServer(p, m) /\ guildsman[p].invite # 0 IN
    /\ guildsman' = IF Knows(m, g) /\ invited
                    THEN [guildsman EXCEPT ![p].invite = 0, ![p].id = IF ok THEN g ELSE @] ELSE guildsman
    /\ Send(m, IF Knows(m, g) /\ ~invited /\ ok THEN <<Quit(g, p)>> ELSE <<>>)
    /\ UNCHANGED <<guildOf, forsaken>>

(* Without a member online here (guild_getavailablesd) the copy keeps who left. *)
guild_member_withdraw(m, g, p) ==
    LET c == guildOf[m][g]
        i == SeatOf(c.guild, p)
    IN
    /\ IF HasSeat(c.guild, p) /\ c.sd # {}
       THEN /\ guildOf' = [guildOf EXCEPT ![m][g].guild.seat[i] = NoSeat, ![m][g].sd = @ \ {i}]
            /\ guildsman' = IF Belongs(p, m, g) THEN [guildsman EXCEPT ![p].id = 0] ELSE guildsman
            /\ UNCHANGED forsaken
       ELSE /\ forsaken' = IF HasSeat(c.guild, p) THEN forsaken \cup {g} ELSE forsaken
            /\ UNCHANGED <<guildOf, guildsman>>
    /\ UNCHANGED toInter

guild_recv_memberinfoshort_trusting(m, g, p) ==        \* a mistake the runs must notice
    /\ guildOf' = IF HasSeat(guildOf[m][g].guild, p)
                  THEN [guildOf EXCEPT ![m][g].sd = @ \cup {SeatOf(guildOf[m][g].guild, p)}] ELSE guildOf
    /\ UNCHANGED <<toInter, guildsman, forsaken>>

guild_recv_memberinfoshort(m, g, p) ==
    LET c == guildOf[m][g]
        i == SeatOf(c.guild, p)
        I == IF HasSeat(c.guild, p) THEN {i} ELSE {}
    IN
    /\ guildOf' = IF I = {} THEN guildOf
                  ELSE [guildOf EXCEPT ![m][g].sd = IF Belongs(p, m, g) THEN @ \cup I ELSE @ \ I]
    /\ Send(m, Expelled(g, c.guild, I \cap Strays(m, g, c.guild, guildsman)))
    /\ guildsman' = IF Knows(m, g) /\ I = {} /\ OnServer(p, m)
                    THEN [guildsman EXCEPT ![p].id = 0] ELSE guildsman
    /\ UNCHANGED forsaken

(* The other guilds here end their relations to it (guild_broken_sub). *)
guild_broken(m, g) ==
    LET others == {h \in GuildIds : With(guildOf[m][h].guild, g) # {}}
        out == {guildOf[m][g].guild.seat[i].who : i \in guildOf[m][g].sd}
        ended(h) == LET upto[j \in 0 .. MaxRelations] ==
                            IF j = 0 THEN <<>>
                            ELSE upto[j - 1] \o IF j \notin With(guildOf[m][h].guild, g) THEN <<>>
                                 ELSE <<Ally(h, g, NoGuildsman, NoGuildsman, TRUE,
                                             guildOf[m][h].guild.alliance[j].foe)>>
                    IN upto[MaxRelations]
        all[h \in 0 .. MaxGuilds] == IF h = 0 THEN <<>> ELSE all[h - 1] \o ended(h)
    IN
    /\ IF Knows(m, g)
       THEN /\ guildsman' = [p \in Guildsmen |-> IF p \in out THEN [guildsman[p] EXCEPT !.id = 0, !.chief = FALSE]
                                                 ELSE guildsman[p]]
            /\ guildOf' = [guildOf EXCEPT ![m] = [h \in GuildIds |->
                   IF h = g THEN NoGuildCopy
                   ELSE [@[h] EXCEPT !.guild.alliance = [j \in Relations |->
                             IF @[j].id = g THEN NoRelation ELSE @[j]]]]]
            /\ Send(m, all[MaxGuilds])
       ELSE UNCHANGED <<guildsman, guildOf, toInter>>
    /\ UNCHANGED forsaken

(* The pointers change seats with the members. *)
guild_gm_changed(m, g, p) ==
    LET c == guildOf[m][g]
        i == SeatOf(c.guild, p)
        swap(k) == IF k = 1 THEN i ELSE IF k = i THEN 1 ELSE k
        here(k) == k \in c.sd
    IN
    /\ IF HasSeat(c.guild, p) /\ i # 1
       THEN /\ guildOf' = [guildOf EXCEPT ![m][g] =
                               [guild |-> Promoted(c.guild, p), sd |-> {k \in Seats : swap(k) \in c.sd}]]
            /\ guildsman' = [r \in Guildsmen |->
                   IF r = p /\ here(i) THEN [guildsman[r] EXCEPT !.chief = TRUE]
                   ELSE IF r = c.guild.seat[1].who /\ here(1) THEN [guildsman[r] EXCEPT !.chief = FALSE]
                   ELSE guildsman[r]]
       ELSE UNCHANGED <<guildOf, guildsman>>
    /\ UNCHANGED <<toInter, forsaken>>

guild_allianceack_first(m, msg) ==                     \* a mistake the runs must notice
    /\ guildOf' = IF Knows(m, msg.id) THEN [guildOf EXCEPT ![m][msg.id].guild = Allied(@, msg.with, msg)]
                  ELSE guildOf
    /\ UNCHANGED <<toInter, guildsman, forsaken>>

guild_allianceack(m, msg) ==
    LET made == ~msg.remove /\ ~msg.foe
        after == BothAllied([h \in GuildIds |-> guildOf[m][h].guild], msg)
    IN
    /\ guildOf' = [guildOf EXCEPT ![m] = [h \in GuildIds |->
                      IF Knows(m, h) THEN [@[h] EXCEPT !.guild = after[h]] ELSE @[h]]]
    /\ guildsman' = IF made /\ OnServer(msg.by, m)
                    THEN [guildsman EXCEPT ![msg.by].alliance = 0, ![msg.by].asker = NoGuildsman]
                    ELSE guildsman
    /\ UNCHANGED <<toInter, forsaken>>

intif_parse_guild(m) ==
    /\ fromInter[m] # <<>>
    /\ LET msg == Head(fromInter[m]) IN
       \/ msg.t = "auth" /\ guild_member_joined(m, msg.p, msg.id)
       \/ msg.t = "created" /\ guild_created(m, msg.p, msg.id)
       \/ msg.t = "info" /\ guild_recv_info(m, msg.id, msg.guild)
       \/ msg.t = "noinfo" /\ guild_recv_noinfo(m, msg.id)
       \/ msg.t = "added" /\ guild_member_added(m, msg.id, msg.p, msg.ok)
       \/ msg.t = "withdraw" /\ guild_member_withdraw(m, msg.id, msg.p)
       \/ msg.t = "short" /\ guild_recv_memberinfoshort(m, msg.id, msg.p)
       \/ msg.t = "broken" /\ guild_broken(m, msg.id)
       \/ msg.t = "master" /\ guild_gm_changed(m, msg.id, msg.p)
       \/ msg.t = "allied" /\ guild_allianceack(m, msg)
    /\ TakenBy(m)
    /\ UNCHANGED <<ends, guildDb, deeds>>

----------------------------------------------------------------------------
GuildUser(p) ==
    /\ deeds < MaxDeeds /\ deeds' = deeds + 1
    /\ \/ guild_create(p)
       \/ guild_break(p)
       \/ \E q \in Guildsmen : guild_invite(p, q) \/ guild_leave(p, q) \/ guild_gm_change(p, q)
                               \/ guild_reqalliance(p, q) \/ guild_opposition(p, q)
       \/ \E accepts \in BOOLEAN : guild_reply_invite(p, accepts) \/ guild_reply_reqalliance(p, accepts)
       \/ \E g \in GuildIds, foe \in BOOLEAN : guild_delalliance(p, g, foe)
       \/ \E m \in MapServers : guildsman_arrives(p, m)
       \/ \E moves \in BOOLEAN : guildsman_leaves(p, moves)
       \/ guildsman_warps(p)

GuildLink(m) == inter_guild_parse_frommap(m) \/ intif_parse_guild(m)

GuildNext ==
    \/ \E p \in Guildsmen : GuildUser(p) \/ (guild_send_memberinfoshort(p) /\ UNCHANGED deeds)
    \/ \E m \in MapServers : GuildLink(m)

----------------------------------------------------------------------------
(* Nothing is in flight between the servers. *)
Arrived == \A m \in MapServers : Quiet(m)

(* Once everything sent has arrived all agree on a guild no handler gave up: the copies of the
   map servers with the char server on its members and master, and every player on a map server
   is in the guild it believes to be in. *)
GuildsAgree ==
    Arrived => \A g \in GuildIds \ forsaken, m \in MapServers :
        /\ Knows(m, g) => /\ Guildmates(guildOf[m][g].guild) = Guildmates(guild[g])
                          /\ guildOf[m][g].guild.master = guild[g].master
        /\ \A p \in Guildsmen : OnServer(p, m) => (guildsman[p].id = g <=> HasSeat(guild[g], p))

(* member[].sd of a copy, which is followed without a look at whose it is, is at any time the
   session on this map server of the member in that place: whatever frees the session, or puts
   another member there, takes the pointer out first or along. *)
GuildPointersLive ==
    \A m \in MapServers, g \in GuildIds : \A i \in guildOf[m][g].sd :
        OnServer(guildOf[m][g].guild.seat[i].who, m)

(* Once everything sent has arrived, guilds are allied with each other or not at all, and the
   map servers show what the char server has, also after one of the guilds was broken. *)
Allies(g, h) == Cardinality(WithAs(guild[g], h, FALSE))
AlliancesAgree ==
    Arrived => \A g \in GuildIds :
        /\ \A h \in GuildIds : guild[g].exists /\ guild[h].exists => Allies(g, h) = Allies(h, g)
        /\ \A m \in MapServers : Knows(m, g) => guildOf[m][g].guild.alliance = guild[g].alliance
=============================================================================
