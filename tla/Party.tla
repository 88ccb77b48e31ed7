-------------------------------- MODULE Party --------------------------------
(***************************************************************************)
(* Parties: party.c and intif.c on the map servers, int_party.c on the     *)
(* char server.  The char server keeps every party; each map server keeps  *)
(* a copy and follows the char server's packets; a player carries the id   *)
(* of its party, which is also saved with the character.  Every change     *)
(* but one is asked of the char server and done when it answers: the       *)
(* leader is changed on the map server first.                              *)
(* Levels and even share are in PartyShare.  Links do not fail here: what  *)
(* a map server misses while its link is down is never repeated.           *)
(***************************************************************************)
EXTENDS InterLink, Functions

CONSTANTS Players,    \* characters, each of its own account
          MaxParty,   \* MAX_PARTY
          MaxParties, \* bound: how many parties are created
          MaxAsks,    \* bound: how much players do, all together
          Nobody,     \* an empty place in a party
          Away        \* not on a map server

ASSUME PartyAssumption == /\ MaxParty \in Nat \ {0} /\ MaxParties \in Nat /\ MaxAsks \in Nat
                          /\ Nobody \notin Players /\ Away \notin MapServers

VARIABLES party,   \* the char server's party_db_
          created, \* the last party id given
          partyOf, \* per map server: party_db
          sessions,\* per player: the fields of map_session_data about parties
          saved,   \* per player: party_id of the character in SQL
          cached,  \* per player: the same in char_db_, for the map server
          halted,  \* has a map server dereferenced NULL?
          asks     \* how much players did

partyVars == <<party, created, partyOf, sessions, saved, cached, halted, asks>>

PartyIds == 1 .. MaxParties
Slots == 1 .. MaxParty
Empty == [who |-> Nobody, leader |-> FALSE, online |-> FALSE]
NoParty == [exists |-> FALSE, slot |-> [i \in Slots |-> Empty]]
NoPartyCopy == [sd |-> {}, party |-> NoParty]    \* sd: the places with data[].sd
PartyRecords == [exists : BOOLEAN,
                 slot : [Slots -> [who : Players \cup {Nobody}, leader : BOOLEAN, online : BOOLEAN]]]

PartyTypeOK ==
    /\ party \in [PartyIds -> PartyRecords]
    /\ created \in 0 .. MaxParties
    /\ partyOf \in [MapServers -> [PartyIds -> [sd : SUBSET Slots, party : PartyRecords]]]
    /\ sessions \in [Players -> [at : MapServers \cup {Away}, id : 0 .. MaxParties, creating : BOOLEAN,
                                 joining : BOOLEAN, invite : 0 .. MaxParties,
                              loaded : BOOLEAN, moves : BOOLEAN]]
    /\ saved \in [Players -> 0 .. MaxParties] /\ cached \in [Players -> 0 .. MaxParties]
    /\ halted \in BOOLEAN /\ asks \in 0 .. MaxAsks

Session(m, id) == [at |-> m, id |-> id, creating |-> FALSE, joining |-> FALSE, invite |-> 0,
                   loaded |-> FALSE, moves |-> FALSE]

(* A party that was in SQL before the servers started, or none. *)
OldParty(s, on) ==
    [exists |-> TRUE,
     slot |-> [i \in Slots |-> [who |-> s[i], leader |-> i = 1, online |-> on /\ s[i] # Nobody]]]
OldParties(on) == {OldParty(s, on) : s \in {t \in [Slots -> Players \cup {Nobody}] :
                  /\ t[1] # Nobody
                  /\ \A i, j \in Slots : i # j /\ t[i] # Nobody => t[i] # t[j]}}

(* The servers have just started and nobody plays, with or without a party in SQL; or all play
   on one map server, which knows their party. *)
OldOrNone(on) ==
    \/ /\ created = 0 /\ party = [g \in PartyIds |-> NoParty]
       /\ saved = [p \in Players |-> 0]
    \/ /\ created = 1
       /\ \E q \in OldParties(on) :
              /\ party = [g \in PartyIds |-> IF g = 1 THEN q ELSE NoParty]
              /\ saved = [p \in Players |-> IF \E i \in Slots : q.slot[i].who = p THEN 1 ELSE 0]

PartyInit ==
    /\ LinkInit
    /\ \/ /\ OldOrNone(FALSE)
          /\ partyOf = [m \in MapServers |-> [g \in PartyIds |-> NoPartyCopy]]
          /\ sessions = [p \in Players |-> Session(Away, 0)]
       \/ /\ OldOrNone(TRUE)
          /\ LET m == CHOOSE m \in MapServers : TRUE
                 known == [g \in PartyIds |->
                              IF ~party[g].exists THEN NoPartyCopy
                              ELSE [party |-> party[g], sd |-> {i \in Slots : party[g].slot[i] # Empty}]]
             IN /\ partyOf = [[n \in MapServers |-> [g \in PartyIds |-> NoPartyCopy]] EXCEPT ![m] = known]
                /\ sessions = [p \in Players |-> [Session(m, saved[p]) EXCEPT !.loaded = TRUE]]
    /\ cached = saved /\ halted = FALSE /\ asks = 0

PMembers(q) == {q.slot[i].who : i \in Slots} \ {Nobody}
Leads(q, p) == \E i \in Slots : q.slot[i].who = p /\ q.slot[i].leader
First(I) == CHOOSE i \in I : \A j \in I : i <= j
SlotsOf(q, p) == {i \in Slots : q.slot[i].who = p /\ \A j \in 1 .. i - 1 : q.slot[j].who # p}
SlotOf(q, p) == First({i \in Slots : q.slot[i].who = p})     \* ARR_FIND
Here(p, m) == sessions[p].at = m
Active(p) == sessions[p].at # Away /\ sessions[p].loaded
Leave(g, p) == [t |-> "leave", id |-> g, p |-> p]
Move(p, on) == [t |-> "move", id |-> sessions[p].id, p |-> p, online |-> on]

----------------------------------------------------------------------------
(* What players ask for. *)

(* party_create *)
party_create(p) ==
    LET m == sessions[p].at IN
    /\ Active(p) /\ Room(m) /\ joined[m]
    /\ sessions[p].id = 0 /\ ~sessions[p].joining /\ ~sessions[p].creating
    /\ created < MaxParties
    /\ Send(m, <<[t |-> "create", p |-> p]>>)
    /\ sessions' = [sessions EXCEPT ![p].creating = TRUE]
    /\ UNCHANGED <<fromInter, ends, party, created, partyOf, saved, cached, halted>>

(* party_invite: of a player on the same map server, by a leader according to the copy. *)
LeadsHere(p, m) ==
    LET c == partyOf[m][sessions[p].id] IN
    /\ sessions[p].id # 0
    /\ c.party.exists
    /\ \E i \in c.sd : c.party.slot[i].who = p /\ c.party.slot[i].leader

party_invite(p, q) ==
    LET m == sessions[p].at IN
    /\ Active(p) /\ Here(q, m) /\ LeadsHere(p, m)
    /\ sessions[q].id = 0 /\ sessions[q].invite = 0
    /\ \E i \in 1 .. MaxParty : partyOf[m][sessions[p].id].party.slot[i] = Empty
    /\ sessions' = [sessions EXCEPT ![q].invite = sessions[p].id]
    /\ UNCHANGED <<linkVars, party, created, partyOf, saved, cached, halted>>

(* party_reply_invite *)
MayJoin(p) == ~sessions[p].creating /\ ~sessions[p].joining

party_reply_invite(p, accepts) ==
    LET m == sessions[p].at IN
    /\ Active(p) /\ sessions[p].invite # 0
    /\ IF accepts /\ MayJoin(p)
       THEN /\ Send(m, <<[t |-> "add", id |-> sessions[p].invite, p |-> p]>>)
            /\ sessions' = [sessions EXCEPT ![p].joining = TRUE]
       ELSE /\ sessions' = [sessions EXCEPT ![p].invite = 0]
            /\ UNCHANGED toInter
    /\ UNCHANGED <<fromInter, ends, party, created, partyOf, saved, cached, halted>>

(* party_removemember by the leader, and party_leave when p = q. *)
party_removemember(p, q) ==
    LET m == sessions[p].at
        g == sessions[p].id
    IN
    /\ Active(p) /\ Room(m) /\ g # 0 /\ partyOf[m][g].party.exists
    /\ {p, q} \subseteq PMembers(partyOf[m][g].party)
    /\ p = q \/ partyOf[m][g].party.slot[SlotOf(partyOf[m][g].party, p)].leader
    /\ Send(m, <<Leave(g, q)>>)
    /\ UNCHANGED <<fromInter, ends, party, created, partyOf, sessions, saved, cached, halted>>

(* party_changeleader: of two members on this map server, done here and then told. *)
party_changeleader(p, q) ==
    LET m == sessions[p].at
        g == sessions[p].id
    IN
    /\ p # q /\ Active(p) /\ Room(m) /\ LeadsHere(p, m)
    /\ Here(q, m) /\ sessions[q].id = g
    /\ \E i, j \in partyOf[m][g].sd :
           /\ partyOf[m][g].party.slot[i].who = p /\ partyOf[m][g].party.slot[j].who = q
           /\ partyOf' = [partyOf EXCEPT ![m][g].party.slot[i].leader = FALSE,
                                         ![m][g].party.slot[j].leader = TRUE]
    /\ Send(m, <<[t |-> "leader", id |-> g, p |-> q]>>)
    /\ UNCHANGED <<fromInter, ends, party, created, sessions, saved, cached, halted>>

----------------------------------------------------------------------------
(* Coming and going. *)

(* The player is handed over only when it is saved (see Handoff), and one at a time. *)
Underway(p) == \E m \in MapServers : \E msg \in Range(toInter[m]) \cup Range(fromInter[m]) :
                   msg.t \in {"char", "authreq", "auth"} /\ msg.p = p

(* inter_party_update: the member is looked for only among the first count + 1. *)
Online(q) == Cardinality({i \in Slots : q.slot[i].online})
Updated(p) == LET g == saved[p] IN
              IF g # 0 /\ p \in PMembers(party[g]) /\ SlotOf(party[g], p) <= Online(party[g]) + 1
              THEN <<[t |-> "info", id |-> g, party |-> party[g], p |-> p]>> ELSE <<>>

(* A player comes to map server m: from another one, or by parse_char (0x66), which reads the
   character from SQL; then the map server asks for the character (chrif_authreq). *)
arrive(p, m) ==
    /\ sessions[p].at = Away /\ ~Underway(p)
    /\ Send(m, <<[t |-> "authreq", p |-> p]>>)
    /\ IF sessions[p].moves
       THEN UNCHANGED <<fromInter, cached>>
       ELSE cached' = [cached EXCEPT ![p] = saved[p]] /\ ToAll(Updated(p))
    /\ UNCHANGED <<ends, party, created, partyOf, sessions, saved, halted>>

(* clif_parse_LoadEndAck with party_send_movemap *)
party_send_movemap(p) ==
    LET m == sessions[p].at IN
    /\ m # Away /\ ~sessions[p].loaded
    /\ Send(m, IF sessions[p].id = 0 THEN <<>> ELSE <<Move(p, TRUE)>>)
    /\ sessions' = [sessions EXCEPT ![p].loaded = TRUE]
    /\ UNCHANGED <<fromInter, ends, party, created, partyOf, saved, cached, halted>>

(* map_quit, or pc_setpos to another map server: chrif_save, then unit_free with
   party_send_logout.  An open invitation is rejected on the way. *)
party_send_logout(p, moves) ==
    LET m == sessions[p].at
        g == sessions[p].id
    IN
    /\ Active(p)
    /\ Send(m, <<[t |-> "char", p |-> p, id |-> g]>> \o (IF g = 0 THEN <<>> ELSE <<Move(p, FALSE)>>))
    /\ partyOf' = IF g = 0 THEN partyOf
                  ELSE [partyOf EXCEPT ![m][g].sd = {i \in @ : partyOf[m][g].party.slot[i].who # p}]
    /\ sessions' = [sessions EXCEPT ![p] = [Session(Away, 0) EXCEPT !.moves = moves]]
    /\ UNCHANGED <<fromInter, ends, party, created, saved, cached, halted>>

----------------------------------------------------------------------------
(* The char server: inter_party_parse_frommap.  q is the new party, replies go to map server m
   or to all. *)

CreateParty(m, p) ==
    LET g == created + 1
        q == [exists |-> TRUE,
              slot |-> [NoParty.slot EXCEPT ![1] = [who |-> p, leader |-> TRUE, online |-> TRUE]]]
    IN
    \/ /\ g \in PartyIds
       /\ created' = g
       /\ party' = [party EXCEPT ![g] = q]
       /\ saved' = [saved EXCEPT ![p] = g]
       /\ Reply(m, <<[t |-> "info", id |-> g, party |-> q, p |-> Nobody],
                     [t |-> "created", p |-> p, id |-> g]>>)
    \/ /\ Reply(m, <<[t |-> "created", p |-> p, id |-> 0]>>)     \* the name is taken or not allowed
       /\ UNCHANGED <<party, created, saved>>

PartyInfo(m, g, p) ==
    /\ Reply(m, IF party[g].exists
                THEN <<[t |-> "info", id |-> g, party |-> party[g], p |-> p]>>
                ELSE <<[t |-> "noinfo", id |-> g, p |-> p]>>)
    /\ UNCHANGED <<party, created, saved>>

AddRefusedSilently(m, g, p) == UNCHANGED fromInter     \* a mistake the runs must notice
AddRefused(m, g, p) == Reply(m, <<[t |-> "added", id |-> g, p |-> p, ok |-> FALSE]>>)

PartyAddMember(m, g, p) ==
    LET free == {i \in Slots : party[g].slot[i] = Empty} IN
    IF party[g].exists /\ free # {}
    THEN LET q == [party[g] EXCEPT !.slot[First(free)] = [who |-> p, leader |-> FALSE, online |-> TRUE]]
             info == <<[t |-> "info", id |-> g, party |-> q, p |-> Nobody]>>
             added == <<[t |-> "added", id |-> g, p |-> p, ok |-> TRUE]>>
         IN /\ party' = [party EXCEPT ![g] = q]
            /\ saved' = [saved EXCEPT ![p] = g]
            /\ fromInter' = [n \in MapServers |-> fromInter[n] \o info \o IF n = m THEN added ELSE <<>>]
            /\ UNCHANGED created
    ELSE /\ AddRefused(m, g, p)
         /\ UNCHANGED <<party, created, saved>>

(* mapif_parse_PartyLeave: all leave with a leader, and the last one breaks the party
   (party_check_empty). *)
Withdrawn(g, p) == [t |-> "withdraw", id |-> g, p |-> p]
SlotsLeaving(q, i) == IF q.slot[i].leader THEN {j \in Slots : q.slot[j] # Empty} ELSE {i}

PartyLeave(g, p) ==
    IF ~party[g].exists
    THEN /\ saved' = [r \in Players |-> IF saved[r] = g THEN 0 ELSE saved[r]]
         /\ UNCHANGED <<fromInter, party, created>>
    ELSE IF p \notin PMembers(party[g])
    THEN UNCHANGED <<fromInter, party, created, saved>>
    ELSE LET i == SlotOf(party[g], p)
             out == SlotsLeaving(party[g], i)
             q == [party[g] EXCEPT !.slot = [j \in Slots |-> IF j \in out THEN Empty ELSE @[j]]]
             told[j \in 0 .. MaxParty] ==
                 IF j = 0 THEN <<Withdrawn(g, p)>>
                 ELSE told[j - 1] \o IF j \in out \ {i} THEN <<Withdrawn(g, party[g].slot[j].who)>> ELSE <<>>
         IN /\ IF PMembers(q) = {}
               THEN /\ party' = [party EXCEPT ![g] = NoParty]
                    /\ saved' = [r \in Players |-> IF saved[r] = g THEN 0 ELSE saved[r]]
                    /\ ToAll(told[MaxParty] \o <<[t |-> "broken", id |-> g]>>)
               ELSE /\ party' = [party EXCEPT ![g] = q]
                    /\ saved' = [saved EXCEPT ![p] = IF @ = g THEN 0 ELSE @]
                    /\ ToAll(told[MaxParty] \o <<[t |-> "info", id |-> g, party |-> q, p |-> Nobody]>>)
            /\ UNCHANGED created

(* mapif_parse_PartyChangeMap: told when the member comes online or leaves, or changes map. *)
PartyChangeMap(g, p, on) ==
    /\ IF party[g].exists /\ p \in PMembers(party[g])
       THEN LET i == SlotOf(party[g], p) IN
            /\ party' = [party EXCEPT ![g].slot[i].online = on]
            /\ \/ ToAll(<<[t |-> "moved", id |-> g, p |-> p, online |-> on]>>)
               \/ party[g].slot[i].online = on /\ UNCHANGED fromInter
       ELSE UNCHANGED <<party, fromInter>>
    /\ UNCHANGED <<created, saved>>

(* mapif_parse_PartyLeaderChange: whoever led no longer does, also when the other has left. *)
PartyLeaderChange(g, p) ==
    /\ party' = IF party[g].exists
                THEN [party EXCEPT ![g].slot = [i \in Slots |->
                                   [party[g].slot[i] EXCEPT !.leader = party[g].slot[i].who = p]]]
                ELSE party
    /\ UNCHANGED <<fromInter, created, saved>>

(* mmo_char_tosql writes the party_id the map server had. *)
mmo_char_tosql(p, g) ==
    /\ saved' = [saved EXCEPT ![p] = g]
    /\ cached' = [cached EXCEPT ![p] = g]
    /\ UNCHANGED <<fromInter, party, created>>

auth_ok(m, p) ==
    /\ Reply(m, <<[t |-> "auth", p |-> p, id |-> cached[p]]>>)
    /\ UNCHANGED <<party, created, saved>>

inter_party_parse_frommap(m) ==
    /\ ~halted /\ toInter[m] # <<>>
    /\ LET msg == Head(toInter[m]) IN
       \/ /\ \/ msg.t = "create" /\ CreateParty(m, msg.p)
             \/ msg.t = "info" /\ PartyInfo(m, msg.id, msg.p)
             \/ msg.t = "add" /\ PartyAddMember(m, msg.id, msg.p)
             \/ msg.t = "leave" /\ PartyLeave(msg.id, msg.p)
             \/ msg.t = "move" /\ PartyChangeMap(msg.id, msg.p, msg.online)
             \/ msg.t = "leader" /\ PartyLeaderChange(msg.id, msg.p)
             \/ msg.t = "authreq" /\ auth_ok(m, msg.p)
          /\ UNCHANGED cached
       \/ msg.t = "char" /\ mmo_char_tosql(msg.p, msg.id)
    /\ TakenFrom(m)
    /\ UNCHANGED <<ends, partyOf, sessions, halted, asks>>

----------------------------------------------------------------------------
(* The map servers: intif_parse_Party*.  Each handler says what becomes of the copy of party g,
   the sessions, and what is sent. *)

(* party_sd_check: a player found here without a party joins, one of another party is sent away. *)
JoinsHere(p, m, g) == p \in Players /\ Here(p, m) /\ sessions[p].id \in {0, g}
SentAway(p, m, g)  == p \in Players /\ Here(p, m) /\ sessions[p].id \notin {0, g}

BelongsIfSaved(p, q) == TRUE                           \* a mistake the runs must notice
BelongsTo(p, q) == p \in PMembers(q)

(* pc_authok and pc_reg_received with party_member_joined: the copy is searched, or asked for. *)
party_member_joined(m, p, g) ==
    LET c == partyOf[m][g]
        member == BelongsTo(p, c.party)
    IN
    /\ UNCHANGED halted
    /\ IF g # 0 /\ ~c.party.exists
       THEN /\ Send(m, <<[t |-> "info", id |-> g, p |-> p]>>)
            /\ sessions' = [sessions EXCEPT ![p] = Session(m, g)]
            /\ UNCHANGED partyOf
       ELSE /\ UNCHANGED toInter
            /\ sessions' = [sessions EXCEPT ![p] = Session(m, IF g # 0 /\ member THEN g ELSE 0)]
            /\ partyOf' = IF g # 0 /\ member THEN [partyOf EXCEPT ![m][g].sd = @ \cup SlotsOf(c.party, p)]
                          ELSE partyOf

(* party_created *)
party_created(m, p, g) ==
    /\ UNCHANGED <<partyOf, halted>>
    /\ IF Here(p, m) /\ sessions[p].creating
       THEN /\ sessions' = [sessions EXCEPT ![p].creating = FALSE, ![p].id = IF g = 0 THEN @ ELSE g]
            /\ UNCHANGED toInter
       ELSE /\ Send(m, IF g = 0 THEN <<>> ELSE <<Leave(g, p)>>)
            /\ UNCHANGED sessions

(* party_recv_info *)
party_recv_info(m, g, q, asker) ==
    LET old == partyOf[m][g]
        gone == {old.party.slot[i].who : i \in old.sd} \ PMembers(q)
        away(i) == SentAway(q.slot[i].who, m, g) /\ ~(q.slot[i].who \in gone)
        left[i \in 0 .. MaxParty] ==
            IF i = 0 THEN <<>>
            ELSE left[i - 1] \o IF away(i) THEN <<Leave(g, q.slot[i].who)>> ELSE <<>>
        out == gone \cup ({asker} \ PMembers(q))
    IN
    /\ partyOf' = [partyOf EXCEPT ![m][g] =
                      [party |-> q, sd |-> {i \in Slots : JoinsHere(q.slot[i].who, m, g)}]]
    /\ sessions' = [p \in Players |->
                      IF p \in out /\ Here(p, m) /\ sessions[p].id = g THEN [sessions[p] EXCEPT !.id = 0]
                      ELSE IF p \in PMembers(q) /\ JoinsHere(p, m, g) THEN [sessions[p] EXCEPT !.id = g]
                      ELSE sessions[p]]
    /\ Send(m, left[MaxParty])
    /\ UNCHANGED halted

(* party_broken, and party_recv_noinfo, which asked for p *)
party_broken(m, g, asker) ==
    LET c == partyOf[m][g]
        out == {c.party.slot[i].who : i \in c.sd}
    IN
    /\ partyOf' = [partyOf EXCEPT ![m][g] = NoPartyCopy]
    /\ sessions' = [p \in Players |->
                      IF p \in out \/ (p = asker /\ Here(p, m) /\ sessions[p].id = g)
                      THEN [sessions[p] EXCEPT !.id = 0] ELSE sessions[p]]
    /\ UNCHANGED <<toInter, halted>>

(* party_member_added *)
party_member_added(m, g, p, ok) ==
    /\ UNCHANGED <<partyOf, halted>>
    /\ IF Here(p, m) /\ sessions[p].joining
       THEN LET found == partyOf[m][g].party.exists IN
            /\ sessions' = [sessions EXCEPT ![p].joining = FALSE, ![p].invite = 0,
                                            ![p].id = IF found /\ ok THEN g ELSE @]
            /\ Send(m, IF found THEN <<>> ELSE <<Leave(g, p)>>)
       ELSE /\ Send(m, IF ok THEN <<Leave(g, p)>> ELSE <<>>)
            /\ UNCHANGED sessions

(* party_member_withdraw: p->instance_id is read also when the party is not known here. *)
party_member_withdraw(m, g, p) ==
    LET c == partyOf[m][g]
        out == Here(p, m) /\ sessions[p].id = g
    IN
    /\ partyOf' = IF c.party.exists /\ p \in PMembers(c.party)
                  THEN [partyOf EXCEPT ![m][g].party.slot[SlotOf(c.party, p)] = Empty,
                                       ![m][g].sd = @ \ {SlotOf(c.party, p)}]
                  ELSE partyOf
    /\ sessions' = IF out THEN [sessions EXCEPT ![p].id = 0] ELSE sessions
    /\ halted' = (out /\ ~c.party.exists)
    /\ UNCHANGED toInter

(* party_recv_movemap *)
party_recv_movemap(m, g, p, on) ==
    LET c == partyOf[m][g]
        i == SlotOf(c.party, p)
    IN
    /\ UNCHANGED halted
    /\ IF c.party.exists /\ p \in PMembers(c.party)
       THEN /\ partyOf' = [partyOf EXCEPT ![m][g].party.slot[i].online = on,
                                          ![m][g].sd = IF JoinsHere(p, m, g) THEN @ \cup {i} ELSE @ \ {i}]
            /\ sessions' = IF JoinsHere(p, m, g) THEN [sessions EXCEPT ![p].id = g] ELSE sessions
            /\ Send(m, IF SentAway(p, m, g) THEN <<Leave(g, p)>> ELSE <<>>)
       ELSE UNCHANGED <<partyOf, sessions, toInter>>

intif_parse_party(m) ==
    /\ ~halted /\ fromInter[m] # <<>>
    /\ LET msg == Head(fromInter[m]) IN
       \/ msg.t = "auth" /\ party_member_joined(m, msg.p, msg.id)
       \/ msg.t = "created" /\ party_created(m, msg.p, msg.id)
       \/ msg.t = "info" /\ party_recv_info(m, msg.id, msg.party, msg.p)
       \/ msg.t = "noinfo" /\ party_broken(m, msg.id, msg.p)
       \/ msg.t = "added" /\ party_member_added(m, msg.id, msg.p, msg.ok)
       \/ msg.t = "withdraw" /\ party_member_withdraw(m, msg.id, msg.p)
       \/ msg.t = "broken" /\ party_broken(m, msg.id, Nobody)
       \/ msg.t = "moved" /\ party_recv_movemap(m, msg.id, msg.p, msg.online)
    /\ TakenBy(m)
    /\ UNCHANGED <<ends, party, created, saved, cached, asks>>

----------------------------------------------------------------------------
PartyUser(p) ==
    /\ asks < MaxAsks /\ asks' = asks + 1
    /\ \/ party_create(p)
       \/ \E q \in Players : party_invite(p, q) \/ party_removemember(p, q) \/ party_changeleader(p, q)
       \/ \E accepts \in BOOLEAN : party_reply_invite(p, accepts)
       \/ \E m \in MapServers : arrive(p, m)
       \/ \E moves \in BOOLEAN : party_send_logout(p, moves)

PartyLink(m) == inter_party_parse_frommap(m) \/ intif_parse_party(m)

PartyNext ==
    \/ ~halted /\ \E p \in Players : PartyUser(p) \/ (party_send_movemap(p) /\ UNCHANGED asks)
    \/ \E m \in MapServers : PartyLink(m)

----------------------------------------------------------------------------
(* Nothing is in flight between the servers. *)
Settled == ~halted /\ \A m \in MapServers : Quiet(m)

(* Once everything sent has arrived all agree on who is in a party: the copy of every map server
   that has one with the char server, and the party each player there believes to be in with
   both.  On the way a player may join, leave, be expelled and change map server in any order;
   the handlers send a leave for whoever turns out not to belong (party_sd_check). *)
PartiesAgree ==
    Settled =>
        \A g \in PartyIds, m \in MapServers :
            /\ partyOf[m][g].party.exists => PMembers(partyOf[m][g].party) = PMembers(party[g])
            /\ \A p \in Players : Here(p, m) => (sessions[p].id = g <=> p \in PMembers(party[g]))

(* party_joining and party_creating, which refuse everything else while an answer is awaited, are
   reset by every answer of the char server, also when it refuses. *)
Awaiting(p) == sessions[p].joining \/ sessions[p].creating
JoiningEnds == \A p \in Players : Awaiting(p) ~> ~Awaiting(p) \/ halted
=============================================================================
