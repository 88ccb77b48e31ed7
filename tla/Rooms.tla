-------------------------------- MODULE Rooms --------------------------------
(***************************************************************************)
(* Chat rooms of players and the waiting room of an npc (chat.c), and the  *)
(* teams of a battleground that are filled from it (battleground.c).  A    *)
(* room lists pointers to sessions and each session the id of its room;    *)
(* likewise teams.  Ids of rooms are used again, ids of teams are not.     *)
(*                                                                         *)
(* Scripts are outside: any of their commands may run at any time, which   *)
(* includes the event a full waiting room triggers (chat_triggerevent) and *)
(* the one of a member of a team who quits.                                *)
(*                                                                         *)
(* Left out: titles, passwords, zeny, levels and shops, which refuse       *)
(* without changing anything; the fee of warpwaitingpc; positions.         *)
(***************************************************************************)
EXTENDS Naturals, Sequences, FiniteSets, SequencesExt

CONSTANTS Guests,
          Halls,     \* object ids for chat rooms
          ChatSeats, \* length of chat_data.usersd
          Teams,     \* ids of teams, in the order they are made: 1 .. n
          TeamSeats, \* MAX_BG_MEMBERS
          Npc,       \* the npc with the waiting room
          NoHall,    \* chatID 0
          NoGuest

ASSUME RoomAssumption == /\ Npc \notin Guests /\ NoGuest \notin Guests /\ NoHall \notin Halls
                         /\ ChatSeats \in Nat \ {0} /\ TeamSeats \in Nat \ {0} /\ Teams \subseteq Nat \ {0}

VARIABLES guest,   \* per player: where its session is; chatID, bg_id
          hall,    \* per id: a chat room or ClosedHall
          team,    \* per id: "new", "made" or "gone"; the players in members[] and count
          teamMade \* bg_team_counter

roomVars == <<guest, hall, team, teamMade>>

ClosedHall == [open |-> FALSE, owner |-> NoGuest, usersd |-> << >>, limit |-> 0]
Visitor(place) == [at |-> place, chatID |-> NoHall, bg_id |-> 0]
EmptyTeam == [s \in 1 .. TeamSeats |-> NoGuest]

RoomTypeOK ==
    /\ guest \in [Guests -> [at : {"map", "loading", "gone"}, chatID : Halls \cup {NoHall}, bg_id : Teams \cup {0}]]
    /\ \A c \in Halls : /\ hall[c].owner \in Guests \cup {Npc, NoGuest} /\ hall[c].limit \in 0 .. ChatSeats
                        /\ hall[c].usersd \in Seq(Guests) /\ Len(hall[c].usersd) <= ChatSeats
    /\ \A b \in Teams : team[b].members \in [1 .. TeamSeats -> Guests \cup {NoGuest}] /\ team[b].count \in 0 .. TeamSeats
    /\ teamMade \in Teams \cup {0}

RoomInit ==
    /\ guest = [p \in Guests |-> Visitor("map")]
    /\ hall = [c \in Halls |-> ClosedHall]
    /\ team = [b \in Teams |-> [state |-> "new", members |-> EmptyTeam, count |-> 0]]
    /\ teamMade = 0

ChatLimits == {1, ChatSeats + 1}
IsPresent(p) == guest[p].at = "map"     \* clif_parse takes nothing but LoadEndAck from the others
WaitingHalls == {c \in Halls : hall[c].open /\ hall[c].owner = Npc}
AtMost(a, b) == IF a <= b THEN a ELSE b

-----------------------------------------------------------------------------
(* Chat rooms.  Functions that several operations call take and return the state w of players and rooms. *)

AllRooms == [guest |-> guest, hall |-> hall]
BecomesRooms(w) == guest' = w.guest /\ hall' = w.hall

Place(s, p) == CHOOSE i \in DOMAIN s : s[i] = p
Behind(s, p) == [j \in 1 .. Len(s) - 1 |-> IF j < Place(s, p) THEN s[j] ELSE s[j + 1]]
OwnerOf(room, left) == IF room.owner = Npc THEN Npc ELSE Head(left)

(* The room's list closes up behind p, the next one owns it, and a player's room goes with the last. *)
chat_leavechat(w, p) ==
    LET c == w.guest[p].chatID
        room == w.hall[c]
        left == Behind(room.usersd, p)
    IN  [guest |-> [w.guest EXCEPT ![p].chatID = NoHall],
         hall |-> IF c = NoHall \/ ~room.open \/ p \notin ToSet(room.usersd) THEN w.hall
                  ELSE IF Len(left) = 0 /\ room.owner # Npc THEN [w.hall EXCEPT ![c] = ClosedHall]
                  ELSE [w.hall EXCEPT ![c].usersd = left, ![c].owner = OwnerOf(room, left)]]

chat_createpcchat(p, limit) ==
    /\ IsPresent(p) /\ guest[p].chatID = NoHall
    /\ \E c \in {c \in Halls : ~hall[c].open} :
          /\ hall' = [hall EXCEPT ![c] = [open |-> TRUE, owner |-> p, usersd |-> <<p>>, limit |-> AtMost(limit, ChatSeats)]]
          /\ guest' = [guest EXCEPT ![p].chatID = c]

chat_joinchat(p, c) ==
    /\ IsPresent(p) /\ hall[c].open /\ guest[p].chatID = NoHall /\ Len(hall[c].usersd) < hall[c].limit
    /\ hall' = [hall EXCEPT ![c].usersd = Append(@, p)]
    /\ guest' = [guest EXCEPT ![p].chatID = c]

OwnsHall(p) == IsPresent(p) /\ guest[p].chatID # NoHall /\ hall[guest[p].chatID].open /\ hall[guest[p].chatID].owner = p

(* The owner changes places with its heir, who is looked for from the second place on. *)
chat_changechatowner(p, q) ==
    LET c == guest[p].chatID
    IN  /\ OwnsHall(p)
        /\ \E i \in 2 .. Len(hall[c].usersd) :
              /\ hall[c].usersd[i] = q
              /\ hall' = [hall EXCEPT ![c].owner = q, ![c].usersd = [@ EXCEPT ![1] = q, ![i] = hall[c].usersd[1]]]
        /\ UNCHANGED guest

chat_changechatstatus(p, limit) ==
    /\ OwnsHall(p)
    /\ hall' = [hall EXCEPT ![guest[p].chatID].limit = AtMost(limit, ChatSeats)]
    /\ UNCHANGED guest

chat_kickchat(p, q) == OwnsHall(p) /\ q \in ToSet(hall[guest[p].chatID].usersd) /\ BecomesRooms(chat_leavechat(AllRooms, q))

(* Asked for by the client, and part of @refresh. *)
LeaveChat(p) == IsPresent(p) /\ guest[p].chatID # NoHall /\ BecomesRooms(chat_leavechat(AllRooms, p))

chat_createnpcchat(limit) ==
    /\ WaitingHalls = {}
    /\ \E c \in {c \in Halls : ~hall[c].open} :
          hall' = [hall EXCEPT ![c] = [open |-> TRUE, owner |-> Npc, usersd |-> << >>, limit |-> AtMost(limit, ChatSeats)]]
    /\ UNCHANGED guest

(* From the last to the first. *)
chat_npckickall(w, c) ==
    LET users == w.hall[c].usersd
        kicked[n \in 0 .. Len(users)] ==
            IF n = 0 THEN w ELSE chat_leavechat(kicked[n - 1], users[Len(users) + 1 - n])
    IN  kicked[Len(users)]

waitingroomkickall == \E c \in WaitingHalls : BecomesRooms(chat_npckickall(AllRooms, c))
chat_deletenpcchat ==
    \E c \in WaitingHalls :
        LET empty == chat_npckickall(AllRooms, c)
        IN  BecomesRooms([guest |-> empty.guest, hall |-> [empty.hall EXCEPT ![c] = ClosedHall]])

-----------------------------------------------------------------------------
(* Leaving the map: unit_remove_map_. *)
Removed(w, p) ==
    LET out == chat_leavechat(w, p)
    IN  [guest |-> [out.guest EXCEPT ![p].at = "loading"], hall |-> out.hall]

GuestWarps(p) == IsPresent(p) /\ BecomesRooms(Removed(AllRooms, p)) /\ UNCHANGED <<team, teamMade>>

(* The one who waits longest is warped, n times; who cannot be warped (pc_setpos to a map server that
   is not there) stays first and is asked again. *)
warpwaitingpc(n) ==
    \E c \in WaitingHalls :
        LET first == AtMost(n, Len(hall[c].usersd))
            warped[i \in 0 .. first] == IF i = 0 THEN AllRooms ELSE Removed(warped[i - 1], hall[c].usersd[i])
        IN  BecomesRooms(warped[first]) /\ UNCHANGED <<team, teamMade>>

GuestLoaded(p) == guest[p].at = "loading" /\ guest' = [guest EXCEPT ![p].at = "map"] /\ UNCHANGED <<hall, team, teamMade>>
GuestLogsIn(p) == guest[p].at = "gone" /\ guest' = [guest EXCEPT ![p] = Visitor("loading")] /\ UNCHANGED <<hall, team, teamMade>>

-----------------------------------------------------------------------------
(* Battlegrounds. *)
Made(b) == b # 0 /\ team[b].state = "made"
FreeSeats(m) == {s \in 1 .. TeamSeats : m[s] = NoGuest}

(* The first free place, of teams and players as they are in t and g. *)
MayJoin(p, t, g) == t.state = "made" /\ g[p].bg_id = 0 /\ FreeSeats(t.members) # {}
Seated(p, t) ==
    LET s == CHOOSE s \in FreeSeats(t.members) : \A r \in FreeSeats(t.members) : s <= r
    IN  [t EXCEPT !.members[s] = p, !.count = @ + 1]
bg_team_join(v, p, b) ==
    IF MayJoin(p, v.team, v.guest) THEN [team |-> Seated(p, v.team), guest |-> [v.guest EXCEPT ![p].bg_id = b]] ELSE v

Unseated(t, p) == [t EXCEPT !.members = [s \in 1 .. TeamSeats |-> IF @[s] = p THEN NoGuest ELSE @[s]], !.count = @ - 1]
bg_team_leave(p) == IF Made(guest[p].bg_id) THEN [team EXCEPT ![guest[p].bg_id] = Unseated(@, p)] ELSE team

(* All who wait become members, the ones in other teams excepted; they stay in the waiting room. *)
waitingroom2bg ==
    \E c \in WaitingHalls :
        LET b == teamMade + 1
            users == hall[c].usersd
            filled[i \in 0 .. Len(users)] ==
                IF i = 0 THEN [team |-> [team[b] EXCEPT !.state = "made"], guest |-> guest]
                ELSE bg_team_join(filled[i - 1], users[i], b)
        IN  /\ b \in Teams
            /\ teamMade' = b
            /\ team' = [team EXCEPT ![b] = filled[Len(users)].team]
            /\ guest' = filled[Len(users)].guest
            /\ UNCHANGED hall

(* The first of them, who is warped, to a team that may be gone. *)
waitingroom2bg_single(b) ==
    \E c \in WaitingHalls :
        /\ hall[c].usersd # << >>
        /\ LET p == Head(hall[c].usersd)
               joined == bg_team_join([team |-> team[b], guest |-> guest], p, b)
           IN  /\ MayJoin(p, team[b], guest)
               /\ team' = [team EXCEPT ![b] = joined.team]
               /\ BecomesRooms(Removed([guest |-> joined.guest, hall |-> hall], p))
        /\ UNCHANGED teamMade

bg_leave(p) ==
    /\ guest[p].at # "gone" /\ guest[p].bg_id # 0
    /\ team' = bg_team_leave(p)
    /\ guest' = [guest EXCEPT ![p].bg_id = 0]
    /\ UNCHANGED <<hall, teamMade>>

bg_team_delete(b) ==
    /\ Made(b)
    /\ guest' = [p \in Guests |-> IF \E s \in 1 .. TeamSeats : team[b].members[s] = p THEN [guest[p] EXCEPT !.bg_id = 0] ELSE guest[p]]
    /\ team' = [team EXCEPT ![b] = [state |-> "gone", members |-> EmptyTeam, count |-> 0]]
    /\ UNCHANGED <<hall, teamMade>>

(* map_quit: unit_remove_map_ if the player is on the map, then unit_free. *)
QuitRoom(p) ==
    LET w == IF IsPresent(p) THEN Removed(AllRooms, p) ELSE AllRooms
    IN  /\ guest[p].at # "gone"
        /\ team' = bg_team_leave(p)
        /\ guest' = [w.guest EXCEPT ![p] = Visitor("gone")]
        /\ hall' = w.hall
        /\ UNCHANGED teamMade

-----------------------------------------------------------------------------
ChatNext ==
    /\ \/ \E p \in Guests :
            \/ \E limit \in ChatLimits : chat_createpcchat(p, limit) \/ chat_changechatstatus(p, limit)
            \/ \E c \in Halls : chat_joinchat(p, c)
            \/ \E q \in Guests : chat_changechatowner(p, q) \/ chat_kickchat(p, q)
            \/ LeaveChat(p)
       \/ \E limit \in ChatLimits : chat_createnpcchat(limit)
       \/ waitingroomkickall \/ chat_deletenpcchat
    /\ UNCHANGED <<team, teamMade>>

(* The part of it that battlegrounds are filled from: one waiting room. *)
WaitingNext ==
    /\ \/ \E p \in Guests : LeaveChat(p) \/ \E c \in WaitingHalls : chat_joinchat(p, c)
       \/ chat_createnpcchat(ChatSeats)
    /\ UNCHANGED <<team, teamMade>>

GuestNext ==
    \/ \E p \in Guests : GuestWarps(p) \/ GuestLoaded(p) \/ GuestLogsIn(p) \/ QuitRoom(p)
    \/ \E n \in 1 .. 2 : warpwaitingpc(n)

TeamNext ==
    \/ waitingroom2bg
    \/ \E b \in Teams : waitingroom2bg_single(b) \/ bg_team_delete(b)
    \/ \E p \in Guests : bg_leave(p)

(* A room lists exactly the players whose session names it, each once and all on the map; a room of
   players is owned by its first and closed with its last; a team lists exactly the players whose
   session names it, each once, and its count is theirs.  So no list keeps a session that was freed,
   and no session an id that another room may get. *)
RoomsAgree ==
    /\ \A c \in Halls : hall[c].open =>
          /\ \A i, j \in DOMAIN hall[c].usersd : hall[c].usersd[i] = hall[c].usersd[j] => i = j
          /\ ToSet(hall[c].usersd) = {p \in Guests : guest[p].chatID = c /\ IsPresent(p)}
          /\ hall[c].owner # Npc => hall[c].usersd # << >> /\ hall[c].owner = Head(hall[c].usersd)
    /\ \A p \in Guests : guest[p].chatID # NoHall => IsPresent(p) /\ hall[guest[p].chatID].open
    /\ \A b \in Teams : Made(b) =>
          /\ \A p \in Guests : Cardinality({s \in 1 .. TeamSeats : team[b].members[s] = p}) = (IF guest[p].bg_id = b THEN 1 ELSE 0)
          /\ team[b].count = Cardinality({s \in 1 .. TeamSeats : team[b].members[s] # NoGuest})
    /\ \A p \in Guests : guest[p].bg_id # 0 => Made(guest[p].bg_id)
=============================================================================
