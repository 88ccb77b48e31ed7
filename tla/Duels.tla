-------------------------------- MODULE Duels --------------------------------
(***************************************************************************)
(* Duels, duel.c and the commands of atcommand.c for them.  A duel is a    *)
(* number in duel_list with three counters; who is in it or invited to it  *)
(* is only in the sessions (duel_group, duel_invite).  Numbers are used    *)
(* again as soon as the last member left.                                  *)
(*                                                                         *)
(* Left out: duel_time_interval and duel_only_on_same_map, which refuse    *)
(* without changing anything, and all texts.                               *)
(***************************************************************************)
EXTENDS Naturals, FiniteSets

CONSTANTS Duelists,
          MaxDuel    \* MAX_DUEL: numbers below it, 0 stands for none

ASSUME DuelAssumption == IsFiniteSet(Duelists) /\ MaxDuel \in Nat \ {0}

VARIABLES duel_list,   \* per number: members_count, invites_count, max_players_limit
          duel_count,
          duelist      \* per player: where its session is; duel_group, duel_invite

duelVars == <<duel_list, duel_count, duelist>>

Limits == {0, 2}       \* no limit, and that of "@duel <nick>"
NoSession == [at |-> "gone", duel_group |-> 0, duel_invite |-> 0]

DuelTypeOK ==
    /\ duel_list \in [0 .. MaxDuel - 1 -> [members_count : Nat, invites_count : Nat, max_players_limit : Limits]]
    /\ duel_count \in 0 .. MaxDuel - 1
    /\ duelist \in [Duelists -> [at : {"map", "loading", "gone"}, duel_group : 0 .. MaxDuel - 1, duel_invite : 0 .. MaxDuel - 1]]

DuelInit ==
    /\ duel_list = [d \in 0 .. MaxDuel - 1 |-> [members_count |-> 0, invites_count |-> 0, max_players_limit |-> 0]]
    /\ duel_count = 0
    /\ duelist = [p \in Duelists |-> [NoSession EXCEPT !.at = "map"]]

MayCommand(p) == duelist[p].at = "map"       \* clif_parse takes nothing but LoadEndAck from the others
IsKnown(p) == duelist[p].at # "gone"  \* map_nick2sd finds it

FreeDuels == {d \in 1 .. MaxDuel - 1 : duel_list[d].members_count = 0}
DuelFull(d) == duel_list[d].max_players_limit > 0 /\ duel_list[d].members_count >= duel_list[d].max_players_limit
Engaged(p) == duelist[p].duel_group > 0 \/ duelist[p].duel_invite > 0

(* The smallest free number is taken for p, with invited players invited. *)
duel_create(p, limit, invited) ==
    LET d == CHOOSE d \in FreeDuels : \A e \in FreeDuels : d <= e
    IN  /\ duel_list' = [duel_list EXCEPT ![d] = [members_count |-> 1, invites_count |-> Cardinality(invited), max_players_limit |-> limit]]
        /\ duelist' = [q \in Duelists |-> IF q = p THEN [duelist[q] EXCEPT !.duel_group = d]
                                        ELSE IF q \in invited THEN [duelist[q] EXCEPT !.duel_invite = d]
                                        ELSE duelist[q]]
        /\ duel_count' = duel_count + 1

(* @duel and @duel <limit> *)
duel(p, limit) == MayCommand(p) /\ ~Engaged(p) /\ FreeDuels # {} /\ duel_create(p, limit, {})

(* @duel <nick>: the duel stands also if the other one is engaged, or is the player itself.  Where no
   number is free the command takes the 0 that duel_create returns for one and invites to it, which
   leaves the sessions as they are and counts where nobody reads. *)
duel_with(p, q) ==
    /\ MayCommand(p) /\ ~Engaged(p) /\ IsKnown(q) /\ FreeDuels # {}
    /\ duel_create(p, 2, IF q = p \/ Engaged(q) THEN {} ELSE {q})

(* @invite *)
invite(p, q) ==
    /\ MayCommand(p) /\ duelist[p].duel_group > 0 /\ ~DuelFull(duelist[p].duel_group)
    /\ IsKnown(q) /\ ~Engaged(q)
    /\ duelist' = [duelist EXCEPT ![q].duel_invite = duelist[p].duel_group]
    /\ duel_list' = [duel_list EXCEPT ![duelist[p].duel_group].invites_count = @ + 1]
    /\ UNCHANGED duel_count

(* duel_leave and duel_reject of one player: the list and the sessions after. *)
UninvitedNobody(s, d) == s      \* a mistake the runs must notice: duel_leave_sub not called
Uninvited(s, d) == [q \in Duelists |-> IF s[q].duel_invite = d THEN [s[q] EXCEPT !.duel_invite = 0] ELSE s[q]]

duel_leave(p) ==
    LET d == duelist[p].duel_group
        left == [duel_list EXCEPT ![d].members_count = @ - 1]
        last == left[d].members_count = 0
    IN  IF d = 0 THEN [list |-> duel_list, count |-> duel_count, sessions |-> duelist]
        ELSE [list |-> left,
              count |-> IF last THEN duel_count - 1 ELSE duel_count,
              sessions |-> [(IF last THEN Uninvited(duelist, d) ELSE duelist) EXCEPT ![p].duel_group = 0]]

duel_reject(p, s) ==
    IF s.sessions[p].duel_invite = 0 THEN s
    ELSE [s EXCEPT !.list[s.sessions[p].duel_invite].invites_count = @ - 1, !.sessions[p].duel_invite = 0]

DuelsBecome(s, p, place) ==
    /\ duel_list' = s.list
    /\ duel_count' = s.count
    /\ duelist' = [s.sessions EXCEPT ![p] = IF place = "gone" THEN NoSession ELSE [@ EXCEPT !.at = place]]

LeavesDuel(p) == MayCommand(p) /\ duelist[p].duel_group > 0 /\ DuelsBecome(duel_leave(p), p, "map")

accept(p) ==
    LET d == duelist[p].duel_invite
    IN  /\ MayCommand(p) /\ d > 0 /\ ~DuelFull(d)
        /\ duel_list' = [duel_list EXCEPT ![d].members_count = @ + 1, ![d].invites_count = @ - 1]
        /\ duelist' = [duelist EXCEPT ![p].duel_group = d, ![p].duel_invite = 0]
        /\ UNCHANGED duel_count

AsTheyAre == [list |-> duel_list, count |-> duel_count, sessions |-> duelist]
reject(p) == MayCommand(p) /\ duelist[p].duel_invite > 0 /\ DuelsBecome(duel_reject(p, AsTheyAre), p, "map")

(* pc_dead with duel_autoleave_when_die; the player stays on the map. *)
DuelistDies(p) == MayCommand(p) /\ Engaged(p) /\ DuelsBecome(duel_reject(p, duel_leave(p)), p, "map")

(* pc_setpos: unit_remove_map_ leaves the duel but keeps an invitation. *)
DuelistWarps(p) == MayCommand(p) /\ DuelsBecome(duel_leave(p), p, "loading")
DuelistLoaded(p) == duelist[p].at = "loading" /\ DuelsBecome(AsTheyAre, p, "map")

(* map_quit: unit_remove_map_ if the player is on the map, then unit_free. *)
QuitsDuel(p) == IsKnown(p) /\ DuelsBecome(duel_reject(p, IF MayCommand(p) THEN duel_leave(p) ELSE AsTheyAre), p, "gone")
DuelistLogsIn(p) == ~IsKnown(p) /\ DuelsBecome(AsTheyAre, p, "loading")

DuelNext ==
    \E p \in Duelists :
        \/ \E limit \in Limits : duel(p, limit)
        \/ \E q \in Duelists : duel_with(p, q) \/ invite(p, q)
        \/ LeavesDuel(p) \/ accept(p) \/ reject(p) \/ DuelistDies(p) \/ DuelistWarps(p) \/ DuelistLoaded(p) \/ QuitsDuel(p) \/ DuelistLogsIn(p)

DuelSpec == DuelInit /\ [][DuelNext]_duelVars

(* Whoever is in a duel or invited to one is counted there once, and invitations are to duels that are
   going on: a number used again for another duel meets no invitation of the old one, and no player is
   in one duel and invited to another (duel_leave_sub, duel_create). *)
DuelsAgree ==
    /\ duel_count = Cardinality({d \in 1 .. MaxDuel - 1 : duel_list[d].members_count > 0})
    /\ \A d \in 1 .. MaxDuel - 1 :
          LET members == {p \in Duelists : duelist[p].duel_group = d}
              invited == {p \in Duelists : duelist[p].duel_invite = d}
          IN  /\ duel_list[d].members_count = Cardinality(members)
              /\ IF members = {} THEN invited = {} ELSE duel_list[d].invites_count = Cardinality(invited)
              /\ DuelFull(d) => duel_list[d].members_count = duel_list[d].max_players_limit
    /\ \A p \in Duelists : duelist[p].duel_group > 0 => duelist[p].duel_invite = 0
=============================================================================
