------------------------- MODULE Gatherings_proofs -------------------------
(***************************************************************************)
(* The counters of a duel count its members and its invitations, a number  *)
(* is used again only once nobody is in the old duel or invited to it, and *)
(* no player is in one duel and invited to another; a chat room and a team *)
(* list exactly the players whose sessions name them: for any players,     *)
(* duels, rooms and teams, whatever is created, left, accepted, rejected,  *)
(* filled or deleted, and whoever dies, changes map or quits.              *)
(*                                                                         *)
(* First the duels, then the chat rooms, the teams, and all together.      *)
(***************************************************************************)
EXTENDS Gatherings, Iteration, FiniteSetTheorems

Numbers == 1 .. MaxDuel - 1
Entry == [members_count : Nat, invites_count : Nat, max_players_limit : Limits]
Session == [at : {"map", "loading", "gone"}, duel_group : 0 .. MaxDuel - 1, duel_invite : 0 .. MaxDuel - 1]
Types(l, s) == l \in [0 .. MaxDuel - 1 -> Entry] /\ s \in [Duelists -> Session]

Members(s, d) == {p \in Duelists : s[p].duel_group = d}
Invited(s, d) == {p \in Duelists : s[p].duel_invite = d}
EntryAgrees(l, s, d) ==
    /\ l[d].members_count = Cardinality(Members(s, d))
    /\ Members(s, d) = {} => Invited(s, d) = {}
    /\ Members(s, d) # {} => l[d].invites_count = Cardinality(Invited(s, d))
    /\ l[d].max_players_limit > 0 => l[d].members_count <= l[d].max_players_limit
InOneDuel(s) == \A p \in Duelists : s[p].duel_group > 0 => s[p].duel_invite = 0
Agree(l, s) == Types(l, s) /\ InOneDuel(s) /\ \A d \in Numbers : EntryAgrees(l, s, d)

Going(l) == {d \in Numbers : l[d].members_count > 0}
Good(l, c, s) == Agree(l, s) /\ c = Cardinality(Going(l))

(* A player who is loading a map left the duel on the way there: a quit, which does nothing for that,
   leaves nobody behind in one. *)
OffMapIsOut(s) == \A p \in Duelists : s[p].at # "map" => s[p].duel_group = 0

DuelInv == Good(duel_list, duel_count, duelist) /\ OffMapIsOut(duelist)

----------------------------------------------------------------------------
(* Counting. *)

LEMMA NumbersFinite == IsFiniteSet(Numbers) /\ Cardinality(Numbers) = MaxDuel - 1
<1>1. MaxDuel - 1 \in Nat
    BY DuelAssumption
<1> QED BY <1>1, FS_Interval DEF Numbers

LEMMA GroupsFinite ==
    ASSUME NEW s, NEW d
    PROVE  /\ IsFiniteSet(Members(s, d)) /\ Cardinality(Members(s, d)) \in Nat
           /\ IsFiniteSet(Invited(s, d)) /\ Cardinality(Invited(s, d)) \in Nat
<1>1. Members(s, d) \in SUBSET Duelists /\ Invited(s, d) \in SUBSET Duelists
    BY DEF Members, Invited
<1>2. IsFiniteSet(Members(s, d)) /\ IsFiniteSet(Invited(s, d))
    BY <1>1, FS_Subset, DuelAssumption
<1> QED BY <1>2, FS_CardinalityType

LEMMA GoingFinite ==
    ASSUME NEW l
    PROVE  IsFiniteSet(Going(l)) /\ Cardinality(Going(l)) \in 0 .. MaxDuel - 1
<1>1. Going(l) \in SUBSET Numbers
    BY DEF Going
<1>2. IsFiniteSet(Going(l)) /\ Cardinality(Going(l)) <= Cardinality(Numbers)
    BY <1>1, NumbersFinite, FS_Subset
<1>3. Cardinality(Going(l)) \in Nat
    BY <1>2, FS_CardinalityType
<1> QED BY <1>2, <1>3, NumbersFinite, DuelAssumption

(* One duel changes: the number of duels going on. *)
LEMMA GoingMoves ==
    ASSUME NEW l, NEW l2, NEW d \in Numbers, \A e \in Numbers \ {d} : l2[e] = l[e],
           l[d].members_count \in Nat, l2[d].members_count \in Nat
    PROVE  /\ (l[d].members_count > 0 <=> l2[d].members_count > 0) => Cardinality(Going(l2)) = Cardinality(Going(l))
           /\ l[d].members_count = 0 /\ l2[d].members_count > 0 => Cardinality(Going(l2)) = Cardinality(Going(l)) + 1
           /\ l[d].members_count > 0 /\ l2[d].members_count = 0 => Cardinality(Going(l2)) = Cardinality(Going(l)) - 1
<1>1. IsFiniteSet(Going(l))
    BY GoingFinite
<1>2. CASE l[d].members_count > 0 <=> l2[d].members_count > 0
  <2>1. Going(l2) = Going(l)
      BY <1>2 DEF Going
  <2> QED BY <1>2, <2>1
<1>3. CASE l[d].members_count = 0 /\ l2[d].members_count > 0
  <2>1. Going(l2) = Going(l) \cup {d} /\ d \notin Going(l)
      BY <1>3 DEF Going
  <2>2. Cardinality(Going(l2)) = Cardinality(Going(l)) + 1
      BY <1>1, <2>1, FS_AddElement
  <2> QED BY <1>3, <2>2
<1>4. CASE l[d].members_count > 0 /\ l2[d].members_count = 0
  <2>1. Going(l2) = Going(l) \ {d} /\ d \in Going(l)
      BY <1>4 DEF Going
  <2>2. Cardinality(Going(l2)) = Cardinality(Going(l)) - 1
      BY <1>1, <2>1, FS_RemoveElement
  <2> QED BY <1>4, <2>2
<1> QED BY <1>2, <1>3, <1>4

(* One duel changes: the others agree as before. *)
LEMMA OthersAgree ==
    ASSUME NEW l, NEW s, NEW l2, NEW s2, NEW d \in Numbers,
           Agree(l, s), Types(l2, s2), InOneDuel(s2), EntryAgrees(l2, s2, d),
           \A e \in Numbers \ {d} : l2[e] = l[e] /\ Members(s2, e) = Members(s, e) /\ Invited(s2, e) = Invited(s, e)
    PROVE  Agree(l2, s2)
BY DEF Agree, EntryAgrees

----------------------------------------------------------------------------
(* Records. *)

LEMMA GroupField ==
    ASSUME NEW x \in Session, NEW d \in 0 .. MaxDuel - 1
    PROVE  LET y == [x EXCEPT !.duel_group = d]
           IN  y \in Session /\ y.duel_group = d /\ y.duel_invite = x.duel_invite /\ y.at = x.at
BY DEF Session

LEMMA InviteField ==
    ASSUME NEW x \in Session, NEW d \in 0 .. MaxDuel - 1
    PROVE  LET y == [x EXCEPT !.duel_invite = d]
           IN  y \in Session /\ y.duel_invite = d /\ y.duel_group = x.duel_group /\ y.at = x.at
BY DEF Session

LEMMA PlaceField ==
    ASSUME NEW x \in Session, NEW place \in {"map", "loading", "gone"}
    PROVE  LET y == [x EXCEPT !.at = place]
           IN  y \in Session /\ y.at = place /\ y.duel_group = x.duel_group /\ y.duel_invite = x.duel_invite
BY DEF Session

LEMMA MembersField ==
    ASSUME NEW x \in Entry, NEW n \in Nat
    PROVE  LET y == [x EXCEPT !.members_count = n]
           IN  y \in Entry /\ y.members_count = n /\ y.invites_count = x.invites_count /\ y.max_players_limit = x.max_players_limit
BY DEF Entry

LEMMA InvitesField ==
    ASSUME NEW x \in Entry, NEW n \in Nat
    PROVE  LET y == [x EXCEPT !.invites_count = n]
           IN  y \in Entry /\ y.invites_count = n /\ y.members_count = x.members_count /\ y.max_players_limit = x.max_players_limit
BY DEF Entry

----------------------------------------------------------------------------
(* What each function does to a list and sessions that agree. *)

LEMMA LeaveAgrees ==
    ASSUME DuelInv, NEW p \in Duelists
    PROVE  LET s == duel_leave(p)
           IN  /\ Good(s.list, s.count, s.sessions)
               /\ s.sessions[p].duel_group = 0
               /\ \A q \in Duelists : s.sessions[q].at = duelist[q].at
               /\ \A q \in Duelists \ {p} : s.sessions[q].duel_group = duelist[q].duel_group
<1> DEFINE d == duelist[p].duel_group
           left == [duel_list EXCEPT ![d].members_count = @ - 1]
           last == left[d].members_count = 0
           after == [(IF last THEN Uninvited(duelist, d) ELSE duelist) EXCEPT ![p].duel_group = 0]
<1>1. /\ duel_list \in [0 .. MaxDuel - 1 -> Entry] /\ duelist \in [Duelists -> Session]
      /\ InOneDuel(duelist) /\ duel_count = Cardinality(Going(duel_list)) /\ \A e \in Numbers : EntryAgrees(duel_list, duelist, e)
    BY DEF DuelInv, Good, Agree, Types
<1>2. CASE d = 0
    BY <1>1, <1>2 DEF DuelInv, Good, duel_leave
<1>3. CASE d # 0
  <2>1. d \in Numbers /\ d \in 0 .. MaxDuel - 1
      BY <1>1, <1>3, DuelAssumption DEF Session, Numbers
  <2>2. p \in Members(duelist, d)
      BY DEF Members
  <2>3. duel_list[d] \in Entry /\ duel_list[d].members_count \in Nat \ {0} /\ duel_list[d].members_count = Cardinality(Members(duelist, d))
    <3>1. duel_list[d] \in Entry /\ duel_list[d].members_count = Cardinality(Members(duelist, d))
        BY <1>1, <2>1 DEF EntryAgrees
    <3>2. Cardinality(Members(duelist, d)) # 0
        BY <2>2, GroupsFinite, FS_EmptySet
    <3> QED BY <3>1, <3>2 DEF Entry
  <2>4. /\ left \in [0 .. MaxDuel - 1 -> Entry] /\ left[d] = [duel_list[d] EXCEPT !.members_count = @ - 1]
        /\ \A e \in Numbers \ {d} : left[e] = duel_list[e]
      BY <1>1, <2>1, <2>3 DEF Entry, Numbers
  <2>5. left[d] \in Entry /\ left[d].members_count = duel_list[d].members_count - 1
        /\ left[d].invites_count = duel_list[d].invites_count /\ left[d].max_players_limit = duel_list[d].max_players_limit
      BY <2>3, <2>4 DEF Entry
  <2> DEFINE sent == IF last THEN Uninvited(duelist, d) ELSE duelist
  <2>6. 0 \in 0 .. MaxDuel - 1
      BY DuelAssumption
  <2>7. /\ sent \in [Duelists -> Session]
        /\ \A q \in Duelists : /\ sent[q].duel_group = duelist[q].duel_group /\ sent[q].at = duelist[q].at
                               /\ sent[q].duel_invite = IF last /\ duelist[q].duel_invite = d THEN 0 ELSE duelist[q].duel_invite
    <3>1. CASE last
      <4>1. sent = Uninvited(duelist, d)
          BY <3>1
      <4>2. \A q \in Duelists : /\ sent[q] \in Session
                                /\ sent[q] = IF duelist[q].duel_invite = d THEN [duelist[q] EXCEPT !.duel_invite = 0] ELSE duelist[q]
        <5>1. \A q \in Duelists : sent[q] = IF duelist[q].duel_invite = d THEN [duelist[q] EXCEPT !.duel_invite = 0] ELSE duelist[q]
            BY <4>1 DEF Uninvited
        <5> HIDE DEF sent, d
        <5>2. \A q \in Duelists : duelist[q] \in Session /\ [duelist[q] EXCEPT !.duel_invite = 0] \in Session
            BY <1>1, <2>6, InviteField
        <5> QED BY <5>1, <5>2
      <4>3. sent \in [Duelists -> Session]
          BY <4>1, <4>2 DEF Uninvited
      <4> HIDE DEF sent, last, d
      <4>4. ASSUME NEW q \in Duelists
            PROVE  /\ sent[q].duel_group = duelist[q].duel_group /\ sent[q].at = duelist[q].at
                   /\ sent[q].duel_invite = IF duelist[q].duel_invite = d THEN 0 ELSE duelist[q].duel_invite
        <5>1. duelist[q] \in Session
            BY <1>1
        <5>2. CASE duelist[q].duel_invite = d
          <6>1. sent[q] = [duelist[q] EXCEPT !.duel_invite = 0]
              BY <4>2, <5>2
          <6> QED BY <2>6, <5>1, <5>2, <6>1, InviteField
        <5>3. CASE duelist[q].duel_invite # d
            BY <4>2, <5>3
        <5> QED BY <5>2, <5>3
      <4> QED BY <3>1, <4>3, <4>4
    <3>2. CASE ~ last
        BY <1>1, <3>2
    <3> QED BY <3>1, <3>2
  <2>8. after = [sent EXCEPT ![p] = [sent[p] EXCEPT !.duel_group = 0]]
      OBVIOUS
  <2> HIDE DEF sent, after
  <2>9. /\ after \in [Duelists -> Session]
        /\ after[p] = [sent[p] EXCEPT !.duel_group = 0] /\ \A q \in Duelists \ {p} : after[q] = sent[q]
      BY <2>7, <2>6, <2>8, GroupField
  <2>10. /\ after[p].duel_group = 0
         /\ \A q \in Duelists \ {p} : after[q].duel_group = duelist[q].duel_group
         /\ \A q \in Duelists : after[q].at = duelist[q].at
         /\ \A q \in Duelists : after[q].duel_invite = IF last /\ duelist[q].duel_invite = d THEN 0 ELSE duelist[q].duel_invite
    <3> HIDE DEF last
    <3>1. /\ after[p].duel_group = 0 /\ after[p].at = sent[p].at /\ after[p].duel_invite = sent[p].duel_invite
        BY <2>7, <2>6, <2>9, GroupField
    <3> QED BY <2>7, <2>9, <3>1, ZenonT(40)
  <2>11. /\ Members(after, d) = Members(duelist, d) \ {p}
         /\ \A e \in Numbers \ {d} : Members(after, e) = Members(duelist, e) /\ Invited(after, e) = Invited(duelist, e)
         /\ Invited(after, d) = IF last THEN {} ELSE Invited(duelist, d)
    <3>1. \A e \in Numbers : e # 0 /\ e \in Int
        BY DuelAssumption DEF Numbers
    <3> HIDE DEF d, left, last
    <3>2. duelist[p].duel_group = d
        BY DEF d
    <3> QED BY <2>1, <2>10, <3>1, <3>2 DEF Members, Invited
  <2>12. Cardinality(Members(after, d)) = Cardinality(Members(duelist, d)) - 1
    <3>1. IsFiniteSet(Members(duelist, d))
        BY GroupsFinite
    <3> QED BY <2>2, <2>11, <3>1, FS_RemoveElement
  <2>13. EntryAgrees(left, after, d)
    <3>1. left[d].members_count = Cardinality(Members(after, d))
        BY <2>3, <2>5, <2>12
    <3>2. last <=> Members(after, d) = {}
        BY <3>1, GroupsFinite, FS_EmptySet
    <3>3. ~ last => left[d].invites_count = Cardinality(Invited(after, d))
        BY <1>1, <2>1, <2>2, <2>5, <2>11 DEF EntryAgrees
    <3>4. left[d].max_players_limit > 0 => left[d].members_count <= left[d].max_players_limit
      <4>1. duel_list[d].max_players_limit > 0 => duel_list[d].members_count <= duel_list[d].max_players_limit
          BY <1>1, <2>1 DEF EntryAgrees
      <4>2. duel_list[d].max_players_limit \in Nat
          BY <2>3 DEF Entry, Limits
      <4> QED BY <2>3, <2>5, <4>1, <4>2
    <3> QED BY <2>11, <3>1, <3>2, <3>3, <3>4 DEF EntryAgrees
  <2>14. InOneDuel(after)
    <3>1. \A q \in Duelists : after[q].duel_group > 0 => q # p
        BY <2>10
    <3> QED BY <1>1, <2>10, <3>1 DEF InOneDuel
  <2>15. Agree(left, after)
    <3>1. Agree(duel_list, duelist)
        BY DEF DuelInv, Good
    <3>2. Types(left, after)
        BY <2>4, <2>9 DEF Types
    <3> HIDE DEF left, last, d
    <3> QED BY <2>1, <2>4, <2>11, <2>13, <2>14, <3>1, <3>2, OthersAgree
  <2>16. Cardinality(Going(left)) = IF last THEN duel_count - 1 ELSE duel_count
    <3>1. left[d].members_count \in Nat
        BY <2>5 DEF Entry
    <3>2. last <=> left[d].members_count = 0
        OBVIOUS
    <3>3. /\ left[d].members_count > 0 => Cardinality(Going(left)) = Cardinality(Going(duel_list))
          /\ left[d].members_count = 0 => Cardinality(Going(left)) = Cardinality(Going(duel_list)) - 1
      <4> HIDE DEF left
      <4>1. duel_list[d].members_count > 0 /\ duel_list[d].members_count \in Nat
          BY <2>3
      <4>2. \A e \in Numbers \ {d} : left[e] = duel_list[e]
          BY <2>4
      <4> HIDE DEF d
      <4> QED BY <2>1, <3>1, <4>1, <4>2, GoingMoves
    <3> HIDE DEF last, left, d
    <3>4. CASE last
        BY <1>1, <3>2, <3>3, <3>4
    <3>5. CASE ~ last
      <4>1. left[d].members_count > 0
          BY <3>1, <3>2, <3>5
      <4> QED BY <1>1, <3>3, <3>5, <4>1
    <3> QED BY <3>4, <3>5
  <2> QED BY <1>3, <2>10, <2>15, <2>16 DEF Good, duel_leave, after
<1> QED BY <1>2, <1>3

LEMMA RejectAgrees ==
    ASSUME NEW s, s = [list |-> s.list, count |-> s.count, sessions |-> s.sessions],
           Good(s.list, s.count, s.sessions), NEW p \in Duelists
    PROVE  LET r == duel_reject(p, s)
           IN  /\ Good(r.list, r.count, r.sessions)
               /\ r.sessions[p].duel_invite = 0
               /\ \A q \in Duelists : r.sessions[q].at = s.sessions[q].at /\ r.sessions[q].duel_group = s.sessions[q].duel_group
<1> DEFINE l == s.list
           t == s.sessions
           d == t[p].duel_invite
           l2 == [l EXCEPT ![d].invites_count = @ - 1]
           t2 == [t EXCEPT ![p].duel_invite = 0]
<1>1. /\ l \in [0 .. MaxDuel - 1 -> Entry] /\ t \in [Duelists -> Session]
      /\ InOneDuel(t) /\ s.count = Cardinality(Going(l)) /\ \A e \in Numbers : EntryAgrees(l, t, e)
    BY DEF Good, Agree, Types
<1>2. CASE d = 0
    BY <1>1, <1>2 DEF duel_reject
<1>3. CASE d # 0
  <2>1. d \in Numbers /\ d \in 0 .. MaxDuel - 1
      BY <1>1, <1>3, DuelAssumption DEF Session, Numbers
  <2>2. p \in Invited(t, d)
      BY DEF Invited
  <2>3. Members(t, d) # {} /\ l[d].invites_count = Cardinality(Invited(t, d))
      BY <1>1, <2>1, <2>2 DEF EntryAgrees
  <2>4. l[d] \in Entry /\ l[d].invites_count \in Nat \ {0}
    <3>1. Cardinality(Invited(t, d)) # 0
        BY <2>2, GroupsFinite, FS_EmptySet
    <3>2. l[d] \in Entry
        BY <1>1, <2>1
    <3> QED BY <2>3, <3>1, <3>2 DEF Entry
  <2>5. /\ l2 \in [0 .. MaxDuel - 1 -> Entry] /\ \A e \in Numbers \ {d} : l2[e] = l[e]
        /\ l2[d].members_count = l[d].members_count /\ l2[d].max_players_limit = l[d].max_players_limit
        /\ l2[d].invites_count = l[d].invites_count - 1
    <3>1. l[d].invites_count - 1 \in Nat
        BY <2>4
    <3>2. l2 = [l EXCEPT ![d] = [l[d] EXCEPT !.invites_count = l[d].invites_count - 1]]
        OBVIOUS
    <3>3. l2[d] = [l[d] EXCEPT !.invites_count = l[d].invites_count - 1] /\ \A e \in 0 .. MaxDuel - 1 : e # d => l2[e] = l[e]
        BY <1>1, <2>1, <3>2
    <3>4. l2 \in [0 .. MaxDuel - 1 -> Entry]
        BY <1>1, <2>1, <2>4, <3>1, <3>2, InvitesField
    <3>5. \A e \in Numbers : e \in 0 .. MaxDuel - 1
        BY DuelAssumption DEF Numbers
    <3> HIDE DEF l, l2, d
    <3> QED BY <2>4, <3>1, <3>3, <3>4, <3>5, InvitesField
  <2>6. /\ t2 \in [Duelists -> Session]
        /\ t2[p].duel_invite = 0
        /\ \A q \in Duelists \ {p} : t2[q].duel_invite = t[q].duel_invite
        /\ \A q \in Duelists : t2[q].at = t[q].at /\ t2[q].duel_group = t[q].duel_group
    <3>1. 0 \in 0 .. MaxDuel - 1
        BY DuelAssumption
    <3>2. t2 = [t EXCEPT ![p] = [t[p] EXCEPT !.duel_invite = 0]]
        OBVIOUS
    <3> HIDE DEF t, t2
    <3>3. /\ t2 \in [Duelists -> Session]
          /\ t2[p] = [t[p] EXCEPT !.duel_invite = 0] /\ \A q \in Duelists \ {p} : t2[q] = t[q]
        BY <1>1, <3>1, <3>2, InviteField
    <3>4. t2[p].duel_invite = 0 /\ t2[p].at = t[p].at /\ t2[p].duel_group = t[p].duel_group
      <4>1. t[p] \in Session
          BY <1>1
      <4> QED BY <3>1, <3>3, <4>1, InviteField
    <3> QED BY <3>3, <3>4
  <2> HIDE DEF l, t, l2, t2
  <2>7. /\ Invited(t2, d) = Invited(t, d) \ {p}
        /\ \A e \in Numbers : Members(t2, e) = Members(t, e)
        /\ \A e \in Numbers \ {d} : Invited(t2, e) = Invited(t, e)
    <3>1. \A e \in Numbers : e # 0 /\ e \in Int
        BY DuelAssumption DEF Numbers
    <3>2. t[p].duel_invite = d
        OBVIOUS
    <3> HIDE DEF d
    <3> QED BY <2>1, <2>6, <3>1, <3>2 DEF Members, Invited
  <2>8. Cardinality(Invited(t2, d)) = Cardinality(Invited(t, d)) - 1
      BY <2>2, <2>7, GroupsFinite, OneLess, Zenon
  <2>9. EntryAgrees(l2, t2, d)
      BY <1>1, <2>1, <2>3, <2>5, <2>7, <2>8 DEF EntryAgrees
  <2>10. InOneDuel(t2)
      BY <1>1, <2>6 DEF InOneDuel
  <2>11. Agree(l2, t2)
    <3>1. Agree(l, t)
        BY DEF Good, l, t
    <3> QED BY <2>1, <2>5, <2>6, <2>7, <2>9, <2>10, <3>1, OthersAgree DEF Types
  <2>12. Going(l2) = Going(l)
    <3>1. \A e \in Numbers : l2[e].members_count = l[e].members_count
        BY <2>5
    <3> QED BY <3>1 DEF Going
  <2>13. duel_reject(p, s) = [s EXCEPT !.list = l2, !.sessions = t2]
      BY <1>3 DEF duel_reject, l, t, l2, t2
  <2>14. duel_reject(p, s).list = l2 /\ duel_reject(p, s).sessions = t2 /\ duel_reject(p, s).count = s.count
      BY <2>13
  <2> QED BY <1>1, <2>6, <2>11, <2>12, <2>14 DEF Good, t
<1> QED BY <1>2, <1>3

LEMMA BecomeKeeps ==
    ASSUME NEW s, Good(s.list, s.count, s.sessions), NEW p \in Duelists, NEW place \in {"map", "loading", "gone"},
           DuelInv, DuelsBecome(s, p, place),
           place = "gone" => s.sessions[p].duel_invite = 0,
           place # "map" => s.sessions[p].duel_group = 0,
           \A q \in Duelists \ {p} : s.sessions[q].at = duelist[q].at /\ s.sessions[q].duel_group = duelist[q].duel_group
    PROVE  DuelInv'
<1> DEFINE t == s.sessions
<1>1. t \in [Duelists -> Session] /\ Agree(s.list, t) /\ s.count = Cardinality(Going(s.list)) /\ Types(s.list, t) /\ InOneDuel(t)
    BY DEF Good, Agree, Types
<1>2. /\ duel_list' = s.list /\ duel_count' = s.count
      /\ duelist' = [t EXCEPT ![p] = IF place = "gone" THEN NoSession ELSE [t[p] EXCEPT !.at = place]]
    BY DEF DuelsBecome
<1> HIDE DEF t
<1>3. /\ duelist' \in [Duelists -> Session]
      /\ duelist'[p].at = place /\ duelist'[p].duel_group = t[p].duel_group /\ duelist'[p].duel_invite = t[p].duel_invite
      /\ \A q \in Duelists \ {p} : duelist'[q] = t[q]
  <2>1. t[p] \in Session
      BY <1>1
  <2>2. CASE place = "gone"
    <3>1. NoSession \in Session
        BY DuelAssumption DEF NoSession, Session
    <3> QED BY <1>1, <1>2, <2>2, <3>1 DEF t, NoSession
  <2>3. CASE place # "gone"
    <3>1. duelist' = [t EXCEPT ![p] = [t[p] EXCEPT !.at = place]]
        BY <1>2, <2>3
    <3>2. 0 \in 0 .. MaxDuel - 1
        BY DuelAssumption
    <3>3. [t[p] EXCEPT !.at = place] \in Session
        BY <2>1, <3>2, PlaceField
    <3>4. duelist'[p] = [t[p] EXCEPT !.at = place] /\ \A q \in Duelists \ {p} : duelist'[q] = t[q]
        BY <1>1, <3>1
    <3>5. duelist' \in [Duelists -> Session]
        BY <1>1, <3>1, <3>3
    <3> QED BY <2>1, <3>2, <3>4, <3>5, PlaceField
  <2> QED BY <2>2, <2>3
<1>4. \A q \in Duelists : duelist'[q].duel_group = t[q].duel_group /\ duelist'[q].duel_invite = t[q].duel_invite
    BY <1>3
<1>5. \A d : Members(duelist', d) = Members(t, d) /\ Invited(duelist', d) = Invited(t, d)
    BY <1>4 DEF Members, Invited
<1>6. Agree(duel_list', duelist')
    BY <1>1, <1>2, <1>3, <1>4, <1>5 DEF Agree, Types, EntryAgrees, InOneDuel
<1>7. OffMapIsOut(duelist')
    BY <1>3 DEF DuelInv, OffMapIsOut, t
<1> QED BY <1>1, <1>2, <1>6, <1>7 DEF DuelInv, Good

LEMMA CreateKeeps ==
    ASSUME DuelInv, NEW p \in Duelists, NEW limit \in Limits, NEW invited \in SUBSET Duelists, p \notin invited,
           MayCommand(p), ~ Engaged(p), \A q \in invited : ~ Engaged(q), FreeDuels # {}, duel_create(p, limit, invited)
    PROVE  DuelInv'
<1>1. PICK d \in FreeDuels : /\ duel_list' = [duel_list EXCEPT ![d] = [members_count |-> 1, invites_count |-> Cardinality(invited), max_players_limit |-> limit]]
                             /\ duelist' = [q \in Duelists |-> IF q = p THEN [duelist[q] EXCEPT !.duel_group = d]
                                                             ELSE IF q \in invited THEN [duelist[q] EXCEPT !.duel_invite = d]
                                                             ELSE duelist[q]]
                             /\ duel_count' = duel_count + 1
  <2>1. FreeDuels \subseteq Nat
      BY DuelAssumption DEF FreeDuels
  <2>2. \E d \in FreeDuels : \A e \in FreeDuels : d <= e
      BY <2>1, LeastNatural
  <2> DEFINE d == CHOOSE d \in FreeDuels : \A e \in FreeDuels : d <= e
  <2>3. d \in FreeDuels
      BY <2>2
  <2> QED BY <2>3 DEF duel_create
<1>2. /\ duel_list \in [0 .. MaxDuel - 1 -> Entry] /\ duelist \in [Duelists -> Session] /\ OffMapIsOut(duelist)
      /\ InOneDuel(duelist) /\ duel_count = Cardinality(Going(duel_list)) /\ \A e \in Numbers : EntryAgrees(duel_list, duelist, e)
    BY DEF DuelInv, Good, Agree, Types
<1>3. /\ d \in Numbers /\ d \in 0 .. MaxDuel - 1 /\ d > 0 /\ 0 \in 0 .. MaxDuel - 1 /\ duel_list[d].members_count = 0
      /\ \A e \in Numbers : e \in Nat /\ e # 0
    BY DuelAssumption DEF FreeDuels, Numbers
<1>4. Members(duelist, d) = {} /\ Invited(duelist, d) = {}
  <2>1. Cardinality(Members(duelist, d)) = 0
      BY <1>2, <1>3 DEF EntryAgrees
  <2>2. Members(duelist, d) = {}
      BY <2>1, GroupsFinite, FS_EmptySet
  <2> QED BY <1>2, <1>3, <2>2 DEF EntryAgrees
<1>5. IsFiniteSet(invited) /\ Cardinality(invited) \in Nat
    BY DuelAssumption, FS_Subset, FS_CardinalityType
<1>6. /\ duel_list' \in [0 .. MaxDuel - 1 -> Entry] /\ duel_list'[d] \in Entry /\ duel_list'[d].members_count = 1
      /\ duel_list'[d].invites_count = Cardinality(invited) /\ duel_list'[d].max_players_limit = limit
      /\ \A e \in Numbers \ {d} : duel_list'[e] = duel_list[e]
  <2> DEFINE new == [members_count |-> 1, invites_count |-> Cardinality(invited), max_players_limit |-> limit]
  <2>1. new \in Entry
      BY <1>5 DEF Entry
  <2>2. duel_list' = [duel_list EXCEPT ![d] = new]
      BY <1>1
  <2>3. duel_list'[d] = new
      BY <1>2, <1>3, <2>2
  <2>4. \A e \in Numbers \ {d} : duel_list'[e] = duel_list[e]
      BY <1>2, <1>3, <2>2 DEF Numbers
  <2>5. duel_list' \in [0 .. MaxDuel - 1 -> Entry]
      BY <1>2, <2>1, <2>2
  <2> QED BY <2>1, <2>3, <2>4, <2>5
<1>7. \A q \in Duelists : /\ duelist'[q] \in Session /\ duelist'[q].at = duelist[q].at
                          /\ duelist'[q].duel_group = IF q = p THEN d ELSE duelist[q].duel_group
                          /\ duelist'[q].duel_invite = IF q \in invited THEN d ELSE duelist[q].duel_invite
  <2> SUFFICES ASSUME NEW q \in Duelists
               PROVE  /\ duelist'[q] \in Session /\ duelist'[q].at = duelist[q].at
                      /\ duelist'[q].duel_group = IF q = p THEN d ELSE duelist[q].duel_group
                      /\ duelist'[q].duel_invite = IF q \in invited THEN d ELSE duelist[q].duel_invite
      OBVIOUS
  <2>1. duelist[q] \in Session
      BY <1>2
  <2>2. CASE q = p
    <3>1. duelist'[q] = [duelist[q] EXCEPT !.duel_group = d]
        BY <1>1, <2>2
    <3>2. duelist'[q] \in Session /\ duelist'[q].at = duelist[q].at /\ duelist'[q].duel_group = d /\ duelist'[q].duel_invite = duelist[q].duel_invite
        BY <1>3, <2>1, <3>1, GroupField
    <3> QED BY <2>2, <3>2
  <2>3. CASE q # p /\ q \in invited
    <3>1. duelist'[q] = [duelist[q] EXCEPT !.duel_invite = d]
        BY <1>1, <2>3
    <3>2. duelist'[q] \in Session /\ duelist'[q].at = duelist[q].at /\ duelist'[q].duel_group = duelist[q].duel_group /\ duelist'[q].duel_invite = d
        BY <1>3, <2>1, <3>1, InviteField
    <3> QED BY <2>3, <3>2
  <2>4. CASE q # p /\ q \notin invited
      BY <1>1, <2>1, <2>4
  <2> QED BY <2>2, <2>3, <2>4
<1>8. duelist' \in [Duelists -> Session]
    BY <1>1, <1>7
<1>9. \A q \in invited \cup {p} : duelist[q].duel_group = 0 /\ duelist[q].duel_invite = 0
  <2>1. \A q \in Duelists : duelist[q].duel_group \in Nat /\ duelist[q].duel_invite \in Nat
      BY <1>2, DuelAssumption DEF Session
  <2> QED BY <2>1 DEF Engaged
<1>10. /\ Members(duelist', d) = {p} /\ Invited(duelist', d) = invited
       /\ \A e \in Numbers \ {d} : Members(duelist', e) = Members(duelist, e) /\ Invited(duelist', e) = Invited(duelist, e)
    BY <1>3, <1>4, <1>7, <1>9 DEF Members, Invited
<1>11. EntryAgrees(duel_list', duelist', d)
  <2>1. Cardinality({p}) = 1
      BY FS_Singleton
  <2>2. limit > 0 => 1 <= limit
      BY DEF Limits
  <2> QED BY <1>6, <1>10, <2>1, <2>2 DEF EntryAgrees
<1>12. InOneDuel(duelist')
    BY <1>2, <1>7, <1>9 DEF InOneDuel
<1>13. Agree(duel_list', duelist')
  <2>1. Agree(duel_list, duelist) /\ Types(duel_list', duelist')
      BY <1>6, <1>8 DEF DuelInv, Good, Types
  <2> QED BY <1>3, <1>6, <1>10, <1>11, <1>12, <2>1, OthersAgree
<1>14. duel_count' = Cardinality(Going(duel_list'))
  <2>1. /\ duel_list'[d].members_count \in Nat /\ duel_list'[d].members_count > 0
        /\ duel_list[d].members_count \in Nat /\ duel_list[d].members_count = 0
      BY <1>3, <1>6
  <2>2. Cardinality(Going(duel_list')) = Cardinality(Going(duel_list)) + 1
      BY <1>3, <1>6, <2>1, GoingMoves
  <2> QED BY <1>1, <1>2, <2>2
<1>15. OffMapIsOut(duelist')
    BY <1>2, <1>7 DEF OffMapIsOut, MayCommand
<1> QED BY <1>13, <1>14, <1>15 DEF DuelInv, Good

LEMMA InviteKeeps ==
    ASSUME DuelInv, NEW p \in Duelists, NEW q \in Duelists, invite(p, q)
    PROVE  DuelInv'
<1> DEFINE d == duelist[p].duel_group
<1>1. /\ duel_list \in [0 .. MaxDuel - 1 -> Entry] /\ duelist \in [Duelists -> Session] /\ OffMapIsOut(duelist)
      /\ InOneDuel(duelist) /\ duel_count = Cardinality(Going(duel_list)) /\ \A e \in Numbers : EntryAgrees(duel_list, duelist, e)
    BY DEF DuelInv, Good, Agree, Types
<1>2. d > 0 /\ d \in Numbers /\ d \in 0 .. MaxDuel - 1 /\ \A e \in Numbers : e \in 0 .. MaxDuel - 1 /\ e # 0
    BY <1>1, DuelAssumption DEF invite, Session, Numbers
<1>3. /\ duelist' = [duelist EXCEPT ![q] = [duelist[q] EXCEPT !.duel_invite = d]]
      /\ duel_list' = [duel_list EXCEPT ![d] = [duel_list[d] EXCEPT !.invites_count = duel_list[d].invites_count + 1]]
      /\ duel_count' = duel_count
    BY DEF invite
<1>4. duelist[q].duel_group = 0 /\ duelist[q].duel_invite = 0
  <2>1. duelist[q].duel_group \in Nat /\ duelist[q].duel_invite \in Nat
      BY <1>1, DuelAssumption DEF Session
  <2> QED BY <2>1 DEF invite, Engaged
<1>5. duel_list[d] \in Entry /\ duel_list[d].invites_count + 1 \in Nat
    BY <1>1, <1>2 DEF Entry
<1> HIDE DEF d
<1>6. /\ duelist' \in [Duelists -> Session]
      /\ \A r \in Duelists : duelist'[r].at = duelist[r].at /\ duelist'[r].duel_group = duelist[r].duel_group
      /\ duelist'[q].duel_invite = d /\ \A r \in Duelists \ {q} : duelist'[r].duel_invite = duelist[r].duel_invite
  <2>1. /\ duelist'[q] = [duelist[q] EXCEPT !.duel_invite = d] /\ \A r \in Duelists \ {q} : duelist'[r] = duelist[r]
      BY <1>1, <1>3
  <2>2. duelist[q] \in Session
      BY <1>1
  <2>3. /\ duelist'[q] \in Session /\ duelist'[q].duel_invite = d
        /\ duelist'[q].at = duelist[q].at /\ duelist'[q].duel_group = duelist[q].duel_group
      BY <1>2, <2>1, <2>2, InviteField
  <2>4. duelist' \in [Duelists -> Session]
      BY <1>1, <1>3, <2>1, <2>3
  <2> QED BY <2>1, <2>3, <2>4
<1>7. /\ duel_list' \in [0 .. MaxDuel - 1 -> Entry] /\ \A e \in Numbers \ {d} : duel_list'[e] = duel_list[e]
      /\ duel_list'[d].members_count = duel_list[d].members_count /\ duel_list'[d].max_players_limit = duel_list[d].max_players_limit
      /\ duel_list'[d].invites_count = duel_list[d].invites_count + 1
  <2>1. /\ duel_list'[d] = [duel_list[d] EXCEPT !.invites_count = duel_list[d].invites_count + 1]
        /\ \A e \in Numbers \ {d} : duel_list'[e] = duel_list[e]
      BY <1>1, <1>2, <1>3
  <2>2. duel_list'[d] \in Entry
      BY <1>5, <2>1, InvitesField
  <2>3. duel_list' \in [0 .. MaxDuel - 1 -> Entry]
      BY <1>1, <1>2, <1>3, <2>1, <2>2
  <2> QED BY <1>5, <2>1, <2>3, InvitesField
<1>8. p \in Members(duelist, d)
    BY DEF Members, d
<1>9. /\ Invited(duelist', d) = Invited(duelist, d) \cup {q} /\ q \notin Invited(duelist, d)
      /\ \A e \in Numbers : Members(duelist', e) = Members(duelist, e)
      /\ \A e \in Numbers \ {d} : Invited(duelist', e) = Invited(duelist, e)
    BY <1>2, <1>4, <1>6 DEF Members, Invited
<1>10. Cardinality(Invited(duelist', d)) = Cardinality(Invited(duelist, d)) + 1
  <2>1. IsFiniteSet(Invited(duelist, d))
      BY GroupsFinite
  <2> QED BY <1>9, <2>1, OneMore, Zenon
<1>11. EntryAgrees(duel_list', duelist', d)
    BY <1>1, <1>2, <1>7, <1>8, <1>9, <1>10 DEF EntryAgrees
<1>12. InOneDuel(duelist')
  <2>1. \A r \in Duelists : duelist'[r].duel_group > 0 => r # q
      BY <1>4, <1>6
  <2> QED BY <1>1, <1>6, <2>1 DEF InOneDuel
<1>13. Agree(duel_list', duelist')
  <2>1. Agree(duel_list, duelist) /\ Types(duel_list', duelist')
      BY <1>6, <1>7 DEF DuelInv, Good, Types
  <2> QED BY <1>2, <1>7, <1>9, <1>11, <1>12, <2>1, OthersAgree
<1>14. Going(duel_list') = Going(duel_list)
  <2>1. \A e \in Numbers : duel_list'[e].members_count = duel_list[e].members_count
      BY <1>7
  <2> QED BY <2>1 DEF Going
<1>15. OffMapIsOut(duelist')
    BY <1>1, <1>6 DEF OffMapIsOut
<1> QED BY <1>1, <1>3, <1>13, <1>14, <1>15 DEF DuelInv, Good

LEMMA AcceptKeeps ==
    ASSUME DuelInv, NEW p \in Duelists, accept(p)
    PROVE  DuelInv'
<1> DEFINE d == duelist[p].duel_invite
<1>1. /\ duel_list \in [0 .. MaxDuel - 1 -> Entry] /\ duelist \in [Duelists -> Session] /\ OffMapIsOut(duelist)
      /\ InOneDuel(duelist) /\ duel_count = Cardinality(Going(duel_list)) /\ \A e \in Numbers : EntryAgrees(duel_list, duelist, e)
    BY DEF DuelInv, Good, Agree, Types
<1>2. d > 0 /\ d \in Numbers /\ d \in 0 .. MaxDuel - 1 /\ \A e \in Numbers : e \in 0 .. MaxDuel - 1 /\ e # 0
    BY <1>1, DuelAssumption DEF accept, Session, Numbers
<1>3. /\ p \in Invited(duelist, d) /\ duelist[p].duel_group = 0
  <2>1. duelist[p].duel_group \in Nat
      BY <1>1, DuelAssumption DEF Session
  <2> QED BY <1>1, <1>2, <2>1 DEF Invited, InOneDuel
<1>4. duelist[p].at = "map" /\ ~ DuelFull(d) /\ duel_count' = duel_count
    BY DEF accept, MayCommand
<1>5. duel_list[d] \in Entry /\ Members(duelist, d) # {} /\ duel_list[d].invites_count = Cardinality(Invited(duelist, d))
    BY <1>1, <1>2, <1>3 DEF EntryAgrees
<1>6. duel_list[d].invites_count \in Nat \ {0} /\ duel_list[d].members_count \in Nat \ {0} /\ duel_list[d].max_players_limit \in Nat
  <2>1. Cardinality(Invited(duelist, d)) # 0 /\ Cardinality(Members(duelist, d)) # 0
      BY <1>3, <1>5, GroupsFinite, FS_EmptySet
  <2>2. duel_list[d].members_count = Cardinality(Members(duelist, d))
      BY <1>1, <1>2 DEF EntryAgrees
  <2> QED BY <1>5, <2>1, <2>2 DEF Entry, Limits
<1>7. /\ duelist' \in [Duelists -> Session] /\ \A r \in Duelists : duelist'[r].at = duelist[r].at
      /\ duelist'[p].duel_group = d /\ duelist'[p].duel_invite = 0
      /\ \A r \in Duelists \ {p} : duelist'[r].duel_group = duelist[r].duel_group /\ duelist'[r].duel_invite = duelist[r].duel_invite
  <2> DEFINE x == [duelist[p] EXCEPT !.duel_group = d]
             y == [x EXCEPT !.duel_invite = 0]
  <2>1. duelist' = [duelist EXCEPT ![p] = y]
      BY DEF accept
  <2>2. 0 \in 0 .. MaxDuel - 1 /\ duelist[p] \in Session
      BY <1>1, DuelAssumption
  <2>3. x \in Session /\ x.duel_group = d /\ x.at = duelist[p].at
      BY <1>2, <2>2, GroupField
  <2> HIDE DEF x
  <2>4. y \in Session /\ y.duel_group = d /\ y.duel_invite = 0 /\ y.at = duelist[p].at
      BY <2>2, <2>3, InviteField
  <2> HIDE DEF y
  <2>5. duelist'[p] = y /\ \A r \in Duelists \ {p} : duelist'[r] = duelist[r]
      BY <1>1, <2>1
  <2>6. duelist' \in [Duelists -> Session]
      BY <1>1, <2>1, <2>4
  <2> QED BY <2>4, <2>5, <2>6
<1>8. /\ duel_list' \in [0 .. MaxDuel - 1 -> Entry] /\ \A e \in Numbers \ {d} : duel_list'[e] = duel_list[e]
      /\ duel_list'[d].members_count = duel_list[d].members_count + 1 /\ duel_list'[d].max_players_limit = duel_list[d].max_players_limit
      /\ duel_list'[d].invites_count = duel_list[d].invites_count - 1
  <2> DEFINE x == [duel_list[d] EXCEPT !.members_count = duel_list[d].members_count + 1]
             y == [x EXCEPT !.invites_count = duel_list[d].invites_count - 1]
  <2>1. duel_list' = [duel_list EXCEPT ![d] = y]
      BY <1>1, <1>2, <1>5 DEF accept, Entry
  <2>2. duel_list[d].members_count + 1 \in Nat /\ duel_list[d].invites_count - 1 \in Nat
      BY <1>6
  <2>3. /\ x \in Entry /\ x.members_count = duel_list[d].members_count + 1 /\ x.max_players_limit = duel_list[d].max_players_limit
      BY <1>5, <2>2, MembersField
  <2> HIDE DEF x
  <2>4. /\ y \in Entry /\ y.members_count = duel_list[d].members_count + 1 /\ y.max_players_limit = duel_list[d].max_players_limit
        /\ y.invites_count = duel_list[d].invites_count - 1
      BY <2>2, <2>3, InvitesField
  <2> HIDE DEF y
  <2>5. duel_list'[d] = y /\ \A e \in Numbers \ {d} : duel_list'[e] = duel_list[e]
      BY <1>1, <1>2, <2>1
  <2>6. duel_list' \in [0 .. MaxDuel - 1 -> Entry]
      BY <1>1, <1>2, <2>1, <2>4
  <2> QED BY <2>4, <2>5, <2>6
<1> HIDE DEF d
<1>9. /\ Members(duelist', d) = Members(duelist, d) \cup {p} /\ p \notin Members(duelist, d)
      /\ Invited(duelist', d) = Invited(duelist, d) \ {p}
      /\ \A e \in Numbers \ {d} : Members(duelist', e) = Members(duelist, e) /\ Invited(duelist', e) = Invited(duelist, e)
  <2>1. duelist[p].duel_invite = d
      BY DEF d
  <2> QED BY <1>2, <1>3, <1>7, <2>1 DEF Members, Invited
<1>10. /\ Cardinality(Members(duelist', d)) = Cardinality(Members(duelist, d)) + 1
       /\ Cardinality(Invited(duelist', d)) = Cardinality(Invited(duelist, d)) - 1
  <2>1. IsFiniteSet(Members(duelist, d)) /\ IsFiniteSet(Invited(duelist, d))
      BY GroupsFinite
  <2>2. Cardinality(Members(duelist', d)) = Cardinality(Members(duelist, d)) + 1
      BY <1>9, <2>1, OneMore, Zenon
  <2>3. Cardinality(Invited(duelist', d)) = Cardinality(Invited(duelist, d)) - 1
      BY <1>3, <1>9, <2>1, OneLess, Zenon
  <2> QED BY <2>2, <2>3
<1>11. EntryAgrees(duel_list', duelist', d)
  <2>1. duel_list[d].members_count = Cardinality(Members(duelist, d))
      BY <1>1, <1>2 DEF EntryAgrees
  <2>2. duel_list[d].max_players_limit > 0 => duel_list[d].members_count + 1 <= duel_list[d].max_players_limit
      BY <1>4, <1>6 DEF DuelFull
  <2> QED BY <1>5, <1>8, <1>9, <1>10, <2>1, <2>2 DEF EntryAgrees
<1>12. InOneDuel(duelist')
  <2>1. \A r \in Duelists : r = p \/ r \in Duelists \ {p}
      OBVIOUS
  <2> QED BY <1>1, <1>7, <2>1 DEF InOneDuel
<1>13. Agree(duel_list', duelist')
  <2>1. Agree(duel_list, duelist) /\ Types(duel_list', duelist')
      BY <1>7, <1>8 DEF DuelInv, Good, Types
  <2> QED BY <1>2, <1>8, <1>9, <1>11, <1>12, <2>1, OthersAgree
<1>14. Cardinality(Going(duel_list')) = Cardinality(Going(duel_list))
  <2>1. /\ duel_list'[d].members_count \in Nat /\ duel_list'[d].members_count > 0
        /\ duel_list[d].members_count \in Nat /\ duel_list[d].members_count > 0
      BY <1>6, <1>8
  <2> QED BY <1>2, <1>8, <2>1, GoingMoves
<1>15. OffMapIsOut(duelist')
  <2>1. \A r \in Duelists : duelist'[r].at # "map" => r # p
      BY <1>4, <1>7
  <2> QED BY <1>1, <1>7, <2>1 DEF OffMapIsOut
<1> QED BY <1>1, <1>4, <1>13, <1>14, <1>15 DEF DuelInv, Good

----------------------------------------------------------------------------
(* The invariant. *)

LEMMA DuelInitInv == DuelInit => DuelInv
<1> SUFFICES ASSUME DuelInit PROVE DuelInv
    OBVIOUS
<1>1. 0 \in 0 .. MaxDuel - 1 /\ \A d \in Numbers : d \in 0 .. MaxDuel - 1 /\ d # 0
    BY DuelAssumption DEF Numbers
<1>2. /\ \A d \in 0 .. MaxDuel - 1 : /\ duel_list[d] \in Entry
                                      /\ duel_list[d].members_count = 0 /\ duel_list[d].max_players_limit = 0
      /\ \A p \in Duelists : duelist[p] \in Session /\ duelist[p].at = "map" /\ duelist[p].duel_group = 0 /\ duelist[p].duel_invite = 0
  <2>1. [members_count |-> 0, invites_count |-> 0, max_players_limit |-> 0] \in Entry
      BY DEF Entry, Limits
  <2>2. [NoSession EXCEPT !.at = "map"] = [at |-> "map", duel_group |-> 0, duel_invite |-> 0]
      BY DEF NoSession
  <2>3. [at |-> "map", duel_group |-> 0, duel_invite |-> 0] \in Session
      BY <1>1 DEF Session
  <2> QED BY <2>1, <2>2, <2>3 DEF DuelInit
<1>3. Types(duel_list, duelist)
    BY <1>2 DEF DuelInit, Types
<1>4. \A d \in Numbers : Members(duelist, d) = {} /\ Invited(duelist, d) = {}
    BY <1>1, <1>2 DEF Members, Invited
<1>5. \A d \in Numbers : EntryAgrees(duel_list, duelist, d)
    BY <1>1, <1>2, <1>4, FS_EmptySet DEF EntryAgrees
<1>6. Going(duel_list) = {}
    BY <1>1, <1>2 DEF Going
<1>7. duel_count = Cardinality(Going(duel_list))
    BY <1>6, FS_EmptySet DEF DuelInit
<1> QED BY <1>2, <1>3, <1>5, <1>7 DEF DuelInv, Good, Agree, InOneDuel, OffMapIsOut

LEMMA DuelNextInv == DuelInv /\ [DuelNext]_duelVars => DuelInv'
<1> SUFFICES ASSUME DuelInv, [DuelNext]_duelVars PROVE DuelInv'
    OBVIOUS
<1> DEFINE T == AsTheyAre
<1>1. T.list = duel_list /\ T.count = duel_count /\ T.sessions = duelist /\ T = [list |-> T.list, count |-> T.count, sessions |-> T.sessions]
    BY DEF AsTheyAre
<1>2. Good(T.list, T.count, T.sessions)
    BY <1>1 DEF DuelInv
<1>3. CASE UNCHANGED duelVars
  <2>1. duel_list' = duel_list /\ duel_count' = duel_count /\ duelist' = duelist
      BY <1>3 DEF duelVars
  <2> QED BY <2>1 DEF DuelInv
<1>4. CASE DuelNext
  <2> SUFFICES ASSUME NEW p \in Duelists,
                      \/ \E limit \in Limits : duel(p, limit)
                      \/ \E q \in Duelists : duel_with(p, q) \/ invite(p, q)
                      \/ LeavesDuel(p) \/ accept(p) \/ reject(p) \/ DuelistDies(p) \/ DuelistWarps(p)
                      \/ DuelistLoaded(p) \/ QuitsDuel(p) \/ DuelistLogsIn(p)
               PROVE  DuelInv'
      BY <1>4 DEF DuelNext
  <2> DEFINE L == duel_leave(p)
  <2>1. /\ Good(L.list, L.count, L.sessions)
        /\ L.sessions[p].duel_group = 0
        /\ \A q \in Duelists : L.sessions[q].at = duelist[q].at
        /\ \A q \in Duelists \ {p} : L.sessions[q].duel_group = duelist[q].duel_group
        /\ L = [list |-> L.list, count |-> L.count, sessions |-> L.sessions]
    <3>1. L = [list |-> L.list, count |-> L.count, sessions |-> L.sessions]
        BY DEF duel_leave
    <3> QED BY <3>1, LeaveAgrees
  <2> DEFINE RL == duel_reject(p, L)
             RT == duel_reject(p, T)
  <2>2. /\ Good(RL.list, RL.count, RL.sessions)
        /\ RL.sessions[p].duel_invite = 0
        /\ \A q \in Duelists : RL.sessions[q].at = L.sessions[q].at /\ RL.sessions[q].duel_group = L.sessions[q].duel_group
    <3> HIDE DEF L
    <3> QED BY <2>1, RejectAgrees
  <2>3. /\ Good(RT.list, RT.count, RT.sessions)
        /\ RT.sessions[p].duel_invite = 0
        /\ \A q \in Duelists : RT.sessions[q].at = T.sessions[q].at /\ RT.sessions[q].duel_group = T.sessions[q].duel_group
    <3> HIDE DEF T
    <3> QED BY <1>1, <1>2, RejectAgrees
  <2>4. OffMapIsOut(duelist) /\ duelist \in [Duelists -> Session]
      BY DEF DuelInv, Good, Agree, Types
  <2> HIDE DEF T, L, RL, RT
  <2>5. CASE \E limit \in Limits : duel(p, limit)
    <3>1. PICK limit \in Limits : duel(p, limit)
        BY <2>5
    <3>2. {} \in SUBSET Duelists
        OBVIOUS
    <3> QED BY <3>1, <3>2, CreateKeeps DEF duel
  <2>6. CASE \E q \in Duelists : duel_with(p, q)
    <3>1. PICK q \in Duelists : duel_with(p, q)
        BY <2>6
    <3> DEFINE invited == IF q = p \/ Engaged(q) THEN {} ELSE {q}
    <3>2. invited \in SUBSET Duelists /\ p \notin invited /\ (\A r \in invited : ~ Engaged(r)) /\ 2 \in Limits
        BY DEF Limits
    <3>3. MayCommand(p) /\ ~ Engaged(p) /\ FreeDuels # {} /\ duel_create(p, 2, invited)
        BY <3>1 DEF duel_with
    <3> HIDE DEF invited
    <3> QED BY <3>2, <3>3, CreateKeeps
  <2>7. CASE \E q \in Duelists : invite(p, q)
      BY <2>7, InviteKeeps
  <2>8. CASE accept(p)
      BY <2>8, AcceptKeeps
  <2>9. CASE LeavesDuel(p)
    <3>1. DuelsBecome(L, p, "map")
        BY <2>9 DEF LeavesDuel, L
    <3> QED BY <2>1, <3>1, BecomeKeeps
  <2>10. CASE reject(p)
    <3>1. DuelsBecome(RT, p, "map")
        BY <2>10 DEF reject, RT, T
    <3> QED BY <1>1, <2>3, <3>1, BecomeKeeps
  <2>11. CASE DuelistDies(p)
    <3>1. DuelsBecome(RL, p, "map")
        BY <2>11 DEF DuelistDies, RL, L
    <3> QED BY <2>1, <2>2, <3>1, BecomeKeeps
  <2>12. CASE DuelistWarps(p)
    <3>1. DuelsBecome(L, p, "loading")
        BY <2>12 DEF DuelistWarps, L
    <3> QED BY <2>1, <3>1, BecomeKeeps
  <2>13. CASE DuelistLoaded(p)
    <3>1. DuelsBecome(T, p, "map")
        BY <2>13 DEF DuelistLoaded, T
    <3> QED BY <1>1, <1>2, <3>1, BecomeKeeps
  <2>14. CASE QuitsDuel(p) /\ MayCommand(p)
    <3>1. DuelsBecome(RL, p, "gone")
        BY <2>14 DEF QuitsDuel, RL, L
    <3>2. RL.sessions[p].duel_group = 0
        BY <2>1, <2>2
    <3> QED BY <2>1, <2>2, <3>1, <3>2, BecomeKeeps
  <2>15. CASE QuitsDuel(p) /\ ~ MayCommand(p)
    <3>1. DuelsBecome(RT, p, "gone")
        BY <2>15 DEF QuitsDuel, RT, T
    <3>2. duelist[p].at = "loading"
        BY <2>4, <2>15 DEF QuitsDuel, IsKnown, MayCommand, Session
    <3>3. RT.sessions[p].duel_group = 0
        BY <1>1, <2>3, <2>4, <3>2 DEF OffMapIsOut
    <3> QED BY <1>1, <2>3, <3>1, <3>3, BecomeKeeps
  <2>16. CASE DuelistLogsIn(p)
    <3>1. DuelsBecome(T, p, "loading") /\ duelist[p].at = "gone"
        BY <2>16 DEF DuelistLogsIn, T, IsKnown
    <3>2. T.sessions[p].duel_group = 0
        BY <1>1, <2>4, <3>1 DEF OffMapIsOut
    <3> QED BY <1>1, <1>2, <3>1, <3>2, BecomeKeeps
  <2> QED BY <2>5, <2>6, <2>7, <2>8, <2>9, <2>10, <2>11, <2>12, <2>13, <2>14, <2>15, <2>16
<1> QED BY <1>3, <1>4

THEOREM DuelsInvariant == DuelSpec => []DuelInv
BY DuelInitInv, DuelNextInv, PTL DEF DuelSpec

LEMMA DuelInvAgrees == DuelInv => DuelTypeOK /\ DuelsAgree
<1> SUFFICES ASSUME DuelInv PROVE DuelTypeOK /\ DuelsAgree
    OBVIOUS
<1>1. /\ duel_list \in [0 .. MaxDuel - 1 -> Entry] /\ duelist \in [Duelists -> Session] /\ InOneDuel(duelist)
      /\ duel_count = Cardinality(Going(duel_list)) /\ \A d \in Numbers : EntryAgrees(duel_list, duelist, d)
    BY DEF DuelInv, Good, Agree, Types
<1>2. DuelTypeOK
    BY <1>1, GoingFinite DEF DuelTypeOK, Entry, Session
<1>3. \A d \in 1 .. MaxDuel - 1 : DuelFull(d) => duel_list[d].members_count = duel_list[d].max_players_limit
  <2> SUFFICES ASSUME NEW d \in 1 .. MaxDuel - 1, DuelFull(d)
               PROVE  duel_list[d].members_count = duel_list[d].max_players_limit
      OBVIOUS
  <2>1. d \in Numbers /\ d \in 0 .. MaxDuel - 1
      BY DuelAssumption DEF Numbers
  <2>2. duel_list[d].members_count \in Nat /\ duel_list[d].max_players_limit \in Nat
      BY <1>1, <2>1 DEF Entry, Limits
  <2>3. duel_list[d].max_players_limit > 0 => duel_list[d].members_count <= duel_list[d].max_players_limit
      BY <1>1, <2>1 DEF EntryAgrees
  <2> QED BY <2>2, <2>3 DEF DuelFull
<1>4. DuelsAgree
    BY <1>1, <1>3 DEF DuelsAgree, EntryAgrees, Members, Invited, Going, Numbers, InOneDuel
<1> QED BY <1>2, <1>4

(* Whoever is in a duel or invited to one is counted there once, no limit is exceeded, and a number used
   again for another duel meets no invitation of the old one. *)
THEOREM DuelsCorrect == DuelSpec => [](DuelTypeOK /\ DuelsAgree)
BY DuelsInvariant, DuelInvAgrees, PTL

----------------------------------------------------------------------------
(* Chat rooms: g are the sessions and h the rooms. *)

Visit == [at : {"map", "loading", "gone"}, chatID : Halls \cup {NoHall}, bg_id : Teams \cup {0}]
Rows == {u \in Seq(Guests) : Len(u) <= ChatSeats}    \* what fits in usersd
Hall == [open : BOOLEAN, owner : Guests \cup {Npc, NoGuest}, usersd : Rows, limit : 0 .. ChatSeats]

Lists(g, room, c) ==
    /\ \A i, j \in 1 .. Len(room.usersd) : room.usersd[i] = room.usersd[j] => i = j
    /\ \A i \in 1 .. Len(room.usersd) : g[room.usersd[i]].chatID = c
    /\ \A p \in Guests : g[p].chatID = c => \E i \in 1 .. Len(room.usersd) : room.usersd[i] = p
    /\ room.owner # Npc => Len(room.usersd) > 0 /\ room.owner = room.usersd[1]

Chats(g, h) ==
    /\ g \in [Guests -> Visit] /\ h \in [Halls -> Hall]
    /\ \A c \in Halls : h[c].open => Lists(g, h[c], c)
    /\ \A p \in Guests : g[p].chatID # NoHall => g[p].at = "map" /\ h[g[p].chatID].open

(* No player comes to a team or leaves it, and none quits. *)
SameTeams(g, g2) == \A q \in Guests : g2[q].bg_id = g[q].bg_id /\ (g2[q].at = "gone" => g[q].at = "gone")

LEMMA ClosedIsHall == ClosedHall \in Hall /\ ~ClosedHall.open /\ << >> \in Rows
<1>1. << >> \in Seq(Guests) /\ Len(<< >>) = 0 /\ 0 <= ChatSeats /\ 0 \in 0 .. ChatSeats
    BY RoomAssumption
<1>2. << >> \in Rows
    BY <1>1 DEF Rows
<1> QED BY <1>1, <1>2 DEF ClosedHall, Hall

(* A list closes up behind who stands in place i. *)
LEMMA BehindAt ==
    ASSUME NEW s \in Seq(Guests), \A j, k \in 1 .. Len(s) : s[j] = s[k] => j = k, NEW i \in 1 .. Len(s)
    PROVE  /\ Behind(s, s[i]) \in Seq(Guests) /\ Len(Behind(s, s[i])) = Len(s) - 1 /\ Len(s) \in Nat
           /\ \A j \in 1 .. Len(s) - 1 : Behind(s, s[i])[j] = IF j < i THEN s[j] ELSE s[j + 1]
<1>1. Len(s) \in Nat /\ DOMAIN s = 1 .. Len(s) /\ \A j \in 1 .. Len(s) : s[j] \in Guests
    OBVIOUS
<1>2. Place(s, s[i]) = i
    BY <1>1 DEF Place
<1>3. Behind(s, s[i]) = [j \in 1 .. Len(s) - 1 |-> IF j < i THEN s[j] ELSE s[j + 1]]
    BY <1>2 DEF Behind
<1>4. \A j \in 1 .. Len(s) - 1 : (IF j < i THEN s[j] ELSE s[j + 1]) \in Guests
    BY <1>1
<1>5. Len(s) - 1 \in Nat
    BY <1>1
<1> DEFINE b == Behind(s, s[i])
           n == Len(s) - 1
<1>6. b \in [1 .. n -> Guests]
    BY <1>3, <1>4
<1> HIDE DEF b, n
<1>7. b \in Seq(Guests) /\ Len(b) = n
    BY <1>5, <1>6 DEF n
<1> QED BY <1>1, <1>3, <1>7 DEF b, n

LEMMA LeavesAt ==
    ASSUME NEW g, NEW h, Chats(g, h), NEW p \in Guests, NEW w, w.guest = g, w.hall = h
    PROVE  LET L == chat_leavechat(w, p) IN
           /\ L = [guest |-> L.guest, hall |-> L.hall]
           /\ L.guest \in [Guests -> Visit] /\ L.guest[p].chatID = NoHall
           /\ \A q \in Guests : L.guest[q].at = g[q].at /\ L.guest[q].bg_id = g[q].bg_id
           /\ \A q \in Guests \ {p} : L.guest[q] = g[q]
<1>1. g \in [Guests -> Visit]
    BY DEF Chats
<1>2. chat_leavechat(w, p).guest = [g EXCEPT ![p].chatID = NoHall]
    BY DEF chat_leavechat
<1> QED BY <1>1, <1>2 DEF chat_leavechat, Visit

(* Leaving keeps rooms and sessions together. *)
LEMMA LeaveKeeps ==
    ASSUME NEW g, NEW h, Chats(g, h), NEW p \in Guests, NEW w, w.guest = g, w.hall = h
    PROVE  Chats(chat_leavechat(w, p).guest, chat_leavechat(w, p).hall)
<1> DEFINE L == chat_leavechat(w, p)
           c == g[p].chatID
           s == h[c].usersd
           left == Behind(s, p)
<1>1. /\ L.guest \in [Guests -> Visit] /\ L.guest[p].chatID = NoHall
      /\ \A q \in Guests : L.guest[q].at = g[q].at
      /\ \A q \in Guests \ {p} : L.guest[q] = g[q]
    BY LeavesAt
<1>2. L.hall = IF c = NoHall \/ ~h[c].open \/ p \notin ToSet(s) THEN h
               ELSE IF Len(left) = 0 /\ h[c].owner # Npc THEN [h EXCEPT ![c] = ClosedHall]
               ELSE [h EXCEPT ![c].usersd = left, ![c].owner = OwnerOf(h[c], left)]
    BY DEF chat_leavechat
<1>3. /\ h \in [Halls -> Hall] /\ g \in [Guests -> Visit]
      /\ \A d \in Halls : h[d].open => Lists(g, h[d], d)
      /\ \A q \in Guests : g[q].chatID # NoHall => g[q].at = "map" /\ h[g[q].chatID].open
    BY DEF Chats
<1>4. c \in Halls \cup {NoHall}
    BY <1>3 DEF Visit
<1> SUFFICES Chats(L.guest, L.hall)
    OBVIOUS
<1> HIDE DEF L
<1>5. CASE c = NoHall
  <2>1. L.hall = h /\ \A q \in Guests : L.guest[q].chatID = g[q].chatID
      BY <1>1, <1>2, <1>5
  <2>2. \A d \in Halls : h[d].open => Lists(L.guest, h[d], d)
    <3> SUFFICES ASSUME NEW d \in Halls, h[d].open PROVE Lists(L.guest, h[d], d)
        OBVIOUS
    <3>1. Lists(g, h[d], d) /\ h[d].usersd \in Seq(Guests)
        BY <1>3 DEF Hall, Rows
    <3>2. \A i \in 1 .. Len(h[d].usersd) : h[d].usersd[i] \in Guests
        BY <3>1
    <3> QED BY <2>1, <3>1, <3>2 DEF Lists
  <2> QED BY <1>1, <1>3, <2>1, <2>2 DEF Chats
<1>6. CASE c # NoHall
  <2>1. /\ c \in Halls /\ h[c].open /\ Lists(g, h[c], c) /\ h[c] \in Hall /\ s \in Seq(Guests)
      BY <1>3, <1>4, <1>6 DEF Hall, Rows
  <2>a. /\ \A j, k \in 1 .. Len(s) : s[j] = s[k] => j = k
        /\ \A j \in 1 .. Len(s) : g[s[j]].chatID = c
        /\ \A q \in Guests : g[q].chatID = c => \E j \in 1 .. Len(s) : s[j] = q
      BY <2>1 DEF Lists
  <2> HIDE DEF s
  <2>2. PICK i \in 1 .. Len(s) : s[i] = p
      BY <2>a
  <2>3. p \in ToSet(s)
      BY <2>1, <2>2 DEF ToSet
  <2>4. /\ left \in Seq(Guests) /\ Len(left) = Len(s) - 1 /\ Len(s) \in Nat
        /\ \A j \in 1 .. Len(s) - 1 : left[j] = IF j < i THEN s[j] ELSE s[j + 1]
    <3>1. left = Behind(s, s[i])
        BY <2>2
    <3>2. /\ Behind(s, s[i]) \in Seq(Guests) /\ Len(Behind(s, s[i])) = Len(s) - 1 /\ Len(s) \in Nat
          /\ \A j \in 1 .. Len(s) - 1 : Behind(s, s[i])[j] = IF j < i THEN s[j] ELSE s[j + 1]
        BY <2>1, <2>a, BehindAt
    <3> HIDE DEF left
    <3> QED BY <3>1, <3>2
  <2> HIDE DEF left
  <2>5. \A d \in Halls \ {c} : h[d].open => Lists(L.guest, h[d], d)
    <3> SUFFICES ASSUME NEW d \in Halls \ {c}, h[d].open PROVE Lists(L.guest, h[d], d)
        OBVIOUS
    <3>1. Lists(g, h[d], d) /\ h[d].usersd \in Seq(Guests)
        BY <1>3 DEF Hall, Rows
    <3>2. \A k \in 1 .. Len(h[d].usersd) : h[d].usersd[k] \in Guests
        BY <3>1
    <3>3. d # NoHall
        BY RoomAssumption
    <3>4. L.guest[p].chatID # d /\ g[p].chatID # d /\ \A q \in Guests : q # p => L.guest[q].chatID = g[q].chatID
        BY <1>1, <3>3
    <3>5. \A q \in Guests : L.guest[q].chatID = d <=> g[q].chatID = d
        BY <3>4
    <3>6. \A k \in 1 .. Len(h[d].usersd) : L.guest[h[d].usersd[k]].chatID = d
        BY <3>1, <3>2, <3>5 DEF Lists
    <3>7. \A q \in Guests : L.guest[q].chatID = d => \E k \in 1 .. Len(h[d].usersd) : h[d].usersd[k] = q
        BY <3>1, <3>5 DEF Lists
    <3> QED BY <3>1, <3>6, <3>7, Zenon DEF Lists
  <2>6. \A j \in 1 .. Len(s) : s[j] \in Guests /\ (s[j] = p => j = i)
      BY <2>1, <2>2, <2>a
  <2>7. CASE Len(left) = 0 /\ h[c].owner # Npc
    <3>1. L.hall = [h EXCEPT ![c] = ClosedHall]
        BY <1>2, <2>1, <2>3, <2>7, <1>6
    <3>2. ClosedHall \in Hall /\ ~ClosedHall.open
        BY ClosedIsHall
    <3>3. L.hall \in [Halls -> Hall] /\ ~L.hall[c].open /\ \A d \in Halls \ {c} : L.hall[d] = h[d]
        BY <1>3, <2>1, <3>1, <3>2
    <3>4. \A q \in Guests : L.guest[q].chatID # c
      <4> SUFFICES ASSUME NEW q \in Guests, L.guest[q].chatID = c PROVE FALSE
          OBVIOUS
      <4>1. q # p /\ g[q].chatID = c
          BY <1>1, <1>6
      <4>2. PICK k \in 1 .. Len(s) : s[k] = q
          BY <2>a, <4>1
      <4>3. Len(s) = 1
          BY <2>4, <2>7
      <4>4. k = i
          BY <4>3
      <4> QED BY <2>2, <4>1, <4>2, <4>4
    <3>5. \A q \in Guests : L.guest[q].chatID # NoHall => L.guest[q].at = "map" /\ L.hall[L.guest[q].chatID].open
      <4> SUFFICES ASSUME NEW q \in Guests, L.guest[q].chatID # NoHall
                   PROVE  L.guest[q].at = "map" /\ L.hall[L.guest[q].chatID].open
          OBVIOUS
      <4>1. q # p /\ L.guest[q] = g[q] /\ g[q].chatID \in Halls \ {c}
          BY <1>1, <1>3, <3>4 DEF Visit
      <4> QED BY <1>3, <3>3, <4>1
    <3> QED BY <1>1, <2>5, <3>3, <3>5 DEF Chats
  <2>8. CASE ~(Len(left) = 0 /\ h[c].owner # Npc)
    <3>1. L.hall = [h EXCEPT ![c].usersd = left, ![c].owner = OwnerOf(h[c], left)]
        BY <1>2, <2>1, <2>3, <2>8, <1>6
    <3>2. OwnerOf(h[c], left) \in Guests \cup {Npc, NoGuest} /\ (OwnerOf(h[c], left) # Npc => Len(left) > 0 /\ OwnerOf(h[c], left) = left[1])
      <4>1. CASE h[c].owner = Npc
          BY <4>1 DEF OwnerOf
      <4>2. CASE h[c].owner # Npc
        <5>1. Len(left) > 0 /\ left # << >>
            BY <2>4, <2>8, <4>2, <2>2
        <5>2. Head(left) = left[1] /\ left[1] \in Guests
            BY <2>4, <5>1
        <5> QED BY <4>2, <5>1, <5>2 DEF OwnerOf
      <4> QED BY <4>1, <4>2
    <3> DEFINE o == OwnerOf(h[c], left)
    <3>3. PICK new : new = [h[c] EXCEPT !.usersd = left, !.owner = o]
        OBVIOUS
    <3>4. L.hall = [h EXCEPT ![c] = new]
        BY <1>3, <2>1, <3>1, <3>3
    <3> HIDE DEF o
    <3>5. new \in Hall /\ new.open /\ new.usersd = left /\ new.owner = o
      <4>1. Len(s) <= ChatSeats
          BY <2>1 DEF s, Hall, Rows
      <4>2. left \in Rows
          BY <2>4, <4>1, RoomAssumption DEF Rows
      <4> QED BY <2>1, <3>2, <3>3, <4>2 DEF Hall, o
    <3>6. L.hall \in [Halls -> Hall] /\ L.hall[c] = new /\ \A d \in Halls \ {c} : L.hall[d] = h[d]
        BY <1>3, <2>1, <3>4, <3>5
    <3>7. Lists(L.guest, new, c)
      <4>1. \A j, k \in 1 .. Len(left) : left[j] = left[k] => j = k
        <5> SUFFICES ASSUME NEW j \in 1 .. Len(left), NEW k \in 1 .. Len(left), left[j] = left[k] PROVE j = k
            OBVIOUS
        <5> DEFINE a == IF j < i THEN j ELSE j + 1
                   b == IF k < i THEN k ELSE k + 1
        <5>1. a \in 1 .. Len(s) /\ b \in 1 .. Len(s) /\ s[a] = left[j] /\ s[b] = left[k]
            BY <2>4
        <5>2. a = b
            BY <2>a, <5>1
        <5> QED BY <5>2
      <4>2. \A j \in 1 .. Len(left) : L.guest[left[j]].chatID = c
        <5> SUFFICES ASSUME NEW j \in 1 .. Len(left) PROVE L.guest[left[j]].chatID = c
            OBVIOUS
        <5>1. PICK a \in 1 .. Len(s) : a # i /\ s[a] = left[j]
            BY <2>4
        <5>2. left[j] \in Guests \ {p} /\ g[left[j]].chatID = c
            BY <2>a, <2>6, <5>1
        <5> QED BY <1>1, <5>2
      <4>3. \A q \in Guests : L.guest[q].chatID = c => \E j \in 1 .. Len(left) : left[j] = q
        <5> SUFFICES ASSUME NEW q \in Guests, L.guest[q].chatID = c PROVE \E j \in 1 .. Len(left) : left[j] = q
            OBVIOUS
        <5>1. q # p /\ g[q].chatID = c
            BY <1>1, <1>6
        <5>2. PICK k \in 1 .. Len(s) : s[k] = q
            BY <2>a, <5>1
        <5>3. k # i
            BY <2>2, <5>1, <5>2
        <5>4. CASE k < i
          <6>1. k \in 1 .. Len(left) /\ left[k] = s[k]
              BY <2>4, <5>4
          <6> QED BY <5>2, <6>1
        <5>5. CASE k > i
          <6>1. k - 1 \in 1 .. Len(left) /\ left[k - 1] = s[k]
              BY <2>4, <5>5
          <6> QED BY <5>2, <6>1
        <5> QED BY <5>3, <5>4, <5>5
      <4> QED BY <3>2, <3>5, <4>1, <4>2, <4>3 DEF Lists, o
    <3>8. \A q \in Guests : L.guest[q].chatID # NoHall => L.guest[q].at = "map" /\ L.hall[L.guest[q].chatID].open
      <4> SUFFICES ASSUME NEW q \in Guests, L.guest[q].chatID # NoHall
                   PROVE  L.guest[q].at = "map" /\ L.hall[L.guest[q].chatID].open
          OBVIOUS
      <4>1. q # p /\ L.guest[q] = g[q] /\ g[q].chatID \in Halls
          BY <1>1, <1>3 DEF Visit
      <4> QED BY <1>3, <3>5, <3>6, <4>1
    <3> QED BY <1>1, <2>5, <3>5, <3>6, <3>7, <3>8 DEF Chats
  <2> QED BY <2>7, <2>8
<1> QED BY <1>5, <1>6

(* What leaves the ids of rooms alone leaves the rooms in order. *)
LEMMA SameChats ==
    ASSUME NEW g, NEW h, Chats(g, h), NEW g2 \in [Guests -> Visit],
           \A q \in Guests : g2[q].chatID = g[q].chatID /\ (g[q].chatID # NoHall => g2[q].at = g[q].at)
    PROVE  Chats(g2, h)
<1>1. /\ h \in [Halls -> Hall] /\ g \in [Guests -> Visit]
      /\ \A d \in Halls : h[d].open => Lists(g, h[d], d)
      /\ \A q \in Guests : g[q].chatID # NoHall => g[q].at = "map" /\ h[g[q].chatID].open
    BY DEF Chats
<1>2. \A d \in Halls : h[d].open => Lists(g2, h[d], d)
  <2> SUFFICES ASSUME NEW d \in Halls, h[d].open PROVE Lists(g2, h[d], d)
      OBVIOUS
  <2>1. Lists(g, h[d], d) /\ h[d].usersd \in Seq(Guests)
      BY <1>1 DEF Hall, Rows
  <2>2. \A i \in 1 .. Len(h[d].usersd) : h[d].usersd[i] \in Guests
      BY <2>1
  <2> QED BY <2>1, <2>2 DEF Lists
<1> QED BY <1>1, <1>2 DEF Chats

(* One room changes, with players who come to it or leave it. *)
LEMMA OneHall ==
    ASSUME NEW g, NEW h, Chats(g, h), NEW c \in Halls, NEW room \in Hall, NEW g2 \in [Guests -> Visit],
           \A q \in Guests : g2[q] = g[q] \/ (g2[q].chatID \in {c, NoHall} /\ g[q].chatID \in {c, NoHall}),
           \A q \in Guests : g2[q].chatID # NoHall => g2[q].at = "map",
           room.open => Lists(g2, room, c),
           \A q \in Guests : g2[q].chatID = c => room.open
    PROVE  Chats(g2, [h EXCEPT ![c] = room])
<1>1. /\ h \in [Halls -> Hall] /\ g \in [Guests -> Visit]
      /\ \A d \in Halls : h[d].open => Lists(g, h[d], d)
      /\ \A q \in Guests : g[q].chatID # NoHall => g[q].at = "map" /\ h[g[q].chatID].open
    BY DEF Chats
<1> DEFINE h2 == [h EXCEPT ![c] = room]
<1>2. h2 \in [Halls -> Hall] /\ h2[c] = room /\ \A d \in Halls \ {c} : h2[d] = h[d]
    BY <1>1
<1> SUFFICES Chats(g2, h2)
    OBVIOUS
<1> HIDE DEF h2
<1>3. \A d \in Halls : h2[d].open => Lists(g2, h2[d], d)
  <2> SUFFICES ASSUME NEW d \in Halls, h2[d].open PROVE Lists(g2, h2[d], d)
      OBVIOUS
  <2>1. CASE d = c
      BY <1>2, <2>1
  <2>2. CASE d # c
    <3>1. Lists(g, h[d], d) /\ h[d].usersd \in Seq(Guests) /\ h2[d] = h[d]
        BY <1>1, <1>2, <2>2 DEF Hall, Rows
    <3>2. \A i \in 1 .. Len(h[d].usersd) : h[d].usersd[i] \in Guests
        BY <3>1
    <3>3. d # NoHall
        BY RoomAssumption
    <3>4. \A q \in Guests : g2[q].chatID = d <=> g[q].chatID = d
        BY <2>2, <3>3
    <3> QED BY <3>1, <3>2, <3>4 DEF Lists
  <2> QED BY <2>1, <2>2
<1>4. \A q \in Guests : g2[q].chatID # NoHall => h2[g2[q].chatID].open
  <2> SUFFICES ASSUME NEW q \in Guests, g2[q].chatID # NoHall PROVE h2[g2[q].chatID].open
      OBVIOUS
  <2>1. CASE g2[q].chatID = c
      BY <1>2, <2>1
  <2>2. CASE g2[q].chatID # c
    <3>1. g2[q] = g[q] /\ g2[q].chatID \in Halls \ {c}
        BY <2>2 DEF Visit
    <3> QED BY <1>1, <1>2, <3>1
  <2> QED BY <2>1, <2>2
<1> QED BY <1>2, <1>3, <1>4 DEF Chats

LEMMA LimitIsNatural ==
    ASSUME NEW limit \in Nat
    PROVE  AtMost(limit, ChatSeats) \in 0 .. ChatSeats
BY RoomAssumption DEF AtMost

LEMMA NobodyIsInAClosedHall ==
    ASSUME NEW g, NEW h, Chats(g, h), NEW c \in Halls, ~h[c].open
    PROVE  \A q \in Guests : g[q].chatID # c
BY RoomAssumption DEF Chats

LEMMA OpenKeeps ==
    ASSUME Chats(guest, hall), NEW p \in Guests, NEW limit \in Nat, chat_createpcchat(p, limit)
    PROVE  Chats(guest', hall') /\ SameTeams(guest, guest')
<1>1. PICK c \in Halls : /\ ~hall[c].open /\ guest[p].at = "map" /\ guest[p].chatID = NoHall
                         /\ hall' = [hall EXCEPT ![c] = [open |-> TRUE, owner |-> p, usersd |-> <<p>>, limit |-> AtMost(limit, ChatSeats)]]
                         /\ guest' = [guest EXCEPT ![p].chatID = c]
    BY DEF chat_createpcchat, IsPresent
<1> DEFINE room == [open |-> TRUE, owner |-> p, usersd |-> <<p>>, limit |-> AtMost(limit, ChatSeats)]
<1>2. guest \in [Guests -> Visit] /\ \A q \in Guests : guest[q].chatID # NoHall => guest[q].at = "map"
    BY DEF Chats
<1>3. /\ guest' \in [Guests -> Visit] /\ guest'[p].chatID = c /\ guest'[p].at = "map" /\ guest'[p].bg_id = guest[p].bg_id
      /\ \A q \in Guests \ {p} : guest'[q] = guest[q]
    BY <1>1, <1>2 DEF Visit
<1>4. \A q \in Guests : guest[q].chatID # c
    BY <1>1, NobodyIsInAClosedHall
<1>5. room \in Hall /\ room.open /\ room.usersd = <<p>> /\ room.owner = p
  <2>1. <<p>> \in Seq(Guests) /\ Len(<<p>>) = 1 /\ 1 <= ChatSeats
      BY RoomAssumption
  <2>2. <<p>> \in Rows
      BY <2>1 DEF Rows
  <2> QED BY <2>2, LimitIsNatural DEF Hall
<1> HIDE DEF room
<1>6. Lists(guest', room, c)
  <2>1. Len(room.usersd) = 1 /\ room.usersd[1] = p
      BY <1>5
  <2>2. \A i \in 1 .. Len(room.usersd) : i = 1
      BY <2>1
  <2>3. \A q \in Guests : guest'[q].chatID = c => q = p
      BY <1>3, <1>4
  <2>4. 1 \in 1 .. Len(room.usersd)
      BY <2>1
  <2> QED BY <1>3, <1>5, <2>1, <2>2, <2>3, <2>4 DEF Lists
<1>7. \A q \in Guests : guest'[q].chatID # NoHall => guest'[q].at = "map"
    BY <1>2, <1>3
<1>8. hall' = [hall EXCEPT ![c] = room]
    BY <1>1 DEF room
<1>9. \A q \in Guests : guest'[q] = guest[q] \/ (guest'[q].chatID \in {c, NoHall} /\ guest[q].chatID \in {c, NoHall})
    BY <1>1, <1>3
<1>10. Chats(guest', hall')
    BY <1>3, <1>5, <1>6, <1>7, <1>8, <1>9, OneHall
<1> QED BY <1>3, <1>10 DEF SameTeams

LEMMA JoinKeeps ==
    ASSUME Chats(guest, hall), NEW p \in Guests, NEW c \in Halls, chat_joinchat(p, c)
    PROVE  Chats(guest', hall') /\ SameTeams(guest, guest')
<1> DEFINE s == hall[c].usersd
           n == Len(s)
<1>1. /\ hall[c].open /\ guest[p].at = "map" /\ guest[p].chatID = NoHall
      /\ hall' = [hall EXCEPT ![c].usersd = Append(s, p)] /\ guest' = [guest EXCEPT ![p].chatID = c]
    BY DEF chat_joinchat, IsPresent
<1>2. /\ guest \in [Guests -> Visit] /\ \A q \in Guests : guest[q].chatID # NoHall => guest[q].at = "map"
      /\ hall \in [Halls -> Hall] /\ Lists(guest, hall[c], c)
    BY <1>1 DEF Chats
<1>3. /\ guest' \in [Guests -> Visit] /\ guest'[p].chatID = c /\ guest'[p].at = "map"
      /\ guest'[p].bg_id = guest[p].bg_id /\ \A q \in Guests \ {p} : guest'[q] = guest[q]
    BY <1>1, <1>2 DEF Visit
<1>4. PICK room : room = [hall[c] EXCEPT !.usersd = Append(s, p)]
    OBVIOUS
<1>5. hall' = [hall EXCEPT ![c] = room]
    BY <1>1, <1>2, <1>4
<1>6. s \in Seq(Guests) /\ hall[c] \in Hall
    BY <1>2 DEF Hall, Rows
<1>7. /\ n \in Nat /\ Append(s, p) \in Seq(Guests) /\ Len(Append(s, p)) = n + 1
      /\ Append(s, p)[n + 1] = p /\ \A i \in 1 .. n : Append(s, p)[i] = s[i] /\ s[i] \in Guests
    BY <1>6
<1>8. room \in Hall /\ room.open /\ room.usersd = Append(s, p) /\ room.owner = hall[c].owner
  <2>1. n < hall[c].limit /\ hall[c].limit \in 0 .. ChatSeats
      BY <1>6 DEF Hall, chat_joinchat
  <2>2. Append(s, p) \in Rows
      BY <1>7, <2>1, RoomAssumption DEF Rows
  <2> QED BY <1>1, <1>4, <1>6, <2>2 DEF Hall
<1>9. /\ \A i, j \in 1 .. n : s[i] = s[j] => i = j
      /\ \A i \in 1 .. n : guest[s[i]].chatID = c
      /\ \A q \in Guests : guest[q].chatID = c => \E i \in 1 .. n : s[i] = q
      /\ hall[c].owner # Npc => n > 0 /\ hall[c].owner = s[1]
    BY <1>2 DEF Lists
<1>10. c # NoHall
    BY RoomAssumption
<1> HIDE DEF s, n
<1>11. \A i \in 1 .. n : s[i] # p
    BY <1>1, <1>9, <1>10
<1>12. Lists(guest', room, c)
  <2>1. Len(room.usersd) = n + 1 /\ room.usersd[n + 1] = p /\ \A i \in 1 .. n : room.usersd[i] = s[i]
      BY <1>7, <1>8
  <2>2. \A i, j \in 1 .. n + 1 : room.usersd[i] = room.usersd[j] => i = j
    <3> SUFFICES ASSUME NEW i \in 1 .. n + 1, NEW j \in 1 .. n + 1, room.usersd[i] = room.usersd[j] PROVE i = j
        OBVIOUS
    <3>1. i \in 1 .. n \/ i = n + 1
        BY <1>7
    <3>2. j \in 1 .. n \/ j = n + 1
        BY <1>7
    <3> QED BY <1>9, <1>11, <2>1, <3>1, <3>2
  <2>3. \A i \in 1 .. n + 1 : guest'[room.usersd[i]].chatID = c
    <3> SUFFICES ASSUME NEW i \in 1 .. n + 1 PROVE guest'[room.usersd[i]].chatID = c
        OBVIOUS
    <3>1. CASE i = n + 1
        BY <1>3, <2>1, <3>1
    <3>2. CASE i \in 1 .. n
      <4>1. s[i] \in Guests \ {p} /\ guest[s[i]].chatID = c
          BY <1>7, <1>9, <1>11, <3>2
      <4> QED BY <1>3, <2>1, <3>2, <4>1
    <3> QED BY <1>7, <3>1, <3>2
  <2>4. \A q \in Guests : guest'[q].chatID = c => \E i \in 1 .. n + 1 : room.usersd[i] = q
    <3> SUFFICES ASSUME NEW q \in Guests, guest'[q].chatID = c PROVE \E i \in 1 .. n + 1 : room.usersd[i] = q
        OBVIOUS
    <3>1. CASE q = p
        BY <1>7, <2>1, <3>1
    <3>2. CASE q # p
      <4>1. PICK i \in 1 .. n : s[i] = q
          BY <1>3, <1>9, <3>2
      <4>2. i \in 1 .. n + 1
          BY <1>7
      <4> QED BY <2>1, <4>1, <4>2
    <3> QED BY <3>1, <3>2
  <2>5. room.owner # Npc => n + 1 > 0 /\ room.owner = room.usersd[1]
    <3> SUFFICES ASSUME room.owner # Npc PROVE n + 1 > 0 /\ room.owner = room.usersd[1]
        OBVIOUS
    <3>1. n > 0 /\ hall[c].owner = s[1] /\ 1 \in 1 .. n
        BY <1>7, <1>8, <1>9
    <3> QED BY <1>7, <1>8, <2>1, <3>1
  <2> QED BY <2>1, <2>2, <2>3, <2>4, <2>5 DEF Lists
<1>13. \A q \in Guests : guest'[q].chatID # NoHall => guest'[q].at = "map"
    BY <1>2, <1>3
<1>14. \A q \in Guests : guest'[q] = guest[q] \/ (guest'[q].chatID \in {c, NoHall} /\ guest[q].chatID \in {c, NoHall})
    BY <1>1, <1>3
<1>15. Chats(guest', hall')
    BY <1>3, <1>5, <1>8, <1>12, <1>13, <1>14, OneHall
<1> QED BY <1>3, <1>15 DEF SameTeams

LEMMA OwnerKeeps ==
    ASSUME Chats(guest, hall), NEW p \in Guests, NEW q \in Guests, chat_changechatowner(p, q)
    PROVE  Chats(guest', hall') /\ SameTeams(guest, guest')
<1> DEFINE c == guest[p].chatID
           s == hall[c].usersd
           n == Len(s)
<1>1. /\ c # NoHall /\ hall[c].open /\ hall[c].owner = p /\ guest' = guest
    BY DEF chat_changechatowner, OwnsHall
<1>2. PICK i \in 2 .. n : s[i] = q /\ hall' = [hall EXCEPT ![c].owner = q, ![c].usersd = [@ EXCEPT ![1] = q, ![i] = s[1]]]
    BY DEF chat_changechatowner
<1>3. /\ guest \in [Guests -> Visit] /\ \A r \in Guests : guest[r].chatID # NoHall => guest[r].at = "map"
      /\ hall \in [Halls -> Hall] /\ c \in Halls /\ Lists(guest, hall[c], c)
    BY <1>1 DEF Chats, Visit
<1> DEFINE t == [s EXCEPT ![1] = q, ![i] = s[1]]
<1>4. PICK room : room = [hall[c] EXCEPT !.owner = q, !.usersd = t]
    OBVIOUS
<1>5. hall' = [hall EXCEPT ![c] = room]
    BY <1>2, <1>3, <1>4
<1>6. s \in Seq(Guests) /\ hall[c] \in Hall
    BY <1>3 DEF Hall, Rows
<1>7. n \in Nat /\ DOMAIN s = 1 .. n /\ i # 1 /\ 1 \in 1 .. n /\ i \in 1 .. n
    BY <1>2, <1>6
<1>8. \A j \in 1 .. n : s[j] \in Guests
    BY <1>6, <1>7
<1>9. t \in Seq(Guests) /\ Len(t) = n
    BY <1>6, <1>7, <1>8
<1>10. t[1] = q /\ t[i] = s[1] /\ \A j \in 1 .. n : j # 1 /\ j # i => t[j] = s[j]
    BY <1>7
<1>11. /\ \A j, k \in 1 .. n : s[j] = s[k] => j = k
       /\ \A j \in 1 .. n : guest[s[j]].chatID = c
       /\ \A r \in Guests : guest[r].chatID = c => \E j \in 1 .. n : s[j] = r
    BY <1>3 DEF Lists
<1>12. room \in Hall /\ room.open /\ room.usersd = t /\ room.owner = q
    BY <1>1, <1>4, <1>6, <1>9 DEF Hall, Rows
<1> HIDE DEF s, n, t
<1>13. Lists(guest, room, c)
  <2> DEFINE a == [j \in 1 .. n |-> IF j = 1 THEN i ELSE IF j = i THEN 1 ELSE j]
  <2>1. \A j \in 1 .. n : a[j] \in 1 .. n /\ t[j] = s[a[j]] /\ a[a[j]] = j
      BY <1>2, <1>7, <1>10
  <2> HIDE DEF a
  <2>2. \A j, k \in 1 .. n : t[j] = t[k] => j = k
    <3> SUFFICES ASSUME NEW j \in 1 .. n, NEW k \in 1 .. n, t[j] = t[k] PROVE j = k
        OBVIOUS
    <3>1. a[j] = a[k]
        BY <1>11, <2>1
    <3>2. a[a[j]] = j /\ a[a[k]] = k
        BY <2>1
    <3> QED BY <3>1, <3>2
  <2>3. \A j \in 1 .. n : guest[t[j]].chatID = c
      BY <1>11, <2>1
  <2>4. \A r \in Guests : guest[r].chatID = c => \E j \in 1 .. n : t[j] = r
    <3> SUFFICES ASSUME NEW r \in Guests, guest[r].chatID = c PROVE \E j \in 1 .. n : t[j] = r
        OBVIOUS
    <3>1. PICK j \in 1 .. n : s[j] = r
        BY <1>11
    <3>2. a[j] \in 1 .. n /\ t[a[j]] = s[a[a[j]]] /\ a[a[j]] = j
        BY <2>1
    <3> QED BY <3>1, <3>2
  <2>5. n > 0
      BY <1>7
  <2> QED BY <1>9, <1>10, <1>12, <2>2, <2>3, <2>4, <2>5 DEF Lists
<1>14. Chats(guest, [hall EXCEPT ![c] = room])
  <2>1. \A r \in Guests : guest[r].chatID = c => room.open
      BY <1>12
  <2> HIDE DEF c
  <2> QED BY <1>3, <1>12, <1>13, <2>1, OneHall
<1> QED BY <1>1, <1>5, <1>14 DEF SameTeams

LEMMA StatusKeeps ==
    ASSUME Chats(guest, hall), NEW p \in Guests, NEW limit \in Nat, chat_changechatstatus(p, limit)
    PROVE  Chats(guest', hall') /\ SameTeams(guest, guest')
<1> DEFINE c == guest[p].chatID
<1>1. /\ c # NoHall /\ hall[c].open /\ guest' = guest
      /\ hall' = [hall EXCEPT ![c].limit = AtMost(limit, ChatSeats)]
    BY DEF chat_changechatstatus, OwnsHall
<1>2. /\ guest \in [Guests -> Visit] /\ \A r \in Guests : guest[r].chatID # NoHall => guest[r].at = "map"
      /\ hall \in [Halls -> Hall] /\ c \in Halls /\ Lists(guest, hall[c], c)
    BY <1>1 DEF Chats, Visit
<1>3. PICK room : room = [hall[c] EXCEPT !.limit = AtMost(limit, ChatSeats)]
    OBVIOUS
<1>4. hall' = [hall EXCEPT ![c] = room]
    BY <1>1, <1>2, <1>3
<1>5. /\ room \in Hall /\ room.open /\ room.usersd = hall[c].usersd /\ room.owner = hall[c].owner
    BY <1>1, <1>2, <1>3, LimitIsNatural DEF Hall, Rows
<1>6. Lists(guest, room, c)
    BY <1>2, <1>5 DEF Lists
<1>7. Chats(guest, [hall EXCEPT ![c] = room])
  <2>1. \A r \in Guests : guest[r].chatID = c => room.open
      BY <1>5
  <2> HIDE DEF c
  <2> QED BY <1>2, <1>5, <1>6, <2>1, OneHall
<1> QED BY <1>1, <1>4, <1>7 DEF SameTeams

LEMMA WaitingRoomKeeps ==
    ASSUME Chats(guest, hall), NEW limit \in Nat, chat_createnpcchat(limit)
    PROVE  Chats(guest', hall') /\ SameTeams(guest, guest')
<1>1. PICK c \in Halls : /\ ~hall[c].open /\ guest' = guest
                         /\ hall' = [hall EXCEPT ![c] = [open |-> TRUE, owner |-> Npc, usersd |-> << >>, limit |-> AtMost(limit, ChatSeats)]]
    BY DEF chat_createnpcchat
<1> DEFINE room == [open |-> TRUE, owner |-> Npc, usersd |-> << >>, limit |-> AtMost(limit, ChatSeats)]
<1>2. guest \in [Guests -> Visit] /\ \A r \in Guests : guest[r].chatID # NoHall => guest[r].at = "map"
    BY DEF Chats
<1>3. room \in Hall /\ room.open /\ room.usersd = << >> /\ room.owner = Npc
    BY LimitIsNatural, ClosedIsHall DEF Hall
<1>4. hall' = [hall EXCEPT ![c] = room]
    BY <1>1
<1> HIDE DEF room
<1>5. \A q \in Guests : guest[q].chatID # c
    BY <1>1, NobodyIsInAClosedHall
<1>6. Lists(guest, room, c)
    BY <1>3, <1>5 DEF Lists
<1>7. Chats(guest, [hall EXCEPT ![c] = room])
    BY <1>2, <1>3, <1>5, <1>6, OneHall
<1> QED BY <1>1, <1>4, <1>7 DEF SameTeams

(* Sessions and rooms as the functions that several operations call take them. *)
Floor == [guest : [Guests -> Visit], hall : [Halls -> Hall]]
Sound(g) == {w \in Floor : Chats(w.guest, w.hall) /\ SameTeams(g, w.guest)}

LEMMA LeaveSound ==
    ASSUME NEW g, NEW w \in Sound(g), NEW p \in Guests
    PROVE  /\ chat_leavechat(w, p) \in Sound(g)
           /\ chat_leavechat(w, p).guest[p].chatID = NoHall
           /\ \A q \in Guests \ {p} : chat_leavechat(w, p).guest[q] = w.guest[q]
<1> DEFINE L == chat_leavechat(w, p)
<1>1. Chats(w.guest, w.hall) /\ SameTeams(g, w.guest)
    BY DEF Sound
<1>2. /\ L = [guest |-> L.guest, hall |-> L.hall]
      /\ L.guest \in [Guests -> Visit] /\ L.guest[p].chatID = NoHall
      /\ \A q \in Guests : L.guest[q].at = w.guest[q].at /\ L.guest[q].bg_id = w.guest[q].bg_id
      /\ \A q \in Guests \ {p} : L.guest[q] = w.guest[q]
    BY <1>1, LeavesAt
<1>3. Chats(L.guest, L.hall)
    BY <1>1, LeaveKeeps
<1> HIDE DEF L
<1>4. L.hall \in [Halls -> Hall]
    BY <1>3 DEF Chats
<1>5. L \in Floor
    BY <1>2, <1>4 DEF Floor
<1>6. SameTeams(g, L.guest)
    BY <1>1, <1>2 DEF SameTeams
<1>7. L \in Sound(g)
    BY <1>3, <1>5, <1>6 DEF Sound
<1> QED BY <1>2, <1>7 DEF L

(* When all have been shown out, nobody is in the room any more. *)
LEMMA KickAllSound ==
    ASSUME NEW g, NEW w \in Sound(g), NEW c \in Halls, w.hall[c].open
    PROVE  /\ chat_npckickall(w, c) \in Sound(g)
           /\ \A q \in Guests : chat_npckickall(w, c).guest[q].chatID # c
<1> DEFINE users == w.hall[c].usersd
           N == Len(users)
           kicked == CHOOSE f : f = [n \in 0 .. N |->
                         IF n = 0 THEN w ELSE chat_leavechat(f[n - 1], users[N + 1 - n])]
           step == [n \in 1 .. N |-> [v \in Sound(g) |-> chat_leavechat(v, users[N + 1 - n])]]
           T == [n \in 0 .. N |-> {v \in Sound(g) :
                    /\ \A q \in Guests : v.guest[q].chatID \in {w.guest[q].chatID, NoHall}
                    /\ \A k \in 1 .. N : k > N - n => v.guest[users[k]].chatID = NoHall}]
<1>1. Chats(w.guest, w.hall) /\ w.hall[c] \in Hall /\ users \in Seq(Guests) /\ Lists(w.guest, w.hall[c], c)
    BY DEF Sound, Floor, Hall, Rows, Chats
<1>2. N \in Nat /\ \A k \in 1 .. N : users[k] \in Guests
    BY <1>1
<1>3. \A q \in Guests : w.guest[q].chatID = c => \E k \in 1 .. N : users[k] = q
    BY <1>1 DEF Lists
<1>4. chat_npckickall(w, c) = kicked[N]
    BY DEF chat_npckickall
<1> HIDE DEF users, N
<1>5. \A n \in 1 .. N : N + 1 - n \in 1 .. N /\ users[N + 1 - n] \in Guests
    BY <1>2
<1>6. step \in [1 .. N -> [Sound(g) -> Sound(g)]]
    BY <1>5, LeaveSound
<1>7. PICK f \in [0 .. N -> Sound(g)] : f[0] = w /\ \A n \in 1 .. N : f[n] = step[n][f[n - 1]]
  <2> HIDE DEF step
  <2> QED BY <1>2, <1>6, IterationExists
<1>8. f = [n \in 0 .. N |-> IF n = 0 THEN w ELSE chat_leavechat(f[n - 1], users[N + 1 - n])]
  <2>1. ASSUME NEW n \in 0 .. N, n # 0
        PROVE  f[n] = chat_leavechat(f[n - 1], users[N + 1 - n])
    <3>1. n \in 1 .. N /\ f[n - 1] \in Sound(g)
        BY <1>2, <1>7, <2>1
    <3> QED BY <1>7, <3>1
  <2> QED BY <1>7, <2>1
<1>9. kicked = [n \in 0 .. N |-> IF n = 0 THEN w ELSE chat_leavechat(kicked[n - 1], users[N + 1 - n])]
    BY <1>8, Zenon
<1> HIDE DEF kicked
<1>10. kicked[0] \in T[0]
    BY <1>2, <1>9
<1>11. ASSUME NEW n \in 1 .. N, kicked[n - 1] \in T[n - 1]
       PROVE  kicked[n] \in T[n]
  <2> DEFINE p == users[N + 1 - n]
             v == kicked[n - 1]
             L == chat_leavechat(v, p)
  <2>1. kicked[n] = L /\ n \in 0 .. N /\ n - 1 \in 0 .. N /\ N + 1 - n \in 1 .. N
      BY <1>2, <1>9
  <2>2. /\ v \in Sound(g) /\ p \in Guests
        /\ \A q \in Guests : v.guest[q].chatID \in {w.guest[q].chatID, NoHall}
        /\ \A k \in 1 .. N : k > N - (n - 1) => v.guest[users[k]].chatID = NoHall
      BY <1>5, <1>11, <2>1
  <2> HIDE DEF v, p
  <2>3. L \in Sound(g) /\ L.guest[p].chatID = NoHall /\ \A q \in Guests \ {p} : L.guest[q] = v.guest[q]
      BY <2>2, LeaveSound
  <2> HIDE DEF L
  <2>4. \A k \in 1 .. N : k > N - n => L.guest[users[k]].chatID = NoHall
    <3> SUFFICES ASSUME NEW k \in 1 .. N, k > N - n PROVE L.guest[users[k]].chatID = NoHall
        OBVIOUS
    <3>1. CASE users[k] = p
        BY <2>3, <3>1
    <3>2. CASE users[k] # p
      <4>1. k # N + 1 - n
          BY <3>2 DEF p
      <4>2. k > N - (n - 1)
          BY <1>2, <4>1
      <4> QED BY <1>2, <2>2, <2>3, <3>2, <4>2
    <3> QED BY <3>1, <3>2
  <2>5. \A q \in Guests : L.guest[q].chatID \in {w.guest[q].chatID, NoHall}
      BY <2>2, <2>3
  <2> QED BY <2>1, <2>3, <2>4, <2>5
<1>12. kicked[N] \in T[N]
  <2>1. \A n \in 0 .. N : kicked[n] \in T[n]
    <3> HIDE DEF T
    <3> QED BY <1>2, <1>10, <1>11, TurnInvariant
  <2> QED BY <1>2, <2>1
<1>13. /\ kicked[N] \in Sound(g)
       /\ \A q \in Guests : kicked[N].guest[q].chatID \in {w.guest[q].chatID, NoHall}
       /\ \A k \in 1 .. N : kicked[N].guest[users[k]].chatID = NoHall
    BY <1>2, <1>12
<1>14. c # NoHall
    BY RoomAssumption
<1>15. \A q \in Guests : kicked[N].guest[q].chatID # c
    BY <1>3, <1>13, <1>14
<1> QED BY <1>4, <1>13, <1>15

LEMMA AllRoomsSound ==
    ASSUME Chats(guest, hall)
    PROVE  AllRooms \in Sound(guest) /\ AllRooms.guest = guest /\ AllRooms.hall = hall
BY DEF Chats, AllRooms, Sound, Floor, SameTeams

LEMMA BecomesSound ==
    ASSUME NEW w \in Sound(guest), BecomesRooms(w)
    PROVE  Chats(guest', hall') /\ SameTeams(guest, guest')
BY DEF BecomesRooms, Sound

LEMMA KickAllKeeps ==
    ASSUME Chats(guest, hall), waitingroomkickall
    PROVE  Chats(guest', hall') /\ SameTeams(guest, guest')
<1>1. PICK c \in Halls : hall[c].open /\ BecomesRooms(chat_npckickall(AllRooms, c))
    BY DEF waitingroomkickall, WaitingHalls
<1>2. chat_npckickall(AllRooms, c) \in Sound(guest)
    BY <1>1, AllRoomsSound, KickAllSound
<1> QED BY <1>1, <1>2, BecomesSound

LEMMA DeleteKeeps ==
    ASSUME Chats(guest, hall), chat_deletenpcchat
    PROVE  Chats(guest', hall') /\ SameTeams(guest, guest')
<1>1. PICK c \in Halls : /\ hall[c].open
                         /\ guest' = chat_npckickall(AllRooms, c).guest
                         /\ hall' = [chat_npckickall(AllRooms, c).hall EXCEPT ![c] = ClosedHall]
    BY DEF chat_deletenpcchat, WaitingHalls, BecomesRooms
<1> DEFINE w == chat_npckickall(AllRooms, c)
<1>2. w \in Sound(guest) /\ \A q \in Guests : w.guest[q].chatID # c
    BY <1>1, AllRoomsSound, KickAllSound
<1>3. guest' = w.guest /\ hall' = [w.hall EXCEPT ![c] = ClosedHall]
    BY <1>1
<1> HIDE DEF w
<1>4. /\ Chats(w.guest, w.hall) /\ SameTeams(guest, w.guest) /\ w.guest \in [Guests -> Visit]
      /\ \A q \in Guests : w.guest[q].chatID # NoHall => w.guest[q].at = "map"
    BY <1>2 DEF Sound, Chats
<1>5. ClosedHall \in Hall /\ ~ClosedHall.open
    BY ClosedIsHall
<1>6. Chats(w.guest, [w.hall EXCEPT ![c] = ClosedHall])
    BY <1>2, <1>4, <1>5, OneHall
<1> QED BY <1>3, <1>4, <1>6

(* Showing one out, and leaving on one's own. *)
LEMMA GoKeeps ==
    ASSUME Chats(guest, hall), NEW p \in Guests, BecomesRooms(chat_leavechat(AllRooms, p))
    PROVE  Chats(guest', hall') /\ SameTeams(guest, guest')
BY AllRoomsSound, LeaveSound, BecomesSound

LEMMA ChatKeeps ==
    ASSUME Chats(guest, hall), ChatNext
    PROVE  Chats(guest', hall') /\ SameTeams(guest, guest') /\ team' = team /\ teamMade' = teamMade
<1>1. team' = team /\ teamMade' = teamMade /\ ChatLimits \subseteq Nat
    BY RoomAssumption DEF ChatNext, ChatLimits
<1>2. CASE \E p \in Guests, limit \in ChatLimits : chat_createpcchat(p, limit) \/ chat_changechatstatus(p, limit)
    BY <1>1, <1>2, OpenKeeps, StatusKeeps
<1>3. CASE \E p \in Guests, c \in Halls : chat_joinchat(p, c)
    BY <1>1, <1>3, JoinKeeps
<1>4. CASE \E p, q \in Guests : chat_changechatowner(p, q)
    BY <1>1, <1>4, OwnerKeeps
<1>5. CASE \E p, q \in Guests : chat_kickchat(p, q)
    BY <1>1, <1>5, GoKeeps DEF chat_kickchat
<1>6. CASE \E p \in Guests : LeaveChat(p)
    BY <1>1, <1>6, GoKeeps DEF LeaveChat
<1>7. CASE \E limit \in ChatLimits : chat_createnpcchat(limit)
    BY <1>1, <1>7, WaitingRoomKeeps
<1>8. CASE waitingroomkickall \/ chat_deletenpcchat
    BY <1>1, <1>8, KickAllKeeps, DeleteKeeps
<1> QED BY <1>2, <1>3, <1>4, <1>5, <1>6, <1>7, <1>8 DEF ChatNext

LEMMA WaitingKeeps ==
    ASSUME Chats(guest, hall), WaitingNext
    PROVE  Chats(guest', hall') /\ SameTeams(guest, guest') /\ team' = team /\ teamMade' = teamMade
<1>1. team' = team /\ teamMade' = teamMade /\ ChatSeats \in Nat
    BY RoomAssumption DEF WaitingNext
<1>2. CASE \E p \in Guests : LeaveChat(p)
    BY <1>1, <1>2, GoKeeps DEF LeaveChat
<1>3. CASE \E p \in Guests, c \in WaitingHalls : chat_joinchat(p, c)
    BY <1>1, <1>3, JoinKeeps DEF WaitingHalls
<1>4. CASE chat_createnpcchat(ChatSeats)
    BY <1>1, <1>4, WaitingRoomKeeps
<1> QED BY <1>2, <1>3, <1>4 DEF WaitingNext

LEMMA RemovedSound ==
    ASSUME NEW g, NEW w \in Sound(g), NEW p \in Guests
    PROVE  Removed(w, p) \in Sound(g) /\ Removed(w, p).guest[p].chatID = NoHall
<1> DEFINE L == chat_leavechat(w, p)
           g2 == [L.guest EXCEPT ![p].at = "loading"]
<1>1. L \in Sound(g) /\ L.guest[p].chatID = NoHall
    BY LeaveSound
<1>2. Removed(w, p) = [guest |-> g2, hall |-> L.hall]
    BY DEF Removed
<1> HIDE DEF L
<1>3. L.guest \in [Guests -> Visit] /\ L.hall \in [Halls -> Hall] /\ Chats(L.guest, L.hall) /\ SameTeams(g, L.guest)
    BY <1>1 DEF Sound, Floor
<1>4. /\ g2 \in [Guests -> Visit]
      /\ \A q \in Guests : g2[q].chatID = L.guest[q].chatID /\ g2[q].bg_id = L.guest[q].bg_id
                           /\ (L.guest[q].chatID # NoHall => g2[q].at = L.guest[q].at)
                           /\ (g2[q].at = "gone" => L.guest[q].at = "gone")
    BY <1>1, <1>3 DEF Visit
<1> HIDE DEF g2
<1>5. Chats(g2, L.hall)
    BY <1>3, <1>4, SameChats
<1>6. SameTeams(g, g2)
    BY <1>3, <1>4 DEF SameTeams
<1>7. Removed(w, p) \in Floor
    BY <1>2, <1>3, <1>4 DEF Floor
<1>8. Removed(w, p).guest = g2 /\ Removed(w, p).hall = L.hall
    BY <1>2
<1>9. Removed(w, p) \in Sound(g)
    BY <1>5, <1>6, <1>7, <1>8 DEF Sound
<1> QED BY <1>1, <1>4, <1>8, <1>9

LEMMA WarpKeeps ==
    ASSUME Chats(guest, hall), NEW m \in Nat, warpwaitingpc(m)
    PROVE  Chats(guest', hall') /\ SameTeams(guest, guest') /\ team' = team /\ teamMade' = teamMade
<1>1. PICK c \in WaitingHalls :
          LET first == AtMost(m, Len(hall[c].usersd))
              warped[i \in 0 .. first] == IF i = 0 THEN AllRooms ELSE Removed(warped[i - 1], hall[c].usersd[i])
          IN  BecomesRooms(warped[first]) /\ team' = team /\ teamMade' = teamMade
    BY DEF warpwaitingpc
<1> DEFINE users == hall[c].usersd
           N == AtMost(m, Len(users))
           warped == CHOOSE f : f = [i \in 0 .. N |-> IF i = 0 THEN AllRooms ELSE Removed(f[i - 1], users[i])]
           T == Sound(guest)
           step == [i \in 1 .. N |-> [w \in T |-> Removed(w, users[i])]]
<1>2. c \in Halls /\ users \in Seq(Guests)
    BY DEF WaitingHalls, Chats, Hall, Rows
<1>3. BecomesRooms(warped[N]) /\ team' = team /\ teamMade' = teamMade
    BY <1>1
<1>4. N \in Nat /\ \A i \in 1 .. N : users[i] \in Guests
  <2>1. Len(users) \in Nat /\ \A i \in 1 .. Len(users) : users[i] \in Guests
      BY <1>2
  <2> HIDE DEF users
  <2> QED BY <2>1 DEF AtMost
<1> HIDE DEF users, N
<1>5. AllRooms \in T
    BY AllRoomsSound
<1>6. step \in [1 .. N -> [T -> T]]
    BY <1>4, RemovedSound
<1>7. PICK f \in [0 .. N -> T] : f[0] = AllRooms /\ \A i \in 1 .. N : f[i] = step[i][f[i - 1]]
  <2> HIDE DEF step, T
  <2> QED BY <1>4, <1>5, <1>6, IterationExists
<1>8. f = [i \in 0 .. N |-> IF i = 0 THEN AllRooms ELSE Removed(f[i - 1], users[i])]
  <2>1. ASSUME NEW i \in 0 .. N, i # 0
        PROVE  f[i] = Removed(f[i - 1], users[i])
    <3>1. i \in 1 .. N /\ f[i - 1] \in T
        BY <1>4, <1>7, <2>1
    <3> QED BY <1>7, <3>1
  <2> QED BY <1>7, <2>1
<1>9. warped = [i \in 0 .. N |-> IF i = 0 THEN AllRooms ELSE Removed(warped[i - 1], users[i])]
    BY <1>8, Zenon
<1> HIDE DEF warped
<1>10. warped[0] \in T
    BY <1>4, <1>5, <1>9
<1>11. \A i \in 1 .. N : warped[i - 1] \in T => warped[i] \in T
    BY <1>4, <1>9, RemovedSound
<1>12. warped[N] \in T
  <2> HIDE DEF T
  <2>1. \A i \in 0 .. N : warped[i] \in T
      BY <1>4, <1>10, <1>11, IterationInvariant
  <2> QED BY <1>4, <2>1
<1> QED BY <1>3, <1>12, BecomesSound

----------------------------------------------------------------------------
(* Teams: g are the sessions, t the teams and made the number of teams made so far. *)

Seats == 1 .. TeamSeats
Squad == [state : {"new", "made", "gone"}, members : [Seats -> Guests \cup {NoGuest}], count : 0 .. TeamSeats]
NewSquad == [state |-> "new", members |-> EmptyTeam, count |-> 0]
Taken(m) == {s \in Seats : m[s] # NoGuest}

Enrols(g, x, b) ==
    /\ \A r, s \in Seats : x.members[r] = x.members[s] /\ x.members[s] # NoGuest => r = s
    /\ \A s \in Seats : x.members[s] # NoGuest => g[x.members[s]].bg_id = b
    /\ \A p \in Guests : g[p].bg_id = b => \E s \in Seats : x.members[s] = p
    /\ x.count = Cardinality(Taken(x.members))

Squads(g, t, made) ==
    /\ g \in [Guests -> Visit] /\ t \in [Teams -> Squad] /\ made \in Nat
    /\ \A b \in Teams : t[b].state = "made" => Enrols(g, t[b], b)
    /\ \A b \in Teams : b > made => t[b] = NewSquad
    /\ \A p \in Guests : g[p].bg_id # 0 => t[g[p].bg_id].state = "made" /\ g[p].at # "gone"

LEMMA TakenFinite ==
    ASSUME NEW m
    PROVE  IsFiniteSet(Taken(m)) /\ Cardinality(Taken(m)) \in 0 .. TeamSeats
<1>1. IsFiniteSet(Seats) /\ Cardinality(Seats) = TeamSeats
    BY FS_Interval, RoomAssumption DEF Seats
<1>2. Taken(m) \in SUBSET Seats
    BY DEF Taken
<1>3. IsFiniteSet(Taken(m)) /\ Cardinality(Taken(m)) <= TeamSeats
    BY <1>1, <1>2, FS_Subset
<1>4. Cardinality(Taken(m)) \in Nat
    BY <1>3, FS_CardinalityType
<1> QED BY <1>3, <1>4, RoomAssumption

LEMMA SameSquads ==
    ASSUME NEW g, NEW t, NEW made, Squads(g, t, made), NEW g2 \in [Guests -> Visit], SameTeams(g, g2)
    PROVE  Squads(g2, t, made)
<1>1. /\ t \in [Teams -> Squad] /\ made \in Nat
      /\ \A b \in Teams : t[b].state = "made" => Enrols(g, t[b], b)
      /\ \A b \in Teams : b > made => t[b] = NewSquad
      /\ \A p \in Guests : g[p].bg_id # 0 => t[g[p].bg_id].state = "made" /\ g[p].at # "gone"
      /\ \A p \in Guests : g2[p].bg_id = g[p].bg_id /\ (g2[p].at = "gone" => g[p].at = "gone")
    BY DEF Squads, SameTeams
<1>2. \A b \in Teams : t[b].state = "made" => Enrols(g2, t[b], b)
  <2> SUFFICES ASSUME NEW b \in Teams, t[b].state = "made" PROVE Enrols(g2, t[b], b)
      OBVIOUS
  <2>1. Enrols(g, t[b], b) /\ t[b].members \in [Seats -> Guests \cup {NoGuest}]
      BY <1>1 DEF Squad
  <2> QED BY <1>1, <2>1 DEF Enrols
<1>3. \A p \in Guests : g2[p].bg_id # 0 => t[g2[p].bg_id].state = "made" /\ g2[p].at # "gone"
    BY <1>1
<1> QED BY <1>1, <1>2, <1>3 DEF Squads

(* One team changes, with players who come to it or leave it. *)
LEMMA OneSquad ==
    ASSUME NEW g, NEW t, NEW made, Squads(g, t, made), NEW b \in Teams, NEW x \in Squad, NEW g2 \in [Guests -> Visit],
           NEW made2 \in Nat, made <= made2, b <= made2,
           \A q \in Guests : g2[q].bg_id = g[q].bg_id \/ (g2[q].bg_id \in {b, 0} /\ g[q].bg_id \in {b, 0}),
           x.state = "made" => Enrols(g2, x, b),
           \A q \in Guests : g2[q].bg_id = b => x.state = "made",
           \A q \in Guests : g2[q].bg_id # 0 => g2[q].at # "gone"
    PROVE  Squads(g2, [t EXCEPT ![b] = x], made2)
<1>1. /\ t \in [Teams -> Squad] /\ made \in Nat
      /\ \A d \in Teams : t[d].state = "made" => Enrols(g, t[d], d)
      /\ \A d \in Teams : d > made => t[d] = NewSquad
      /\ \A p \in Guests : g[p].bg_id # 0 => t[g[p].bg_id].state = "made"
    BY DEF Squads
<1> DEFINE t2 == [t EXCEPT ![b] = x]
<1>2. t2 \in [Teams -> Squad] /\ t2[b] = x /\ \A d \in Teams \ {b} : t2[d] = t[d]
    BY <1>1
<1> SUFFICES Squads(g2, t2, made2)
    OBVIOUS
<1> HIDE DEF t2
<1>3. \A d \in Teams : d \in Nat \ {0}
    BY RoomAssumption
<1>4. \A d \in Teams : t2[d].state = "made" => Enrols(g2, t2[d], d)
  <2> SUFFICES ASSUME NEW d \in Teams, t2[d].state = "made" PROVE Enrols(g2, t2[d], d)
      OBVIOUS
  <2>1. CASE d = b
      BY <1>2, <2>1
  <2>2. CASE d # b
    <3>1. Enrols(g, t[d], d) /\ t[d].members \in [Seats -> Guests \cup {NoGuest}] /\ t2[d] = t[d]
        BY <1>1, <1>2, <2>2 DEF Squad
    <3>2. \A q \in Guests : g2[q].bg_id = d <=> g[q].bg_id = d
        BY <1>3, <2>2
    <3> QED BY <3>1, <3>2 DEF Enrols
  <2> QED BY <2>1, <2>2
<1>5. \A d \in Teams : d > made2 => t2[d] = NewSquad
  <2> SUFFICES ASSUME NEW d \in Teams, d > made2 PROVE t2[d] = NewSquad
      OBVIOUS
  <2>1. d > made /\ d # b
      BY <1>1, <1>3
  <2> QED BY <1>1, <1>2, <2>1
<1>6. \A p \in Guests : g2[p].bg_id # 0 => t2[g2[p].bg_id].state = "made"
  <2> SUFFICES ASSUME NEW p \in Guests, g2[p].bg_id # 0 PROVE t2[g2[p].bg_id].state = "made"
      OBVIOUS
  <2>1. CASE g2[p].bg_id = b
      BY <1>2, <2>1
  <2>2. CASE g2[p].bg_id # b
    <3>1. g2[p].bg_id = g[p].bg_id /\ g2[p].bg_id \in Teams \ {b}
        BY <2>2 DEF Visit
    <3> QED BY <1>1, <1>2, <3>1
  <2> QED BY <2>1, <2>2
<1> QED BY <1>2, <1>4, <1>5, <1>6 DEF Squads

LEMMA SeatedEnrols ==
    ASSUME NEW g \in [Guests -> Visit], NEW x \in Squad, NEW b \in Teams, NEW p \in Guests, Enrols(g, x, b),
           g[p].bg_id = 0, FreeSeats(x.members) # {}, NEW g2, g2 = [g EXCEPT ![p].bg_id = b]
    PROVE  Seated(p, x) \in Squad /\ Seated(p, x).state = x.state /\ Enrols(g2, Seated(p, x), b)
<1> DEFINE s == CHOOSE s \in FreeSeats(x.members) : \A r \in FreeSeats(x.members) : s <= r
           m == x.members
           m2 == [m EXCEPT ![s] = p]
<1>1. s \in Seats /\ m[s] = NoGuest
  <2>1. FreeSeats(m) \subseteq Nat
      BY DEF FreeSeats
  <2>2. \E r \in FreeSeats(m) : \A q \in FreeSeats(m) : r <= q
    <3> HIDE DEF m
    <3> QED BY <2>1, LeastNatural DEF m
  <2>3. s \in FreeSeats(m)
      BY <2>2
  <2> HIDE DEF s
  <2> QED BY <2>3 DEF FreeSeats, Seats
<1>2. Seated(p, x) = [x EXCEPT !.members[s] = p, !.count = @ + 1]
    BY DEF Seated
<1> HIDE DEF s
<1>3. m \in [Seats -> Guests \cup {NoGuest}] /\ x.count \in Nat
    BY DEF Squad
<1>4. m2 \in [Seats -> Guests \cup {NoGuest}] /\ m2[s] = p /\ \A r \in Seats \ {s} : m2[r] = m[r]
    BY <1>1, <1>3
<1>5. Seated(p, x) = [x EXCEPT !.members = m2, !.count = x.count + 1]
    BY <1>2, <1>3 DEF Squad
<1>6. /\ \A q, r \in Seats : m[q] = m[r] /\ m[r] # NoGuest => q = r
      /\ \A r \in Seats : m[r] # NoGuest => g[m[r]].bg_id = b
      /\ \A q \in Guests : g[q].bg_id = b => \E r \in Seats : m[r] = q
      /\ x.count = Cardinality(Taken(m))
    BY DEF Enrols
<1>7. b # 0 /\ p # NoGuest
    BY RoomAssumption
<1>8. \A r \in Seats : m[r] # p
    BY <1>6, <1>7
<1>9. g2[p].bg_id = b /\ \A q \in Guests \ {p} : g2[q].bg_id = g[q].bg_id
    BY DEF Visit
<1> HIDE DEF m, m2
<1>10. Taken(m2) = Taken(m) \cup {s} /\ s \notin Taken(m)
    BY <1>1, <1>4, <1>7 DEF Taken
<1>11. Cardinality(Taken(m2)) = Cardinality(Taken(m)) + 1
    BY <1>10, TakenFinite, OneMore, Zenon
<1>12. PICK y \in Squad : y = Seated(p, x) /\ y.members = m2 /\ y.count = x.count + 1 /\ y.state = x.state
  <2>1. x.count + 1 \in 0 .. TeamSeats
      BY <1>6, <1>11, TakenFinite
  <2>2. [x EXCEPT !.members = m2, !.count = x.count + 1] \in Squad
      BY <1>4, <2>1 DEF Squad
  <2> QED BY <1>5, <2>2 DEF Squad
<1>13. \A q, r \in Seats : m2[q] = m2[r] /\ m2[r] # NoGuest => q = r
    BY <1>4, <1>6, <1>8
<1>14. \A r \in Seats : m2[r] # NoGuest => g2[m2[r]].bg_id = b
  <2> SUFFICES ASSUME NEW r \in Seats, m2[r] # NoGuest PROVE g2[m2[r]].bg_id = b
      OBVIOUS
  <2>1. CASE r = s
      BY <1>4, <1>9, <2>1
  <2>2. CASE r # s
    <3>1. m2[r] = m[r] /\ m[r] \in Guests \ {p}
        BY <1>3, <1>4, <1>8, <2>2
    <3> QED BY <1>6, <1>9, <3>1
  <2> QED BY <2>1, <2>2
<1>15. \A q \in Guests : g2[q].bg_id = b => \E r \in Seats : m2[r] = q
  <2> SUFFICES ASSUME NEW q \in Guests, g2[q].bg_id = b PROVE \E r \in Seats : m2[r] = q
      OBVIOUS
  <2>1. CASE q = p
      BY <1>1, <1>4, <2>1
  <2>2. CASE q # p
    <3>1. PICK r \in Seats : m[r] = q
        BY <1>6, <1>9, <2>2
    <3>2. r # s
        BY <1>1, <3>1, RoomAssumption
    <3> QED BY <1>4, <3>1, <3>2
  <2> QED BY <2>1, <2>2
<1>16. Enrols(g2, y, b)
    BY <1>6, <1>12, <1>11, <1>13, <1>14, <1>15 DEF Enrols
<1> QED BY <1>12, <1>16

LEMMA UnseatedEnrols ==
    ASSUME NEW g \in [Guests -> Visit], NEW x \in Squad, NEW b \in Teams, NEW p \in Guests, Enrols(g, x, b),
           g[p].bg_id = b, NEW g2, g2[p].bg_id = 0, \A q \in Guests \ {p} : g2[q].bg_id = g[q].bg_id
    PROVE  Unseated(x, p) \in Squad /\ Unseated(x, p).state = x.state /\ Enrols(g2, Unseated(x, p), b)
<1> DEFINE m == x.members
           m2 == [s \in Seats |-> IF m[s] = p THEN NoGuest ELSE m[s]]
<1>1. m \in [Seats -> Guests \cup {NoGuest}] /\ x.count \in Nat
    BY DEF Squad
<1>2. Unseated(x, p) = [x EXCEPT !.members = m2, !.count = x.count - 1]
    BY DEF Unseated, Seats, Squad
<1>3. /\ \A q, r \in Seats : m[q] = m[r] /\ m[r] # NoGuest => q = r
      /\ \A r \in Seats : m[r] # NoGuest => g[m[r]].bg_id = b
      /\ \A q \in Guests : g[q].bg_id = b => \E r \in Seats : m[r] = q
      /\ x.count = Cardinality(Taken(m))
    BY DEF Enrols
<1>4. b # 0 /\ p # NoGuest
    BY RoomAssumption
<1>5. PICK s \in Seats : m[s] = p
    BY <1>3
<1>6. m2 \in [Seats -> Guests \cup {NoGuest}] /\ m2[s] = NoGuest /\ \A r \in Seats \ {s} : m2[r] = m[r]
    BY <1>1, <1>3, <1>4, <1>5
<1> HIDE DEF m, m2
<1>7. Taken(m2) = Taken(m) \ {s} /\ s \in Taken(m)
    BY <1>4, <1>5, <1>6 DEF Taken
<1>8. Cardinality(Taken(m2)) = Cardinality(Taken(m)) - 1 /\ x.count - 1 \in 0 .. TeamSeats
  <2>1. Cardinality(Taken(m2)) = Cardinality(Taken(m)) - 1
      BY <1>7, TakenFinite, OneLess, Zenon
  <2> QED BY <1>3, <2>1, TakenFinite
<1>9. PICK y \in Squad : y = Unseated(x, p) /\ y.members = m2 /\ y.count = x.count - 1 /\ y.state = x.state
  <2>1. [x EXCEPT !.members = m2, !.count = x.count - 1] \in Squad
      BY <1>6, <1>8 DEF Squad
  <2> QED BY <1>2, <2>1 DEF Squad
<1>10. \A q, r \in Seats : m2[q] = m2[r] /\ m2[r] # NoGuest => q = r
    BY <1>3, <1>6
<1>11. \A r \in Seats : m2[r] # NoGuest => g2[m2[r]].bg_id = b
  <2> SUFFICES ASSUME NEW r \in Seats, m2[r] # NoGuest PROVE g2[m2[r]].bg_id = b
      OBVIOUS
  <2>1. r # s /\ m2[r] = m[r]
      BY <1>6
  <2>2. m[r] \in Guests \ {p}
      BY <1>1, <1>3, <1>4, <1>5, <2>1
  <2> QED BY <1>3, <2>1, <2>2
<1>12. \A q \in Guests : g2[q].bg_id = b => \E r \in Seats : m2[r] = q
  <2> SUFFICES ASSUME NEW q \in Guests, g2[q].bg_id = b PROVE \E r \in Seats : m2[r] = q
      OBVIOUS
  <2>1. q # p
      BY <1>4
  <2>2. PICK r \in Seats : m[r] = q
      BY <1>3, <2>1
  <2>3. r # s
      BY <1>5, <2>1, <2>2
  <2> QED BY <1>6, <2>2, <2>3
<1>13. Enrols(g2, y, b)
    BY <1>3, <1>8, <1>9, <1>10, <1>11, <1>12 DEF Enrols
<1> QED BY <1>9, <1>13

(* Team b while it is filled: the sessions and the team when some have joined, nobody having moved. *)
Lineup(b, made) ==
    {v \in [team : Squad, guest : [Guests -> Visit]] :
        /\ v.team.state = "made" /\ Squads(v.guest, [team EXCEPT ![b] = v.team], made)
        /\ \A q \in Guests : v.guest[q].chatID = guest[q].chatID /\ v.guest[q].at = guest[q].at}

LEMMA TeamJoinKeeps ==
    ASSUME team \in [Teams -> Squad], NEW b \in Teams, NEW made \in Nat, b <= made,
           NEW v \in Lineup(b, made), NEW p \in Guests, guest[p].at # "gone"
    PROVE  bg_team_join(v, p, b) \in Lineup(b, made)
<1> DEFINE x == v.team
           g == v.guest
           t == [team EXCEPT ![b] = x]
           g2 == [g EXCEPT ![p].bg_id = b]
           y == Seated(p, x)
<1>1. /\ x \in Squad /\ g \in [Guests -> Visit] /\ x.state = "made" /\ Squads(g, t, made)
      /\ \A q \in Guests : g[q].chatID = guest[q].chatID /\ g[q].at = guest[q].at
    BY DEF Lineup
<1>2. CASE ~MayJoin(p, x, g)
  <2>1. bg_team_join(v, p, b) = v
      BY <1>2 DEF bg_team_join
  <2> QED BY <2>1
<1>3. CASE MayJoin(p, x, g)
  <2>1. g[p].bg_id = 0 /\ FreeSeats(x.members) # {}
      BY <1>3 DEF MayJoin
  <2>2. bg_team_join(v, p, b) = [team |-> y, guest |-> g2]
      BY <1>3 DEF bg_team_join
  <2>3. t[b] = x
      OBVIOUS
  <2>4. Enrols(g, x, b)
      BY <1>1, <2>3 DEF Squads
  <2>5. y \in Squad /\ y.state = "made" /\ Enrols(g2, y, b)
      BY <1>1, <2>1, <2>4, SeatedEnrols
  <2>6. /\ g2 \in [Guests -> Visit] /\ g2[p].bg_id = b
        /\ \A q \in Guests : g2[q].chatID = g[q].chatID /\ g2[q].at = g[q].at
        /\ \A q \in Guests \ {p} : g2[q] = g[q]
      BY <1>1 DEF Visit
  <2>7. [t EXCEPT ![b] = y] = [team EXCEPT ![b] = y]
      OBVIOUS
  <2> HIDE DEF x, g, t, g2, y
  <2>8. \A q \in Guests : g2[q].bg_id = g[q].bg_id \/ (g2[q].bg_id \in {b, 0} /\ g[q].bg_id \in {b, 0})
      BY <2>1, <2>6
  <2>9. Squads(g2, [t EXCEPT ![b] = y], made)
    <3>1. \A q \in Guests : g2[q].bg_id # 0 => g2[q].at # "gone"
        BY <1>1, <2>6 DEF Squads
    <3>2. made <= made
        OBVIOUS
    <3> QED BY <1>1, <2>5, <2>6, <2>8, <3>1, <3>2, OneSquad
  <2> DEFINE u == [team |-> y, guest |-> g2]
  <2>10. u \in [team : Squad, guest : [Guests -> Visit]] /\ u.team = y /\ u.guest = g2
      BY <2>5, <2>6
  <2> HIDE DEF u
  <2>11. u \in Lineup(b, made)
      BY <1>1, <2>5, <2>6, <2>7, <2>9, <2>10 DEF Lineup
  <2> QED BY <2>2, <2>11 DEF u
<1> QED BY <1>2, <1>3

LEMMA FillKeeps ==
    ASSUME Chats(guest, hall), Squads(guest, team, teamMade), waitingroom2bg
    PROVE  Chats(guest', hall') /\ Squads(guest', team', teamMade') /\ teamMade' \in Teams
<1> DEFINE b == teamMade + 1
<1>1. PICK c \in WaitingHalls :
          LET users == hall[c].usersd
              filled[i \in 0 .. Len(users)] ==
                  IF i = 0 THEN [team |-> [team[b] EXCEPT !.state = "made"], guest |-> guest]
                  ELSE bg_team_join(filled[i - 1], users[i], b)
          IN  /\ b \in Teams
              /\ teamMade' = b
              /\ team' = [team EXCEPT ![b] = filled[Len(users)].team]
              /\ guest' = filled[Len(users)].guest
              /\ hall' = hall
    BY DEF waitingroom2bg
<1> DEFINE users == hall[c].usersd
           N == Len(users)
           start == [team |-> [team[b] EXCEPT !.state = "made"], guest |-> guest]
           filled == CHOOSE f : f = [i \in 0 .. N |-> IF i = 0 THEN start ELSE bg_team_join(f[i - 1], users[i], b)]
           T == Lineup(b, b)
           step == [i \in 1 .. N |-> [v \in T |-> bg_team_join(v, users[i], b)]]
<1>2. /\ b \in Teams /\ teamMade' = b /\ hall' = hall
      /\ team' = [team EXCEPT ![b] = filled[N].team] /\ guest' = filled[N].guest
    BY <1>1
<1>3. c \in Halls /\ users \in Seq(Guests)
    BY DEF WaitingHalls, Chats, Hall, Rows
<1>4. N \in Nat /\ \A i \in 1 .. N : users[i] \in Guests /\ guest[users[i]].at # "gone"
  <2>1. hall[c].open /\ c # NoHall
      BY <1>3, RoomAssumption DEF WaitingHalls
  <2>2. Lists(guest, hall[c], c) /\ \A q \in Guests : guest[q].chatID = c => guest[q].at = "map"
      BY <1>3, <2>1 DEF Chats
  <2>3. \A i \in 1 .. N : guest[users[i]].chatID = c
      BY <2>2 DEF Lists
  <2> QED BY <1>3, <2>2, <2>3
<1>5. /\ guest \in [Guests -> Visit] /\ team \in [Teams -> Squad] /\ teamMade \in Nat
      /\ \A d \in Teams : d > teamMade => team[d] = NewSquad
      /\ \A p \in Guests : guest[p].bg_id # 0 => team[guest[p].bg_id].state = "made"
    BY DEF Squads
<1>6. b \in Nat /\ b > teamMade /\ team[b] = NewSquad
    BY <1>2, <1>5
<1> HIDE DEF users, N, b
<1>7. start \in T
  <2> DEFINE x == [team[b] EXCEPT !.state = "made"]
  <2>1. x = [state |-> "made", members |-> EmptyTeam, count |-> 0]
      BY <1>6 DEF NewSquad
  <2>2. EmptyTeam \in [Seats -> Guests \cup {NoGuest}] /\ \A s \in Seats : EmptyTeam[s] = NoGuest
      BY DEF EmptyTeam, Seats
  <2>3. x \in Squad /\ x.state = "made" /\ x.members = EmptyTeam /\ x.count = 0
      BY <2>1, <2>2, RoomAssumption DEF Squad
  <2> HIDE DEF x
  <2>4. \A p \in Guests : guest[p].bg_id # b
    <3>1. b # 0 /\ team[b].state = "new"
        BY <1>6, <1>2, RoomAssumption DEF NewSquad
    <3> QED BY <1>5, <3>1
  <2>5. Cardinality(Taken(x.members)) = 0
    <3>1. Taken(x.members) = {}
        BY <2>2, <2>3 DEF Taken
    <3> QED BY <3>1, FS_EmptySet
  <2>6. \A s \in Seats : x.members[s] = NoGuest
      BY <2>2, <2>3
  <2>7. Enrols(guest, x, b)
      BY <2>3, <2>4, <2>5, <2>6 DEF Enrols
  <2>8. Squads(guest, [team EXCEPT ![b] = x], b)
    <3>1. teamMade <= b /\ b <= b
        BY <1>5, <1>6
    <3>2. \A q \in Guests : guest[q].bg_id = guest[q].bg_id
        OBVIOUS
    <3>3. b \in Teams /\ b \in Nat
        BY <1>2, <1>6
    <3>4. \A q \in Guests : guest[q].bg_id # 0 => guest[q].at # "gone"
        BY DEF Squads
    <3> QED BY <1>5, <2>3, <2>4, <2>7, <3>1, <3>2, <3>3, <3>4, OneSquad
  <2>9. start = [team |-> x, guest |-> guest]
      BY DEF x
  <2> HIDE DEF start
  <2>10. start \in [team : Squad, guest : [Guests -> Visit]] /\ start.team = x /\ start.guest = guest
      BY <1>5, <2>3, <2>9
  <2> QED BY <2>3, <2>8, <2>10 DEF Lineup
<1>8. step \in [1 .. N -> [T -> T]]
    BY <1>2, <1>4, <1>5, <1>6, TeamJoinKeeps
<1> HIDE DEF start
<1>9. PICK f \in [0 .. N -> T] : f[0] = start /\ \A i \in 1 .. N : f[i] = step[i][f[i - 1]]
  <2> HIDE DEF step, T, filled
  <2>1. N \in Nat
      BY <1>4
  <2> QED BY <2>1, <1>7, <1>8, IterationExists
<1>10. f = [i \in 0 .. N |-> IF i = 0 THEN start ELSE bg_team_join(f[i - 1], users[i], b)]
  <2>1. ASSUME NEW i \in 0 .. N, i # 0
        PROVE  f[i] = bg_team_join(f[i - 1], users[i], b)
    <3>1. i \in 1 .. N /\ f[i - 1] \in T
        BY <1>4, <1>9, <2>1
    <3> QED BY <1>9, <3>1
  <2> QED BY <1>9, <2>1
<1>11. filled = [i \in 0 .. N |-> IF i = 0 THEN start ELSE bg_team_join(filled[i - 1], users[i], b)]
    BY <1>10, Zenon
<1> HIDE DEF filled
<1>12. filled[0] \in T
    BY <1>4, <1>7, <1>11
<1>13. \A i \in 1 .. N : filled[i - 1] \in T => filled[i] \in T
  <2> SUFFICES ASSUME NEW i \in 1 .. N, filled[i - 1] \in T PROVE filled[i] \in T
      OBVIOUS
  <2>1. filled[i] = bg_team_join(filled[i - 1], users[i], b)
      BY <1>4, <1>11
  <2> QED BY <1>2, <1>4, <1>5, <1>6, <2>1, TeamJoinKeeps
<1>14. filled[N] \in T
  <2> HIDE DEF T
  <2>1. \A i \in 0 .. N : filled[i] \in T
      BY <1>4, <1>12, <1>13, IterationInvariant
  <2> QED BY <1>4, <2>1
<1> DEFINE v == filled[N]
<1>15. /\ v.guest \in [Guests -> Visit] /\ Squads(v.guest, [team EXCEPT ![b] = v.team], b)
       /\ \A q \in Guests : v.guest[q].chatID = guest[q].chatID /\ v.guest[q].at = guest[q].at
    BY <1>14 DEF Lineup
<1>16. guest' = v.guest /\ team' = [team EXCEPT ![b] = v.team]
    BY <1>2
<1> HIDE DEF v
<1>17. Chats(v.guest, hall)
    BY <1>15, SameChats
<1> QED BY <1>2, <1>15, <1>16, <1>17

LEMMA FillOneKeeps ==
    ASSUME Chats(guest, hall), Squads(guest, team, teamMade), NEW b \in Teams, waitingroom2bg_single(b)
    PROVE  Chats(guest', hall') /\ Squads(guest', team', teamMade') /\ teamMade' = teamMade
<1>1. PICK c \in WaitingHalls :
          /\ hall[c].usersd # << >>
          /\ LET p == Head(hall[c].usersd)
                 joined == bg_team_join([team |-> team[b], guest |-> guest], p, b)
             IN  /\ MayJoin(p, team[b], guest)
                 /\ team' = [team EXCEPT ![b] = joined.team]
                 /\ BecomesRooms(Removed([guest |-> joined.guest, hall |-> hall], p))
          /\ teamMade' = teamMade
    BY DEF waitingroom2bg_single
<1> DEFINE p == Head(hall[c].usersd)
           v == [team |-> team[b], guest |-> guest]
           joined == bg_team_join(v, p, b)
           w == [guest |-> joined.guest, hall |-> hall]
<1>2. /\ MayJoin(p, team[b], guest) /\ team' = [team EXCEPT ![b] = joined.team] /\ teamMade' = teamMade
      /\ guest' = Removed(w, p).guest /\ hall' = Removed(w, p).hall
    BY <1>1 DEF BecomesRooms
<1>3. p \in Guests /\ guest[p].at # "gone"
  <2>1. c \in Halls /\ hall[c].open /\ c # NoHall /\ hall[c].usersd \in Seq(Guests)
      BY RoomAssumption DEF WaitingHalls, Chats, Hall, Rows
  <2>2. p = hall[c].usersd[1] /\ 1 \in 1 .. Len(hall[c].usersd) /\ p \in Guests
      BY <1>1, <2>1
  <2>3. Lists(guest, hall[c], c) /\ \A q \in Guests : guest[q].chatID = c => guest[q].at = "map"
      BY <2>1 DEF Chats
  <2>4. guest[p].chatID = c
    <3> HIDE DEF p
    <3> QED BY <2>2, <2>3 DEF Lists
  <2> QED BY <2>2, <2>3, <2>4
<1>4. /\ guest \in [Guests -> Visit] /\ hall \in [Halls -> Hall] /\ team \in [Teams -> Squad] /\ teamMade \in Nat
      /\ \A d \in Teams : d > teamMade => team[d] = NewSquad
    BY DEF Squads, Chats
<1>5. team[b].state = "made" /\ b <= teamMade
  <2>1. team[b].state = "made"
      BY <1>2 DEF MayJoin
  <2>2. b \in Nat
      BY RoomAssumption
  <2> QED BY <1>4, <2>1, <2>2 DEF NewSquad
<1>6. v \in Lineup(b, teamMade)
  <2>1. v \in [team : Squad, guest : [Guests -> Visit]] /\ v.team = team[b] /\ v.guest = guest
      BY <1>4
  <2>2. [team EXCEPT ![b] = team[b]] = team
      BY <1>4
  <2> HIDE DEF v
  <2> QED BY <1>5, <2>1, <2>2 DEF Lineup
<1> HIDE DEF p, v
<1>7. joined \in Lineup(b, teamMade)
    BY <1>3, <1>4, <1>5, <1>6, TeamJoinKeeps
<1> HIDE DEF joined
<1>8. /\ joined.guest \in [Guests -> Visit] /\ Squads(joined.guest, team', teamMade')
      /\ \A q \in Guests : joined.guest[q].chatID = guest[q].chatID /\ joined.guest[q].at = guest[q].at
    BY <1>2, <1>7 DEF Lineup
<1>9. Chats(joined.guest, hall)
    BY <1>8, SameChats
<1>10. w \in Sound(joined.guest)
    BY <1>4, <1>8, <1>9 DEF Sound, Floor, SameTeams
<1>11. Removed(w, p) \in Sound(joined.guest)
    BY <1>3, <1>10, RemovedSound
<1>12. /\ Chats(guest', hall') /\ SameTeams(joined.guest, guest') /\ guest' \in [Guests -> Visit]
    BY <1>2, <1>11 DEF Sound, Floor
<1> QED BY <1>2, <1>8, <1>12, SameSquads

(* One leaves the team named in the session, if it still exists. *)
LEMMA TeamLeaveKeeps ==
    ASSUME Squads(guest, team, teamMade), NEW p \in Guests, NEW g2 \in [Guests -> Visit], g2[p].bg_id = 0,
           \A q \in Guests \ {p} : g2[q].bg_id = guest[q].bg_id /\ (g2[q].at = "gone" => guest[q].at = "gone")
    PROVE  Squads(g2, bg_team_leave(p), teamMade)
<1> DEFINE b == guest[p].bg_id
<1>1. /\ guest \in [Guests -> Visit] /\ team \in [Teams -> Squad] /\ teamMade \in Nat
      /\ \A d \in Teams : team[d].state = "made" => Enrols(guest, team[d], d)
      /\ \A d \in Teams : d > teamMade => team[d] = NewSquad
      /\ \A q \in Guests : guest[q].bg_id # 0 => team[guest[q].bg_id].state = "made" /\ guest[q].at # "gone"
    BY DEF Squads
<1>2. b \in Teams \cup {0}
    BY <1>1 DEF Visit
<1>3. CASE b = 0
  <2>1. bg_team_leave(p) = team
      BY <1>3 DEF bg_team_leave, Made
  <2>2. Squads(g2, team, teamMade)
    <3>1. \A q \in Guests : g2[q].bg_id = guest[q].bg_id
        BY <1>3
    <3>2. \A q \in Guests : g2[q].bg_id # 0 => team[g2[q].bg_id].state = "made" /\ g2[q].at # "gone"
        BY <1>1, <3>1
    <3>3. \A d \in Teams : team[d].state = "made" => Enrols(g2, team[d], d)
      <4> SUFFICES ASSUME NEW d \in Teams, team[d].state = "made" PROVE Enrols(g2, team[d], d)
          OBVIOUS
      <4>1. Enrols(guest, team[d], d) /\ team[d].members \in [Seats -> Guests \cup {NoGuest}]
          BY <1>1 DEF Squad
      <4> QED BY <3>1, <4>1 DEF Enrols
    <3> QED BY <1>1, <3>2, <3>3 DEF Squads
  <2> QED BY <2>1, <2>2
<1>4. CASE b # 0
  <2>1. b \in Teams /\ team[b].state = "made" /\ Enrols(guest, team[b], b) /\ team[b] \in Squad
      BY <1>1, <1>2, <1>4
  <2>2. bg_team_leave(p) = [team EXCEPT ![b] = Unseated(team[b], p)]
      BY <1>1, <1>4, <2>1 DEF bg_team_leave, Made
  <2>3. /\ Unseated(team[b], p) \in Squad /\ Unseated(team[b], p).state = "made"
        /\ Enrols(g2, Unseated(team[b], p), b)
      BY <1>1, <2>1, UnseatedEnrols
  <2>4. b <= teamMade
    <3>1. b \in Nat
        BY <2>1, RoomAssumption
    <3> QED BY <1>1, <2>1, <3>1 DEF NewSquad
  <2> DEFINE x == Unseated(team[b], p)
  <2>5. \A q \in Guests : g2[q].bg_id = guest[q].bg_id \/ (g2[q].bg_id \in {b, 0} /\ guest[q].bg_id \in {b, 0})
      OBVIOUS
  <2>6. x \in Squad /\ x.state = "made" /\ Enrols(g2, x, b) /\ teamMade <= teamMade
      BY <1>1, <2>3
  <2> HIDE DEF x, b
  <2>7. Squads(g2, [team EXCEPT ![b] = x], teamMade)
    <3>1. \A q \in Guests : g2[q].bg_id # 0 => g2[q].at # "gone"
        BY <1>1
    <3> QED BY <1>1, <2>1, <2>4, <2>5, <2>6, <3>1, OneSquad
  <2> QED BY <2>2, <2>7 DEF x
<1> QED BY <1>3, <1>4

LEMMA TeamDeleteKeeps ==
    ASSUME Chats(guest, hall), Squads(guest, team, teamMade), NEW b \in Teams, bg_team_delete(b)
    PROVE  Chats(guest', hall') /\ Squads(guest', team', teamMade') /\ teamMade' = teamMade
<1> DEFINE x == [state |-> "gone", members |-> EmptyTeam, count |-> 0]
           inIt(p) == \E s \in 1 .. TeamSeats : team[b].members[s] = p
           g2 == [p \in Guests |-> IF inIt(p) THEN [guest[p] EXCEPT !.bg_id = 0] ELSE guest[p]]
<1>1. guest' = g2 /\ team' = [team EXCEPT ![b] = x] /\ hall' = hall /\ teamMade' = teamMade /\ team[b].state = "made"
    BY DEF bg_team_delete, Made
<1>2. /\ guest \in [Guests -> Visit] /\ team \in [Teams -> Squad] /\ teamMade \in Nat
      /\ Enrols(guest, team[b], b) /\ \A d \in Teams : d > teamMade => team[d] = NewSquad
    BY <1>1 DEF Squads
<1>3. \A p \in Guests : inIt(p) <=> guest[p].bg_id = b
  <2> SUFFICES ASSUME NEW p \in Guests PROVE inIt(p) <=> guest[p].bg_id = b
      OBVIOUS
  <2>1. p # NoGuest
      BY RoomAssumption
  <2> QED BY <1>2, <2>1 DEF Enrols, Seats
<1> HIDE DEF inIt
<1>4. /\ g2 \in [Guests -> Visit]
      /\ \A p \in Guests : /\ g2[p].chatID = guest[p].chatID /\ g2[p].at = guest[p].at
                           /\ g2[p].bg_id = IF guest[p].bg_id = b THEN 0 ELSE guest[p].bg_id
    BY <1>2, <1>3 DEF Visit
<1> HIDE DEF g2
<1>5. x \in Squad /\ x.state = "gone"
    BY RoomAssumption DEF Squad, EmptyTeam, Seats
<1> HIDE DEF x
<1>6. b \in Nat /\ b # 0 /\ b <= teamMade /\ teamMade <= teamMade
  <2>1. b \in Nat /\ b # 0
      BY RoomAssumption
  <2> QED BY <1>1, <1>2, <2>1 DEF NewSquad
<1>7. Chats(g2, hall)
    BY <1>4, SameChats
<1>8. \A q \in Guests : g2[q].bg_id = guest[q].bg_id \/ (g2[q].bg_id \in {b, 0} /\ guest[q].bg_id \in {b, 0})
    BY <1>4
<1>9. \A q \in Guests : g2[q].bg_id # b
    BY <1>4, <1>6
<1>10. Squads(g2, [team EXCEPT ![b] = x], teamMade)
  <2>1. \A q \in Guests : g2[q].bg_id # 0 => g2[q].at # "gone"
      BY <1>4 DEF Squads
  <2> QED BY <1>2, <1>4, <1>5, <1>6, <1>8, <1>9, <2>1, OneSquad
<1> QED BY <1>1, <1>7, <1>10

LEMMA TeamQuitKeeps ==
    ASSUME Chats(guest, hall), Squads(guest, team, teamMade), NEW p \in Guests, bg_leave(p)
    PROVE  Chats(guest', hall') /\ Squads(guest', team', teamMade') /\ teamMade' = teamMade
<1>1. guest' = [guest EXCEPT ![p].bg_id = 0] /\ team' = bg_team_leave(p) /\ hall' = hall /\ teamMade' = teamMade
    BY DEF bg_leave
<1> DEFINE g2 == [guest EXCEPT ![p].bg_id = 0]
<1>2. guest \in [Guests -> Visit]
    BY DEF Chats
<1>3. /\ g2 \in [Guests -> Visit] /\ g2[p].bg_id = 0
      /\ \A q \in Guests : g2[q].chatID = guest[q].chatID /\ g2[q].at = guest[q].at
      /\ \A q \in Guests \ {p} : g2[q].bg_id = guest[q].bg_id
    BY <1>2 DEF Visit
<1>4. guest' = g2
    BY <1>1
<1> HIDE DEF g2
<1>5. Chats(g2, hall)
    BY <1>3, SameChats
<1>6. Squads(g2, bg_team_leave(p), teamMade)
    BY <1>3, TeamLeaveKeeps
<1> QED BY <1>1, <1>4, <1>5, <1>6

LEMMA QuitKeeps ==
    ASSUME Chats(guest, hall), Squads(guest, team, teamMade), NEW p \in Guests, QuitRoom(p)
    PROVE  Chats(guest', hall') /\ Squads(guest', team', teamMade') /\ teamMade' = teamMade
<1> DEFINE w == IF IsPresent(p) THEN Removed(AllRooms, p) ELSE AllRooms
           g2 == [w.guest EXCEPT ![p] = Visitor("gone")]
<1>1. guest' = g2 /\ hall' = w.hall /\ team' = bg_team_leave(p) /\ teamMade' = teamMade
    BY DEF QuitRoom
<1>2. w \in Sound(guest) /\ w.guest[p].chatID = NoHall
  <2>1. CASE IsPresent(p)
      BY <2>1, AllRoomsSound, RemovedSound
  <2>2. CASE ~IsPresent(p)
    <3>1. guest[p].chatID = NoHall
        BY <2>2 DEF Chats, IsPresent
    <3> QED BY <2>2, <3>1, AllRoomsSound
  <2> QED BY <2>1, <2>2
<1> HIDE DEF w
<1>3. /\ w.guest \in [Guests -> Visit] /\ Chats(w.guest, w.hall)
      /\ \A q \in Guests : w.guest[q].bg_id = guest[q].bg_id /\ (w.guest[q].at = "gone" => guest[q].at = "gone")
    BY <1>2 DEF Sound, Floor, SameTeams
<1>4. Visitor("gone") \in Visit /\ Visitor("gone").bg_id = 0 /\ Visitor("gone").chatID = NoHall
    BY DEF Visitor, Visit
<1>5. /\ g2 \in [Guests -> Visit] /\ g2[p] = Visitor("gone")
      /\ \A q \in Guests \ {p} : g2[q] = w.guest[q]
    BY <1>3, <1>4
<1> HIDE DEF g2
<1>6. \A q \in Guests : g2[q].chatID = w.guest[q].chatID /\ (w.guest[q].chatID # NoHall => g2[q].at = w.guest[q].at)
    BY <1>2, <1>4, <1>5
<1>7. Chats(g2, w.hall)
    BY <1>3, <1>5, <1>6, SameChats
<1>8. Squads(g2, bg_team_leave(p), teamMade)
    BY <1>3, <1>4, <1>5, TeamLeaveKeeps
<1> QED BY <1>1, <1>7, <1>8

LEMMA WarpGuestKeeps ==
    ASSUME Chats(guest, hall), NEW p \in Guests, GuestWarps(p)
    PROVE  Chats(guest', hall') /\ SameTeams(guest, guest') /\ team' = team /\ teamMade' = teamMade
BY AllRoomsSound, RemovedSound, BecomesSound DEF GuestWarps

LEMMA LoadedKeeps ==
    ASSUME Chats(guest, hall), NEW p \in Guests, GuestLoaded(p)
    PROVE  Chats(guest', hall') /\ SameTeams(guest, guest') /\ team' = team /\ teamMade' = teamMade
<1> DEFINE g2 == [guest EXCEPT ![p].at = "map"]
<1>1. guest[p].at = "loading" /\ guest' = g2 /\ hall' = hall /\ team' = team /\ teamMade' = teamMade
    BY DEF GuestLoaded
<1>2. guest \in [Guests -> Visit] /\ guest[p].chatID = NoHall
    BY <1>1 DEF Chats
<1>3. /\ g2 \in [Guests -> Visit]
      /\ \A q \in Guests : /\ g2[q].chatID = guest[q].chatID /\ g2[q].bg_id = guest[q].bg_id
                           /\ (guest[q].chatID # NoHall => g2[q].at = guest[q].at)
                           /\ (g2[q].at = "gone" => guest[q].at = "gone")
    BY <1>2 DEF Visit
<1> HIDE DEF g2
<1> QED BY <1>1, <1>3, SameChats DEF SameTeams

(* Who is gone was taken out of the team on the way: the new session names none. *)
LEMMA LogInKeeps ==
    ASSUME Chats(guest, hall), Squads(guest, team, teamMade), NEW p \in Guests, GuestLogsIn(p)
    PROVE  Chats(guest', hall') /\ Squads(guest', team', teamMade') /\ teamMade' = teamMade
<1> DEFINE g2 == [guest EXCEPT ![p] = Visitor("loading")]
<1>1. guest[p].at = "gone" /\ guest' = g2 /\ hall' = hall /\ team' = team /\ teamMade' = teamMade
    BY DEF GuestLogsIn
<1>2. guest \in [Guests -> Visit] /\ guest[p].chatID = NoHall /\ guest[p].bg_id = 0
    BY <1>1 DEF Chats, Squads
<1>3. Visitor("loading") \in Visit /\ Visitor("loading").bg_id = 0 /\ Visitor("loading").chatID = NoHall
    BY DEF Visitor, Visit
<1>4. /\ g2 \in [Guests -> Visit]
      /\ \A q \in Guests : /\ g2[q].chatID = guest[q].chatID /\ g2[q].bg_id = guest[q].bg_id
                           /\ (guest[q].chatID # NoHall => g2[q].at = guest[q].at)
                           /\ (g2[q].at = "gone" => guest[q].at = "gone")
    BY <1>2, <1>3, <1>1
<1> HIDE DEF g2
<1>5. Chats(g2, hall)
    BY <1>4, SameChats
<1>6. SameTeams(guest, g2)
    BY <1>4 DEF SameTeams
<1>7. Squads(g2, team, teamMade)
    BY <1>4, <1>6, SameSquads
<1> QED BY <1>1, <1>5, <1>7

----------------------------------------------------------------------------
(* Rooms and teams are in order in every reachable state. *)

RoomInv == Chats(guest, hall) /\ Squads(guest, team, teamMade) /\ teamMade \in Teams \cup {0}

LEMMA RoomInitInv == RoomInit => RoomInv
<1> SUFFICES ASSUME RoomInit PROVE RoomInv
    OBVIOUS
<1>1. /\ guest = [p \in Guests |-> Visitor("map")] /\ hall = [c \in Halls |-> ClosedHall]
      /\ team = [b \in Teams |-> NewSquad] /\ teamMade = 0
    BY DEF RoomInit, NewSquad
<1>2. Visitor("map") \in Visit /\ Visitor("map").chatID = NoHall /\ Visitor("map").bg_id = 0
    BY DEF Visitor, Visit
<1>3. ClosedHall \in Hall /\ ~ClosedHall.open
    BY ClosedIsHall
<1>4. NewSquad \in Squad /\ NewSquad.state # "made"
    BY RoomAssumption DEF NewSquad, EmptyTeam, Squad, Seats
<1>5. Chats(guest, hall)
    BY <1>1, <1>2, <1>3 DEF Chats
<1>6. Squads(guest, team, teamMade)
    BY <1>1, <1>2, <1>4 DEF Squads
<1> QED BY <1>1, <1>5, <1>6 DEF RoomInv

LEMMA RoomNextInv == RoomInv /\ [ChatNext \/ WaitingNext \/ GuestNext \/ TeamNext]_roomVars => RoomInv'
<1> SUFFICES ASSUME RoomInv, [ChatNext \/ WaitingNext \/ GuestNext \/ TeamNext]_roomVars PROVE RoomInv'
    OBVIOUS
<1>1. Chats(guest, hall) /\ Squads(guest, team, teamMade) /\ teamMade \in Teams \cup {0}
    BY DEF RoomInv
<1>2. ASSUME Chats(guest', hall'), SameTeams(guest, guest'), team' = team, teamMade' = teamMade
      PROVE  RoomInv'
  <2>1. guest' \in [Guests -> Visit]
      BY <1>2 DEF Chats
  <2>2. Squads(guest', team, teamMade)
      BY <1>1, <1>2, <2>1, SameSquads
  <2> QED BY <1>1, <1>2, <2>2 DEF RoomInv
<1>3. CASE UNCHANGED roomVars
    BY <1>1, <1>3 DEF RoomInv, roomVars
<1>4. CASE ChatNext
    BY <1>1, <1>2, <1>4, ChatKeeps
<1>5. CASE WaitingNext
    BY <1>1, <1>2, <1>5, WaitingKeeps
<1>6. CASE \E p \in Guests : GuestWarps(p)
    BY <1>1, <1>2, <1>6, WarpGuestKeeps
<1>7. CASE \E p \in Guests : GuestLoaded(p)
    BY <1>1, <1>2, <1>7, LoadedKeeps
<1>8. CASE \E p \in Guests : GuestLogsIn(p)
    BY <1>1, <1>8, LogInKeeps DEF RoomInv
<1>9. CASE \E p \in Guests : QuitRoom(p)
    BY <1>1, <1>9, QuitKeeps DEF RoomInv
<1>10. CASE \E n \in 1 .. 2 : warpwaitingpc(n)
    BY <1>1, <1>2, <1>10, WarpKeeps
<1>11. CASE waitingroom2bg
    BY <1>1, <1>11, FillKeeps DEF RoomInv
<1>12. CASE \E b \in Teams : waitingroom2bg_single(b)
    BY <1>1, <1>12, FillOneKeeps DEF RoomInv
<1>13. CASE \E b \in Teams : bg_team_delete(b)
    BY <1>1, <1>13, TeamDeleteKeeps DEF RoomInv
<1>14. CASE \E p \in Guests : bg_leave(p)
    BY <1>1, <1>14, TeamQuitKeeps DEF RoomInv
<1> QED BY <1>3, <1>4, <1>5, <1>6, <1>7, <1>8, <1>9, <1>10, <1>11, <1>12, <1>13, <1>14 DEF GuestNext, TeamNext

LEMMA RoomInvAgrees == RoomInv => RoomsAgree
<1> SUFFICES ASSUME RoomInv PROVE RoomsAgree
    OBVIOUS
<1>1. /\ guest \in [Guests -> Visit] /\ hall \in [Halls -> Hall] /\ team \in [Teams -> Squad]
      /\ \A c \in Halls : hall[c].open => Lists(guest, hall[c], c)
      /\ \A p \in Guests : guest[p].chatID # NoHall => guest[p].at = "map" /\ hall[guest[p].chatID].open
      /\ \A b \in Teams : team[b].state = "made" => Enrols(guest, team[b], b)
      /\ \A p \in Guests : guest[p].bg_id # 0 => team[guest[p].bg_id].state = "made"
    BY DEF RoomInv, Chats, Squads
<1>2. ASSUME NEW c \in Halls, hall[c].open
      PROVE  /\ \A i, j \in DOMAIN hall[c].usersd : hall[c].usersd[i] = hall[c].usersd[j] => i = j
             /\ ToSet(hall[c].usersd) = {p \in Guests : guest[p].chatID = c /\ IsPresent(p)}
             /\ hall[c].owner # Npc => hall[c].usersd # << >> /\ hall[c].owner = Head(hall[c].usersd)
  <2> DEFINE s == hall[c].usersd
  <2>1. s \in Seq(Guests) /\ Lists(guest, hall[c], c) /\ c # NoHall
      BY <1>1, <1>2, RoomAssumption DEF Hall, Rows
  <2>2. DOMAIN s = 1 .. Len(s) /\ \A i \in 1 .. Len(s) : s[i] \in Guests
      BY <2>1
  <2>3. /\ \A i, j \in 1 .. Len(s) : s[i] = s[j] => i = j
        /\ \A i \in 1 .. Len(s) : guest[s[i]].chatID = c
        /\ \A p \in Guests : guest[p].chatID = c => \E i \in 1 .. Len(s) : s[i] = p
        /\ hall[c].owner # Npc => Len(s) > 0 /\ hall[c].owner = s[1]
      BY <2>1 DEF Lists
  <2> HIDE DEF s
  <2>4. \A p \in Guests : guest[p].chatID = c => IsPresent(p)
      BY <1>1, <2>1 DEF IsPresent
  <2>5. ToSet(s) = {p \in Guests : guest[p].chatID = c /\ IsPresent(p)}
      BY <2>2, <2>3, <2>4 DEF ToSet
  <2>6. hall[c].owner # Npc => s # << >> /\ hall[c].owner = Head(s)
      BY <2>1, <2>3
  <2> QED BY <2>2, <2>3, <2>5, <2>6 DEF s
<1>3. ASSUME NEW b \in Teams, Made(b)
      PROVE  /\ \A p \in Guests : Cardinality({s \in 1 .. TeamSeats : team[b].members[s] = p}) = (IF guest[p].bg_id = b THEN 1 ELSE 0)
             /\ team[b].count = Cardinality({s \in 1 .. TeamSeats : team[b].members[s] # NoGuest})
  <2>1. Enrols(guest, team[b], b) /\ team[b].members \in [Seats -> Guests \cup {NoGuest}]
      BY <1>1, <1>3 DEF Made, Squad
  <2>2. ASSUME NEW p \in Guests
        PROVE  Cardinality({s \in Seats : team[b].members[s] = p}) = (IF guest[p].bg_id = b THEN 1 ELSE 0)
    <3>1. p # NoGuest
        BY RoomAssumption
    <3>2. CASE guest[p].bg_id = b
      <4>1. PICK s \in Seats : team[b].members[s] = p
          BY <2>1, <3>2 DEF Enrols
      <4>2. {r \in Seats : team[b].members[r] = p} = {s}
          BY <2>1, <3>1, <4>1 DEF Enrols
      <4> QED BY <3>2, <4>2, FS_Singleton
    <3>3. CASE guest[p].bg_id # b
      <4>1. {r \in Seats : team[b].members[r] = p} = {}
          BY <2>1, <3>1, <3>3 DEF Enrols
      <4> QED BY <3>3, <4>1, FS_EmptySet
    <3> QED BY <3>2, <3>3
  <2> QED BY <2>1, <2>2 DEF Enrols, Taken, Seats
<1>4. \A p \in Guests : guest[p].bg_id # 0 => Made(guest[p].bg_id)
    BY <1>1 DEF Made
<1>5. \A p \in Guests : guest[p].chatID # NoHall => IsPresent(p) /\ hall[guest[p].chatID].open
    BY <1>1 DEF IsPresent
<1> QED BY <1>2, <1>3, <1>4, <1>5 DEF RoomsAgree

(* No chat room lists more players than its array has places and no team counts more members than it
   may have: RoomTypeOK. *)
LEMMA RoomInvTypes == RoomInv => RoomTypeOK
<1> SUFFICES ASSUME RoomInv PROVE RoomTypeOK
    OBVIOUS
<1>1. /\ guest \in [Guests -> Visit] /\ hall \in [Halls -> Hall] /\ team \in [Teams -> Squad]
      /\ \A b \in Teams : team[b].state = "made" => Enrols(guest, team[b], b)
    BY DEF RoomInv, Chats, Squads
<1>2. \A c \in Halls : /\ hall[c].owner \in Guests \cup {Npc, NoGuest} /\ hall[c].limit \in 0 .. ChatSeats
                       /\ hall[c].usersd \in Seq(Guests) /\ Len(hall[c].usersd) <= ChatSeats
    BY <1>1 DEF Hall, Rows
<1>3. \A b \in Teams : team[b].members \in [1 .. TeamSeats -> Guests \cup {NoGuest}] /\ team[b].count \in 0 .. TeamSeats
    BY <1>1 DEF Squad, Seats
<1>4. teamMade \in Teams \cup {0}
    BY DEF RoomInv
<1> QED BY <1>1, <1>2, <1>3, <1>4 DEF RoomTypeOK, Visit

LEMMA GatherInvariant == GatherSpec => [](DuelInv /\ RoomInv)
<1>1. GatherInit => DuelInv /\ RoomInv
    BY DuelInitInv, RoomInitInv DEF GatherInit
<1>2. DuelInv /\ RoomInv /\ [GatherNext]_<<duelVars, roomVars>> => (DuelInv /\ RoomInv)'
  <2> SUFFICES ASSUME DuelInv, RoomInv, [GatherNext]_<<duelVars, roomVars>> PROVE (DuelInv /\ RoomInv)'
      OBVIOUS
  <2>1. [DuelNext]_duelVars /\ [ChatNext \/ WaitingNext \/ GuestNext \/ TeamNext]_roomVars
      BY DEF GatherNext
  <2> QED BY <2>1, DuelNextInv, RoomNextInv
<1> QED BY <1>1, <1>2, PTL DEF GatherSpec

(* No chat room lists more players than its array has places, no team counts more members than it may
   have, and no session names a room, a team or a duel that there cannot be. *)
THEOREM GatheringTypes == GatherSpec => [](DuelTypeOK /\ RoomTypeOK)
BY GatherInvariant, DuelInvAgrees, RoomInvTypes, PTL

(* In every reachable state each list of members names exactly the sessions that name it: no duel, chat
   room or team keeps a session that was freed, and no session the number of something that is over. *)
THEOREM MembersAlwaysAgree == GatherSpec => []MembersAgree
<1>1. DuelInv /\ RoomInv => MembersAgree
    BY DuelInvAgrees, RoomInvAgrees DEF MembersAgree
<1> QED BY <1>1, GatherInvariant, PTL
=============================================================================
