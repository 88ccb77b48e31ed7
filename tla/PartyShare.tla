----------------------------- MODULE PartyShare -----------------------------
(***************************************************************************)
(* Even share of experience, as the char server watches over it            *)
(* (int_party.c): a party may share only while the base levels of its      *)
(* members online are within party_share_level.  The range minLv..maxLv is *)
(* kept, and worked out anew only when a change touches its ends.  Levels  *)
(* are unsigned: without members online the range is UINT_MAX .. 0.        *)
(***************************************************************************)
EXTENDS Integers, FiniteSets

CONSTANTS Sharers,         \* the characters that may be in the party
          ShareLevel,      \* party_share_level
          MaxLevel,        \* bound on base levels
          NoChild

UINT_MAX == 65535    \* of 16 bits instead of 32, for TLC: far above any level all the same
Unsigned(n) == n % (UINT_MAX + 1)

ASSUME ShareAssumption == /\ ShareLevel \in Nat /\ MaxLevel \in 1 .. UINT_MAX - 1
                          /\ NoChild \notin Sharers /\ IsFiniteSet(Sharers)

VARIABLES inParty, \* members
          seen,    \* members with online # 0
          lv,      \* member[].lv
          level,   \* base_level on the map server
          exp,     \* party.exp # 0: even share
          range,   \* min_lv and max_lv
          family,  \* family # 0
          child,   \* the child of the others, if the three are a family; never changes
          fallen   \* for the property: whose level was reset since the range was worked out

shareVars == <<inParty, seen, lv, level, exp, range, family, child, fallen>>

ShareTypeOK ==
    /\ inParty \subseteq Sharers /\ seen \subseteq inParty
    /\ lv \in [Sharers -> 0 .. MaxLevel] /\ level \in [Sharers -> 1 .. MaxLevel]
    /\ exp \in BOOLEAN /\ family \in BOOLEAN /\ child \in Sharers \cup {NoChild}
    /\ fallen \subseteq Sharers
    /\ range \in [min : (0 .. MaxLevel) \cup {UINT_MAX}, max : 0 .. MaxLevel]

(* The party is created by one player; levels are what they are then. *)
ShareInit ==
    /\ level \in [Sharers -> 1 .. MaxLevel]
    /\ child \in Sharers \cup {NoChild}
    /\ \E p \in Sharers :
          /\ inParty = {p} /\ seen = {p}
          /\ lv = [q \in Sharers |-> IF q = p THEN level[p] ELSE 0]
          /\ range = [min |-> level[p], max |-> level[p]]
    /\ exp = FALSE /\ family = FALSE /\ fallen = {}

(* The range of those in P, and whether it may be shared by n members online. *)
RangeOf(P, l) ==
    [min |-> IF P = {} THEN UINT_MAX ELSE CHOOSE x \in {l[p] : p \in P} : \A p \in P : x <= l[p],
     max |-> IF P = {} THEN 0 ELSE CHOOSE x \in {l[p] : p \in P} : \A p \in P : x >= l[p]]

party_check_exp_share(r, n) == n < 2 \/ Unsigned(r.max - r.min) <= ShareLevel

(* int_party_check_lv: the child counts. *)
int_party_check_lv(on, l) ==
    /\ range' = RangeOf(on, l) /\ fallen' = {}
    /\ exp' = (exp /\ party_check_exp_share(range', Cardinality(on)))

(* int_party_calc_state: the child of a family does not. *)
Family(members) == child # NoChild /\ members = Sharers /\ Cardinality(Sharers) = 3
int_party_calc_state(members, on, l) ==
    /\ family' = Family(members)
    /\ range' = RangeOf(IF family' THEN on \ {child} ELSE on, l) /\ fallen' = {}
    /\ exp' = (exp /\ party_check_exp_share(range', Cardinality(on)))

(* mapif_parse_PartyAddMember *)
ShareAddMember(p) ==
    LET on == seen \cup {p}
        l == [lv EXCEPT ![p] = level[p]]
    IN
    /\ inParty # {} /\ p \notin inParty
    /\ inParty' = inParty \cup {p} /\ seen' = on /\ lv' = l
    /\ IF Cardinality(inParty') = 3 THEN int_party_calc_state(inParty', on, l)
       ELSE IF l[p] < range.min \/ l[p] > range.max \/ family
       THEN family' = FALSE /\ int_party_check_lv(on, l)
       ELSE UNCHANGED <<family, range, exp, fallen>>
    /\ UNCHANGED <<level, child>>

(* mapif_parse_PartyLeave, of one who does not lead *)
ShareLeave(p) ==
    /\ p \in inParty /\ Cardinality(inParty) > 1
    /\ inParty' = inParty \ {p} /\ seen' = seen \ {p} /\ lv' = [lv EXCEPT ![p] = 0]
    /\ IF lv[p] \in {range.min, range.max} \/ family
       THEN family' = FALSE /\ int_party_check_lv(seen', lv')
       ELSE UNCHANGED <<family, range, exp>> /\ fallen' = fallen \ {p}
    /\ UNCHANGED <<level, child>>

(* mapif_parse_PartyChangeMap, of a member who is (not) online with its level then: first what
   the change of online does, then what is left of the change of level.  family stays as it is. *)
OutsideStrictly(n) == n < range.min \/ n > range.max      \* a mistake the runs must notice
Outside(n) == n <= range.min \/ n >= range.max
ChecksOnline(p, n) == family \/ Outside(lv[p]) \/ (lv[p] # n /\ Outside(n))
ChecksLevel(p) == lv[p] \in {range.min, range.max}

ShareChangeMap(p, n, online) ==
    LET on == IF online THEN seen \cup {p} ELSE seen \ {p} IN
    /\ seen' = on /\ lv' = [lv EXCEPT ![p] = n]
    /\ IF (on # seen /\ ChecksOnline(p, n)) \/ (lv[p] # n /\ ChecksLevel(p))
       THEN int_party_check_lv(on, lv')
       ELSE UNCHANGED <<range, exp>> /\ fallen' = IF n < lv[p] THEN fallen \cup {p} ELSE fallen
    /\ UNCHANGED <<inParty, family, child>>

ComeAndGoUnlisted(p, online) ==    \* a mistake the runs must notice
    ShareChangeMap(p, level[p], online) /\ UNCHANGED level

(* party_send_movemap, party_send_logout: ignored of one who is no member (any more) *)
ComeAndGo(p, online) ==
    /\ p \in inParty
    /\ ShareChangeMap(p, level[p], online)
    /\ UNCHANGED level

(* pc_checkbaselevelup with party_send_levelup: one level at a time (multi_level_up off). *)
LevelUp(p) ==
    /\ level[p] < MaxLevel
    /\ level' = [level EXCEPT ![p] = @ + 1]
    /\ IF p \in seen
       THEN ShareChangeMap(p, level'[p], TRUE)
       ELSE p \notin inParty /\ UNCHANGED <<inParty, seen, lv, exp, range, family, child, fallen>>

(* pc_resetlvl with party_send_levelup: back to the first level. *)
ResetLevel(p) ==
    /\ level[p] > 1
    /\ level' = [level EXCEPT ![p] = 1]
    /\ IF p \in seen
       THEN ShareChangeMap(p, 1, TRUE)
       ELSE p \notin inParty /\ UNCHANGED <<inParty, seen, lv, exp, range, family, child, fallen>>

(* mapif_parse_PartyChangeOption *)
ShareChangeOption(wanted) ==
    /\ seen # {}
    /\ exp' = (wanted /\ party_check_exp_share(range, Cardinality(seen)))
    /\ UNCHANGED <<inParty, seen, lv, level, range, family, child, fallen>>

ShareNext ==
    \/ \E p \in Sharers :
          \/ ShareAddMember(p) \/ ShareLeave(p) \/ LevelUp(p) \/ ResetLevel(p)
          \/ \E online \in BOOLEAN : ComeAndGo(p, online)
    \/ \E wanted \in BOOLEAN : ShareChangeOption(wanted)
ShareSpec == ShareInit /\ [][ShareNext]_shareVars

(* Whoever shares evenly is within the range, but for the child of a family, and for one whose
   level was reset from the middle of it: the packet for that is not looked at (int_party.c 651). *)
EvenShareInRange ==
    exp => \A p, q \in seen \ (IF family THEN {child} ELSE {}) :
               lv[p] - lv[q] > ShareLevel => {p, q} \cap fallen # {}
=============================================================================
