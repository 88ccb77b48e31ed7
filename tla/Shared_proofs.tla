---------------------------- MODULE Shared_proofs ----------------------------
(***************************************************************************)
(* Proofs about data that the char server and the map servers share: the   *)
(* even share of a party, and what is in mails and auctions.               *)
(***************************************************************************)
EXTENDS PartyShare, Post, Iteration, SequenceTheorems, FiniteSetTheorems

Levels == 0 .. MaxLevel
Spread == [min : Levels \cup {UINT_MAX}, max : Levels]
Nothing == [min |-> UINT_MAX, max |-> 0]

(* Who is online and counts: the child of a family does not. *)
Counting == seen \ (IF family THEN {child} ELSE {})
Covered == \A p \in Counting \ fallen : range.min <= lv[p] /\ lv[p] <= range.max

(* The range is worked out anew whenever one at its end changes, so that somebody online is at each end:
   a party with one member online cannot keep a wide range. *)
EndsAreMembers ==
    ~family => IF seen = {} THEN range = Nothing
               ELSE \E a, b \in seen \ fallen : lv[a] = range.min /\ lv[b] = range.max
Narrow == exp => Cardinality(seen) < 2 \/ Unsigned(range.max - range.min) <= ShareLevel

ShareTypes ==
    /\ inParty \subseteq Sharers /\ seen \subseteq inParty
    /\ lv \in [Sharers -> Levels] /\ level \in [Sharers -> 1 .. MaxLevel]
    /\ exp \in BOOLEAN /\ family \in BOOLEAN /\ child \in Sharers \cup {NoChild}
    /\ fallen \subseteq Sharers /\ range \in Spread
LevelsKnown == \A p \in inParty : lv[p] = level[p]
ShareInv == ShareTypes /\ LevelsKnown /\ Covered /\ EndsAreMembers /\ Narrow

-----------------------------------------------------------------------------
LEMMA UINT_MAXNatural == UINT_MAX \in Nat
BY DEF UINT_MAX

LEMMA LevelFacts == /\ UINT_MAX \in Nat /\ MaxLevel \in Nat /\ 1 <= MaxLevel /\ MaxLevel < UINT_MAX /\ ShareLevel \in Nat
                    /\ Levels \subseteq Nat /\ \A x \in Levels : x <= MaxLevel
<1>1. /\ UINT_MAX \in Nat /\ MaxLevel \in Nat /\ 1 <= MaxLevel /\ MaxLevel < UINT_MAX /\ ShareLevel \in Nat
    BY UINT_MAXNatural, ShareAssumption
<1>2. Levels \subseteq Nat /\ \A x \in Levels : x <= MaxLevel
    BY <1>1 DEF Levels
<1> QED BY <1>1, <1>2

(* RangeOf finds the ends. *)
LEMMA RangeFound ==
    ASSUME NEW P \in SUBSET Sharers, NEW l \in [Sharers -> Levels], P # {}
    PROVE  /\ RangeOf(P, l) \in [min : Levels, max : Levels]
           /\ \E a, b \in P : l[a] = RangeOf(P, l).min /\ l[b] = RangeOf(P, l).max
           /\ \A p \in P : RangeOf(P, l).min <= l[p] /\ l[p] <= RangeOf(P, l).max
<1> DEFINE L == {l[p] : p \in P}
           T == {MaxLevel - l[p] : p \in P}
           lo == CHOOSE x \in L : \A p \in P : x <= l[p]
           hi == CHOOSE x \in L : \A p \in P : x >= l[p]
<1>1. \A p \in P : l[p] \in Nat /\ l[p] \in Levels /\ l[p] <= MaxLevel /\ MaxLevel - l[p] \in Nat
    BY LevelFacts DEF Levels
<1>2. L \subseteq Nat /\ L # {} /\ T \subseteq Nat /\ T # {}
    BY <1>1
<1>3. PICK a \in P : \A p \in P : l[a] <= l[p]
  <2>1. \E x \in L : \A y \in L : x <= y
      BY <1>2, LeastNatural
  <2> QED BY <2>1
<1>4. PICK b \in P : \A p \in P : l[b] >= l[p]
  <2>1. PICK b \in P : \A y \in T : MaxLevel - l[b] <= y
    <3>1. \E x \in T : \A y \in T : x <= y
        BY <1>2, LeastNatural
    <3> QED BY <3>1
  <2>2. \A p \in P : MaxLevel - l[b] <= MaxLevel - l[p]
      BY <2>1
  <2> QED BY <1>1, <2>2, LevelFacts
<1>5. lo \in L /\ \A p \in P : lo <= l[p]
  <2>1. \E x \in L : \A p \in P : x <= l[p]
      BY <1>3
  <2> HIDE DEF L
  <2> QED BY <2>1
<1>6. hi \in L /\ \A p \in P : hi >= l[p]
  <2>1. \E x \in L : \A p \in P : x >= l[p]
      BY <1>4
  <2> HIDE DEF L
  <2> QED BY <2>1
<1>7. RangeOf(P, l) = [min |-> lo, max |-> hi]
    BY DEF RangeOf
<1> HIDE DEF lo, hi
<1> QED BY <1>1, <1>5, <1>6, <1>7

LEMMA RangeOfNobody == ASSUME NEW l PROVE RangeOf({}, l) = Nothing
BY DEF RangeOf, Nothing

(* Both ways of working out the range leave it as the invariant wants it. *)
Checked == range \in Spread /\ exp \in BOOLEAN /\ fallen = {} /\ Covered /\ EndsAreMembers /\ Narrow

LEMMA CheckLvKeeps ==
    ASSUME ShareInv, seen' \in SUBSET Sharers, lv' \in [Sharers -> Levels], int_party_check_lv(seen', lv')
    PROVE  Checked'
<1>1. /\ range' = RangeOf(seen', lv') /\ fallen' = {}
      /\ exp' = (exp /\ party_check_exp_share(range', Cardinality(seen')))
    BY DEF int_party_check_lv
<1>2. exp' \in BOOLEAN /\ Narrow'
    BY <1>1 DEF Narrow, party_check_exp_share, ShareInv, ShareTypes
<1>3. CASE seen' = {}
  <2>1. range' = Nothing
      BY <1>1, <1>3, RangeOfNobody
  <2> QED BY <1>1, <1>2, <1>3, <2>1, LevelFacts DEF Checked, Covered, Counting, EndsAreMembers, Spread, Nothing, Levels
<1>4. CASE seen' # {}
  <2>1. /\ range' \in [min : Levels, max : Levels]
        /\ \E a, b \in seen' : lv'[a] = range'.min /\ lv'[b] = range'.max
        /\ \A p \in seen' : range'.min <= lv'[p] /\ lv'[p] <= range'.max
      BY <1>1, <1>4, RangeFound
  <2>2. range' \in Spread
      BY <2>1 DEF Spread
  <2>3. Covered' /\ EndsAreMembers'
      BY <1>1, <1>4, <2>1 DEF Covered, Counting, EndsAreMembers
  <2> QED BY <1>1, <1>2, <2>2, <2>3 DEF Checked
<1> QED BY <1>3, <1>4

LEMMA CalcStateKeeps ==
    ASSUME ShareInv, seen' \in SUBSET Sharers, seen' # {}, lv' \in [Sharers -> Levels], child' = child,
           int_party_calc_state(inParty', seen', lv')
    PROVE  Checked' /\ family' \in BOOLEAN
<1> DEFINE P == IF family' THEN seen' \ {child} ELSE seen'
<1>1. /\ range' = RangeOf(P, lv') /\ fallen' = {} /\ family' = Family(inParty')
      /\ exp' = (exp /\ party_check_exp_share(range', Cardinality(seen')))
    BY DEF int_party_calc_state
<1>2. exp' \in BOOLEAN /\ Narrow' /\ family' \in BOOLEAN
    BY <1>1 DEF Narrow, party_check_exp_share, ShareInv, ShareTypes, Family
<1>3. Counting' = P
    BY <1>1 DEF Counting
<1>4. CASE P = {}
  <2>1. range' = Nothing
      BY <1>1, <1>4, RangeOfNobody
  <2>2. family'
      BY <1>4
  <2> QED BY <1>1, <1>2, <1>3, <1>4, <2>1, <2>2, LevelFacts DEF Checked, Covered, EndsAreMembers, Spread, Nothing, Levels
<1>5. CASE P # {}
  <2>1. /\ range' \in [min : Levels, max : Levels]
        /\ \E a, b \in P : lv'[a] = range'.min /\ lv'[b] = range'.max
        /\ \A p \in P : range'.min <= lv'[p] /\ lv'[p] <= range'.max
    <3>1. P \in SUBSET Sharers
        OBVIOUS
    <3> HIDE DEF P
    <3> QED BY <1>1, <1>5, <3>1, RangeFound
  <2>2. range' \in Spread
      BY <2>1 DEF Spread
  <2>3. Covered' /\ EndsAreMembers'
      BY <1>1, <1>3, <2>1 DEF Covered, EndsAreMembers
  <2> QED BY <1>1, <1>2, <2>2, <2>3 DEF Checked
<1> QED BY <1>4, <1>5

(* Outside families a party that shares has a narrow range, however many are online. *)
LEMMA SharedIsNarrow ==
    ASSUME ShareInv, ~family, seen # {}, exp
    PROVE  Unsigned(range.max - range.min) <= ShareLevel
<1>1. PICK a \in seen \ fallen, b \in seen \ fallen : lv[a] = range.min /\ lv[b] = range.max
    BY DEF ShareInv, EndsAreMembers
<1>2. CASE range.min = range.max
  <2>1. lv[a] \in Nat
      BY LevelFacts DEF ShareInv, ShareTypes
  <2>2. range.max - range.min = 0
      BY <1>1, <1>2, <2>1
  <2> QED BY <2>2, LevelFacts DEF Unsigned, UINT_MAX
<1>3. CASE range.min # range.max
  <2>1. a # b
      BY <1>1, <1>3
  <2>2. IsFiniteSet(seen)
      BY ShareAssumption, FS_Subset DEF ShareInv, ShareTypes
  <2>3. {a, b} \subseteq seen /\ Cardinality({a, b}) = 2
    <3>1. IsFiniteSet({a}) /\ Cardinality({a}) = 1
        BY FS_Singleton
    <3>2. Cardinality({a} \cup {b}) = Cardinality({a}) + 1
        BY <2>1, <3>1, FS_AddElement
    <3>3. {a} \cup {b} = {a, b}
        OBVIOUS
    <3> QED BY <3>1, <3>2, <3>3
  <2>4. Cardinality(seen) \in Nat /\ 2 <= Cardinality(seen)
      BY <2>2, <2>3, FS_Subset, FS_CardinalityType
  <2> QED BY <2>4 DEF ShareInv, Narrow
<1> QED BY <1>2, <1>3

LEMMA AddMemberKeeps == ASSUME ShareInv, NEW p \in Sharers, ShareAddMember(p) PROVE ShareInv'
<1> DEFINE on == seen \cup {p}
           l == [lv EXCEPT ![p] = level[p]]
<1>1. /\ inParty # {} /\ p \notin inParty /\ inParty' = inParty \cup {p} /\ seen' = on /\ lv' = l
      /\ level' = level /\ child' = child
    BY DEF ShareAddMember
<1>2. /\ inParty' \subseteq Sharers /\ seen' \subseteq inParty' /\ seen' \in SUBSET Sharers /\ seen' # {}
      /\ lv' \in [Sharers -> Levels] /\ level' \in [Sharers -> 1 .. MaxLevel] /\ child' \in Sharers \cup {NoChild}
      /\ lv'[p] = level[p] /\ \A q \in Sharers \ {p} : lv'[q] = lv[q]
    BY <1>1, LevelFacts DEF ShareInv, ShareTypes, Levels
<1>3. LevelsKnown'
    BY <1>1, <1>2 DEF ShareInv, ShareTypes, LevelsKnown
<1>4. CASE Cardinality(inParty') = 3
  <2>1. int_party_calc_state(inParty', seen', lv')
      BY <1>1, <1>4 DEF ShareAddMember
  <2>2. Checked' /\ family' \in BOOLEAN
      BY <1>1, <1>2, <2>1, CalcStateKeeps
  <2> QED BY <1>2, <1>3, <2>2 DEF Checked, ShareInv, ShareTypes
<1>5. CASE Cardinality(inParty') # 3 /\ (l[p] < range.min \/ l[p] > range.max \/ family)
  <2>1. family' = FALSE /\ int_party_check_lv(seen', lv')
      BY <1>1, <1>5 DEF ShareAddMember
  <2>2. Checked'
      BY <1>2, <2>1, CheckLvKeeps
  <2> QED BY <1>2, <1>3, <2>1, <2>2 DEF Checked, ShareInv, ShareTypes
<1>6. CASE Cardinality(inParty') # 3 /\ ~(l[p] < range.min \/ l[p] > range.max \/ family)
  <2>1. UNCHANGED <<family, range, exp, fallen>> /\ ~family
      BY <1>1, <1>6 DEF ShareAddMember
  <2>2. /\ lv'[p] \in Nat /\ lv'[p] < UINT_MAX /\ range.min \in Nat /\ range.max \in Nat
        /\ l[p] = lv'[p]
    <3>1. lv'[p] \in Levels
        BY <1>2
    <3>2. range.min \in Levels \cup {UINT_MAX} /\ range.max \in Levels
        BY DEF ShareInv, ShareTypes, Spread
    <3>3. lv'[p] <= MaxLevel /\ lv'[p] \in Nat /\ range.min \in Nat /\ range.max \in Nat
        BY <3>1, <3>2, LevelFacts
    <3> QED BY <1>1, <3>3, LevelFacts
  <2>3. range.min <= lv'[p] /\ lv'[p] <= range.max
    <3>1. ~(l[p] < range.min) /\ ~(l[p] > range.max)
        BY <1>6
    <3> HIDE DEF l
    <3> QED BY <2>2, <3>1
  <2>4. seen # {}
    <3>1. ASSUME seen = {} PROVE range.min = UINT_MAX
        BY <2>1, <3>1 DEF ShareInv, EndsAreMembers, Nothing
    <3>2. range.min # UINT_MAX
        BY <2>2, <2>3, LevelFacts
    <3> QED BY <3>1, <3>2
  <2>5. Narrow'
      BY <2>1, <2>4, SharedIsNarrow DEF Narrow
  <2>6. \A q \in seen : q # p /\ lv'[q] = lv[q]
      BY <1>1, <1>2 DEF ShareInv, ShareTypes
  <2>7. Covered'
      BY <1>1, <2>1, <2>3, <2>6 DEF ShareInv, Covered, Counting
  <2>8. EndsAreMembers'
      BY <1>1, <2>1, <2>4, <2>6 DEF ShareInv, EndsAreMembers
  <2> QED BY <1>2, <1>3, <2>1, <2>5, <2>7, <2>8 DEF ShareInv, ShareTypes
<1> QED BY <1>4, <1>5, <1>6

LEMMA LeaveKeeps == ASSUME ShareInv, NEW p \in Sharers, ShareLeave(p) PROVE ShareInv'
<1>1. /\ p \in inParty /\ inParty' = inParty \ {p} /\ seen' = seen \ {p} /\ lv' = [lv EXCEPT ![p] = 0]
      /\ level' = level /\ child' = child
    BY DEF ShareLeave
<1>2. /\ inParty' \subseteq Sharers /\ seen' \subseteq inParty' /\ seen' \in SUBSET Sharers
      /\ lv' \in [Sharers -> Levels] /\ level' \in [Sharers -> 1 .. MaxLevel] /\ child' \in Sharers \cup {NoChild}
      /\ \A q \in Sharers \ {p} : lv'[q] = lv[q]
    BY <1>1, LevelFacts DEF ShareInv, ShareTypes, Levels
<1>3. LevelsKnown'
    BY <1>1, <1>2 DEF ShareInv, ShareTypes, LevelsKnown
<1>4. CASE lv[p] \in {range.min, range.max} \/ family
  <2>1. family' = FALSE /\ int_party_check_lv(seen', lv')
      BY <1>4 DEF ShareLeave
  <2>2. Checked'
      BY <1>2, <2>1, CheckLvKeeps
  <2> QED BY <1>2, <1>3, <2>1, <2>2 DEF Checked, ShareInv, ShareTypes
<1>5. CASE ~(lv[p] \in {range.min, range.max} \/ family)
  <2>1. UNCHANGED <<family, range, exp>> /\ ~family /\ fallen' = fallen \ {p}
      BY <1>5 DEF ShareLeave
  <2>2. Covered'
      BY <1>1, <1>2, <2>1 DEF ShareInv, ShareTypes, Covered, Counting
  <2>3. EndsAreMembers'
    <3>1. CASE seen = {}
        BY <1>1, <2>1, <3>1 DEF ShareInv, EndsAreMembers
    <3>2. CASE seen # {}
      <4>1. PICK a \in seen \ fallen, b \in seen \ fallen : lv[a] = range.min /\ lv[b] = range.max
          BY <2>1, <3>2 DEF ShareInv, EndsAreMembers
      <4>2. a # p /\ b # p
          BY <1>5, <4>1
      <4>3. /\ a \in seen' \ fallen' /\ b \in seen' \ fallen' /\ lv'[a] = range'.min /\ lv'[b] = range'.max
          BY <1>1, <1>2, <2>1, <4>1, <4>2 DEF ShareInv, ShareTypes
      <4> QED BY <4>3 DEF EndsAreMembers
    <3> QED BY <3>1, <3>2
  <2>4. Narrow'
    <3>1. CASE seen = {}
        BY <1>1, <2>1, <3>1 DEF ShareInv, Narrow
    <3>2. CASE seen # {}
        BY <2>1, <3>2, SharedIsNarrow DEF Narrow
    <3> QED BY <3>1, <3>2
  <2> QED BY <1>2, <1>3, <2>1, <2>2, <2>3, <2>4 DEF ShareInv, ShareTypes
<1> QED BY <1>4, <1>5

(* A member comes, goes or changes its level, of which only changes that may touch the ends of the
   range are looked at; a level rises by one at a time. *)
LEMMA ChangeMapKeeps ==
    ASSUME ShareInv, NEW p \in inParty, NEW n \in Levels, NEW online \in BOOLEAN, ShareChangeMap(p, n, online),
           level' \in [Sharers -> 1 .. MaxLevel], level'[p] = n, \A q \in Sharers \ {p} : level'[q] = level[q],
           n = lv[p] \/ (p \in seen /\ online /\ (n = lv[p] + 1 \/ n < lv[p]))
    PROVE  ShareInv'
<1> DEFINE on == IF online THEN seen \cup {p} ELSE seen \ {p}
<1>1. seen' = on /\ lv' = [lv EXCEPT ![p] = n] /\ inParty' = inParty /\ family' = family /\ child' = child
    BY DEF ShareChangeMap
<1>2. /\ inParty' \subseteq Sharers /\ seen' \subseteq inParty' /\ seen' \in SUBSET Sharers /\ p \in Sharers
      /\ lv' \in [Sharers -> Levels] /\ child' \in Sharers \cup {NoChild} /\ family' \in BOOLEAN
      /\ lv'[p] = n /\ \A q \in Sharers \ {p} : lv'[q] = lv[q]
    BY <1>1 DEF ShareInv, ShareTypes
<1>3. LevelsKnown'
    BY <1>1, <1>2 DEF ShareInv, ShareTypes, LevelsKnown
<1>4. CASE (on # seen /\ ChecksOnline(p, n)) \/ (lv[p] # n /\ ChecksLevel(p))
  <2>1. int_party_check_lv(seen', lv')
      BY <1>1, <1>4 DEF ShareChangeMap
  <2>2. Checked'
      BY <1>2, <2>1, CheckLvKeeps
  <2> QED BY <1>2, <1>3, <2>2 DEF Checked, ShareInv, ShareTypes
<1>5. CASE ~((on # seen /\ ChecksOnline(p, n)) \/ (lv[p] # n /\ ChecksLevel(p)))
  <2>1. UNCHANGED <<range, exp>> /\ fallen' = IF n < lv[p] THEN fallen \cup {p} ELSE fallen
      BY <1>1, <1>5 DEF ShareChangeMap
  <2>2. /\ lv[p] \in Nat /\ n \in Nat /\ range.min \in Nat /\ range.max \in Nat /\ range \in Spread
        /\ fallen' \subseteq Sharers /\ exp' \in BOOLEAN
    <3>1. lv[p] \in Levels /\ range.min \in Levels \cup {UINT_MAX} /\ range.max \in Levels
        BY <1>2 DEF ShareInv, ShareTypes, Spread
    <3>2. fallen' \subseteq Sharers /\ exp' \in BOOLEAN /\ range \in Spread
        BY <1>2, <2>1 DEF ShareInv, ShareTypes
    <3> QED BY <3>1, <3>2, LevelFacts
  <2>3. CASE on # seen
    <3>1. ~family /\ ~Outside(lv[p]) /\ n = lv[p]
      <4>1. n = lv[p]
          BY <2>3
      <4> QED BY <1>5, <2>3, <4>1 DEF ChecksOnline
    <3>2. range.min < lv[p] /\ lv[p] < range.max
        BY <2>2, <3>1 DEF Outside
    <3>3. seen # {}
      <4>1. ASSUME seen = {} PROVE range.min = UINT_MAX /\ range.max = 0
          BY <3>1, <4>1 DEF ShareInv, EndsAreMembers, Nothing
      <4> QED BY <2>2, <3>2, <4>1
    <3>4. PICK a \in seen \ fallen, b \in seen \ fallen : lv[a] = range.min /\ lv[b] = range.max
        BY <3>1, <3>3 DEF ShareInv, EndsAreMembers
    <3>5. a # p /\ b # p
        BY <2>2, <3>2, <3>4
    <3>6. fallen' = fallen /\ lv' = lv
      <4>1. fallen' = fallen
          BY <2>1, <2>2, <3>1
      <4>2. lv' = lv
          BY <1>1, <1>2, <3>1 DEF ShareInv, ShareTypes
      <4> QED BY <4>1, <4>2
    <3>7. a \in seen' \ fallen' /\ b \in seen' \ fallen'
        BY <1>1, <3>4, <3>5, <3>6
    <3>8. EndsAreMembers'
        BY <2>1, <3>4, <3>6, <3>7 DEF EndsAreMembers
    <3>9. Covered'
      <4>1. \A q \in seen \ fallen : range.min <= lv[q] /\ lv[q] <= range.max
          BY <3>1 DEF ShareInv, Covered, Counting
      <4>2. range.min <= lv[p] /\ lv[p] <= range.max
          BY <2>2, <3>2
      <4>3. \A q \in seen' \ fallen' : range'.min <= lv'[q] /\ lv'[q] <= range'.max
          BY <1>1, <2>1, <3>6, <4>1, <4>2
      <4> QED BY <4>3 DEF Covered, Counting
    <3>10. Narrow'
        BY <2>1, <3>1, <3>3, SharedIsNarrow DEF Narrow
    <3> QED BY <1>1, <1>2, <1>3, <2>1, <2>2, <3>8, <3>9, <3>10 DEF ShareInv, ShareTypes
  <2>4. CASE on = seen
    <3>1. seen' = seen
        BY <1>1, <2>4
    <3>2. CASE n = lv[p]
      <4>1. lv' = lv /\ fallen' = fallen
        <5>1. lv' = lv
            BY <1>1, <1>2, <3>2 DEF ShareInv, ShareTypes
        <5>2. fallen' = fallen
            BY <2>1, <2>2, <3>2
        <5> QED BY <5>1, <5>2
      <4>2. Covered' /\ Narrow'
          BY <1>1, <2>1, <3>1, <4>1 DEF ShareInv, Covered, Counting, Narrow
      <4>3. EndsAreMembers'
          BY <1>1, <2>1, <3>1, <4>1 DEF ShareInv, EndsAreMembers
      <4> QED BY <1>1, <1>2, <1>3, <2>1, <2>2, <4>2, <4>3 DEF ShareInv, ShareTypes
    <3>3. CASE n # lv[p]
      <4>1. lv[p] # range.min /\ lv[p] # range.max /\ p \in seen /\ (n = lv[p] + 1 \/ n < lv[p])
          BY <1>5, <3>3 DEF ChecksLevel
      <4>2. ASSUME NEW q \in Counting' \ fallen'
            PROVE  range'.min <= lv'[q] /\ lv'[q] <= range'.max
        <5>1. q \in Counting \ fallen
            BY <1>1, <2>1, <3>1, <4>2 DEF Counting
        <5>2. range.min <= lv[q] /\ lv[q] <= range.max
            BY <5>1 DEF ShareInv, Covered
        <5>3. CASE q = p
          <6>1. n = lv[p] + 1
              BY <2>1, <4>1, <4>2, <5>3
          <6> QED BY <1>2, <2>1, <2>2, <4>1, <5>2, <5>3, <6>1
        <5>4. CASE q # p
          <6>1. lv'[q] = lv[q]
              BY <1>2, <5>1, <5>4 DEF Counting, ShareInv, ShareTypes
          <6> QED BY <2>1, <5>2, <6>1
        <5> QED BY <5>3, <5>4
      <4>3. Covered'
          BY <4>2 DEF Covered
      <4>4. EndsAreMembers'
        <5>1. ASSUME ~family
              PROVE  \E a, b \in seen' \ fallen' : lv'[a] = range'.min /\ lv'[b] = range'.max
          <6>1. PICK a \in seen \ fallen, b \in seen \ fallen : lv[a] = range.min /\ lv[b] = range.max
              BY <4>1, <5>1 DEF ShareInv, EndsAreMembers
          <6>2. a # p /\ b # p
              BY <4>1, <6>1
          <6>3. a \in Sharers \ {p} /\ b \in Sharers \ {p}
              BY <6>1, <6>2 DEF ShareInv, ShareTypes
          <6>4. a \in seen' \ fallen' /\ b \in seen' \ fallen' /\ lv'[a] = range'.min /\ lv'[b] = range'.max
              BY <1>2, <2>1, <3>1, <6>1, <6>3
          <6> QED BY <6>4
        <5> QED BY <1>1, <3>1, <4>1, <5>1 DEF EndsAreMembers
      <4>5. Narrow'
          BY <2>1, <3>1 DEF ShareInv, Narrow
      <4> QED BY <1>1, <1>2, <1>3, <2>1, <2>2, <4>3, <4>4, <4>5 DEF ShareInv, ShareTypes
    <3> QED BY <3>2, <3>3
  <2> QED BY <2>3, <2>4
<1> QED BY <1>4, <1>5

LEMMA ComeAndGoKeeps == ASSUME ShareInv, NEW p \in Sharers, NEW online \in BOOLEAN, ComeAndGo(p, online) PROVE ShareInv'
<1>1. p \in inParty /\ ShareChangeMap(p, level[p], online) /\ level' = level
    BY DEF ComeAndGo
<1>2. level[p] = lv[p] /\ level[p] \in Levels /\ level \in [Sharers -> 1 .. MaxLevel]
    BY <1>1 DEF ShareInv, ShareTypes, LevelsKnown
<1> QED BY <1>1, <1>2, ChangeMapKeeps

(* What happens to one who is in no party. *)
LEMMA OutsiderKeeps ==
    ASSUME ShareInv, NEW p \in Sharers, p \notin inParty, NEW n \in 1 .. MaxLevel, level' = [level EXCEPT ![p] = n],
           UNCHANGED <<inParty, seen, lv, exp, range, family, child, fallen>>
    PROVE  ShareInv'
<1>1. ShareTypes' /\ LevelsKnown'
    BY DEF ShareInv, ShareTypes, LevelsKnown
<1>2. Covered' /\ EndsAreMembers' /\ Narrow'
    BY DEF ShareInv, Covered, Counting, EndsAreMembers, Narrow
<1> QED BY <1>1, <1>2 DEF ShareInv

LEMMA LevelUpKeeps == ASSUME ShareInv, NEW p \in Sharers, LevelUp(p) PROVE ShareInv'
<1>1. level[p] < MaxLevel /\ level' = [level EXCEPT ![p] = level[p] + 1]
    BY DEF LevelUp
<1>2. level \in [Sharers -> 1 .. MaxLevel] /\ level[p] \in 1 .. MaxLevel
    BY DEF ShareInv, ShareTypes
<1>3. level[p] + 1 \in 1 .. MaxLevel /\ level[p] + 1 \in Levels
    BY <1>1, <1>2, LevelFacts DEF Levels
<1>4. CASE p \in seen
  <2>1. /\ level'[p] = level[p] + 1 /\ \A q \in Sharers \ {p} : level'[q] = level[q]
        /\ level' \in [Sharers -> 1 .. MaxLevel]
      BY <1>1, <1>2, <1>3
  <2>2. p \in inParty /\ lv[p] = level[p]
      BY <1>4 DEF ShareInv, ShareTypes, LevelsKnown
  <2>3. ShareChangeMap(p, level[p] + 1, TRUE)
      BY <1>4, <2>1 DEF LevelUp
  <2> QED BY <1>3, <1>4, <2>1, <2>2, <2>3, ChangeMapKeeps
<1>5. CASE p \notin seen
  <2>1. p \notin inParty /\ UNCHANGED <<inParty, seen, lv, exp, range, family, child, fallen>>
      BY <1>5 DEF LevelUp
  <2> QED BY <1>1, <1>3, <2>1, OutsiderKeeps
<1> QED BY <1>4, <1>5

LEMMA ResetLevelKeeps == ASSUME ShareInv, NEW p \in Sharers, ResetLevel(p) PROVE ShareInv'
<1>1. level[p] > 1 /\ level' = [level EXCEPT ![p] = 1]
    BY DEF ResetLevel
<1>2. level \in [Sharers -> 1 .. MaxLevel] /\ level[p] \in 1 .. MaxLevel
    BY DEF ShareInv, ShareTypes
<1>3. 1 \in 1 .. MaxLevel /\ 1 \in Levels /\ 1 < level[p]
    BY <1>1, <1>2, LevelFacts DEF Levels
<1>4. CASE p \in seen
  <2>1. /\ level'[p] = 1 /\ \A q \in Sharers \ {p} : level'[q] = level[q]
        /\ level' \in [Sharers -> 1 .. MaxLevel]
      BY <1>1, <1>2, <1>3
  <2>2. p \in inParty /\ lv[p] = level[p]
      BY <1>4 DEF ShareInv, ShareTypes, LevelsKnown
  <2>3. ShareChangeMap(p, 1, TRUE)
      BY <1>4 DEF ResetLevel
  <2> QED BY <1>3, <1>4, <2>1, <2>2, <2>3, ChangeMapKeeps
<1>5. CASE p \notin seen
  <2>1. p \notin inParty /\ UNCHANGED <<inParty, seen, lv, exp, range, family, child, fallen>>
      BY <1>5 DEF ResetLevel
  <2> QED BY <1>1, <1>3, <2>1, OutsiderKeeps
<1> QED BY <1>4, <1>5

LEMMA ChangeOptionKeeps == ASSUME ShareInv, NEW wanted \in BOOLEAN, ShareChangeOption(wanted) PROVE ShareInv'
<1>1. /\ exp' = (wanted /\ party_check_exp_share(range, Cardinality(seen)))
      /\ UNCHANGED <<inParty, seen, lv, level, range, family, child, fallen>>
    BY DEF ShareChangeOption
<1>2. Narrow' /\ exp' \in BOOLEAN
    BY <1>1 DEF Narrow, party_check_exp_share
<1> QED BY <1>1, <1>2 DEF ShareInv, ShareTypes, LevelsKnown, Covered, Counting, EndsAreMembers

LEMMA ShareInitInv == ShareInit => ShareInv
<1> SUFFICES ASSUME ShareInit PROVE ShareInv
    OBVIOUS
<1>1. PICK p \in Sharers :
          /\ inParty = {p} /\ seen = {p}
          /\ lv = [q \in Sharers |-> IF q = p THEN level[p] ELSE 0]
          /\ range = [min |-> level[p], max |-> level[p]]
    BY DEF ShareInit
<1>2. /\ level \in [Sharers -> 1 .. MaxLevel] /\ child \in Sharers \cup {NoChild}
      /\ exp = FALSE /\ family = FALSE /\ fallen = {}
    BY DEF ShareInit
<1>3. level[p] \in Levels /\ level[p] \in Nat /\ 0 \in Levels
    BY <1>2, LevelFacts DEF Levels
<1>4. lv \in [Sharers -> Levels] /\ lv[p] = level[p] /\ range \in Spread /\ range.min = level[p] /\ range.max = level[p]
    BY <1>1, <1>3 DEF Spread
<1>5. ShareTypes
    BY <1>1, <1>2, <1>4 DEF ShareTypes
<1>6. LevelsKnown /\ Covered /\ EndsAreMembers /\ Narrow
    BY <1>1, <1>2, <1>3, <1>4 DEF LevelsKnown, Covered, Counting, EndsAreMembers, Narrow
<1> QED BY <1>5, <1>6 DEF ShareInv

LEMMA ShareNextInv == ShareInv /\ [ShareNext]_shareVars => ShareInv'
<1> SUFFICES ASSUME ShareInv, [ShareNext]_shareVars PROVE ShareInv'
    OBVIOUS
<1>1. ASSUME NEW p \in Sharers, ShareAddMember(p) PROVE ShareInv'
    BY <1>1, AddMemberKeeps
<1>2. ASSUME NEW p \in Sharers, ShareLeave(p) PROVE ShareInv'
    BY <1>2, LeaveKeeps
<1>3. ASSUME NEW p \in Sharers, LevelUp(p) PROVE ShareInv'
    BY <1>3, LevelUpKeeps
<1>4. ASSUME NEW p \in Sharers, ResetLevel(p) PROVE ShareInv'
    BY <1>4, ResetLevelKeeps
<1>5. ASSUME NEW p \in Sharers, NEW online \in BOOLEAN, ComeAndGo(p, online) PROVE ShareInv'
    BY <1>5, ComeAndGoKeeps
<1>6. ASSUME NEW wanted \in BOOLEAN, ShareChangeOption(wanted) PROVE ShareInv'
    BY <1>6, ChangeOptionKeeps
<1>7. CASE UNCHANGED shareVars
    BY <1>7 DEF shareVars, ShareInv, ShareTypes, LevelsKnown, Covered, Counting, EndsAreMembers, Narrow
<1> QED BY <1>1, <1>2, <1>3, <1>4, <1>5, <1>6, <1>7 DEF ShareNext

LEMMA UnsignedOfSmall == ASSUME NEW n \in Nat, n <= UINT_MAX PROVE Unsigned(n) = n
<1>1. UINT_MAX = 65535
    BY DEF UINT_MAX
<1> DEFINE m == UINT_MAX + 1
<1>2. m \in Int /\ n < m /\ 0 < m
    BY <1>1
<1>3. n % m = n
  <2> HIDE DEF m
  <2> QED BY <1>2
<1> QED BY <1>3 DEF Unsigned

LEMMA ShareInvInRange == ShareInv => EvenShareInRange
<1> SUFFICES ASSUME ShareInv, exp, NEW p \in Counting, NEW q \in Counting, lv[p] - lv[q] > ShareLevel
             PROVE  {p, q} \cap fallen # {}
    BY DEF EvenShareInRange, Counting
<1> SUFFICES ASSUME p \notin fallen, q \notin fallen PROVE FALSE
    OBVIOUS
<1>1. p \in seen /\ q \in seen /\ p \in Sharers /\ q \in Sharers
    BY DEF Counting, ShareInv, ShareTypes
<1>2. lv[p] \in Nat /\ lv[q] \in Nat
    BY <1>1, LevelFacts DEF ShareInv, ShareTypes
<1>3. range.min <= lv[q] /\ lv[p] <= range.max
    BY DEF ShareInv, Covered
<1>4. range.min \in Nat /\ range.max \in Nat /\ range.max <= MaxLevel
    BY LevelFacts DEF ShareInv, ShareTypes, Spread
<1>5. range.max - range.min > ShareLevel /\ range.max - range.min \in Nat /\ range.max - range.min <= UINT_MAX
    BY <1>2, <1>3, <1>4, LevelFacts
<1>6. Unsigned(range.max - range.min) = range.max - range.min
    BY <1>5, UnsignedOfSmall
<1>7. p # q
    BY <1>2, LevelFacts
<1>8. ~(Cardinality(seen) < 2)
  <2>1. IsFiniteSet(seen)
      BY ShareAssumption, FS_Subset DEF ShareInv, ShareTypes
  <2>2. {p, q} \subseteq seen /\ Cardinality({p, q}) = 2
    <3>1. IsFiniteSet({p}) /\ Cardinality({p}) = 1
        BY FS_Singleton
    <3>2. Cardinality({p} \cup {q}) = Cardinality({p}) + 1
        BY <1>7, <3>1, FS_AddElement
    <3>3. {p} \cup {q} = {p, q}
        OBVIOUS
    <3> QED BY <1>1, <3>1, <3>2, <3>3
  <2> QED BY <2>1, <2>2, FS_Subset, FS_CardinalityType
<1> QED BY <1>5, <1>6, <1>8, LevelFacts DEF ShareInv, Narrow

(* Whatever members do, and in whatever order: while a party shares evenly, any two of its members who
   are online and count are within the range, unless the level of one was reset: EvenShareInRange. *)
THEOREM EvenSharesInRange == ShareSpec => []EvenShareInRange
<1>1. ShareInit => ShareInv
    BY ShareInitInv
<1>2. ShareInv /\ [ShareNext]_shareVars => ShareInv'
    BY ShareNextInv
<1>3. ShareInv => EvenShareInRange
    BY ShareInvInRange
<1> QED BY <1>1, <1>2, <1>3, PTL DEF ShareSpec

-----------------------------------------------------------------------------
(***************************************************************************)
(* Mails and auctions: nothing is lost or doubled, for any characters,     *)
(* items and purses.                                                       *)
(*                                                                         *)
(* What is counted is kept in six places, each a sum; a step takes from    *)
(* one what it adds to another.  First what happens to the sums.           *)
(***************************************************************************)

(* Sums along sequences. *)
Along(f) == Sum(f, 1 .. Len(f))

LEMMA AlongType == ASSUME NEW f \in Seq(Int) PROVE Along(f) \in Int
<1>1. IsFiniteSet(1 .. Len(f)) /\ \A i \in 1 .. Len(f) : f[i] \in Int
    BY FS_Interval
<1> QED BY <1>1, SumType DEF Along

LEMMA AlongNat == ASSUME NEW f \in Seq(Nat) PROVE Along(f) \in Nat
<1>1. IsFiniteSet(1 .. Len(f)) /\ f \in [1 .. Len(f) -> Int] /\ \A i \in 1 .. Len(f) : 0 <= f[i]
    BY FS_Interval
<1> QED BY <1>1, SumNotNegative DEF Along

LEMMA AlongEmpty == Along(<<>>) = 0
<1>1. 1 .. Len(<<>>) = {}
    OBVIOUS
<1> QED BY <1>1, SumEmpty DEF Along

(* Up to i, for the induction on the length. *)
LEMMA UpToSame ==
    ASSUME NEW f, NEW g, NEW n \in Nat, \A i \in 1 .. n : f[i] = g[i]
    PROVE  Sum(f, 1 .. n) = Sum(g, 1 .. n)
<1>1. IsFiniteSet(1 .. n)
    BY FS_Interval
<1> DEFINE S == 1 .. n
<1> HIDE DEF S
<1>2. Sum(f, S) = Sum(g, S)
    BY <1>1, SumSame DEF S
<1> QED BY <1>2 DEF S

LEMMA AlongConcat ==
    ASSUME NEW f \in Seq(Int), NEW g \in Seq(Int)
    PROVE  Along(f \o g) = Along(f) + Along(g)
<1> DEFINE h == f \o g
           a == Len(f)
           b == Len(g)
           Bad == {n \in 0 .. b : Sum(h, 1 .. a + n) # Sum(f, 1 .. a) + Sum(g, 1 .. n)}
<1>1. /\ a \in Nat /\ b \in Nat /\ Len(h) = a + b
      /\ f \in [1 .. a -> Int] /\ g \in [1 .. b -> Int] /\ h \in [1 .. a + b -> Int]
      /\ (\A i \in 1 .. a : h[i] = f[i]) /\ \A i \in 1 .. b : h[a + i] = g[i]
  <2>1. /\ h \in Seq(Int) /\ Len(h) = Len(f) + Len(g)
        /\ \A i \in 1 .. Len(f) + Len(g) : h[i] = IF i <= Len(f) THEN f[i] ELSE g[i - Len(f)]
      BY ConcatProperties
  <2>2. a \in Nat /\ b \in Nat
      OBVIOUS
  <2>3. f \in [1 .. a -> Int] /\ g \in [1 .. b -> Int] /\ h \in [1 .. a + b -> Int]
    <3> HIDE DEF h
    <3> QED BY <2>1
  <2>4. \A i \in 1 .. a : h[i] = f[i]
    <3> HIDE DEF h
    <3> QED BY <2>1, <2>2
  <2>5. ASSUME NEW i \in 1 .. b PROVE h[a + i] = g[i]
    <3>1. a + i \in 1 .. a + b /\ ~(a + i <= a) /\ (a + i) - a = i
        BY <2>2
    <3> HIDE DEF h
    <3> QED BY <2>1, <3>1
  <2> QED BY <2>1, <2>2, <2>3, <2>4, <2>5
<1> HIDE DEF h, a, b
<1>2. Bad = {}
  <2>1. SUFFICES ASSUME Bad # {} PROVE FALSE
      BY Zenon
  <2>2. PICK n \in Bad : \A m \in Bad : n <= m
    <3>1. Bad \subseteq Nat
        OBVIOUS
    <3> HIDE DEF Bad
    <3> QED BY <2>1, <3>1, LeastNatural
  <2>3. n \in 0 .. b /\ Sum(h, 1 .. a + n) # Sum(f, 1 .. a) + Sum(g, 1 .. n)
      OBVIOUS
  <2>4. Sum(f, 1 .. a) \in Int
    <3>1. (\A i \in 1 .. a : f[i] \in Int) /\ IsFiniteSet(1 .. a)
        BY <1>1, FS_Interval
    <3> DEFINE S == 1 .. a
    <3> HIDE DEF S
    <3>2. Sum(f, S) \in Int
        BY <3>1, SumType DEF S
    <3> QED BY <3>2 DEF S
  <2>5. CASE n = 0
    <3>1. Sum(h, 1 .. a) = Sum(f, 1 .. a)
      <4>1. a \in Nat /\ \A i \in 1 .. a : h[i] = f[i]
          BY <1>1
      <4> QED BY <4>1, UpToSame, Zenon
    <3>2. Sum(g, 1 .. 0) = 0
      <4>1. 1 .. 0 = {}
          OBVIOUS
      <4> QED BY <4>1, SumEmpty
    <3>3. a + n = a
        BY <1>1, <2>5
    <3> QED BY <2>3, <2>4, <2>5, <3>1, <3>2, <3>3
  <2>6. CASE n # 0
    <3>1. n \in 1 .. b /\ n - 1 \in 0 .. b /\ n - 1 \notin Bad
      <4>1. n \in 1 .. b /\ n - 1 \in 0 .. b /\ ~(n <= n - 1)
          BY <1>1, <2>3, <2>6
      <4> HIDE DEF Bad
      <4> QED BY <2>2, <4>1
    <3>2. Sum(h, 1 .. a + (n - 1)) = Sum(f, 1 .. a) + Sum(g, 1 .. n - 1)
        BY <3>1
    <3>3. Sum(g, 1 .. n) = Sum(g, 1 .. n - 1) + g[n] /\ Sum(g, 1 .. n - 1) \in Int
        BY <1>1, <3>1, SumUpTo
    <3>4. Sum(h, 1 .. a + n) = Sum(h, 1 .. a + n - 1) + h[a + n]
      <4> DEFINE i == a + n
                 N == a + b
      <4>1. i \in 1 .. N /\ N \in Nat /\ h \in [1 .. N -> Int]
          BY <1>1, <3>1
      <4> HIDE DEF i, N
      <4>2. Sum(h, 1 .. i) = Sum(h, 1 .. i - 1) + h[i]
          BY <4>1, SumUpTo
      <4>3. i = a + n /\ i - 1 = a + n - 1
          BY <1>1, <2>3 DEF i
      <4> QED BY <4>2, <4>3, Zenon
    <3>5. a + n - 1 = a + (n - 1) /\ h[a + n] = g[n] /\ g[n] \in Int
        BY <1>1, <3>1
    <3> HIDE DEF Bad
    <3> QED BY <2>3, <2>4, <3>2, <3>3, <3>4, <3>5
  <2> QED BY <2>5, <2>6
<1>3. Sum(h, 1 .. a + b) = Sum(f, 1 .. a) + Sum(g, 1 .. b)
  <2>1. b \in 0 .. b
      BY <1>1
  <2> QED BY <1>2, <2>1
<1> QED BY <1>1, <1>3 DEF Along, h, a, b

LEMMA AlongOne == ASSUME NEW x \in Int PROVE Along(<<x>>) = x
<1> DEFINE f == <<x>>
<1>1. Len(f) = 1 /\ f \in [1 .. 1 -> Int] /\ f[1] = x
    OBVIOUS
<1> HIDE DEF f
<1>2. Sum(f, 1 .. 1) = Sum(f, 1 .. 1 - 1) + f[1]
  <2>1. \A i \in 1 .. 1 : Sum(f, 1 .. i) = Sum(f, 1 .. i - 1) + f[i]
      BY <1>1, SumUpTo
  <2>2. 1 \in 1 .. 1
      OBVIOUS
  <2> QED BY <2>1, <2>2
<1>3. 1 .. 1 - 1 = {}
    OBVIOUS
<1>4. Sum(f, 1 .. 1 - 1) = 0
    BY <1>3, SumEmpty
<1> QED BY <1>1, <1>2, <1>4 DEF Along, f

LEMMA AlongTail ==
    ASSUME NEW f \in Seq(Int), f # <<>>
    PROVE  Along(Tail(f)) = Along(f) - f[1]
<1> DEFINE h == <<f[1]>>
           t == Tail(f)
<1>1. f = h \o t /\ h \in Seq(Int) /\ t \in Seq(Int) /\ f[1] \in Int
    OBVIOUS
<1> HIDE DEF t
<1>2. Along(f) = Along(h) + Along(t) /\ Along(t) \in Int
  <2> HIDE DEF h
  <2> QED BY <1>1, AlongConcat, AlongType
<1>3. Along(h) = f[1]
    BY <1>1, AlongOne
<1> QED BY <1>1, <1>2, <1>3 DEF t

(* Of summands none below zero each is at most the sum, and two of them are. *)
LEMMA SummandAtMost ==
    ASSUME NEW S, IsFiniteSet(S), NEW f \in [S -> Nat], NEW x \in S
    PROVE  Sum(f, S) \in Nat /\ f[x] <= Sum(f, S) /\ \A y \in S \ {x} : f[x] + f[y] <= Sum(f, S)
<1>1. IsFiniteSet(S \ {x}) /\ \A y \in S \ {x} : IsFiniteSet((S \ {x}) \ {y})
    BY FS_RemoveElement
<1> DEFINE R(T) == [y \in T |-> f[y]]
<1>2. \A T \in SUBSET S : IsFiniteSet(T) => Sum(f, T) \in Nat
  <2> SUFFICES ASSUME NEW T \in SUBSET S, IsFiniteSet(T) PROVE Sum(f, T) \in Nat
      OBVIOUS
  <2>1. R(T) \in [T -> Int] /\ (\A y \in T : 0 <= R(T)[y]) /\ \A y \in T : f[y] = R(T)[y]
      OBVIOUS
  <2> HIDE DEF R
  <2>2. Sum(R(T), T) \in Nat
      BY <2>1, SumNotNegative
  <2> QED BY <2>1, <2>2, SumSame
<1>3. Sum(f, S) = f[x] + Sum(f, S \ {x})
    BY SumWithout
<1>4. \A y \in S \ {x} : Sum(f, S \ {x}) = f[y] + Sum(f, (S \ {x}) \ {y})
    BY <1>1, SumWithout
<1>5. Sum(f, S) \in Nat /\ Sum(f, S \ {x}) \in Nat /\ f[x] \in Nat
      /\ \A y \in S \ {x} : f[y] \in Nat /\ Sum(f, (S \ {x}) \ {y}) \in Nat
    BY <1>1, <1>2
<1>6. f[x] <= Sum(f, S)
    BY <1>3, <1>5
<1>7. ASSUME NEW y \in S \ {x} PROVE f[x] + f[y] <= Sum(f, S)
  <2> DEFINE A == Sum(f, S)
             B == Sum(f, S \ {x})
             C == Sum(f, (S \ {x}) \ {y})
  <2>1. A = f[x] + B /\ B = f[y] + C /\ C \in Nat /\ f[x] \in Nat /\ f[y] \in Nat
      BY <1>3, <1>4, <1>5, <1>7
  <2> HIDE DEF A, B, C
  <2>2. f[x] + f[y] <= A
      BY <2>1
  <2> QED BY <2>2 DEF A
<1> QED BY <1>5, <1>6, <1>7

----------------------------------------------------------------------------
(* What the packets, the mails and the letters to be written may be. *)
Someone == Posters \cup {Manager}
Rows == [id : Nat, to : Someone, from : Someone, item : Kinds, zeny : Nat, read : BOOLEAN]
Letters == [from : Someone, to : Someone, item : Kinds, zeny : Nat]
Requests ==
    [t : {"inbox"}, p : Posters] \cup [t : {"read"}, id : Nat] \cup [t : {"attach", "delete", "return"}, p : Posters, id : Nat]
      \cup [t : {"mail"}, from : Posters, to : Someone, item : Kinds, zeny : Nat]
      \cup [t : {"register"}, p : Posters, item : Wares, price : Nat]
      \cup [t : {"cancel", "close"}, p : Posters, item : Wares]
      \cup [t : {"bid"}, p : Posters, item : Wares, zeny : Nat]
Answers ==
    [t : {"inbox"}, p : Posters, page : SUBSET Rows, full : BOOLEAN]
      \cup [t : {"attached", "back"}, p : Posters, item : Kinds, zeny : Nat]
      \cup [t : {"struck"}, p : Posters, id : Nat] \cup [t : {"newmail"}, p : Someone]
      \cup [t : {"mailed"}, p : Posters, to : Posters] \cup [t : {"bid"}, p : Posters, zeny : Nat]
      \cup [t : {"closed"}, p : Posters]
Messages == Requests \cup Answers

LEMMA RequestFields ==
    ASSUME NEW msg \in Requests
    PROVE  /\ msg.t \in {"inbox", "read", "attach", "delete", "return", "mail", "register", "cancel", "close", "bid"}
           /\ msg.t \in {"inbox", "attach", "delete", "return", "register", "cancel", "close", "bid"} => msg.p \in Posters
           /\ msg.t \in {"read", "attach", "delete", "return"} => msg.id \in Nat
           /\ msg.t = "mail" => msg.from \in Posters /\ msg.to \in Someone /\ msg.item \in Kinds /\ msg.zeny \in Nat
           /\ msg.t \in {"register", "cancel", "close", "bid"} => msg.item \in Wares
           /\ msg.t = "register" => msg.price \in Nat
           /\ msg.t = "bid" => msg.zeny \in Nat
BY DEF Requests

LEMMA AnswerFields ==
    ASSUME NEW msg \in Answers
    PROVE  /\ msg.t \in {"inbox", "attached", "back", "struck", "newmail", "mailed", "bid", "closed"}
           /\ msg.t \in {"inbox", "attached", "back", "struck", "mailed", "bid", "closed"} => msg.p \in Posters
           /\ msg.t = "newmail" => msg.p \in Someone
           /\ msg.t = "inbox" => msg.page \subseteq Rows /\ msg.full \in BOOLEAN
           /\ msg.t \in {"attached", "back"} => msg.item \in Kinds /\ msg.zeny \in Nat
           /\ msg.t = "struck" => msg.id \in Nat
           /\ msg.t = "mailed" => msg.to \in Posters
           /\ msg.t = "bid" => msg.zeny \in Nat
BY DEF Answers

LEMMA RowFields ==
    ASSUME NEW x \in Rows
    PROVE  /\ x.id \in Nat /\ x.to \in Someone /\ x.from \in Someone /\ x.item \in Kinds /\ x.zeny \in Nat
           /\ x.read \in BOOLEAN
BY DEF Rows

LEMMA LetterFields ==
    ASSUME NEW x \in Letters
    PROVE  x.to \in Someone /\ x.from \in Someone /\ x.item \in Kinds /\ x.zeny \in Nat
BY DEF Letters

LEMMA OfType == ASSUME NEW u, NEW item, NEW zeny \in Nat PROVE Of(u, item, zeny) \in Nat
BY DEF Of

LEMMA InPacketType == ASSUME NEW u, NEW msg \in Messages PROVE InPacket(u, msg) \in Nat
<1>1. CASE msg \in Requests
    BY <1>1, RequestFields DEF InPacket, Of
<1>2. CASE msg \in Answers
    BY <1>2, AnswerFields DEF InPacket, Of
<1> QED BY <1>1, <1>2 DEF Messages

----------------------------------------------------------------------------
(* Packets in flight, *)
Loads(u, s) == [i \in 1 .. Len(s) |-> InPacket(u, s[i])]
In(u, s) == Along(Loads(u, s))

LEMMA LoadsType ==
    ASSUME NEW u, NEW s \in Seq(Messages)
    PROVE  /\ Loads(u, s) \in Seq(Nat) /\ Loads(u, s) \in Seq(Int) /\ Len(Loads(u, s)) = Len(s)
           /\ \A i \in 1 .. Len(s) : Loads(u, s)[i] = InPacket(u, s[i])
           /\ In(u, s) \in Nat
<1>1. \A i \in 1 .. Len(s) : InPacket(u, s[i]) \in Nat
    BY InPacketType
<1>2. Loads(u, s) \in Seq(Nat) /\ Len(Loads(u, s)) = Len(s)
    BY <1>1 DEF Loads
<1>3. Loads(u, s) \in Seq(Int)
    BY <1>2, SeqMonotonic
<1>4. \A i \in 1 .. Len(s) : Loads(u, s)[i] = InPacket(u, s[i])
    BY DEF Loads
<1> QED BY <1>2, <1>3, <1>4, AlongNat DEF In

LEMMA CountInIsIn ==
    ASSUME NEW u, NEW s \in Seq(Messages)
    PROVE  CountIn(u, s) = In(u, s)
<1> DEFINE f == Loads(u, s)
           S == 1 .. Len(s)
           Works(g) == g = [r \in SUBSET S |-> IF r = {} THEN 0 ELSE InPacket(u, s[Picked(r)]) + g[r \ {Picked(r)}]]
<1>1. CountIn(u, s) = (CHOOSE g : Works(g))[S]
    BY DEF CountIn, MapThenSumSet, MapThenFoldSet, Picked
<1>2. ASSUME NEW r \in SUBSET S, r # {}
      PROVE  InPacket(u, s[Picked(r)]) = f[Picked(r)]
  <2>1. Picked(r) \in S
      BY <1>2 DEF Picked
  <2> QED BY <2>1, LoadsType
<1>3. IsFiniteSet(S) /\ Len(f) = Len(s)
    BY FS_Interval, LoadsType
<1> HIDE DEF f
<1>4. \A g : Works(g) <=> Adds(g, f, S)
    BY <1>2 DEF Adds
<1>5. \E g : Works(g)
    BY <1>3, <1>4, AddsExists
<1>6. Adds((CHOOSE g : Works(g)), f, S)
  <2> HIDE DEF Works
  <2> QED BY <1>4, <1>5
<1>7. CountIn(u, s) = Sum(f, S)
    BY <1>1, <1>3, <1>6, AddsIsSum
<1> QED BY <1>3, <1>7 DEF In, Along, f

LEMMA InMore ==
    ASSUME NEW u, NEW s \in Seq(Messages), NEW r \in Seq(Messages)
    PROVE  In(u, s \o r) = In(u, s) + In(u, r)
<1>1. s \o r \in Seq(Messages) /\ Len(s \o r) = Len(s) + Len(r)
    BY ConcatProperties
<1> DEFINE a == Loads(u, s)
           b == Loads(u, r)
           c == Loads(u, s \o r)
<1>2. a \in Seq(Int) /\ b \in Seq(Int) /\ c \in Seq(Int) /\ Len(a) = Len(s) /\ Len(b) = Len(r) /\ Len(c) = Len(s) + Len(r)
    BY <1>1, LoadsType
<1>3. a \o b \in Seq(Int) /\ Len(a \o b) = Len(c)
  <2> HIDE DEF a, b, c
  <2>1. a \in Seq(Int) /\ b \in Seq(Int)
      BY <1>2
  <2>2. a \o b \in Seq(Int) /\ Len(a \o b) = Len(a) + Len(b)
      BY <2>1, ConcatProperties, Zenon
  <2> QED BY <1>2, <2>2
<1>4. ASSUME NEW i \in 1 .. Len(c) PROVE c[i] = (a \o b)[i]
  <2>0. Len(s) \in Nat /\ Len(r) \in Nat /\ i \in 1 .. Len(s) + Len(r)
      BY <1>2
  <2>1. (s \o r)[i] = IF i <= Len(s) THEN s[i] ELSE r[i - Len(s)]
      BY <2>0, ConcatProperties
  <2>2. c[i] = InPacket(u, (s \o r)[i])
      BY <1>1, <2>0, LoadsType
  <2>3. (i <= Len(s) => a[i] = InPacket(u, s[i])) /\ (~(i <= Len(s)) => b[i - Len(s)] = InPacket(u, r[i - Len(s)]))
      BY <2>0, LoadsType
  <2> HIDE DEF a, b, c
  <2>4. (a \o b)[i] = IF i <= Len(a) THEN a[i] ELSE b[i - Len(a)]
    <3>1. i \in 1 .. Len(a) + Len(b)
        BY <1>2, <2>0
    <3> QED BY <1>2, <3>1, ConcatProperties, SMTT(30)
  <2> QED BY <1>2, <2>1, <2>2, <2>3, <2>4
<1> HIDE DEF a, b, c
<1>5. c = a \o b
    BY <1>2, <1>3, <1>4, SeqEqual
<1>6. Along(c) = Along(a) + Along(b)
    BY <1>2, <1>5, AlongConcat
<1> QED BY <1>6 DEF In, a, b, c

LEMMA InNone == \A u : In(u, <<>>) = 0
<1> TAKE u
<1>1. Loads(u, <<>>) = <<>>
    BY DEF Loads
<1> QED BY <1>1, AlongEmpty DEF In

LEMMA InOne == ASSUME NEW u, NEW msg \in Messages PROVE In(u, <<msg>>) = InPacket(u, msg)
<1>1. Loads(u, <<msg>>) = <<InPacket(u, msg)>>
    BY DEF Loads
<1>2. InPacket(u, msg) \in Int
    BY InPacketType
<1> QED BY <1>1, <1>2, AlongOne DEF In

LEMMA InTaken ==
    ASSUME NEW u, NEW s \in Seq(Messages), s # <<>>
    PROVE  In(u, Tail(s)) = In(u, s) - InPacket(u, Head(s))
<1> DEFINE h == <<Head(s)>>
           r == Tail(s)
<1>1. h \in Seq(Messages) /\ r \in Seq(Messages) /\ s = h \o r /\ Head(s) \in Messages
    OBVIOUS
<1> HIDE DEF r
<1>2. In(u, s) = In(u, h) + In(u, r)
  <2> HIDE DEF h
  <2> QED BY <1>1, InMore
<1>3. In(u, h) = InPacket(u, Head(s)) /\ In(u, h) \in Nat /\ In(u, r) \in Nat
    BY <1>1, InOne, LoadsType
<1> HIDE DEF h
<1> QED BY <1>2, <1>3 DEF r

(* Packets without goods weigh nothing. *)
LEMMA InEmpty ==
    ASSUME NEW u, NEW s \in Seq(Messages), \A i \in 1 .. Len(s) : InPacket(u, s[i]) = 0
    PROVE  In(u, s) = 0
<1> DEFINE f == Loads(u, s)
           S == 1 .. Len(s)
<1>1. Len(f) = Len(s) /\ \A i \in S : f[i] = 0
    BY LoadsType
<1>2. f \in [S -> Int]
  <2>1. f \in Seq(Int)
      BY LoadsType
  <2> HIDE DEF f
  <2> QED BY <1>1, <2>1
<1>3. IsFiniteSet(S)
    BY FS_Interval
<1> HIDE DEF f, S
<1>4. Sum(f, {}) = Sum(f, S)
    BY <1>1, <1>2, <1>3, SumOfParts
<1> QED BY <1>1, <1>4, SumEmpty DEF In, Along, f, S

LEMMA TwoInOne == ASSUME NEW x, NEW y PROVE <<x, y>> = <<x>> \o <<y>>
<1> DEFINE T == {x, y}
           a == <<x>>
           b == <<y>>
           c == <<x, y>>
<1>1. a \in Seq(T) /\ Len(a) = 1 /\ a[1] = x
    OBVIOUS
<1>2. b \in Seq(T) /\ Len(b) = 1 /\ b[1] = y
    OBVIOUS
<1>3. c \in Seq(T) /\ Len(c) = 2 /\ c[1] = x /\ c[2] = y
    OBVIOUS
<1> HIDE DEF a, b, c, T
<1>4. a \o b \in Seq(T) /\ Len(a \o b) = 2 /\ (a \o b)[1] = x /\ (a \o b)[2] = y
    BY <1>1, <1>2, ConcatProperties
<1>5. c = a \o b
    BY <1>3, <1>4, SeqEqual
<1> QED BY <1>5 DEF a, b, c

----------------------------------------------------------------------------
(* Letters to be written, *)
Worths(u, S) == [i \in 1 .. Len(S) |-> Of(u, S[i].item, S[i].zeny)]
Worth(u, S) == Along(Worths(u, S))

LEMMA WorthsType ==
    ASSUME NEW u, NEW S \in Seq(Letters)
    PROVE  /\ Worths(u, S) \in Seq(Nat) /\ Worths(u, S) \in Seq(Int) /\ Len(Worths(u, S)) = Len(S)
           /\ \A i \in 1 .. Len(S) : Worths(u, S)[i] = Of(u, S[i].item, S[i].zeny)
           /\ Worth(u, S) \in Nat
<1>1. \A i \in 1 .. Len(S) : Of(u, S[i].item, S[i].zeny) \in Nat
  <2> TAKE i \in 1 .. Len(S)
  <2>1. S[i] \in Letters
      OBVIOUS
  <2>2. S[i].zeny \in Nat
      BY <2>1, LetterFields
  <2> QED BY <2>2, OfType
<1>2. Worths(u, S) \in Seq(Nat) /\ Len(Worths(u, S)) = Len(S)
    BY <1>1 DEF Worths
<1>3. Worths(u, S) \in Seq(Int)
    BY <1>2, SeqMonotonic
<1>4. \A i \in 1 .. Len(S) : Worths(u, S)[i] = Of(u, S[i].item, S[i].zeny)
    BY DEF Worths
<1> QED BY <1>2, <1>3, <1>4, AlongNat DEF Worth

LEMMA WorthMore ==
    ASSUME NEW u, NEW S \in Seq(Letters), NEW T \in Seq(Letters)
    PROVE  Worth(u, S \o T) = Worth(u, S) + Worth(u, T)
<1>1. S \o T \in Seq(Letters) /\ Len(S \o T) = Len(S) + Len(T)
    BY ConcatProperties
<1> DEFINE a == Worths(u, S)
           b == Worths(u, T)
           c == Worths(u, S \o T)
<1>2. a \in Seq(Int) /\ b \in Seq(Int) /\ c \in Seq(Int) /\ Len(a) = Len(S) /\ Len(b) = Len(T) /\ Len(c) = Len(S) + Len(T)
    BY <1>1, WorthsType
<1>3. a \o b \in Seq(Int) /\ Len(a \o b) = Len(c)
  <2> HIDE DEF a, b, c
  <2>1. a \in Seq(Int) /\ b \in Seq(Int)
      BY <1>2
  <2>2. a \o b \in Seq(Int) /\ Len(a \o b) = Len(a) + Len(b)
      BY <2>1, ConcatProperties, Zenon
  <2> QED BY <1>2, <2>2
<1>4. ASSUME NEW i \in 1 .. Len(c) PROVE c[i] = (a \o b)[i]
  <2>0. Len(S) \in Nat /\ Len(T) \in Nat /\ i \in 1 .. Len(S) + Len(T)
      BY <1>2
  <2>1. (S \o T)[i] = IF i <= Len(S) THEN S[i] ELSE T[i - Len(S)]
      BY <2>0, ConcatProperties
  <2>2. c[i] = Of(u, (S \o T)[i].item, (S \o T)[i].zeny)
      BY <1>1, <2>0, WorthsType
  <2>3. (i <= Len(S) => a[i] = Of(u, S[i].item, S[i].zeny))
        /\ (~(i <= Len(S)) => b[i - Len(S)] = Of(u, T[i - Len(S)].item, T[i - Len(S)].zeny))
      BY <2>0, WorthsType
  <2> HIDE DEF a, b, c
  <2>4. (a \o b)[i] = IF i <= Len(a) THEN a[i] ELSE b[i - Len(a)]
    <3>1. i \in 1 .. Len(a) + Len(b)
        BY <1>2, <2>0
    <3> QED BY <1>2, <3>1, ConcatProperties, SMTT(30)
  <2> QED BY <1>2, <2>1, <2>2, <2>3, <2>4
<1> HIDE DEF a, b, c
<1>5. c = a \o b
    BY <1>2, <1>3, <1>4, SeqEqual
<1>6. Along(c) = Along(a) + Along(b)
    BY <1>2, <1>5, AlongConcat
<1> QED BY <1>6 DEF Worth, a, b, c

LEMMA WorthNone == \A u : Worth(u, <<>>) = 0
<1> TAKE u
<1>1. Worths(u, <<>>) = <<>>
    BY DEF Worths
<1> QED BY <1>1, AlongEmpty DEF Worth

LEMMA WorthOne == ASSUME NEW u, NEW x \in Letters PROVE Worth(u, <<x>>) = Of(u, x.item, x.zeny)
<1>1. Worths(u, <<x>>) = <<Of(u, x.item, x.zeny)>>
    BY DEF Worths
<1>2. Of(u, x.item, x.zeny) \in Int
    BY LetterFields, OfType
<1> QED BY <1>1, <1>2, AlongOne DEF Worth

LEMMA WorthTwo ==
    ASSUME NEW u, NEW x \in Letters, NEW y \in Letters
    PROVE  Worth(u, <<x, y>>) = Of(u, x.item, x.zeny) + Of(u, y.item, y.zeny)
<1>1. <<x>> \in Seq(Letters) /\ <<y>> \in Seq(Letters)
    OBVIOUS
<1>3. <<x, y>> = <<x>> \o <<y>>
    BY TwoInOne
<1>2. Worth(u, <<x>> \o <<y>>) = Worth(u, <<x>>) + Worth(u, <<y>>)
    BY <1>1, WorthMore
<1> QED BY <1>2, <1>3, WorthOne

----------------------------------------------------------------------------
(* mails, *)
Mailed(u, M) == Sum([x \in M |-> Of(u, x.item, x.zeny)], M)

LEMMA MailedType ==
    ASSUME NEW u, NEW M, IsFiniteSet(M), M \subseteq Rows
    PROVE  Mailed(u, M) \in Nat
<1> DEFINE f == [x \in M |-> Of(u, x.item, x.zeny)]
<1>1. \A x \in M : Of(u, x.item, x.zeny) \in Nat
    BY RowFields, OfType
<1>2. f \in [M -> Int] /\ \A x \in M : 0 <= f[x]
    BY <1>1
<1> HIDE DEF f
<1>3. Sum(f, M) \in Nat
    BY <1>2, SumNotNegative
<1> QED BY <1>3 DEF Mailed, f

LEMMA MailedWithout ==
    ASSUME NEW u, NEW M, IsFiniteSet(M), M \subseteq Rows, NEW x \in M
    PROVE  Mailed(u, M) = Of(u, x.item, x.zeny) + Mailed(u, M \ {x})
<1> DEFINE f == [y \in M |-> Of(u, y.item, y.zeny)]
           N == M \ {x}
           g == [y \in N |-> Of(u, y.item, y.zeny)]
<1>1. \A y \in M : f[y] = Of(u, y.item, y.zeny) /\ f[y] \in Int
    BY RowFields, OfType
<1>2. IsFiniteSet(N) /\ \A y \in N : g[y] = f[y]
    BY FS_RemoveElement
<1> HIDE DEF f, g
<1>3. Sum(f, M) = f[x] + Sum(f, N)
    BY <1>1, SumWithout
<1> HIDE DEF N
<1>4. Sum(g, N) = Sum(f, N)
    BY <1>2, SumSame
<1> QED BY <1>1, <1>3, <1>4 DEF Mailed, f, g, N

LEMMA MailedWith ==
    ASSUME NEW u, NEW M, IsFiniteSet(M), M \subseteq Rows, NEW x \in Rows, x \notin M
    PROVE  /\ IsFiniteSet(M \cup {x}) /\ M \cup {x} \subseteq Rows
           /\ Mailed(u, M \cup {x}) = Mailed(u, M) + Of(u, x.item, x.zeny)
<1> DEFINE N == M \cup {x}
<1>1. IsFiniteSet(N) /\ N \subseteq Rows /\ x \in N /\ N \ {x} = M
    BY FS_AddElement
<1> HIDE DEF N
<1>2. Mailed(u, N) = Of(u, x.item, x.zeny) + Mailed(u, N \ {x})
    BY <1>1, MailedWithout
<1>3. Mailed(u, M) \in Nat /\ Of(u, x.item, x.zeny) \in Nat
    BY MailedType, OfType, RowFields
<1>4. Mailed(u, N) = Mailed(u, M) + Of(u, x.item, x.zeny)
    BY <1>1, <1>2, <1>3
<1> QED BY <1>1, <1>4 DEF N

(* A row is changed: to one of the same worth, or to one without attachment. *)
LEMMA MailedChanged ==
    ASSUME NEW u, NEW M, IsFiniteSet(M), M \subseteq Rows, NEW x \in M, NEW y \in Rows, y \notin M \ {x}
    PROVE  /\ IsFiniteSet((M \ {x}) \cup {y}) /\ (M \ {x}) \cup {y} \subseteq Rows
           /\ Mailed(u, (M \ {x}) \cup {y}) = Mailed(u, M) - Of(u, x.item, x.zeny) + Of(u, y.item, y.zeny)
<1> DEFINE N == M \ {x}
<1>1. IsFiniteSet(N) /\ N \subseteq Rows
    BY FS_RemoveElement
<1>2. Mailed(u, M) = Of(u, x.item, x.zeny) + Mailed(u, N)
    BY MailedWithout
<1> HIDE DEF N
<1>3. /\ IsFiniteSet(N \cup {y}) /\ N \cup {y} \subseteq Rows
      /\ Mailed(u, N \cup {y}) = Mailed(u, N) + Of(u, y.item, y.zeny)
    BY <1>1, MailedWith DEF N
<1>4. Mailed(u, N) \in Nat /\ Of(u, x.item, x.zeny) \in Nat /\ Of(u, y.item, y.zeny) \in Nat
    BY <1>1, MailedType, OfType, RowFields
<1>5. Mailed(u, N \cup {y}) = Mailed(u, M) - Of(u, x.item, x.zeny) + Of(u, y.item, y.zeny)
    BY <1>2, <1>3, <1>4
<1> QED BY <1>3, <1>5 DEF N

(* Letters are stored under the next ids. *)
RowAt(S, i, w) == [id |-> w + i, to |-> S[i].to, from |-> S[i].from, item |-> S[i].item, zeny |-> S[i].zeny, read |-> FALSE]
Stored(S, n, w) == {RowAt(S, i, w) : i \in 1 .. n}

LEMMA RowAtType ==
    ASSUME NEW S \in Seq(Letters), NEW w \in Nat, NEW i \in 1 .. Len(S)
    PROVE  RowAt(S, i, w) \in Rows /\ RowAt(S, i, w).id = w + i
<1>1. S[i] \in Letters /\ i \in Nat
    OBVIOUS
<1>2. S[i].to \in Someone /\ S[i].from \in Someone /\ S[i].item \in Kinds /\ S[i].zeny \in Nat
    BY <1>1, LetterFields
<1> QED BY <1>1, <1>2 DEF RowAt, Rows

LEMMA MailedStored ==
    ASSUME NEW u, NEW M, IsFiniteSet(M), M \subseteq Rows, NEW w \in Nat, \A x \in M : x.id <= w, NEW S \in Seq(Letters)
    PROVE  /\ IsFiniteSet(M \cup Stored(S, Len(S), w)) /\ M \cup Stored(S, Len(S), w) \subseteq Rows
           /\ Mailed(u, M \cup Stored(S, Len(S), w)) = Mailed(u, M) + Worth(u, S)
<1> DEFINE L == Len(S)
           f == Worths(u, S)
           Up(n) == M \cup Stored(S, n, w)
           Good(n) == /\ IsFiniteSet(Up(n)) /\ Up(n) \subseteq Rows
                      /\ Mailed(u, Up(n)) = Mailed(u, M) + Sum(f, 1 .. n)
           Bad == {n \in 0 .. L : ~Good(n)}
<1>1. L \in Nat /\ Len(f) = L /\ f \in Seq(Int) /\ \A i \in 1 .. L : f[i] = Of(u, S[i].item, S[i].zeny)
    BY WorthsType
<1>2. f \in [1 .. L -> Int]
  <2> HIDE DEF f
  <2> QED BY <1>1
<1>3. Mailed(u, M) \in Nat
    BY MailedType
<1> HIDE DEF f, L, Good
<1>4. Good(0)
  <2>1. 1 .. 0 = {}
      OBVIOUS
  <2>2. Stored(S, 0, w) = {}
      BY <2>1 DEF Stored
  <2>3. Up(0) = M
      BY <2>2
  <2>4. Sum(f, 1 .. 0) = 0
      BY <2>1, SumEmpty
  <2>5. Mailed(u, Up(0)) = Mailed(u, M)
      BY <2>3
  <2> HIDE DEF Up
  <2>6. Mailed(u, Up(0)) = Mailed(u, M) + Sum(f, 1 .. 0)
      BY <1>3, <2>4, <2>5
  <2> QED BY <2>3, <2>6 DEF Good
<1>5. ASSUME NEW n \in 1 .. L, Good(n - 1) PROVE Good(n)
  <2> DEFINE x == RowAt(S, n, w)
             N == Up(n - 1)
  <2>1. x \in Rows /\ x.id = w + n /\ n \in Nat /\ ~(w + n <= w)
    <3>1. n \in 1 .. Len(S) /\ n \in Nat /\ ~(w + n <= w)
        BY <1>1, <1>5 DEF L
    <3>2. x \in Rows /\ x.id = w + n
        BY <3>1, RowAtType
    <3> QED BY <3>1, <3>2
  <2>2. x \notin N
    <3>1. x \notin M
        BY <2>1
    <3>2. ASSUME x \in Stored(S, n - 1, w) PROVE FALSE
      <4>1. PICK i \in 1 .. n - 1 : x = RowAt(S, i, w)
          BY <3>2 DEF Stored
      <4>2. i \in 1 .. Len(S) /\ i # n /\ i \in Nat
          BY <1>1, <2>1 DEF L
      <4>3. x.id = w + i
          BY <4>1, <4>2, RowAtType
      <4> QED BY <2>1, <4>2, <4>3
    <3> QED BY <3>1, <3>2
  <2>3. Up(n) = N \cup {x}
    <3>1. 1 .. n = (1 .. n - 1) \cup {n}
        BY <2>1
    <3>2. Stored(S, n, w) = Stored(S, n - 1, w) \cup {x}
        BY <3>1 DEF Stored
    <3> QED BY <3>2
  <2>4. Of(u, x.item, x.zeny) = f[n]
      BY <1>1 DEF RowAt
  <2>5. IsFiniteSet(N) /\ N \subseteq Rows /\ Mailed(u, N) = Mailed(u, M) + Sum(f, 1 .. n - 1)
      BY <1>5 DEF Good
  <2>6. Sum(f, 1 .. n - 1) \in Int /\ Sum(f, 1 .. n) = Sum(f, 1 .. n - 1) + f[n] /\ f[n] \in Int
      BY <1>1, <1>2, SumUpTo
  <2> HIDE DEF x, N, Up
  <2>7. /\ IsFiniteSet(N \cup {x}) /\ N \cup {x} \subseteq Rows
        /\ Mailed(u, N \cup {x}) = Mailed(u, N) + Of(u, x.item, x.zeny)
      BY <2>1, <2>2, <2>5, MailedWith
  <2>8. Mailed(u, N \cup {x}) = Mailed(u, M) + Sum(f, 1 .. n)
      BY <1>3, <2>4, <2>5, <2>6, <2>7
  <2>9. Mailed(u, Up(n)) = Mailed(u, M) + Sum(f, 1 .. n)
      BY <2>3, <2>8
  <2> QED BY <2>3, <2>7, <2>9 DEF Good
<1>6. Bad = {}
  <2>1. SUFFICES ASSUME Bad # {} PROVE FALSE
      BY Zenon
  <2>2. PICK n \in Bad : \A m \in Bad : n <= m
    <3>1. Bad \subseteq Nat
        OBVIOUS
    <3> HIDE DEF Bad
    <3> QED BY <2>1, <3>1, LeastNatural
  <2>3. n # 0
      BY <1>4
  <2>4. n \in 1 .. L /\ n - 1 \in 0 .. L /\ ~(n <= n - 1)
      BY <1>1, <2>3
  <2>5. ~Good(n - 1)
      BY <1>5, <2>4
  <2>6. n - 1 \in Bad
      BY <2>4, <2>5
  <2> QED BY <2>2, <2>4, <2>6
<1>7. Good(L)
  <2>1. L \in 0 .. L
      BY <1>1
  <2> QED BY <1>6, <2>1
<1>8. Sum(f, 1 .. L) = Worth(u, S)
    BY <1>1 DEF Worth, Along, f
<1> HIDE DEF Up
<1>9. IsFiniteSet(Up(L)) /\ Up(L) \subseteq Rows /\ Mailed(u, Up(L)) = Mailed(u, M) + Worth(u, S)
    BY <1>7, <1>8 DEF Good
<1> QED BY <1>9 DEF Up, L

----------------------------------------------------------------------------
(* players, *)
Holding(u, items, zeny) == IF u = NoWare THEN zeny ELSE IF u \in items THEN 1 ELSE 0
Holdings(u, bags, purses) == [p \in Posters |-> Holding(u, bags[p], purses[p])]
Carried(u, bags, purses) == Sum(Holdings(u, bags, purses), Posters)

LEMMA CarriedType ==
    ASSUME NEW u, NEW bags, NEW purses \in [Posters -> Nat]
    PROVE  /\ Holdings(u, bags, purses) \in [Posters -> Nat] /\ Holdings(u, bags, purses) \in [Posters -> Int]
           /\ \A p \in Posters : Holdings(u, bags, purses)[p] = Holding(u, bags[p], purses[p])
           /\ Carried(u, bags, purses) \in Nat
           /\ IsFiniteSet(Posters)
<1>1. \A p \in Posters : Holding(u, bags[p], purses[p]) \in Nat
    BY DEF Holding
<1>2. Holdings(u, bags, purses) \in [Posters -> Nat]
    BY <1>1 DEF Holdings
<1>3. Holdings(u, bags, purses) \in [Posters -> Int] /\ \A p \in Posters : 0 <= Holdings(u, bags, purses)[p]
    BY <1>2
<1>4. IsFiniteSet(Posters)
    BY PostAssumption
<1>5. Carried(u, bags, purses) \in Nat
    BY <1>3, <1>4, SumNotNegative DEF Carried
<1>6. \A p \in Posters : Holdings(u, bags, purses)[p] = Holding(u, bags[p], purses[p])
    BY DEF Holdings
<1> QED BY <1>2, <1>3, <1>4, <1>5, <1>6

LEMMA CarriedChange ==
    ASSUME NEW u, NEW bags, NEW purses \in [Posters -> Nat], NEW bags2, NEW purses2 \in [Posters -> Nat], NEW p \in Posters,
           \A q \in Posters : q # p => bags2[q] = bags[q] /\ purses2[q] = purses[q]
    PROVE  Carried(u, bags2, purses2)
             = Carried(u, bags, purses) + Holding(u, bags2[p], purses2[p]) - Holding(u, bags[p], purses[p])
<1> DEFINE f == Holdings(u, bags, purses)
           g == Holdings(u, bags2, purses2)
<1>1. f \in [Posters -> Int] /\ g \in [Posters -> Int] /\ IsFiniteSet(Posters)
    BY CarriedType
<1>2. f[p] = Holding(u, bags[p], purses[p]) /\ g[p] = Holding(u, bags2[p], purses2[p])
    BY DEF Holdings
<1>3. \A q \in Posters : q # p => g[q] = f[q]
    BY DEF Holdings
<1> HIDE DEF f, g
<1>4. Sum(g, Posters) = Sum(f, Posters) + g[p] - f[p]
    BY <1>1, <1>3, SumChange
<1> QED BY <1>2, <1>4 DEF Carried, f, g

(* Each holds at most what all hold, and so do two of them. *)
LEMMA CarriedBounds ==
    ASSUME NEW u, NEW bags, NEW purses \in [Posters -> Nat], NEW p \in Posters
    PROVE  /\ Holding(u, bags[p], purses[p]) \in Nat /\ Holding(u, bags[p], purses[p]) <= Carried(u, bags, purses)
           /\ \A q \in Posters : q # p =>
                  Holding(u, bags[q], purses[q]) \in Nat
                  /\ Holding(u, bags[p], purses[p]) + Holding(u, bags[q], purses[q]) <= Carried(u, bags, purses)
<1> DEFINE f == Holdings(u, bags, purses)
<1>1. f \in [Posters -> Nat] /\ IsFiniteSet(Posters) /\ \A q \in Posters : f[q] = Holding(u, bags[q], purses[q])
    BY CarriedType
<1> HIDE DEF f
<1>2. f[p] <= Sum(f, Posters) /\ \A q \in Posters \ {p} : f[p] + f[q] <= Sum(f, Posters)
    BY <1>1, SummandAtMost
<1>3. \A q \in Posters : f[q] \in Nat
    BY <1>1
<1> QED BY <1>1, <1>2, <1>3 DEF Carried, f

----------------------------------------------------------------------------
(* and auctions. *)
Sales == [seller : Someone, buyer : Someone, price : Nat]
Stakes(u, A) == [w \in Wares |-> IF u \in {w, NoWare} THEN AtAuction(u, A[w]) ELSE 0]
Sold(u, A) == Sum(Stakes(u, A), Wares)

LEMMA SoldType ==
    ASSUME NEW u, NEW A \in [Wares -> Sales]
    PROVE  /\ Stakes(u, A) \in [Wares -> Nat] /\ Stakes(u, A) \in [Wares -> Int]
           /\ \A w \in Wares : Stakes(u, A)[w] = IF u \in {w, NoWare} THEN AtAuction(u, A[w]) ELSE 0
           /\ Sold(u, A) \in Nat /\ IsFiniteSet(Wares)
<1>1. \A w \in Wares : A[w].price \in Nat
    BY DEF Sales
<1>2. Stakes(u, A) \in [Wares -> Nat]
    BY <1>1 DEF Stakes, AtAuction
<1>3. Stakes(u, A) \in [Wares -> Int] /\ \A w \in Wares : 0 <= Stakes(u, A)[w]
    BY <1>2
<1>4. IsFiniteSet(Wares)
    BY PostAssumption
<1>5. Sold(u, A) \in Nat
    BY <1>3, <1>4, SumNotNegative DEF Sold
<1>6. \A w \in Wares : Stakes(u, A)[w] = IF u \in {w, NoWare} THEN AtAuction(u, A[w]) ELSE 0
    BY DEF Stakes
<1> QED BY <1>2, <1>3, <1>4, <1>5, <1>6

LEMMA SoldChange ==
    ASSUME NEW u, NEW A \in [Wares -> Sales], NEW w \in Wares, NEW B \in [Wares -> Sales],
           \A v \in Wares : v # w => B[v] = A[v]
    PROVE  /\ u \in {w, NoWare} => Sold(u, B) = Sold(u, A) + AtAuction(u, B[w]) - AtAuction(u, A[w])
           /\ u \notin {w, NoWare} => Sold(u, B) = Sold(u, A)
<1> DEFINE f == Stakes(u, A)
           g == Stakes(u, B)
<1>2. f \in [Wares -> Int] /\ g \in [Wares -> Int] /\ IsFiniteSet(Wares)
    BY SoldType
<1>3. \A v \in Wares : v # w => g[v] = f[v]
    BY DEF Stakes
<1>4. /\ f[w] = IF u \in {w, NoWare} THEN AtAuction(u, A[w]) ELSE 0
      /\ g[w] = IF u \in {w, NoWare} THEN AtAuction(u, B[w]) ELSE 0
    BY DEF Stakes
<1> HIDE DEF f, g
<1>5. Sum(g, Wares) = Sum(f, Wares) + g[w] - f[w] /\ f[w] \in Int /\ Sum(f, Wares) \in Int
    BY <1>2, <1>3, SumChange, SumType
<1>6. Sold(u, B) = Sold(u, A) + g[w] - f[w]
    BY <1>5 DEF Sold, f, g
<1>7. Sold(u, A) \in Int
    BY <1>5 DEF Sold, f
<1> QED BY <1>4, <1>5, <1>6, <1>7

LEMMA SoldBound ==
    ASSUME NEW A \in [Wares -> Sales], NEW w \in Wares
    PROVE  /\ AtAuction(w, A[w]) \in Nat /\ AtAuction(w, A[w]) <= Sold(w, A)
           /\ A[w].seller # Manager => 1 <= Sold(w, A)
<1> DEFINE f == Stakes(w, A)
<1>1. f \in [Wares -> Nat] /\ IsFiniteSet(Wares) /\ f[w] = AtAuction(w, A[w])
    BY SoldType
<1> HIDE DEF f
<1>2. f[w] <= Sum(f, Wares) /\ f[w] \in Nat
    BY <1>1, SummandAtMost
<1>3. A[w].seller # Manager => AtAuction(w, A[w]) = 1
    BY PostAssumption DEF AtAuction
<1> QED BY <1>1, <1>2, <1>3 DEF Sold, f

-----------------------------------------------------------------------------
(* The packets on the way, and what is sure of a row x when the first n packets of s have been
   handled: that it is read, that the request of its attachment finds it read, that it has none. *)
Asked == toInter[m0]
Answered == fromInter[m0]
Read(x, s, n) == x.read \/ \E k \in 1 .. n : s[k] = [t |-> "read", id |-> x.id]
Striking(x, s, n) == \E j \in 1 .. n : s[j] = [t |-> "attach", p |-> x.to, id |-> x.id] /\ Read(x, s, j)
Bare(x, s, n) == ~HasParcel(x) \/ Striking(x, s, n)

(* A copy y that player p has of a row of M tells no more than will be so. *)
Tells(y, p, M, s, n) ==
    \A x \in M : x.id = y.id =>
        x.to = p /\ (y.read => Read(x, s, n)) /\ (~HasParcel(y) => Bare(x, s, n))

CopiesTell == \A p \in Posters : \A y \in inbox[p] :
                  y.id <= written /\ Tells(y, p, mails, Asked, Len(Asked))
PagesTell == \A i \in 1 .. Len(Answered) : Answered[i].t = "inbox" =>
                 \A y \in Answered[i].page : y.id <= written /\ Tells(y, Answered[i].p, mails, Asked, 0)
DeletesBare == \A i \in 1 .. Len(Asked) : Asked[i].t = "delete" =>
                   Asked[i].id <= written /\ \A x \in mails : x.id = Asked[i].id => Bare(x, Asked, i)

(* Rows are told apart by their ids, and nobody bids for what nobody sells. *)
RowsDiffer == (\A x \in mails : x.id <= written) /\ \A x, y \in mails : x.id = y.id => x = y
BidsAreForSale == \A w \in Wares : auctions[w].seller = Manager => auctions[w].buyer = Manager

----------------------------------------------------------------------------
(* What has which shape, and that everything is somewhere. *)
PosterStates == [here : BOOLEAN, item : Kinds, zeny : Nat, sale : Kinds, changed : BOOLEAN, full : BOOLEAN]
Mislaid == [items : SUBSET Wares, zeny : Nat, all : Nat]
PipeTypes ==
    /\ toInter \in [MapServers -> Seq(Requests)] /\ fromInter \in [MapServers -> Seq(Answers)]
    /\ wire[m0] /\ joined[m0]
PostTypes ==
    /\ poster \in [Posters -> PosterStates]
    /\ bag \in [Posters -> SUBSET Wares] /\ purse \in [Posters -> Nat]
    /\ inbox \in [Posters -> SUBSET Rows]
    /\ IsFiniteSet(mails) /\ mails \subseteq Rows /\ written \in Nat
    /\ auctions \in [Wares -> Sales]
    /\ mislaid \in Mislaid

Gone(u, x) == IF u = NoWare THEN x.zeny ELSE IF u \in x.items THEN 1 ELSE 0
Total(u) == Carried(u, bag, purse) + In(u, Asked) + In(u, Answered) + Mailed(u, mails) + Sold(u, auctions) + Gone(u, mislaid)
Balanced == \A u \in Kinds : Total(u) = IF u = NoWare THEN mislaid.all ELSE 1

PostInv == PipeTypes /\ PostTypes /\ Balanced /\ RowsDiffer /\ BidsAreForSale /\ CopiesTell /\ PagesTell /\ DeletesBare

LEMMA ServerOfPosters == m0 \in MapServers /\ NoWare \notin Wares /\ Manager \notin Posters /\ BuyNow \in Nat /\ 0 < BuyNow
BY PostAssumption DEF m0

LEMMA PipesAre ==
    ASSUME PipeTypes
    PROVE  Asked \in Seq(Requests) /\ Answered \in Seq(Answers) /\ Asked \in Seq(Messages) /\ Answered \in Seq(Messages)
<1>1. Asked \in Seq(Requests) /\ Answered \in Seq(Answers)
    BY ServerOfPosters DEF PipeTypes, Asked, Answered
<1>2. Requests \subseteq Messages /\ Answers \subseteq Messages
    BY DEF Messages
<1>3. Asked \in Seq(Messages)
    BY <1>1, <1>2, SeqMonotonic
<1>4. Answered \in Seq(Messages)
    BY <1>1, <1>2, SeqMonotonic
<1> QED BY <1>1, <1>3, <1>4

LEMMA GoneType == ASSUME NEW u, NEW x \in Mislaid PROVE Gone(u, x) \in Nat
BY DEF Gone, Mislaid

LEMMA PartsAre ==
    ASSUME PipeTypes, PostTypes, NEW u
    PROVE  /\ Carried(u, bag, purse) \in Nat /\ In(u, Asked) \in Nat /\ In(u, Answered) \in Nat
           /\ Mailed(u, mails) \in Nat /\ Sold(u, auctions) \in Nat /\ Gone(u, mislaid) \in Nat
<1>1. Carried(u, bag, purse) \in Nat
    BY CarriedType DEF PostTypes
<1>2. In(u, Asked) \in Nat /\ In(u, Answered) \in Nat
    BY PipesAre, LoadsType
<1>3. Mailed(u, mails) \in Nat
    BY MailedType DEF PostTypes
<1>4. Sold(u, auctions) \in Nat
    BY SoldType DEF PostTypes
<1>5. Gone(u, mislaid) \in Nat
    BY GoneType DEF PostTypes
<1> QED BY <1>1, <1>2, <1>3, <1>4, <1>5

(* Count counts the same. *)
LEMMA CarriedIsCounted ==
    ASSUME PostTypes, NEW u
    PROVE  MapThenSumSet(LAMBDA p : WithPoster(u, p), Posters) = Carried(u, bag, purse)
<1> DEFINE f == Holdings(u, bag, purse)
           Works(g) == g = [r \in SUBSET Posters |-> IF r = {} THEN 0 ELSE WithPoster(u, Picked(r)) + g[r \ {Picked(r)}]]
<1>1. MapThenSumSet(LAMBDA p : WithPoster(u, p), Posters) = (CHOOSE g : Works(g))[Posters]
    BY DEF MapThenSumSet, MapThenFoldSet, Picked
<1>2. ASSUME NEW r \in SUBSET Posters, r # {}
      PROVE  WithPoster(u, Picked(r)) = f[Picked(r)]
  <2>1. Picked(r) \in Posters
      BY <1>2 DEF Picked
  <2> QED BY <2>1 DEF Holdings, Holding, WithPoster
<1>3. IsFiniteSet(Posters)
    BY PostAssumption
<1> HIDE DEF f
<1>4. \A g : Works(g) <=> Adds(g, f, Posters)
    BY <1>2 DEF Adds
<1>5. \E g : Works(g)
    BY <1>3, <1>4, AddsExists
<1>6. Adds((CHOOSE g : Works(g)), f, Posters)
  <2> HIDE DEF Works
  <2> QED BY <1>4, <1>5
<1>7. (CHOOSE g : Works(g))[Posters] = Sum(f, Posters)
  <2> HIDE DEF Works
  <2> QED BY <1>3, <1>6, AddsIsSum
<1> QED BY <1>1, <1>7 DEF Carried, f

LEMMA MailedIsCounted ==
    ASSUME PostTypes, NEW u
    PROVE  MapThenSumSet(LAMBDA x : Of(u, x.item, x.zeny), mails) = Mailed(u, mails)
<1> DEFINE f == [x \in mails |-> Of(u, x.item, x.zeny)]
           Works(g) == g = [r \in SUBSET mails |-> IF r = {} THEN 0
                                ELSE Of(u, Picked(r).item, Picked(r).zeny) + g[r \ {Picked(r)}]]
<1>1. MapThenSumSet(LAMBDA x : Of(u, x.item, x.zeny), mails) = (CHOOSE g : Works(g))[mails]
    BY DEF MapThenSumSet, MapThenFoldSet, Picked
<1>2. ASSUME NEW r \in SUBSET mails, r # {}
      PROVE  Of(u, Picked(r).item, Picked(r).zeny) = f[Picked(r)]
  <2>1. Picked(r) \in mails
      BY <1>2 DEF Picked
  <2> QED BY <2>1
<1>3. IsFiniteSet(mails)
    BY DEF PostTypes
<1> HIDE DEF f
<1>4. \A g : Works(g) <=> Adds(g, f, mails)
    BY <1>2 DEF Adds
<1>5. \E g : Works(g)
    BY <1>3, <1>4, AddsExists
<1>6. Adds((CHOOSE g : Works(g)), f, mails)
  <2> HIDE DEF Works
  <2> QED BY <1>4, <1>5
<1>7. (CHOOSE g : Works(g))[mails] = Sum(f, mails)
  <2> HIDE DEF Works
  <2> QED BY <1>3, <1>6, AddsIsSum
<1> QED BY <1>1, <1>7 DEF Mailed, f

LEMMA SoldIsCounted ==
    ASSUME NEW u
    PROVE  MapThenSumSet(LAMBDA w : IF u \in {w, NoWare} THEN AtAuction(u, auctions[w]) ELSE 0, Wares) = Sold(u, auctions)
<1> DEFINE f == Stakes(u, auctions)
           At(w) == IF u \in {w, NoWare} THEN AtAuction(u, auctions[w]) ELSE 0
           Works(g) == g = [r \in SUBSET Wares |-> IF r = {} THEN 0 ELSE At(Picked(r)) + g[r \ {Picked(r)}]]
<1>1. MapThenSumSet(LAMBDA w : IF u \in {w, NoWare} THEN AtAuction(u, auctions[w]) ELSE 0, Wares) = (CHOOSE g : Works(g))[Wares]
    BY DEF MapThenSumSet, MapThenFoldSet, Picked
<1>2. ASSUME NEW r \in SUBSET Wares, r # {}
      PROVE  At(Picked(r)) = f[Picked(r)]
  <2>1. Picked(r) \in Wares
      BY <1>2 DEF Picked
  <2> QED BY <2>1 DEF Stakes
<1>3. IsFiniteSet(Wares)
    BY PostAssumption
<1> HIDE DEF f, At
<1>4. \A g : Works(g) <=> Adds(g, f, Wares)
    BY <1>2 DEF Adds
<1>5. \E g : Works(g)
    BY <1>3, <1>4, AddsExists
<1>6. Adds((CHOOSE g : Works(g)), f, Wares)
  <2> HIDE DEF Works
  <2> QED BY <1>4, <1>5
<1>7. (CHOOSE g : Works(g))[Wares] = Sum(f, Wares)
  <2> HIDE DEF Works
  <2> QED BY <1>3, <1>6, AddsIsSum
<1> QED BY <1>1, <1>7 DEF Sold, f

LEMMA CountIsTotal ==
    ASSUME PipeTypes, PostTypes, NEW u
    PROVE  Count(u) = Total(u)
<1>1. CountIn(u, Asked) = In(u, Asked) /\ CountIn(u, Answered) = In(u, Answered)
    BY PipesAre, CountInIsIn
<1>2. CountIn(u, toInter[m0]) = In(u, Asked) /\ CountIn(u, fromInter[m0]) = In(u, Answered)
    BY <1>1 DEF Asked, Answered
<1>3. Dropped(u) = Gone(u, mislaid)
    BY DEF Dropped, Gone
<1> QED BY <1>2, <1>3, CarriedIsCounted, MailedIsCounted, SoldIsCounted DEF Count, Total

----------------------------------------------------------------------------
(* What a player's copy tells stays true when the request h is handled: the row x becomes x2. *)
Follows(x2, x, h) ==
    /\ x2.id = x.id /\ x2.to = x.to /\ (x.read => x2.read) /\ (~HasParcel(x) => ~HasParcel(x2))
    /\ h = [t |-> "read", id |-> x.id] => x2.read
    /\ h = [t |-> "attach", p |-> x.to, id |-> x.id] /\ x.read => ~HasParcel(x2)
RowsFollow(M2, M, h, w) == \A x2 \in M2 : x2.id <= w => \E x \in M : Follows(x2, x, h)

LEMMA TailIs ==
    ASSUME NEW S, NEW s \in Seq(S), s # <<>>
    PROVE  /\ Tail(s) \in Seq(S) /\ Len(Tail(s)) = Len(s) - 1 /\ Head(s) = s[1] /\ Head(s) \in S /\ 0 < Len(s) /\ Len(s) \in Nat
           /\ \A i \in 1 .. Len(s) - 1 : Tail(s)[i] = s[i + 1]
OBVIOUS

LEMMA ReadShift ==
    ASSUME NEW s \in Seq(Requests), s # <<>>, NEW n \in 1 .. Len(s), NEW x, NEW x2, Follows(x2, x, Head(s)), Read(x, s, n)
    PROVE  Read(x2, Tail(s), n - 1)
<1>1. CASE x.read
    BY <1>1 DEF Read, Follows
<1>2. CASE ~x.read
  <2>1. PICK k \in 1 .. n : s[k] = [t |-> "read", id |-> x.id]
      BY <1>2 DEF Read
  <2>2. CASE k = 1
      BY <2>1, <2>2, TailIs DEF Read, Follows
  <2>3. CASE k # 1
    <3>1. k - 1 \in 1 .. n - 1 /\ k - 1 \in 1 .. Len(s) - 1 /\ (k - 1) + 1 = k
        BY <2>3
    <3>2. Tail(s)[k - 1] = s[k]
        BY <3>1, TailIs
    <3>3. Tail(s)[k - 1] = [t |-> "read", id |-> x2.id]
        BY <2>1, <3>2 DEF Follows
    <3> QED BY <3>1, <3>3 DEF Read
  <2> QED BY <2>2, <2>3
<1> QED BY <1>1, <1>2

LEMMA BareShift ==
    ASSUME NEW s \in Seq(Requests), s # <<>>, NEW n \in 1 .. Len(s), NEW x, NEW x2, Follows(x2, x, Head(s)), Bare(x, s, n)
    PROVE  Bare(x2, Tail(s), n - 1)
<1>1. CASE ~HasParcel(x)
    BY <1>1 DEF Bare, Follows
<1>2. CASE HasParcel(x)
  <2>1. PICK j \in 1 .. n : s[j] = [t |-> "attach", p |-> x.to, id |-> x.id] /\ Read(x, s, j)
      BY <1>2 DEF Bare, Striking
  <2>2. CASE j = 1
    <3>1. x.read
      <4>1. s[1] # [t |-> "read", id |-> x.id]
        <5>1. s[1].t = "attach"
            BY <2>1, <2>2
        <5> QED BY <5>1
      <4>2. \A k \in 1 .. 1 : k = 1
          OBVIOUS
      <4> QED BY <2>1, <2>2, <4>1, <4>2 DEF Read
    <3>2. Head(s) = [t |-> "attach", p |-> x.to, id |-> x.id]
        BY <2>1, <2>2, TailIs
    <3> QED BY <3>1, <3>2 DEF Bare, Follows
  <2>3. CASE j # 1
    <3>1. j - 1 \in 1 .. n - 1 /\ j - 1 \in 1 .. Len(s) - 1 /\ (j - 1) + 1 = j /\ j \in 1 .. Len(s)
        BY <2>3
    <3>2. Tail(s)[j - 1] = s[j]
        BY <3>1, TailIs
    <3>3. Tail(s)[j - 1] = [t |-> "attach", p |-> x2.to, id |-> x2.id]
        BY <2>1, <3>2 DEF Follows
    <3>4. Read(x2, Tail(s), j - 1)
        BY <2>1, <3>1, ReadShift
    <3> QED BY <3>1, <3>3, <3>4 DEF Bare, Striking
  <2> QED BY <2>2, <2>3
<1> QED BY <1>1, <1>2

LEMMA TellsServed ==
    ASSUME NEW s \in Seq(Requests), s # <<>>, NEW n \in 1 .. Len(s), NEW y, NEW p, NEW M, NEW M2, NEW w,
           RowsFollow(M2, M, Head(s), w), y.id <= w, Tells(y, p, M, s, n)
    PROVE  Tells(y, p, M2, Tail(s), n - 1)
<1> SUFFICES ASSUME NEW x2 \in M2, x2.id = y.id
             PROVE  x2.to = p /\ (y.read => Read(x2, Tail(s), n - 1)) /\ (~HasParcel(y) => Bare(x2, Tail(s), n - 1))
    BY DEF Tells
<1>1. PICK x \in M : Follows(x2, x, Head(s))
    BY DEF RowsFollow
<1>2. x.id = y.id /\ x.to = x2.to
    BY <1>1 DEF Follows
<1>3. x.to = p /\ (y.read => Read(x, s, n)) /\ (~HasParcel(y) => Bare(x, s, n))
    BY <1>2 DEF Tells
<1> QED BY <1>1, <1>2, <1>3, ReadShift, BareShift

LEMMA NothingYet == \A x, s : (Read(x, s, 0) <=> x.read) /\ (Bare(x, s, 0) <=> ~HasParcel(x))
<1>1. 1 .. 0 = {}
    OBVIOUS
<1> QED BY <1>1 DEF Read, Bare, Striking

LEMMA PageServed ==
    ASSUME NEW s, NEW s2, NEW h, NEW y, NEW p, NEW M, NEW M2, NEW w,
           RowsFollow(M2, M, h, w), y.id <= w, Tells(y, p, M, s, 0)
    PROVE  Tells(y, p, M2, s2, 0)
<1> SUFFICES ASSUME NEW x2 \in M2, x2.id = y.id
             PROVE  x2.to = p /\ (y.read => x2.read) /\ (~HasParcel(y) => ~HasParcel(x2))
    BY NothingYet DEF Tells
<1>1. PICK x \in M : Follows(x2, x, h)
    BY DEF RowsFollow
<1>2. x.id = y.id /\ x.to = x2.to
    BY <1>1 DEF Follows
<1>3. x.to = p /\ (y.read => x.read) /\ (~HasParcel(y) => ~HasParcel(x))
    BY <1>2, NothingYet DEF Tells
<1> QED BY <1>1, <1>2, <1>3 DEF Follows

(* Further packets, or the same packets and a copy of less. *)
LEMMA BareMore ==
    ASSUME NEW x, NEW s, NEW s2, NEW n \in Nat, NEW n2 \in Nat, n <= n2, \A i \in 1 .. n : s2[i] = s[i]
    PROVE  (Read(x, s, n) => Read(x, s2, n2)) /\ (Bare(x, s, n) => Bare(x, s2, n2))
<1>1. ASSUME NEW j \in 1 .. n, NEW j2 \in 1 .. n2, j <= j2, Read(x, s, j) PROVE Read(x, s2, j2)
  <2>1. CASE x.read
      BY <2>1 DEF Read
  <2>2. CASE ~x.read
    <3>1. PICK k \in 1 .. j : s[k] = [t |-> "read", id |-> x.id]
        BY <1>1, <2>2 DEF Read
    <3>2. k \in 1 .. n /\ k \in 1 .. j2
        BY <1>1
    <3>3. s2[k] = [t |-> "read", id |-> x.id]
        BY <3>1, <3>2
    <3> QED BY <3>2, <3>3 DEF Read
  <2> QED BY <2>1, <2>2
<1>2. ASSUME Read(x, s, n) PROVE Read(x, s2, n2)
  <2>1. CASE n = 0
      BY <1>2, <2>1, NothingYet DEF Read
  <2>2. CASE n # 0
    <3>1. n \in 1 .. n /\ n2 \in 1 .. n2
        BY <2>2
    <3> QED BY <1>1, <1>2, <3>1
  <2> QED BY <2>1, <2>2
<1>3. ASSUME Bare(x, s, n) PROVE Bare(x, s2, n2)
  <2>1. CASE ~HasParcel(x)
      BY <2>1 DEF Bare
  <2>2. CASE HasParcel(x)
    <3>1. PICK j \in 1 .. n : s[j] = [t |-> "attach", p |-> x.to, id |-> x.id] /\ Read(x, s, j)
        BY <1>3, <2>2 DEF Bare, Striking
    <3>2. j \in 1 .. n2 /\ j <= j
        OBVIOUS
    <3>3. Read(x, s2, j)
        BY <1>1, <3>1, <3>2
    <3>4. s2[j] = [t |-> "attach", p |-> x.to, id |-> x.id]
        BY <3>1
    <3> QED BY <3>2, <3>3, <3>4 DEF Bare, Striking
  <2> QED BY <2>1, <2>2
<1> QED BY <1>2, <1>3

LEMMA TellsMore ==
    ASSUME NEW s, NEW s2, NEW n \in Nat, NEW n2 \in Nat, n <= n2, \A i \in 1 .. n : s2[i] = s[i],
           NEW y, NEW p, NEW M, NEW M2, NEW w, \A x2 \in M2 : x2.id <= w => x2 \in M, y.id <= w, Tells(y, p, M, s, n)
    PROVE  Tells(y, p, M2, s2, n2)
<1> SUFFICES ASSUME NEW x \in M2, x.id = y.id
             PROVE  x.to = p /\ (y.read => Read(x, s2, n2)) /\ (~HasParcel(y) => Bare(x, s2, n2))
    BY DEF Tells
<1>1. x \in M
    OBVIOUS
<1>2. x.to = p /\ (y.read => Read(x, s, n)) /\ (~HasParcel(y) => Bare(x, s, n))
    BY <1>1 DEF Tells
<1>3. (Read(x, s, n) => Read(x, s2, n2)) /\ (Bare(x, s, n) => Bare(x, s2, n2))
    BY BareMore
<1> QED BY <1>2, <1>3

(* Appending. *)
LEMMA Appended ==
    ASSUME NEW S, NEW s \in Seq(S), NEW r \in Seq(S)
    PROVE  /\ s \o r \in Seq(S) /\ Len(s \o r) = Len(s) + Len(r) /\ Len(s) \in Nat /\ Len(r) \in Nat
           /\ Len(s) <= Len(s \o r) /\ \A i \in 1 .. Len(s) : (s \o r)[i] = s[i]
           /\ \A i \in 1 .. Len(s \o r) : i \in 1 .. Len(s) \/ \E j \in 1 .. Len(r) : i = Len(s) + j /\ (s \o r)[i] = r[j]
<1>1. s \o r \in Seq(S) /\ Len(s \o r) = Len(s) + Len(r) /\ Len(s) \in Nat /\ Len(r) \in Nat
    BY ConcatProperties
<1>2. \A i \in 1 .. Len(s) + Len(r) : (s \o r)[i] = IF i <= Len(s) THEN s[i] ELSE r[i - Len(s)]
    BY ConcatProperties
<1> DEFINE c == s \o r
           a == Len(s)
           b == Len(r)
<1>3. a \in Nat /\ b \in Nat /\ Len(c) = a + b /\ \A i \in 1 .. a + b : c[i] = IF i <= a THEN s[i] ELSE r[i - a]
    BY <1>1, <1>2
<1> HIDE DEF c, a, b
<1>4. a <= Len(c) /\ \A i \in 1 .. a : c[i] = s[i]
    BY <1>3
<1>5. ASSUME NEW i \in 1 .. Len(c), i \notin 1 .. a PROVE \E j \in 1 .. b : i = a + j /\ c[i] = r[j]
  <2>1. i - a \in 1 .. b /\ i = a + (i - a) /\ c[i] = r[i - a]
      BY <1>3, <1>5
  <2> QED BY <2>1
<1> QED BY <1>1, <1>4, <1>5 DEF c, a, b

----------------------------------------------------------------------------
(* The three kinds of steps.  A player's: packets are added to those asked. *)
LEMMA CopiesAsked ==
    ASSUME PipeTypes, PostTypes, CopiesTell, DeletesBare,
           NEW msgs \in Seq(Requests), Asked' = Asked \o msgs, UNCHANGED <<mails, written>>,
           \A p \in Posters : \A y \in inbox'[p] :
               y \in inbox[p] \/ (y.id <= written /\ Tells(y, p, mails, Asked', Len(Asked'))),
           \A j \in 1 .. Len(msgs) : msgs[j].t = "delete" =>
               \E p \in Posters : \E y \in inbox[p] : y.id = msgs[j].id /\ ~HasParcel(y)
    PROVE  CopiesTell' /\ DeletesBare'
<1> DEFINE s == Asked
           s2 == Asked'
<1>1. s \in Seq(Requests) /\ s2 = s \o msgs
    BY PipesAre
<1> HIDE DEF s, s2
<1>2. /\ s2 \in Seq(Requests) /\ Len(s) \in Nat /\ Len(s2) \in Nat /\ Len(s) <= Len(s2) /\ \A i \in 1 .. Len(s) : s2[i] = s[i]
      /\ \A i \in 1 .. Len(s2) : i \in 1 .. Len(s) \/ \E j \in 1 .. Len(msgs) : i = Len(s) + j /\ s2[i] = msgs[j]
  <2>1. /\ s \o msgs \in Seq(Requests) /\ Len(s) \in Nat /\ Len(s) <= Len(s \o msgs)
        /\ \A i \in 1 .. Len(s) : (s \o msgs)[i] = s[i]
        /\ \A i \in 1 .. Len(s \o msgs) : i \in 1 .. Len(s) \/ \E j \in 1 .. Len(msgs) : i = Len(s) + j /\ (s \o msgs)[i] = msgs[j]
      BY <1>1, Appended
  <2>2. Len(s2) \in Nat
      BY <1>1, <2>1
  <2> QED BY <1>1, <2>1, <2>2
<1>3. ASSUME NEW p \in Posters, NEW y \in inbox'[p]
      PROVE  y.id <= written /\ Tells(y, p, mails, s2, Len(s2))
  <2>1. CASE y \in inbox[p]
    <3>1. y.id <= written /\ Tells(y, p, mails, s, Len(s))
        BY <2>1 DEF CopiesTell, s
    <3>2. \A x2 \in mails : x2.id <= written => x2 \in mails
        OBVIOUS
    <3> QED BY <1>2, <3>1, <3>2, TellsMore
  <2> QED BY <2>1 DEF s2
<1>4. CopiesTell'
    BY <1>3 DEF CopiesTell, s2
<1>5. ASSUME NEW i \in 1 .. Len(s2), s2[i].t = "delete"
      PROVE  s2[i].id <= written /\ \A x \in mails : x.id = s2[i].id => Bare(x, s2, i)
  <2>1. CASE i \in 1 .. Len(s)
    <3>1. s[i].id <= written /\ \A x \in mails : x.id = s[i].id => Bare(x, s, i)
        BY <1>2, <1>5, <2>1 DEF DeletesBare, s
    <3>2. i \in Nat /\ i <= i /\ \A k \in 1 .. i : s2[k] = s[k]
        BY <1>2, <2>1
    <3>3. \A x : Bare(x, s, i) => Bare(x, s2, i)
        BY <3>2, BareMore
    <3> QED BY <1>2, <2>1, <3>1, <3>3
  <2>2. CASE i \notin 1 .. Len(s)
    <3>1. PICK j \in 1 .. Len(msgs) : i = Len(s) + j /\ s2[i] = msgs[j]
        BY <1>2, <2>2
    <3>2. PICK p \in Posters : \E y \in inbox[p] : y.id = msgs[j].id /\ ~HasParcel(y)
        BY <1>5, <3>1
    <3>3. PICK y \in inbox[p] : y.id = msgs[j].id /\ ~HasParcel(y)
        BY <3>2
    <3>4. y.id <= written /\ Tells(y, p, mails, s, Len(s))
        BY DEF CopiesTell, s
    <3>5. \A x \in mails : x.id = y.id => Bare(x, s, Len(s))
        BY <3>3, <3>4 DEF Tells
    <3>6. Len(s) <= i /\ i \in Nat
        BY <1>2, <3>1
    <3>7. \A x : Bare(x, s, Len(s)) => Bare(x, s2, i)
        BY <1>2, <3>6, BareMore
    <3> QED BY <3>1, <3>3, <3>4, <3>5, <3>7
  <2> QED BY <2>1, <2>2
<1>6. DeletesBare'
    BY <1>5 DEF DeletesBare, s2
<1> QED BY <1>4, <1>6

(* Pages already on the way. *)
LEMMA PagesKept ==
    ASSUME PagesTell, UNCHANGED <<mails, written>>,
           \A i \in 1 .. Len(Answered') : \E k \in 1 .. Len(Answered) : Answered'[i] = Answered[k]
    PROVE  PagesTell'
<1>1. ASSUME NEW i \in 1 .. Len(Answered'), Answered'[i].t = "inbox", NEW y \in Answered'[i].page
      PROVE  y.id <= written /\ Tells(y, Answered'[i].p, mails, Asked', 0)
  <2>1. PICK k \in 1 .. Len(Answered) : Answered'[i] = Answered[k]
      OBVIOUS
  <2>2. y.id <= written /\ Tells(y, Answered'[i].p, mails, Asked, 0)
      BY <1>1, <2>1 DEF PagesTell
  <2>3. Tells(y, Answered'[i].p, mails, Asked', 0)
      BY <2>2, NothingYet DEF Tells
  <2> QED BY <2>2, <2>3
<1> QED BY <1>1 DEF PagesTell


LEMMA PlayerKeeps ==
    ASSUME PostInv, NEW msgs \in Seq(Requests),
           toInter' \in [MapServers -> Seq(Requests)], Asked' = Asked \o msgs, UNCHANGED <<fromInter, ends, postTables, mislaid>>,
           poster' \in [Posters -> PosterStates], bag' \in [Posters -> SUBSET Wares], purse' \in [Posters -> Nat],
           inbox' \in [Posters -> SUBSET Rows],
           \A p \in Posters : \A y \in inbox'[p] :
               y \in inbox[p] \/ (y.id <= written /\ Tells(y, p, mails, Asked', Len(Asked'))),
           \A j \in 1 .. Len(msgs) : msgs[j].t = "delete" =>
               \E p \in Posters : \E y \in inbox[p] : y.id = msgs[j].id /\ ~HasParcel(y),
           \A u \in Kinds : Carried(u, bag', purse') + In(u, msgs) = Carried(u, bag, purse)
    PROVE  PostInv'
<1> USE DEF PostInv
<1>1. PipeTypes' /\ PostTypes'
    BY DEF PipeTypes, PostTypes, ends, postTables
<1>2. RowsDiffer' /\ BidsAreForSale'
    BY DEF RowsDiffer, BidsAreForSale, postTables
<1>3. CopiesTell' /\ DeletesBare'
    BY CopiesAsked DEF postTables
<1>4. PagesTell'
    BY PagesKept DEF postTables, Answered
<1>5. ASSUME NEW u \in Kinds PROVE Total(u)' = Total(u)
  <2>1. In(u, Asked \o msgs) = In(u, Asked) + In(u, msgs) /\ In(u, msgs) \in Nat
    <3>1. msgs \in Seq(Messages)
      <4>1. Requests \subseteq Messages
          BY DEF Messages
      <4> QED BY <4>1, SeqMonotonic
    <3> QED BY <3>1, PipesAre, InMore, LoadsType
  <2>2. In(u, Asked)' = In(u, Asked) + In(u, msgs)
      BY <2>1
  <2>3. /\ In(u, Answered)' = In(u, Answered) /\ Mailed(u, mails)' = Mailed(u, mails) /\ Sold(u, auctions)' = Sold(u, auctions)
        /\ Gone(u, mislaid)' = Gone(u, mislaid)
      BY DEF Answered, postTables
  <2>4. Carried(u, bag, purse)' \in Nat /\ Carried(u, bag, purse)' + In(u, msgs) = Carried(u, bag, purse)
      BY CarriedType
  <2>5. /\ Carried(u, bag, purse) \in Nat /\ In(u, Asked) \in Nat /\ In(u, Answered) \in Nat
        /\ Mailed(u, mails) \in Nat /\ Sold(u, auctions) \in Nat /\ Gone(u, mislaid) \in Nat
      BY PartsAre
  <2> DEFINE a == Carried(u, bag, purse)
             a2 == Carried(u, bag, purse)'
             b == In(u, Asked)
             b2 == In(u, Asked)'
             k == In(u, msgs)
             c == In(u, Answered)
             d == Mailed(u, mails)
             e == Sold(u, auctions)
             f == Gone(u, mislaid)
  <2>6. Total(u) = a + b + c + d + e + f /\ Total(u)' = a2 + b2 + c + d + e + f
      BY <2>3 DEF Total
  <2>7. /\ a \in Nat /\ b \in Nat /\ c \in Nat /\ d \in Nat /\ e \in Nat /\ f \in Nat /\ a2 \in Nat /\ k \in Nat
        /\ a2 + k = a /\ b2 = b + k
      BY <2>1, <2>2, <2>4, <2>5
  <2> HIDE DEF a, a2, b, b2, c, d, e, f, k
  <2>8. a2 + b2 + c + d + e + f = a + b + c + d + e + f
      BY <2>7
  <2> QED BY <2>6, <2>8
<1>6. Balanced'
    BY <1>5 DEF Balanced
<1> QED BY <1>1, <1>2, <1>3, <1>4, <1>6

(* The char server's: the first request is taken, and answers are added. *)
LEMMA CopiesServed ==
    ASSUME PipeTypes, PostTypes, CopiesTell, DeletesBare, RowsDiffer, Asked # <<>>, Asked' = Tail(Asked),
           inbox' = inbox, written' \in Nat, written <= written', RowsFollow(mails', mails, Head(Asked), written),
           mails' \subseteq Rows
    PROVE  CopiesTell' /\ DeletesBare'
<1> DEFINE s == Asked
           s2 == Asked'
           h == Head(Asked)
<1>1. s \in Seq(Requests) /\ s # <<>> /\ s2 = Tail(s) /\ h = Head(s)
    BY PipesAre
<1> HIDE DEF s, s2, h
<1>2. Len(s2) = Len(s) - 1 /\ Len(s) \in Nat /\ 0 < Len(s) /\ \A i \in 1 .. Len(s) - 1 : s2[i] = s[i + 1]
    BY <1>1, TailIs
<1>3. ASSUME NEW p \in Posters, NEW y \in inbox[p]
      PROVE  y.id <= written' /\ Tells(y, p, mails', s2, Len(s2))
  <2>1. y.id <= written /\ Tells(y, p, mails, s, Len(s)) /\ y.id \in Nat
    <3>1. y \in Rows
        BY DEF PostTypes
    <3> QED BY <3>1, RowFields DEF CopiesTell, s
  <2>2. y.id <= written'
      BY <2>1 DEF PostTypes
  <2>3. Len(s) \in 1 .. Len(s)
      BY <1>2
  <2>4. Tells(y, p, mails', Tail(s), Len(s) - 1)
      BY <1>1, <2>1, <2>3, TellsServed DEF h
  <2> QED BY <1>1, <1>2, <2>2, <2>4
<1>4. CopiesTell'
    BY <1>3 DEF CopiesTell, s2
<1>5. ASSUME NEW i \in 1 .. Len(s2), s2[i].t = "delete"
      PROVE  s2[i].id <= written' /\ \A x \in mails' : x.id = s2[i].id => Bare(x, s2, i)
  <2>1. i + 1 \in 1 .. Len(s) /\ s2[i] = s[i + 1] /\ (i + 1) - 1 = i
      BY <1>2
  <2>2. s[i + 1].id <= written /\ s[i + 1].id \in Nat /\ \A x \in mails : x.id = s[i + 1].id => Bare(x, s, i + 1)
    <3>1. s[i + 1] \in Requests
        BY <1>1, <2>1
    <3>2. s[i + 1].id \in Nat
        BY <1>5, <2>1, <3>1, RequestFields
    <3> QED BY <1>5, <2>1, <3>2 DEF DeletesBare, s
  <2>3. s2[i].id <= written'
      BY <2>1, <2>2 DEF PostTypes
  <2>4. ASSUME NEW x2 \in mails', x2.id = s2[i].id PROVE Bare(x2, s2, i)
    <3>1. PICK x \in mails : Follows(x2, x, Head(s))
        BY <1>1, <2>1, <2>2, <2>4 DEF RowsFollow, h
    <3>2. x.id = s[i + 1].id
        BY <2>1, <2>4, <3>1 DEF Follows
    <3>3. Bare(x, s, i + 1)
        BY <2>2, <3>2
    <3>4. Bare(x2, Tail(s), (i + 1) - 1)
        BY <1>1, <2>1, <3>1, <3>3, BareShift
    <3> QED BY <1>1, <2>1, <3>4
  <2> QED BY <2>3, <2>4
<1>6. DeletesBare'
    BY <1>5 DEF DeletesBare, s2
<1> QED BY <1>4, <1>6

LEMMA PagesServed ==
    ASSUME PipeTypes, PostTypes, PagesTell, RowsDiffer, NEW rs \in Seq(Answers), Answered' = Answered \o rs,
           written' \in Nat, written <= written', NEW h, RowsFollow(mails', mails, h, written),
           \A j \in 1 .. Len(rs) : rs[j].t = "inbox" => mails' = mails /\ \A y \in rs[j].page : y \in mails /\ y.to = rs[j].p
    PROVE  PagesTell'
<1> DEFINE d == Answered
           d2 == Answered'
<1>1. d \in Seq(Answers) /\ d2 = d \o rs
    BY PipesAre
<1> HIDE DEF d, d2
<1>2. /\ Len(d) \in Nat /\ \A i \in 1 .. Len(d) : d2[i] = d[i]
      /\ \A i \in 1 .. Len(d2) : i \in 1 .. Len(d) \/ \E j \in 1 .. Len(rs) : i = Len(d) + j /\ d2[i] = rs[j]
    BY <1>1, Appended
<1>3. ASSUME NEW i \in 1 .. Len(d2), d2[i].t = "inbox", NEW y \in d2[i].page
      PROVE  y.id <= written' /\ Tells(y, d2[i].p, mails', Asked', 0)
  <2>1. CASE i \in 1 .. Len(d)
    <3>1. y.id <= written /\ Tells(y, d2[i].p, mails, Asked, 0)
        BY <1>2, <1>3, <2>1 DEF PagesTell, d
    <3>2. y.id \in Nat
      <4>1. d[i] \in Answers /\ d2[i] = d[i]
          BY <1>1, <1>2, <2>1
      <4>2. y \in Rows
          BY <1>3, <4>1, AnswerFields
      <4> QED BY <4>2, RowFields
    <3>3. y.id <= written'
        BY <3>1, <3>2 DEF PostTypes
    <3>4. Tells(y, d2[i].p, mails', Asked', 0)
        BY <3>1, PageServed
    <3> QED BY <3>3, <3>4
  <2>2. CASE i \notin 1 .. Len(d)
    <3>1. PICK j \in 1 .. Len(rs) : d2[i] = rs[j]
        BY <1>2, <2>2
    <3>2. mails' = mails /\ y \in mails /\ y.to = d2[i].p
        BY <1>3, <3>1
    <3>3. y.id <= written /\ y.id \in Nat /\ \A x \in mails : x.id = y.id => x = y
        BY <3>2, RowFields DEF RowsDiffer, PostTypes
    <3>4. y.id <= written'
        BY <3>3 DEF PostTypes
    <3>5. Tells(y, d2[i].p, mails', Asked', 0)
        BY <3>2, <3>3, NothingYet DEF Tells
    <3> QED BY <3>4, <3>5
  <2> QED BY <2>1, <2>2
<1> QED BY <1>3 DEF PagesTell, d2

LEMMA AnswersWeigh ==
    ASSUME PipeTypes, NEW u, NEW rs \in Seq(Answers)
    PROVE  In(u, Answered \o rs) = In(u, Answered) + In(u, rs) /\ In(u, rs) \in Nat /\ In(u, Answered) \in Nat
<1>1. rs \in Seq(Messages)
  <2>1. Answers \subseteq Messages
      BY DEF Messages
  <2> QED BY <2>1, SeqMonotonic
<1> QED BY <1>1, PipesAre, InMore, LoadsType

LEMMA ServerKeeps ==
    ASSUME PostInv, Asked # <<>>, toInter' \in [MapServers -> Seq(Requests)], Asked' = Tail(Asked), NEW rs \in Seq(Answers),
           fromInter' \in [MapServers -> Seq(Answers)], Answered' = Answered \o rs,
           UNCHANGED <<ends, poster, bag, purse, inbox, mislaid>>,
           IsFiniteSet(mails'), mails' \subseteq Rows, written' \in Nat, written <= written', auctions' \in [Wares -> Sales],
           RowsDiffer', BidsAreForSale', RowsFollow(mails', mails, Head(Asked), written),
           \A j \in 1 .. Len(rs) : rs[j].t = "inbox" => mails' = mails /\ \A y \in rs[j].page : y \in mails /\ y.to = rs[j].p,
           \A u \in Kinds : In(u, rs) + Mailed(u, mails') + Sold(u, auctions')
                              = InPacket(u, Head(Asked)) + Mailed(u, mails) + Sold(u, auctions)
    PROVE  PostInv'
<1> USE DEF PostInv
<1>1. PipeTypes' /\ PostTypes'
    BY DEF PipeTypes, PostTypes, ends
<1>2. CopiesTell' /\ DeletesBare'
    BY CopiesServed
<1>3. PagesTell'
    BY PagesServed
<1>4. ASSUME NEW u \in Kinds PROVE Total(u)' = Total(u)
  <2>1. In(u, Answered)' = In(u, Answered) + In(u, rs) /\ In(u, rs) \in Nat
      BY AnswersWeigh
  <2>2. In(u, Asked)' = In(u, Asked) - InPacket(u, Head(Asked)) /\ InPacket(u, Head(Asked)) \in Nat
    <3>1. Head(Asked) \in Messages
        BY PipesAre, TailIs
    <3> QED BY <3>1, PipesAre, InTaken, InPacketType
  <2>3. Carried(u, bag, purse)' = Carried(u, bag, purse) /\ Gone(u, mislaid)' = Gone(u, mislaid)
    <3>1. bag' = bag /\ purse' = purse /\ mislaid' = mislaid
        OBVIOUS
    <3> QED BY <3>1
  <2>4. Mailed(u, mails)' \in Nat /\ Sold(u, auctions)' \in Nat
    <3>1. Mailed(u, mails') \in Nat
        BY MailedType
    <3>2. Sold(u, auctions') \in Nat
        BY SoldType
    <3> QED BY <3>1, <3>2
  <2>5. /\ Carried(u, bag, purse) \in Nat /\ In(u, Asked) \in Nat /\ In(u, Answered) \in Nat
        /\ Mailed(u, mails) \in Nat /\ Sold(u, auctions) \in Nat /\ Gone(u, mislaid) \in Nat
      BY PartsAre
  <2>6. In(u, rs) + Mailed(u, mails)' + Sold(u, auctions)' = InPacket(u, Head(Asked)) + Mailed(u, mails) + Sold(u, auctions)
      OBVIOUS
  <2> DEFINE a == Carried(u, bag, purse)
             b == In(u, Asked)
             b2 == In(u, Asked)'
             k == InPacket(u, Head(Asked))
             l == In(u, rs)
             c == In(u, Answered)
             c2 == In(u, Answered)'
             d == Mailed(u, mails)
             d2 == Mailed(u, mails)'
             e == Sold(u, auctions)
             e2 == Sold(u, auctions)'
             f == Gone(u, mislaid)
  <2>7. Total(u) = a + b + c + d + e + f /\ Total(u)' = a + b2 + c2 + d2 + e2 + f
      BY <2>3 DEF Total
  <2>8. /\ a \in Nat /\ b \in Nat /\ c \in Nat /\ d \in Nat /\ e \in Nat /\ f \in Nat /\ d2 \in Nat /\ e2 \in Nat
        /\ k \in Nat /\ l \in Nat /\ b2 = b - k /\ c2 = c + l /\ l + d2 + e2 = k + d + e
      BY <2>1, <2>2, <2>4, <2>5, <2>6
  <2> HIDE DEF a, b, b2, c, c2, d, d2, e, e2, f, k, l
  <2>9. a + b2 + c2 + d2 + e2 + f = a + b + c + d + e + f
      BY <2>8
  <2> QED BY <2>7, <2>9
<1>5. Balanced'
    BY <1>4 DEF Balanced
<1> QED BY <1>1, <1>2, <1>3, <1>5

(* The char server's timer: nothing is asked. *)
LEMMA TimerKeeps ==
    ASSUME PostInv, toInter' = toInter, NEW rs \in Seq(Answers), NEW h,
           fromInter' \in [MapServers -> Seq(Answers)], Answered' = Answered \o rs,
           UNCHANGED <<ends, poster, bag, purse, inbox, mislaid>>,
           IsFiniteSet(mails'), mails' \subseteq Rows, written' \in Nat, written <= written', auctions' \in [Wares -> Sales],
           RowsDiffer', BidsAreForSale', \A x2 \in mails' : x2.id <= written => x2 \in mails, RowsFollow(mails', mails, h, written),
           \A j \in 1 .. Len(rs) : rs[j].t # "inbox",
           \A u \in Kinds : In(u, rs) + Mailed(u, mails') + Sold(u, auctions') = Mailed(u, mails) + Sold(u, auctions)
    PROVE  PostInv'
<1> USE DEF PostInv
<1>1. PipeTypes' /\ PostTypes'
    BY DEF PipeTypes, PostTypes, ends
<1>2. Asked' = Asked
    BY DEF Asked
<1>3. Len(Asked) \in Nat
    BY PipesAre
<1>4. CopiesTell'
  <2>1. ASSUME NEW p \in Posters, NEW y \in inbox[p]
        PROVE  y.id <= written' /\ Tells(y, p, mails', Asked, Len(Asked))
    <3>1. y \in Rows /\ y.id <= written /\ Tells(y, p, mails, Asked, Len(Asked))
        BY DEF PostTypes, CopiesTell
    <3>2. y.id <= written'
        BY <3>1, RowFields DEF PostTypes
    <3>3. Tells(y, p, mails', Asked, Len(Asked))
      <4> DEFINE s == Asked
                 n == Len(Asked)
                 M2 == mails'
      <4>1. n \in Nat /\ n <= n /\ (\A i \in 1 .. n : s[i] = s[i]) /\ Tells(y, p, mails, s, n) /\ y.id <= written
          BY <1>3, <3>1
      <4>2. \A x2 \in M2 : x2.id <= written => x2 \in mails
          OBVIOUS
      <4> HIDE DEF s, n, M2
      <4>3. Tells(y, p, M2, s, n)
          BY <4>1, <4>2, TellsMore
      <4> QED BY <4>3 DEF s, n, M2
    <3> QED BY <3>2, <3>3
  <2>2. inbox' = inbox
      OBVIOUS
  <2> QED BY <1>2, <2>1, <2>2 DEF CopiesTell
<1>5. DeletesBare'
  <2>1. ASSUME NEW i \in 1 .. Len(Asked), Asked[i].t = "delete"
        PROVE  Asked[i].id <= written' /\ \A x \in mails' : x.id = Asked[i].id => Bare(x, Asked, i)
    <3>1. Asked[i].id <= written /\ \A x \in mails : x.id = Asked[i].id => Bare(x, Asked, i)
        BY <2>1 DEF DeletesBare
    <3>2. Asked[i].id \in Nat
      <4>1. Asked[i] \in Requests
          BY PipesAre
      <4> QED BY <2>1, <4>1, RequestFields
    <3>3. Asked[i].id <= written'
        BY <3>1, <3>2 DEF PostTypes
    <3> QED BY <3>1, <3>3
  <2> QED BY <1>2, <2>1 DEF DeletesBare
<1>6. PagesTell'
    BY PagesServed
<1>7. ASSUME NEW u \in Kinds PROVE Total(u)' = Total(u)
  <2>1. In(u, Answered)' = In(u, Answered) + In(u, rs) /\ In(u, rs) \in Nat
      BY AnswersWeigh
  <2>2. In(u, Asked)' = In(u, Asked)
      BY <1>2
  <2>3. Carried(u, bag, purse)' = Carried(u, bag, purse) /\ Gone(u, mislaid)' = Gone(u, mislaid)
    <3>1. bag' = bag /\ purse' = purse /\ mislaid' = mislaid
        OBVIOUS
    <3> QED BY <3>1
  <2>4. Mailed(u, mails)' \in Nat /\ Sold(u, auctions)' \in Nat
    <3>1. Mailed(u, mails') \in Nat
        BY MailedType
    <3>2. Sold(u, auctions') \in Nat
        BY SoldType
    <3> QED BY <3>1, <3>2
  <2>5. /\ Carried(u, bag, purse) \in Nat /\ In(u, Asked) \in Nat /\ In(u, Answered) \in Nat
        /\ Mailed(u, mails) \in Nat /\ Sold(u, auctions) \in Nat /\ Gone(u, mislaid) \in Nat
      BY PartsAre
  <2>6. In(u, rs) + Mailed(u, mails)' + Sold(u, auctions)' = Mailed(u, mails) + Sold(u, auctions)
      OBVIOUS
  <2> DEFINE a == Carried(u, bag, purse)
             b == In(u, Asked)
             l == In(u, rs)
             c == In(u, Answered)
             c2 == In(u, Answered)'
             d == Mailed(u, mails)
             d2 == Mailed(u, mails)'
             e == Sold(u, auctions)
             e2 == Sold(u, auctions)'
             f == Gone(u, mislaid)
  <2>7. Total(u) = a + b + c + d + e + f /\ Total(u)' = a + b + c2 + d2 + e2 + f
      BY <2>2, <2>3 DEF Total
  <2>8. /\ a \in Nat /\ b \in Nat /\ c \in Nat /\ d \in Nat /\ e \in Nat /\ f \in Nat /\ d2 \in Nat /\ e2 \in Nat
        /\ l \in Nat /\ c2 = c + l /\ l + d2 + e2 = d + e
      BY <2>1, <2>4, <2>5, <2>6
  <2> HIDE DEF a, b, c, c2, d, d2, e, e2, f, l
  <2>9. a + b + c2 + d2 + e2 + f = a + b + c + d + e + f
      BY <2>8
  <2> QED BY <2>7, <2>9
<1>8. Balanced'
    BY <1>7 DEF Balanced
<1> QED BY <1>1, <1>4, <1>5, <1>6, <1>8

(* The map server's: the first answer is taken, and packets are asked. *)
LEMMA MapKeeps ==
    ASSUME PostInv, Answered # <<>>, fromInter' \in [MapServers -> Seq(Answers)], Answered' = Tail(Answered),
           NEW msgs \in Seq(Requests), toInter' \in [MapServers -> Seq(Requests)], Asked' = Asked \o msgs,
           UNCHANGED <<ends, postTables>>,
           poster' \in [Posters -> PosterStates], bag' \in [Posters -> SUBSET Wares], purse' \in [Posters -> Nat],
           inbox' \in [Posters -> SUBSET Rows], mislaid' \in Mislaid, mislaid'.all = mislaid.all,
           \A p \in Posters : \A y \in inbox'[p] :
               y \in inbox[p] \/ (y.id <= written /\ Tells(y, p, mails, Asked', Len(Asked'))),
           \A j \in 1 .. Len(msgs) : msgs[j].t # "delete",
           \A u \in Kinds : Carried(u, bag', purse') + In(u, msgs) + Gone(u, mislaid')
                              = Carried(u, bag, purse) + Gone(u, mislaid) + InPacket(u, Head(Answered))
    PROVE  PostInv'
<1> USE DEF PostInv
<1>1. PipeTypes' /\ PostTypes'
    BY DEF PipeTypes, PostTypes, ends, postTables
<1>2. RowsDiffer' /\ BidsAreForSale'
    BY DEF RowsDiffer, BidsAreForSale, postTables
<1>3. CopiesTell' /\ DeletesBare'
    BY CopiesAsked DEF postTables
<1>4. PagesTell'
  <2>1. ASSUME NEW i \in 1 .. Len(Answered') PROVE \E k \in 1 .. Len(Answered) : Answered'[i] = Answered[k]
    <3>1. Len(Answered') = Len(Answered) - 1 /\ Len(Answered) \in Nat /\ \A j \in 1 .. Len(Answered) - 1 : Answered'[j] = Answered[j + 1]
        BY PipesAre, TailIs
    <3>2. i + 1 \in 1 .. Len(Answered) /\ i \in 1 .. Len(Answered) - 1
        BY <2>1, <3>1
    <3> QED BY <3>1, <3>2
  <2> QED BY <2>1, PagesKept DEF postTables
<1>5. ASSUME NEW u \in Kinds PROVE Total(u)' = Total(u)
  <2>1. In(u, Asked \o msgs) = In(u, Asked) + In(u, msgs) /\ In(u, msgs) \in Nat
    <3>1. msgs \in Seq(Messages)
      <4>1. Requests \subseteq Messages
          BY DEF Messages
      <4> QED BY <4>1, SeqMonotonic
    <3> QED BY <3>1, PipesAre, InMore, LoadsType
  <2>2. In(u, Asked)' = In(u, Asked) + In(u, msgs)
      BY <2>1
  <2>3. In(u, Answered)' = In(u, Answered) - InPacket(u, Head(Answered)) /\ InPacket(u, Head(Answered)) \in Nat
    <3>1. Head(Answered) \in Messages
        BY PipesAre, TailIs
    <3> QED BY <3>1, PipesAre, InTaken, InPacketType
  <2>4. Mailed(u, mails)' = Mailed(u, mails) /\ Sold(u, auctions)' = Sold(u, auctions)
      BY DEF postTables
  <2>5. /\ Carried(u, bag, purse)' \in Nat /\ Gone(u, mislaid)' \in Nat
        /\ Carried(u, bag, purse)' + In(u, msgs) + Gone(u, mislaid)'
             = Carried(u, bag, purse) + Gone(u, mislaid) + InPacket(u, Head(Answered))
    <3>1. Carried(u, bag', purse') \in Nat
        BY CarriedType
    <3>2. Gone(u, mislaid') \in Nat
        BY GoneType
    <3> QED BY <3>1, <3>2
  <2>6. /\ Carried(u, bag, purse) \in Nat /\ In(u, Asked) \in Nat /\ In(u, Answered) \in Nat
        /\ Mailed(u, mails) \in Nat /\ Sold(u, auctions) \in Nat /\ Gone(u, mislaid) \in Nat
      BY PartsAre
  <2> DEFINE a == Carried(u, bag, purse)
             a2 == Carried(u, bag, purse)'
             b == In(u, Asked)
             b2 == In(u, Asked)'
             k == In(u, msgs)
             c == In(u, Answered)
             c2 == In(u, Answered)'
             l == InPacket(u, Head(Answered))
             d == Mailed(u, mails)
             e == Sold(u, auctions)
             f == Gone(u, mislaid)
             f2 == Gone(u, mislaid)'
  <2>7. Total(u) = a + b + c + d + e + f /\ Total(u)' = a2 + b2 + c2 + d + e + f2
      BY <2>4 DEF Total
  <2>8. /\ a \in Nat /\ b \in Nat /\ c \in Nat /\ d \in Nat /\ e \in Nat /\ f \in Nat /\ a2 \in Nat /\ k \in Nat /\ f2 \in Nat
        /\ l \in Nat /\ b2 = b + k /\ c2 = c - l /\ a2 + k + f2 = a + f + l
      BY <2>1, <2>2, <2>3, <2>5, <2>6
  <2> HIDE DEF a, a2, b, b2, c, c2, d, e, f, f2, k, l
  <2>9. a2 + b2 + c2 + d + e + f2 = a + b + c + d + e + f
      BY <2>8
  <2> QED BY <2>7, <2>9
<1>6. Balanced'
    BY <1>5 DEF Balanced
<1> QED BY <1>1, <1>2, <1>3, <1>4, <1>6

----------------------------------------------------------------------------
(* The actions.  First: what players send. *)
LEMMA AsksAre ==
    ASSUME PipeTypes, NEW msgs \in Seq(Requests), Asks(msgs), UNCHANGED ends
    PROVE  toInter' \in [MapServers -> Seq(Requests)] /\ Asked' = Asked \o msgs
<1>1. toInter' = [toInter EXCEPT ![m0] = @ \o msgs]
    BY DEF Asks, Send, Sent, PipeTypes
<1>2. Asked \in Seq(Requests) /\ m0 \in MapServers
    BY PipesAre, ServerOfPosters
<1>3. Asked \o msgs \in Seq(Requests)
    BY <1>2, ConcatProperties
<1> DEFINE c == Asked \o msgs
<1>4. toInter' = [toInter EXCEPT ![m0] = c] /\ toInter \in [MapServers -> Seq(Requests)]
    BY <1>1 DEF Asked, PipeTypes
<1> HIDE DEF c
<1>5. toInter' \in [MapServers -> Seq(Requests)] /\ toInter'[m0] = c
    BY <1>2, <1>3, <1>4 DEF c
<1> QED BY <1>5 DEF Asked, c

LEMMA AsksNothing ==
    ASSUME PipeTypes, toInter' = toInter
    PROVE  /\ <<>> \in Seq(Requests) /\ toInter' \in [MapServers -> Seq(Requests)] /\ Asked' = Asked \o <<>>
           /\ \A u : In(u, <<>>) = 0
           /\ \A j \in 1 .. Len(<<>>) : FALSE
<1>1. Asked \in Seq(Requests)
    BY PipesAre
<1>2. Asked \o <<>> = Asked
    BY <1>1, ConcatEmptySeq
<1> QED BY <1>2, InNone DEF Asked, PipeTypes

LEMMA SilentKeeps ==
    ASSUME PostInv, UNCHANGED <<linkVars, postTables, mislaid>>,
           poster' \in [Posters -> PosterStates], bag' \in [Posters -> SUBSET Wares], purse' \in [Posters -> Nat],
           inbox' \in [Posters -> SUBSET Rows], \A p \in Posters : inbox'[p] \subseteq inbox[p],
           \A u \in Kinds : Carried(u, bag', purse') = Carried(u, bag, purse)
    PROVE  PostInv'
<1>1. PipeTypes /\ PostTypes /\ toInter' = toInter
    BY DEF PostInv, linkVars
<1>2. /\ <<>> \in Seq(Requests) /\ toInter' \in [MapServers -> Seq(Requests)] /\ Asked' = Asked \o <<>>
      /\ \A u : In(u, <<>>) = 0
      /\ \A j \in 1 .. Len(<<>>) : FALSE
    BY <1>1, AsksNothing
<1>3. UNCHANGED <<fromInter, ends, postTables, mislaid>>
    BY DEF linkVars, ends
<1>5. ASSUME NEW u \in Kinds PROVE Carried(u, bag', purse') + In(u, <<>>) = Carried(u, bag, purse)
  <2>1. Carried(u, bag', purse') = Carried(u, bag, purse) /\ Carried(u, bag, purse) \in Nat /\ In(u, <<>>) = 0
      BY <1>1, <1>2, PartsAre
  <2> QED BY <2>1
<1>6. \A p \in Posters : \A y \in inbox'[p] : y \in inbox[p]
    OBVIOUS
<1>7. \A j \in 1 .. Len(<<>>) : <<>>[j].t = "delete" => \E p \in Posters : \E y \in inbox[p] : y.id = <<>>[j].id /\ ~HasParcel(y)
    BY <1>2
<1> DEFINE none == <<>>
<1>8. none \in Seq(Requests) /\ Asked' = Asked \o none
    BY <1>2
<1>9. /\ \A u \in Kinds : Carried(u, bag', purse') + In(u, none) = Carried(u, bag, purse)
      /\ \A j \in 1 .. Len(none) : none[j].t = "delete" => \E p \in Posters : \E y \in inbox[p] : y.id = none[j].id /\ ~HasParcel(y)
    BY <1>5, <1>7
<1> HIDE DEF none
<1> QED BY <1>2, <1>3, <1>6, <1>8, <1>9, PlayerKeeps

LEMMA QuietKeeps ==
    ASSUME PostInv, UNCHANGED <<linkVars, bag, purse, postTables, mislaid>>,
           poster' \in [Posters -> PosterStates], inbox' \in [Posters -> SUBSET Rows], \A p \in Posters : inbox'[p] \subseteq inbox[p]
    PROVE  PostInv'
<1>1. UNCHANGED <<linkVars, postTables, mislaid>> /\ bag' = bag /\ purse' = purse
    OBVIOUS
<1>2. bag' \in [Posters -> SUBSET Wares] /\ purse' \in [Posters -> Nat]
    BY <1>1 DEF PostInv, PostTypes
<1>3. \A u \in Kinds : Carried(u, bag', purse') = Carried(u, bag, purse)
    BY <1>1
<1> QED BY <1>1, <1>2, <1>3, SilentKeeps

LEMMA AskingKeeps ==
    ASSUME PostInv, NEW msgs \in Seq(Requests), Asks(msgs), UNCHANGED <<fromInter, ends, bag, purse, postTables, mislaid>>,
           poster' \in [Posters -> PosterStates], inbox' \in [Posters -> SUBSET Rows],
           \A p \in Posters : \A y \in inbox'[p] :
               y \in inbox[p] \/ (y.id <= written /\ Tells(y, p, mails, Asked \o msgs, Len(Asked \o msgs))),
           \A j \in 1 .. Len(msgs) : msgs[j].t = "delete" =>
               \E p \in Posters : \E y \in inbox[p] : y.id = msgs[j].id /\ ~HasParcel(y),
           \A u \in Kinds : In(u, msgs) = 0
    PROVE  PostInv'
<1>1. PipeTypes /\ PostTypes /\ UNCHANGED ends
    BY DEF PostInv
<1>2. toInter' \in [MapServers -> Seq(Requests)] /\ Asked' = Asked \o msgs
    BY <1>1, AsksAre
<1>3. bag' \in [Posters -> SUBSET Wares] /\ purse' \in [Posters -> Nat]
    BY <1>1 DEF PostTypes
<1>4. ASSUME NEW u \in Kinds PROVE Carried(u, bag', purse') + In(u, msgs) = Carried(u, bag, purse)
  <2>1. Carried(u, bag', purse') = Carried(u, bag, purse) /\ Carried(u, bag, purse) \in Nat /\ In(u, msgs) = 0
      BY <1>1, PartsAre
  <2> QED BY <2>1
<1>5. \A p \in Posters : \A y \in inbox'[p] :
               y \in inbox[p] \/ (y.id <= written /\ Tells(y, p, mails, Asked', Len(Asked')))
    BY <1>2
<1> QED BY <1>1, <1>2, <1>3, <1>4, <1>5, PlayerKeeps

(* Packets that carry nothing. *)
LEMMA LightPackets ==
    ASSUME NEW u, NEW s \in Seq(Messages),
           \A i \in 1 .. Len(s) : s[i].t \in {"inbox", "read", "attach", "delete", "return", "cancel", "close",
                                              "struck", "newmail", "mailed", "closed"}
    PROVE  In(u, s) = 0
<1>1. \A i \in 1 .. Len(s) : InPacket(u, s[i]) = 0
    BY DEF InPacket
<1> QED BY <1>1, InEmpty

LEMMA RequestIs ==
    /\ \A p \in Posters : Inbox(p) \in Requests /\ Inbox(p).t = "inbox"
    /\ \A id \in Nat : [t |-> "read", id |-> id] \in Requests
    /\ \A p \in Posters, id \in Nat, how \in {"attach", "delete", "return"} : [t |-> how, p |-> p, id |-> id] \in Requests
    /\ \A p \in Posters, to \in Someone, item \in Kinds, zeny \in Nat :
           [t |-> "mail", from |-> p, to |-> to, item |-> item, zeny |-> zeny] \in Requests
    /\ \A p \in Posters, w \in Wares, z \in Nat :
           [t |-> "register", p |-> p, item |-> w, price |-> z] \in Requests /\ [t |-> "bid", p |-> p, item |-> w, zeny |-> z] \in Requests
    /\ \A p \in Posters, w \in Wares, how \in {"cancel", "close"} : [t |-> how, p |-> p, item |-> w] \in Requests
BY DEF Requests, Inbox

LEMMA RequestsAreMessages == ASSUME NEW s \in Seq(Requests) PROVE s \in Seq(Messages)
<1>1. Requests \subseteq Messages
    BY DEF Messages
<1> QED BY <1>1, SeqMonotonic

LEMMA PosterFields ==
    ASSUME PostTypes, NEW p \in Posters
    PROVE  /\ poster[p].here \in BOOLEAN /\ poster[p].item \in Kinds /\ poster[p].zeny \in Nat /\ poster[p].sale \in Kinds
           /\ poster[p].changed \in BOOLEAN /\ poster[p].full \in BOOLEAN
           /\ bag[p] \subseteq Wares /\ purse[p] \in Nat /\ inbox[p] \subseteq Rows
BY DEF PostTypes, PosterStates

LEMMA PosterChanges ==
    ASSUME PostTypes, NEW p \in Posters
    PROVE  /\ \A w \in Kinds : [poster EXCEPT ![p].item = w] \in [Posters -> PosterStates]
           /\ \A w \in Kinds : [poster EXCEPT ![p].sale = w] \in [Posters -> PosterStates]
           /\ \A z \in Nat : [poster EXCEPT ![p].zeny = z] \in [Posters -> PosterStates]
           /\ Withdraw(p) \in [Posters -> PosterStates]
           /\ \A here \in BOOLEAN : [poster EXCEPT ![p] = Idle(here)] \in [Posters -> PosterStates]
           /\ \A b \in BOOLEAN : [poster EXCEPT ![p].changed = b] \in [Posters -> PosterStates]
           /\ \A b \in BOOLEAN : [poster EXCEPT ![p].changed = FALSE, ![p].full = b] \in [Posters -> PosterStates]
<1>0. poster \in [Posters -> PosterStates] /\ NoWare \in Kinds
    BY DEF PostTypes, Kinds
<1>1. \A w \in Kinds : [poster EXCEPT ![p].item = w] \in [Posters -> PosterStates]
    BY <1>0 DEF PosterStates
<1>2. \A w \in Kinds : [poster EXCEPT ![p].sale = w] \in [Posters -> PosterStates]
    BY <1>0 DEF PosterStates
<1>3. \A z \in Nat : [poster EXCEPT ![p].zeny = z] \in [Posters -> PosterStates]
    BY <1>0 DEF PosterStates
<1>4. Withdraw(p) \in [Posters -> PosterStates]
    BY <1>0 DEF PosterStates, Withdraw
<1>5. \A here \in BOOLEAN : [poster EXCEPT ![p] = Idle(here)] \in [Posters -> PosterStates]
    BY <1>0 DEF PosterStates, Idle
<1>6. \A b \in BOOLEAN : [poster EXCEPT ![p].changed = b] \in [Posters -> PosterStates]
    BY <1>0 DEF PosterStates
<1>7. \A b \in BOOLEAN : [poster EXCEPT ![p].changed = FALSE, ![p].full = b] \in [Posters -> PosterStates]
    BY <1>0 DEF PosterStates
<1> QED BY <1>1, <1>2, <1>3, <1>4, <1>5, <1>6, <1>7

LEMMA QuietActionsKeep ==
    ASSUME PostInv, NEW p \in Posters,
           \/ clif_parse_Mail_setattach(p) \/ clif_parse_Mail_winopen(p) \/ clif_parse_Auction_setitem(p)
           \/ clif_parse_Auction_cancelreg(p) \/ PosterQuits(p)
    PROVE  PostInv'
<1>1. PostTypes
    BY DEF PostInv
<1>2. bag[p] \subseteq Kinds /\ purse[p] \in Nat /\ NoWare \in Kinds
    BY <1>1, PosterFields DEF Kinds
<1>3. \A z \in 1 .. purse[p] : z \in Nat
    BY <1>2
<1>4. poster' \in [Posters -> PosterStates]
  <2>0. /\ \A w \in Kinds : [poster EXCEPT ![p].item = w] \in [Posters -> PosterStates]
        /\ \A w \in Kinds : [poster EXCEPT ![p].sale = w] \in [Posters -> PosterStates]
        /\ \A z \in Nat : [poster EXCEPT ![p].zeny = z] \in [Posters -> PosterStates]
        /\ Withdraw(p) \in [Posters -> PosterStates]
      BY <1>1, PosterChanges
  <2>1. CASE clif_parse_Mail_setattach(p)
    <3>1. \/ \E w \in bag[p] : poster' = [poster EXCEPT ![p].item = w]
          \/ \E z \in 1 .. purse[p] : poster' = [poster EXCEPT ![p].zeny = z]
        BY <2>1 DEF clif_parse_Mail_setattach
    <3>2. \/ \E w \in Kinds : poster' = [poster EXCEPT ![p].item = w]
          \/ \E z \in Nat : poster' = [poster EXCEPT ![p].zeny = z]
        BY <1>2, <1>3, <3>1, Zenon
    <3> QED BY <2>0, <3>2, Zenon
  <2>2. CASE clif_parse_Mail_winopen(p)
    <3>1. poster' = Withdraw(p) \/ poster' = [poster EXCEPT ![p].item = NoWare] \/ poster' = [poster EXCEPT ![p].zeny = 0]
        BY <2>2 DEF clif_parse_Mail_winopen
    <3>2. 0 \in Nat
        OBVIOUS
    <3> QED BY <1>2, <2>0, <3>1, <3>2, Zenon
  <2>3. CASE clif_parse_Auction_setitem(p)
    <3>1. \E w \in Kinds : poster' = [poster EXCEPT ![p].sale = w]
        BY <1>2, <2>3, Zenon DEF clif_parse_Auction_setitem
    <3> QED BY <2>0, <3>1, Zenon
  <2>4. CASE clif_parse_Auction_cancelreg(p)
      BY <1>1, <1>2, <2>4, PosterChanges DEF clif_parse_Auction_cancelreg
  <2>5. CASE PosterQuits(p)
      BY <1>1, <2>5, PosterChanges DEF PosterQuits
  <2> QED BY <2>1, <2>2, <2>3, <2>4, <2>5
<1>5. UNCHANGED <<linkVars, bag, purse, postTables, mislaid>>
    BY DEF clif_parse_Mail_setattach, clif_parse_Mail_winopen, clif_parse_Auction_setitem, clif_parse_Auction_cancelreg, PosterQuits
<1>6. inbox' = inbox \/ inbox' = [inbox EXCEPT ![p] = {}]
    BY DEF clif_parse_Mail_setattach, clif_parse_Mail_winopen, clif_parse_Auction_setitem, clif_parse_Auction_cancelreg, PosterQuits
<1>7. inbox \in [Posters -> SUBSET Rows]
    BY <1>1 DEF PostTypes
<1>8. inbox' \in [Posters -> SUBSET Rows] /\ \A q \in Posters : inbox'[q] \subseteq inbox[q]
    BY <1>6, <1>7
<1> QED BY <1>4, <1>5, <1>8, QuietKeeps

(* Requests that carry nothing and are no deletion, while the copies stay. *)
LEMMA PlainRequestKeeps ==
    ASSUME PostInv, NEW msgs \in Seq(Requests), Asks(msgs), UNCHANGED <<fromInter, ends, bag, purse, inbox, postTables, mislaid>>,
           poster' \in [Posters -> PosterStates],
           \A i \in 1 .. Len(msgs) : msgs[i].t \in {"inbox", "return", "cancel", "close"}
    PROVE  PostInv'
<1>1. \A u \in Kinds : In(u, msgs) = 0
    BY RequestsAreMessages, LightPackets
<1>2. \A j \in 1 .. Len(msgs) : msgs[j].t = "delete" => \E p \in Posters : \E y \in inbox[p] : y.id = msgs[j].id /\ ~HasParcel(y)
    BY Zenon
<1>3. \A p \in Posters : \A y \in inbox'[p] :
               y \in inbox[p] \/ (y.id <= written /\ Tells(y, p, mails, Asked \o msgs, Len(Asked \o msgs)))
    BY Zenon
<1>4. inbox' \in [Posters -> SUBSET Rows]
    BY DEF PostInv, PostTypes
<1>5. UNCHANGED <<fromInter, ends, bag, purse, postTables, mislaid>>
    OBVIOUS
<1> QED BY <1>1, <1>2, <1>3, <1>4, <1>5, AskingKeeps

LEMMA OneMessage ==
    ASSUME NEW S, NEW x \in S
    PROVE  <<x>> \in Seq(S) /\ Len(<<x>>) = 1 /\ <<x>>[1] = x /\ (\A i \in 1 .. Len(<<x>>) : i = 1 /\ <<x>>[i] = x)
           /\ <<>> \in Seq(S) /\ Len(<<>>) = 0 /\ \A i \in 1 .. Len(<<>>) : FALSE
OBVIOUS

LEMMA PlainActionsKeep ==
    ASSUME PostInv, NEW p \in Posters,
           \/ clif_parse_Mail_refreshinbox(p) \/ PosterComes(p) \/ clif_parse_Mail_return(p)
           \/ \E how \in {"cancel", "close"} : EndAuction(p, how)
    PROVE  PostInv'
<1>1. PostTypes /\ poster \in [Posters -> PosterStates]
    BY DEF PostInv, PostTypes
<1>2. Inbox(p) \in Requests /\ Inbox(p).t = "inbox"
    BY RequestIs
<1>3. CASE clif_parse_Mail_refreshinbox(p)
  <2>1. PICK msgs \in {<<Inbox(p)>>, <<>>} : Asks(msgs)
      BY <1>3 DEF clif_parse_Mail_refreshinbox
  <2>2. msgs \in Seq(Requests) /\ \A i \in 1 .. Len(msgs) : msgs[i].t = "inbox"
    <3>1. CASE msgs = <<>>
        BY <3>1
    <3>2. CASE msgs = <<Inbox(p)>>
      <4> DEFINE msg == Inbox(p)
      <4>1. msg \in Requests /\ msg.t = "inbox" /\ msgs = <<msg>>
          BY <1>2, <3>2
      <4> HIDE DEF msg
      <4> QED BY <4>1, OneMessage
    <3> QED BY <3>1, <3>2
  <2>3. poster' \in [Posters -> PosterStates] /\ UNCHANGED <<fromInter, ends, bag, purse, inbox, postTables, mislaid>>
      BY <1>1, <1>3, PosterChanges DEF clif_parse_Mail_refreshinbox
  <2> QED BY <2>1, <2>2, <2>3, PlainRequestKeeps
<1>4. CASE PosterComes(p)
  <2> DEFINE msgs == <<Inbox(p)>>
  <2>1. msgs \in Seq(Requests) /\ \A i \in 1 .. Len(msgs) : msgs[i].t = "inbox"
      BY <1>2, OneMessage
  <2>2. poster' \in [Posters -> PosterStates] /\ UNCHANGED <<fromInter, ends, bag, purse, inbox, postTables, mislaid>> /\ Asks(msgs)
      BY <1>1, <1>4, PosterChanges DEF PosterComes
  <2> HIDE DEF msgs
  <2> QED BY <2>1, <2>2, PlainRequestKeeps
<1>5. CASE clif_parse_Mail_return(p)
  <2>1. PICK x \in inbox[p] : Asks(<<[t |-> "return", p |-> p, id |-> x.id]>>) /\ UNCHANGED <<fromInter, ends, postVars>>
      BY <1>5 DEF clif_parse_Mail_return
  <2> DEFINE msg == [t |-> "return", p |-> p, id |-> x.id]
             msgs == <<msg>>
  <2>2. x.id \in Nat
      BY <1>1, PosterFields, RowFields
  <2>3. msg \in Requests /\ msg.t = "return" /\ Asks(msgs)
      BY <2>1, <2>2, RequestIs
  <2>4. UNCHANGED <<fromInter, ends, bag, purse, inbox, postTables, mislaid>> /\ poster' = poster
      BY <2>1 DEF postVars, postTables
  <2> HIDE DEF msg
  <2>5. msgs \in Seq(Requests) /\ \A i \in 1 .. Len(msgs) : msgs[i].t = "return"
      BY <2>3, OneMessage
  <2> HIDE DEF msgs
  <2> QED BY <1>1, <2>3, <2>4, <2>5, PlainRequestKeeps
<1>6. CASE \E how \in {"cancel", "close"} : EndAuction(p, how)
  <2>1. PICK how \in {"cancel", "close"} : EndAuction(p, how)
      BY <1>6
  <2>2. PICK w \in Wares : Asks(<<[t |-> how, p |-> p, item |-> w]>>)
      BY <2>1 DEF EndAuction
  <2> DEFINE msg == [t |-> how, p |-> p, item |-> w]
             msgs == <<msg>>
  <2>3. msg \in Requests /\ msg.t = how /\ Asks(msgs)
      BY <2>2, RequestIs
  <2>4. UNCHANGED <<fromInter, ends, bag, purse, inbox, postTables, mislaid>> /\ poster' = poster
      BY <2>1 DEF EndAuction, postVars, postTables
  <2> HIDE DEF msg
  <2>5. msgs \in Seq(Requests) /\ \A i \in 1 .. Len(msgs) : msgs[i].t = how
      BY <2>3, OneMessage
  <2> HIDE DEF msgs
  <2> QED BY <1>1, <2>3, <2>4, <2>5, PlainRequestKeeps
<1> QED BY <1>3, <1>4, <1>5, <1>6

LEMMA DeleteKeeps ==
    ASSUME PostInv, NEW p \in Posters, clif_parse_Mail_delete(p)
    PROVE  PostInv'
<1>1. PostTypes /\ poster \in [Posters -> PosterStates]
    BY DEF PostInv, PostTypes
<1>2. PICK x \in inbox[p] : /\ MayDelete(x) /\ Asks(<<[t |-> "delete", p |-> p, id |-> x.id]>>)
                            /\ UNCHANGED <<fromInter, ends, postVars>>
    BY DEF clif_parse_Mail_delete
<1> DEFINE msg == [t |-> "delete", p |-> p, id |-> x.id]
           msgs == <<msg>>
<1>3. x.id \in Nat
    BY <1>1, PosterFields, RowFields
<1>4. msg \in Requests /\ msg.t = "delete" /\ msg.id = x.id /\ Asks(msgs)
    BY <1>2, <1>3, RequestIs
<1>5. UNCHANGED <<fromInter, ends, bag, purse, postTables, mislaid>> /\ poster' = poster /\ inbox' = inbox
    BY <1>2 DEF postVars, postTables
<1> HIDE DEF msg
<1>6. msgs \in Seq(Requests) /\ \A i \in 1 .. Len(msgs) : msgs[i] = msg
    BY <1>4, OneMessage
<1> HIDE DEF msgs
<1>7. \A u \in Kinds : In(u, msgs) = 0
    BY <1>4, <1>6, RequestsAreMessages, LightPackets
<1>8. \A j \in 1 .. Len(msgs) : msgs[j].t = "delete" => \E q \in Posters : \E y \in inbox[q] : y.id = msgs[j].id /\ ~HasParcel(y)
    BY <1>2, <1>4, <1>6 DEF MayDelete
<1>9. \A q \in Posters : \A y \in inbox'[q] :
               y \in inbox[q] \/ (y.id <= written /\ Tells(y, q, mails, Asked \o msgs, Len(Asked \o msgs)))
    BY <1>5, Zenon
<1>10. inbox' \in [Posters -> SUBSET Rows]
    BY <1>1, <1>5 DEF PostTypes
<1> QED BY <1>1, <1>4, <1>5, <1>6, <1>7, <1>8, <1>9, <1>10, AskingKeeps

(* Reading a mail and asking for its attachment: the copy is changed first. *)
LEMMA MarksAre ==
    ASSUME PostTypes, NEW p \in Posters, NEW x \in inbox[p]
    PROVE  /\ Marks(p, x) \in Seq(Requests)
           /\ \A i \in 1 .. Len(Marks(p, x)) : Marks(p, x)[i].t \in {"read", "inbox"}
           /\ x.read => Marks(p, x) = <<>>
           /\ ~x.read => 1 <= Len(Marks(p, x)) /\ Marks(p, x)[1] = [t |-> "read", id |-> x.id]
<1>1. x.id \in Nat
    BY PosterFields, RowFields
<1> DEFINE a == [t |-> "read", id |-> x.id]
           b == Inbox(p)
<1>2. a \in Requests /\ a.t = "read" /\ b \in Requests /\ b.t = "inbox"
    BY <1>1, RequestIs
<1>3. CASE x.read
    BY <1>3 DEF Marks
<1>4. CASE ~x.read
  <2>1. Marks(p, x) = <<a>> \o IF Refreshes(p) THEN <<b>> ELSE <<>>
      BY <1>4 DEF Marks
  <2> HIDE DEF a, b
  <2>2. CASE Refreshes(p)
    <3>1. Marks(p, x) = <<a, b>>
        BY <2>1, <2>2, TwoInOne
    <3>2. <<a, b>> \in Seq(Requests) /\ Len(<<a, b>>) = 2 /\ <<a, b>>[1] = a /\ <<a, b>>[2] = b
        BY <1>2
    <3> QED BY <1>2, <1>4, <3>1, <3>2 DEF a
  <2>3. CASE ~Refreshes(p)
    <3>1. <<a>> \in Seq(Requests)
        BY <1>2
    <3>2. Marks(p, x) = <<a>>
        BY <2>1, <2>3, <3>1, ConcatEmptySeq
    <3> QED BY <1>2, <1>4, <3>1, <3>2 DEF a
  <2> QED BY <2>2, <2>3
<1> QED BY <1>3, <1>4

LEMMA ReadIsAsked ==
    ASSUME PipeTypes, PostTypes, CopiesTell, NEW p \in Posters, NEW x \in inbox[p], NEW msgs \in Seq(Requests),
           NEW k \in Nat, k <= Len(msgs), x.read \/ (1 <= k /\ msgs[1] = [t |-> "read", id |-> x.id]),
           NEW r \in mails, r.id = x.id
    PROVE  Read(r, Asked \o msgs, Len(Asked) + k)
<1> DEFINE s == Asked
           s2 == Asked \o msgs
           n == Len(Asked)
<1>1. s \in Seq(Requests) /\ s2 = s \o msgs /\ n = Len(s)
    BY PipesAre
<1>2. /\ n \in Nat /\ Len(s2) = n + Len(msgs) /\ Len(msgs) \in Nat /\ \A i \in 1 .. n : s2[i] = s[i]
      /\ \A i \in 1 .. Len(msgs) : s2[n + i] = msgs[i]
  <2> HIDE DEF s, s2, n
  <2>1. Len(s) \in Nat /\ Len(s2) = n + Len(msgs) /\ Len(msgs) \in Nat /\ \A i \in 1 .. Len(s) : s2[i] = s[i]
      BY <1>1, Appended
  <2>2. ASSUME NEW i \in 1 .. Len(msgs) PROVE s2[n + i] = msgs[i]
    <3>1. n + i \in 1 .. n + Len(msgs) /\ ~(n + i <= n) /\ (n + i) - n = i
        BY <1>1, <2>1
    <3>2. \A j \in 1 .. Len(s) + Len(msgs) : s2[j] = IF j <= Len(s) THEN s[j] ELSE msgs[j - Len(s)]
        BY <1>1, ConcatProperties
    <3> QED BY <1>1, <3>1, <3>2
  <2> QED BY <1>1, <2>1, <2>2
<1>3. Tells(x, p, mails, s, n)
    BY DEF CopiesTell
<1> HIDE DEF s, s2, n
<1>4. CASE x.read
  <2>1. Read(r, s, n)
      BY <1>3, <1>4 DEF Tells
  <2>2. n <= n + k /\ n + k \in Nat
      BY <1>2
  <2>3. Read(r, s2, n + k)
      BY <1>2, <2>1, <2>2, BareMore
  <2> QED BY <2>3 DEF s2, n
<1>5. CASE ~x.read
  <2>1. n + 1 \in 1 .. n + k /\ s2[n + 1] = [t |-> "read", id |-> r.id]
      BY <1>2, <1>5
  <2>2. Read(r, s2, n + k)
      BY <2>1 DEF Read
  <2> QED BY <2>2 DEF s2, n
<1> QED BY <1>4, <1>5

LEMMA CopyFields ==
    ASSUME NEW x \in Rows
    PROVE  /\ Shown(x) \in Rows /\ Shown(x).id = x.id /\ Shown(x).to = x.to /\ Shown(x).from = x.from /\ Shown(x).read
           /\ Shown(x).item = x.item /\ Shown(x).zeny = x.zeny /\ (HasParcel(Shown(x)) <=> HasParcel(x))
           /\ Emptied(x) \in Rows /\ Emptied(x).id = x.id /\ Emptied(x).to = x.to /\ Emptied(x).read = x.read
           /\ Emptied(x).item = NoWare /\ Emptied(x).zeny = 0 /\ ~HasParcel(Emptied(x))
<1>1. NoWare \in Kinds /\ 0 \in Nat
    BY DEF Kinds
<1>2. /\ Shown(x) \in Rows /\ Shown(x).id = x.id /\ Shown(x).to = x.to /\ Shown(x).from = x.from /\ Shown(x).read
      /\ Shown(x).item = x.item /\ Shown(x).zeny = x.zeny
    BY DEF Rows, Shown
<1>3. Emptied(x) \in Rows
    BY <1>1 DEF Rows, Emptied
<1>4. Emptied(x).id = x.id /\ Emptied(x).to = x.to /\ Emptied(x).read = x.read
    BY DEF Rows, Emptied
<1>5. Emptied(x).item = NoWare /\ Emptied(x).zeny = 0
    BY DEF Rows, Emptied
<1>6. ~HasParcel(Emptied(x))
    BY <1>5 DEF HasParcel
<1>7. HasParcel(Shown(x)) <=> HasParcel(x)
    BY <1>2 DEF HasParcel
<1> QED BY <1>2, <1>3, <1>4, <1>5, <1>6, <1>7

LEMMA OneCopyChanges ==
    ASSUME PostTypes, NEW p \in Posters, NEW x \in inbox[p], NEW y \in Rows,
           inbox' = [inbox EXCEPT ![p] = (@ \ {x}) \cup {y}]
    PROVE  inbox' \in [Posters -> SUBSET Rows] /\ \A q \in Posters : \A z \in inbox'[q] : z \in inbox[q] \/ (q = p /\ z = y)
BY DEF PostTypes

LEMMA ReadKeeps ==
    ASSUME PostInv, NEW p \in Posters, clif_parse_Mail_read(p)
    PROVE  PostInv'
<1>1. PipeTypes /\ PostTypes /\ CopiesTell
    BY DEF PostInv
<1>2. PICK x \in inbox[p] : /\ ~x.read /\ Asks(Marks(p, x)) /\ inbox' = [inbox EXCEPT ![p] = (@ \ {x}) \cup {Shown(x)}]
                            /\ poster' = Withdraw(p)
                            /\ UNCHANGED <<fromInter, ends, bag, purse, postTables, mislaid>>
    BY DEF clif_parse_Mail_read
<1> DEFINE msgs == Marks(p, x)
           y == Shown(x)
<1>3. x \in Rows /\ y \in Rows /\ y.id = x.id /\ (HasParcel(y) <=> HasParcel(x))
  <2>1. x \in Rows
      BY <1>1, PosterFields
  <2> QED BY <2>1, CopyFields
<1>4. /\ msgs \in Seq(Requests) /\ 1 <= Len(msgs) /\ msgs[1] = [t |-> "read", id |-> x.id]
      /\ \A i \in 1 .. Len(msgs) : msgs[i].t \in {"read", "inbox"}
    BY <1>1, <1>2, MarksAre
<1>5. inbox' \in [Posters -> SUBSET Rows] /\ \A q \in Posters : \A z \in inbox'[q] : z \in inbox[q] \/ (q = p /\ z = y)
    BY <1>1, <1>2, <1>3, OneCopyChanges
<1> HIDE DEF msgs, y
<1>6. x.id <= written /\ Tells(x, p, mails, Asked, Len(Asked))
    BY <1>1 DEF CopiesTell
<1>7. Tells(y, p, mails, Asked \o msgs, Len(Asked \o msgs))
  <2> SUFFICES ASSUME NEW r \in mails, r.id = x.id
               PROVE  r.to = p /\ Read(r, Asked \o msgs, Len(Asked \o msgs)) /\ (~HasParcel(x) => Bare(r, Asked \o msgs, Len(Asked \o msgs)))
      BY <1>3 DEF Tells
  <2>1. r.to = p /\ (~HasParcel(x) => Bare(r, Asked, Len(Asked)))
      BY <1>6 DEF Tells
  <2>2. /\ Len(Asked \o msgs) = Len(Asked) + Len(msgs) /\ Len(msgs) \in Nat /\ Len(Asked) \in Nat /\ Len(Asked) <= Len(Asked \o msgs)
        /\ \A i \in 1 .. Len(Asked) : (Asked \o msgs)[i] = Asked[i]
      BY <1>1, <1>4, PipesAre, Appended
  <2>3. Read(r, Asked \o msgs, Len(Asked) + Len(msgs))
    <3>1. Len(msgs) \in Nat /\ Len(msgs) <= Len(msgs)
        BY <2>2
    <3> QED BY <1>1, <1>4, <3>1, ReadIsAsked
  <2> DEFINE s == Asked
             s2 == Asked \o msgs
  <2>4. Len(s) \in Nat /\ Len(s2) \in Nat /\ Len(s) <= Len(s2) /\ \A i \in 1 .. Len(s) : s2[i] = s[i]
      BY <2>2
  <2>5. Read(r, s2, Len(s2)) /\ (~HasParcel(x) => Bare(r, s, Len(s)))
      BY <2>1, <2>2, <2>3
  <2> HIDE DEF s, s2
  <2>6. Bare(r, s, Len(s)) => Bare(r, s2, Len(s2))
      BY <2>4, BareMore
  <2> QED BY <2>1, <2>5, <2>6 DEF s2
<1>8. \A q \in Posters : \A z \in inbox'[q] :
          z \in inbox[q] \/ (z.id <= written /\ Tells(z, q, mails, Asked \o msgs, Len(Asked \o msgs)))
    BY <1>3, <1>5, <1>6, <1>7
<1>9. \A u \in Kinds : In(u, msgs) = 0
    BY <1>4, RequestsAreMessages, LightPackets
<1>10. poster' \in [Posters -> PosterStates] /\ Asks(msgs)
    BY <1>1, <1>2, PosterChanges DEF msgs
<1>11. \A j \in 1 .. Len(msgs) : msgs[j].t = "delete" => \E q \in Posters : \E z \in inbox[q] : z.id = msgs[j].id /\ ~HasParcel(z)
    BY <1>4
<1>12. UNCHANGED <<fromInter, ends, bag, purse, postTables, mislaid>>
    BY <1>2
<1> QED BY <1>4, <1>5, <1>8, <1>9, <1>10, <1>11, <1>12, AskingKeeps

LEMMA GetattachKeeps ==
    ASSUME PostInv, NEW p \in Posters, clif_parse_Mail_getattach(p)
    PROVE  PostInv'
<1>1. PipeTypes /\ PostTypes /\ CopiesTell
    BY DEF PostInv
<1>2. PICK x \in inbox[p] : /\ Asks(Marks(p, x) \o <<[t |-> "attach", p |-> p, id |-> x.id]>>)
                            /\ inbox' = [inbox EXCEPT ![p] = (@ \ {x}) \cup {Shown(Emptied(x))}]
                            /\ poster' = IF x.read THEN poster ELSE Withdraw(p)
                            /\ UNCHANGED <<fromInter, ends, bag, purse, postTables, mislaid>>
    BY DEF clif_parse_Mail_getattach
<1> DEFINE msg == [t |-> "attach", p |-> p, id |-> x.id]
           marks == Marks(p, x)
           msgs == marks \o <<msg>>
           L == Len(msgs)
           y == Shown(Emptied(x))
<1>3. x \in Rows /\ x.id \in Nat /\ y \in Rows /\ y.id = x.id
  <2>1. x \in Rows
      BY <1>1, PosterFields
  <2> QED BY <2>1, CopyFields, RowFields
<1>4. msg \in Requests /\ msg.t = "attach"
    BY <1>3, RequestIs
<1>5. /\ marks \in Seq(Requests) /\ (\A i \in 1 .. Len(marks) : marks[i].t \in {"read", "inbox"})
      /\ ~x.read => 1 <= Len(marks) /\ marks[1] = [t |-> "read", id |-> x.id]
    BY <1>1, MarksAre
<1>6. /\ msgs \in Seq(Requests) /\ L \in Nat /\ 1 <= L /\ msgs[L] = msg /\ (~x.read => msgs[1] = [t |-> "read", id |-> x.id])
      /\ \A i \in 1 .. L : msgs[i].t \in {"read", "inbox", "attach"}
  <2> DEFINE one == <<msg>>
  <2>1. one \in Seq(Requests) /\ Len(one) = 1 /\ one[1] = msg
      BY <1>4, OneMessage
  <2> HIDE DEF one, marks, msg
  <2>2. /\ marks \o one \in Seq(Requests) /\ Len(marks \o one) = Len(marks) + 1 /\ Len(marks) \in Nat
        /\ \A i \in 1 .. Len(marks) : (marks \o one)[i] = marks[i]
        /\ \A i \in 1 .. Len(marks \o one) : i \in 1 .. Len(marks) \/ \E j \in 1 .. Len(one) : i = Len(marks) + j /\ (marks \o one)[i] = one[j]
    <3>1. Len(marks \o one) = Len(marks) + Len(one)
        BY <1>5, <2>1, Appended
    <3> QED BY <1>5, <2>1, <3>1, Appended
  <2>3. msgs = marks \o one
      BY DEF one
  <2> HIDE DEF msgs
  <2>4. \A i \in 1 .. L : i \in 1 .. Len(marks) \/ msgs[i] = msg
      BY <2>1, <2>2, <2>3
  <2>5. L \in 1 .. L /\ L \notin 1 .. Len(marks)
      BY <2>2, <2>3
  <2>6. msgs[L] = msg
      BY <2>4, <2>5
  <2>7. ~x.read => msgs[1] = [t |-> "read", id |-> x.id]
      BY <1>5, <2>2, <2>3
  <2>8. msgs \in Seq(Requests) /\ L \in Nat /\ 1 <= L
      BY <2>2, <2>3
  <2>9. \A i \in 1 .. Len(marks) : msgs[i] = marks[i]
      BY <2>2, <2>3
  <2> HIDE DEF L
  <2>10. \A i \in 1 .. L : msgs[i].t \in {"read", "inbox", "attach"}
    <3> TAKE i \in 1 .. L
    <3>1. CASE i \in 1 .. Len(marks)
      <4>1. msgs[i] = marks[i] /\ marks[i].t \in {"read", "inbox"}
          BY <1>5, <2>9, <3>1, Zenon
      <4> QED BY <4>1
    <3>2. CASE msgs[i] = msg
        BY <1>4, <3>2
    <3> QED BY <2>4, <3>1, <3>2
  <2> QED BY <2>6, <2>7, <2>8, <2>10
<1>7. inbox' \in [Posters -> SUBSET Rows] /\ \A q \in Posters : \A z \in inbox'[q] : z \in inbox[q] \/ (q = p /\ z = y)
    BY <1>1, <1>2, <1>3, OneCopyChanges
<1>8. Asks(msgs)
    BY <1>2
<1>9. x.id <= written /\ Tells(x, p, mails, Asked, Len(Asked))
    BY <1>1 DEF CopiesTell
<1>10. msg = [t |-> "attach", p |-> p, id |-> x.id]
    OBVIOUS
<1> HIDE DEF msgs, y, msg, marks
<1>11. Tells(y, p, mails, Asked \o msgs, Len(Asked \o msgs))
  <2> SUFFICES ASSUME NEW r \in mails, r.id = x.id
               PROVE  r.to = p /\ Read(r, Asked \o msgs, Len(Asked \o msgs)) /\ Bare(r, Asked \o msgs, Len(Asked \o msgs))
      BY <1>3 DEF Tells
  <2>1. r.to = p
      BY <1>9 DEF Tells
  <2>2. Asked \in Seq(Requests) /\ Len(Asked \o msgs) = Len(Asked) + L /\ Len(Asked) \in Nat
      BY <1>1, <1>6, PipesAre, Appended
  <2>3. Read(r, Asked \o msgs, Len(Asked) + L)
      BY <1>1, <1>6, ReadIsAsked
  <2> DEFINE s2 == Asked \o msgs
             n2 == Len(s2)
  <2>4. n2 \in 1 .. n2 /\ Read(r, s2, n2)
      BY <1>6, <2>2, <2>3
  <2>5. s2[n2] = [t |-> "attach", p |-> r.to, id |-> r.id]
    <3>1. \A i \in 1 .. Len(Asked) + Len(msgs) : s2[i] = IF i <= Len(Asked) THEN Asked[i] ELSE msgs[i - Len(Asked)]
        BY <1>6, <2>2, ConcatProperties
    <3>2. n2 = Len(Asked) + L /\ n2 \in 1 .. Len(Asked) + Len(msgs) /\ ~(n2 <= Len(Asked)) /\ n2 - Len(Asked) = L
        BY <1>6, <2>2
    <3> HIDE DEF s2, n2, L
    <3>3. s2[n2] = msgs[L]
        BY <3>1, <3>2
    <3> QED BY <1>6, <1>10, <2>1, <3>3
  <2> HIDE DEF s2, n2
  <2>6. Bare(r, s2, n2)
      BY <2>4, <2>5 DEF Bare, Striking
  <2> QED BY <2>1, <2>4, <2>6 DEF s2, n2
<1>12. \A q \in Posters : \A z \in inbox'[q] :
          z \in inbox[q] \/ (z.id <= written /\ Tells(z, q, mails, Asked \o msgs, Len(Asked \o msgs)))
    BY <1>3, <1>7, <1>9, <1>11
<1>13. \A u \in Kinds : In(u, msgs) = 0
    BY <1>6, RequestsAreMessages, LightPackets
<1>14. poster' \in [Posters -> PosterStates]
  <2>1. Withdraw(p) \in [Posters -> PosterStates] /\ poster \in [Posters -> PosterStates]
      BY <1>1, PosterChanges DEF PostTypes
  <2> QED BY <1>2, <2>1
<1>15. \A j \in 1 .. Len(msgs) : msgs[j].t = "delete" => \E q \in Posters : \E z \in inbox[q] : z.id = msgs[j].id /\ ~HasParcel(z)
    BY <1>6
<1>16. UNCHANGED <<fromInter, ends, bag, purse, postTables, mislaid>>
    BY <1>2
<1> QED BY <1>6, <1>7, <1>8, <1>12, <1>13, <1>14, <1>15, <1>16, AskingKeeps

(* Goods sent away. *)
LEMMA GoodsKeep ==
    ASSUME PostInv, NEW p \in Posters, NEW msg \in Requests, Asks(<<msg>>), msg.t # "delete",
           UNCHANGED <<fromInter, ends, inbox, postTables, mislaid>>, poster' \in [Posters -> PosterStates],
           bag' \in [Posters -> SUBSET Wares], purse' \in [Posters -> Nat],
           \A q \in Posters : q # p => bag'[q] = bag[q] /\ purse'[q] = purse[q],
           \A u \in Kinds : Holding(u, bag'[p], purse'[p]) + InPacket(u, msg) = Holding(u, bag[p], purse[p])
    PROVE  PostInv'
<1>1. PipeTypes /\ PostTypes /\ UNCHANGED ends
    BY DEF PostInv
<1> DEFINE msgs == <<msg>>
<1>2. msgs \in Seq(Requests) /\ Asks(msgs) /\ \A i \in 1 .. Len(msgs) : msgs[i] = msg
    BY OneMessage
<1>3. \A u : In(u, msgs) = InPacket(u, msg) /\ InPacket(u, msg) \in Nat
  <2>1. msg \in Messages
      BY DEF Messages
  <2> QED BY <2>1, InOne, InPacketType
<1> HIDE DEF msgs
<1>4. toInter' \in [MapServers -> Seq(Requests)] /\ Asked' = Asked \o msgs
    BY <1>1, <1>2, AsksAre
<1>5. ASSUME NEW u \in Kinds PROVE Carried(u, bag', purse') + In(u, msgs) = Carried(u, bag, purse)
  <2>1. Carried(u, bag', purse') = Carried(u, bag, purse) + Holding(u, bag'[p], purse'[p]) - Holding(u, bag[p], purse[p])
    <3> DEFINE b2 == bag'
               z2 == purse'
    <3>1. /\ purse \in [Posters -> Nat] /\ z2 \in [Posters -> Nat]
          /\ \A q \in Posters : q # p => b2[q] = bag[q] /\ z2[q] = purse[q]
        BY <1>1 DEF PostTypes
    <3> HIDE DEF b2, z2
    <3>2. Carried(u, b2, z2) = Carried(u, bag, purse) + Holding(u, b2[p], z2[p]) - Holding(u, bag[p], purse[p])
        BY <3>1, CarriedChange
    <3> QED BY <3>2 DEF b2, z2
  <2>2. Carried(u, bag, purse) \in Nat /\ Holding(u, bag[p], purse[p]) \in Nat
      BY <1>1, PartsAre, CarriedBounds DEF PostTypes
  <2>3. Holding(u, bag'[p], purse'[p]) \in Nat
      BY DEF Holding
  <2>4. Holding(u, bag'[p], purse'[p]) + In(u, msgs) = Holding(u, bag[p], purse[p]) /\ In(u, msgs) \in Nat
      BY <1>3
  <2> QED BY <2>1, <2>2, <2>3, <2>4
<1>6. inbox' \in [Posters -> SUBSET Rows] /\ \A q \in Posters : \A y \in inbox'[q] : y \in inbox[q]
    BY <1>1 DEF PostTypes
<1>7. \A j \in 1 .. Len(msgs) : msgs[j].t = "delete" => \E q \in Posters : \E y \in inbox[q] : y.id = msgs[j].id /\ ~HasParcel(y)
    BY <1>2
<1>8. UNCHANGED <<fromInter, ends, postTables, mislaid>>
    OBVIOUS
<1> QED BY <1>2, <1>4, <1>5, <1>6, <1>7, <1>8, PlayerKeeps

LEMMA BagChanges ==
    ASSUME PostTypes, NEW p \in Posters, NEW b \in SUBSET Wares, NEW z \in Nat
    PROVE  /\ [bag EXCEPT ![p] = b] \in [Posters -> SUBSET Wares] /\ [bag EXCEPT ![p] = b][p] = b
           /\ [purse EXCEPT ![p] = z] \in [Posters -> Nat] /\ [purse EXCEPT ![p] = z][p] = z
           /\ \A q \in Posters : q # p => [bag EXCEPT ![p] = b][q] = bag[q] /\ [purse EXCEPT ![p] = z][q] = purse[q]
BY DEF PostTypes

LEMMA SendKeeps ==
    ASSUME PostInv, NEW p \in Posters, NEW to \in Someone, clif_parse_Mail_send(p, to)
    PROVE  PostInv'
<1>1. PipeTypes /\ PostTypes
    BY DEF PostInv
<1> DEFINE w == poster[p].item
           z == poster[p].zeny
<1>2. w \in Kinds /\ z \in Nat /\ bag[p] \subseteq Wares /\ purse[p] \in Nat
    BY <1>1, PosterFields
<1>3. poster' \in [Posters -> PosterStates]
    BY <1>1, PosterChanges DEF clif_parse_Mail_send
<1>4. UNCHANGED <<fromInter, ends, inbox, postTables, mislaid>>
    BY DEF clif_parse_Mail_send
<1>5. CASE StillHas(p)
  <2> DEFINE msg == [t |-> "mail", from |-> p, to |-> to, item |-> w, zeny |-> z]
             b2 == bag[p] \ {w}
             z2 == purse[p] - z
  <2>1. bag' = [bag EXCEPT ![p] = b2] /\ purse' = [purse EXCEPT ![p] = z2] /\ Asks(<<msg>>)
      BY <1>5 DEF clif_parse_Mail_send
  <2>2. z <= purse[p] /\ (w # NoWare => w \in bag[p])
      BY <1>5 DEF StillHas, Some
  <2>3. b2 \in SUBSET Wares /\ z2 \in Nat
      BY <1>2, <2>2
  <2>4. msg \in Requests /\ msg.t = "mail" /\ msg.item = w /\ msg.zeny = z
      BY <1>2, RequestIs
  <2>5. ASSUME NEW u \in Kinds PROVE Holding(u, b2, z2) + InPacket(u, msg) = Holding(u, bag[p], purse[p])
    <3>1. InPacket(u, msg) = Of(u, w, z)
        BY <2>4 DEF InPacket
    <3>2. CASE u = NoWare
        BY <1>2, <3>1, <3>2 DEF Of, Holding
    <3>3. CASE u # NoWare
        BY <1>2, <2>2, <3>1, <3>3 DEF Of, Holding
    <3> QED BY <3>2, <3>3
  <2> HIDE DEF msg, b2, z2
  <2>6. /\ bag' \in [Posters -> SUBSET Wares] /\ bag'[p] = b2 /\ purse' \in [Posters -> Nat] /\ purse'[p] = z2
        /\ \A q \in Posters : q # p => bag'[q] = bag[q] /\ purse'[q] = purse[q]
      BY <1>1, <2>1, <2>3, BagChanges
  <2>7. msg.t # "delete"
      BY <2>4
  <2>8. \A u \in Kinds : Holding(u, bag'[p], purse'[p]) + InPacket(u, msg) = Holding(u, bag[p], purse[p])
      BY <2>5, <2>6
  <2> QED BY <1>3, <1>4, <2>1, <2>4, <2>6, <2>7, <2>8, GoodsKeep
<1>6. CASE ~StillHas(p)
  <2>1. UNCHANGED <<bag, purse, toInter>>
      BY <1>6 DEF clif_parse_Mail_send
  <2>2. UNCHANGED <<linkVars, bag, purse, postTables, mislaid>> /\ inbox' = inbox
      BY <1>4, <2>1 DEF linkVars, ends
  <2>3. inbox' \in [Posters -> SUBSET Rows] /\ \A q \in Posters : inbox'[q] \subseteq inbox[q]
      BY <1>1, <2>2 DEF PostTypes
  <2> QED BY <1>3, <2>2, <2>3, QuietKeeps
<1> QED BY <1>5, <1>6

LEMMA RegisterKeeps ==
    ASSUME PostInv, NEW p \in Posters, clif_parse_Auction_register(p)
    PROVE  PostInv'
<1>1. PipeTypes /\ PostTypes
    BY DEF PostInv
<1> DEFINE w == poster[p].sale
<1>2. w \in bag[p] /\ bag[p] \subseteq Wares /\ purse[p] \in Nat /\ NoWare \notin Wares
    BY <1>1, PosterFields, ServerOfPosters DEF clif_parse_Auction_register
<1>3. PICK price \in 0 .. BuyNow - 1 : Asks(<<[t |-> "register", p |-> p, item |-> w, price |-> price]>>)
    BY DEF clif_parse_Auction_register
<1> DEFINE msg == [t |-> "register", p |-> p, item |-> w, price |-> price]
           b2 == bag[p] \ {w}
<1>4. price \in Nat
    BY ServerOfPosters
<1>5. msg \in Requests /\ msg.t = "register" /\ msg.item = w /\ Asks(<<msg>>)
    BY <1>2, <1>3, <1>4, RequestIs
<1>6. bag' = [bag EXCEPT ![p] = b2] /\ purse' = purse /\ UNCHANGED <<fromInter, ends, inbox, postTables, mislaid>>
    BY DEF clif_parse_Auction_register
<1>7. poster' \in [Posters -> PosterStates]
  <2>1. NoWare \in Kinds /\ \A v \in Kinds : [poster EXCEPT ![p].sale = v] \in [Posters -> PosterStates]
      BY <1>1, PosterChanges DEF Kinds
  <2>2. poster' = [poster EXCEPT ![p].sale = NoWare]
      BY DEF clif_parse_Auction_register
  <2> QED BY <2>1, <2>2, Zenon
<1>8. ASSUME NEW u \in Kinds PROVE Holding(u, b2, purse[p]) + InPacket(u, msg) = Holding(u, bag[p], purse[p])
  <2>1. InPacket(u, msg) = Of(u, w, 0)
      BY <1>5 DEF InPacket
  <2>2. CASE u = NoWare
      BY <1>2, <2>1, <2>2 DEF Of, Holding
  <2>3. CASE u # NoWare
      BY <1>2, <2>1, <2>3 DEF Of, Holding
  <2> QED BY <2>2, <2>3
<1>9. b2 \in SUBSET Wares
    BY <1>2
<1> HIDE DEF msg, b2
<1>10. /\ bag' \in [Posters -> SUBSET Wares] /\ bag'[p] = b2 /\ purse' \in [Posters -> Nat] /\ purse'[p] = purse[p]
       /\ \A q \in Posters : q # p => bag'[q] = bag[q] /\ purse'[q] = purse[q]
    BY <1>1, <1>2, <1>6, <1>9, BagChanges DEF PostTypes
<1>11. msg.t # "delete"
    BY <1>5
<1>12. \A u \in Kinds : Holding(u, bag'[p], purse'[p]) + InPacket(u, msg) = Holding(u, bag[p], purse[p])
    BY <1>8, <1>10
<1> QED BY <1>5, <1>6, <1>7, <1>10, <1>11, <1>12, GoodsKeep

LEMMA BidKeeps ==
    ASSUME PostInv, NEW p \in Posters, clif_parse_Auction_bid(p)
    PROVE  PostInv'
<1>1. PipeTypes /\ PostTypes
    BY DEF PostInv
<1>2. purse[p] \in Nat /\ bag[p] \subseteq Wares
    BY <1>1, PosterFields
<1>3. \E w \in Wares : \E bid \in 1 .. purse[p] :
          Asks(<<[t |-> "bid", p |-> p, item |-> w, zeny |-> bid]>>) /\ purse' = [purse EXCEPT ![p] = @ - bid]
    BY DEF clif_parse_Auction_bid
<1>4. PICK w \in Wares : \E bid \in 1 .. purse[p] :
          Asks(<<[t |-> "bid", p |-> p, item |-> w, zeny |-> bid]>>) /\ purse' = [purse EXCEPT ![p] = @ - bid]
    BY <1>3
<1>5. PICK bid \in 1 .. purse[p] :
          Asks(<<[t |-> "bid", p |-> p, item |-> w, zeny |-> bid]>>) /\ purse' = [purse EXCEPT ![p] = @ - bid]
    BY <1>4
<1> DEFINE msg == [t |-> "bid", p |-> p, item |-> w, zeny |-> bid]
           z2 == purse[p] - bid
<1>6. bid \in Nat /\ z2 \in Nat
    BY <1>2
<1>7. msg \in Requests /\ msg.t = "bid" /\ msg.zeny = bid /\ Asks(<<msg>>)
    BY <1>5, <1>6, RequestIs
<1>8. purse' = [purse EXCEPT ![p] = z2] /\ bag' = bag /\ poster' = poster /\ UNCHANGED <<fromInter, ends, inbox, postTables, mislaid>>
    BY <1>5 DEF clif_parse_Auction_bid
<1>9. ASSUME NEW u \in Kinds PROVE Holding(u, bag[p], z2) + InPacket(u, msg) = Holding(u, bag[p], purse[p])
  <2>1. InPacket(u, msg) = Of(u, NoWare, bid)
      BY <1>7 DEF InPacket
  <2>2. CASE u = NoWare
      BY <1>2, <1>6, <2>1, <2>2 DEF Of, Holding
  <2>3. CASE u # NoWare
      BY <2>1, <2>3 DEF Of, Holding
  <2> QED BY <2>2, <2>3
<1> HIDE DEF msg, z2
<1>10. /\ bag' \in [Posters -> SUBSET Wares] /\ bag'[p] = bag[p] /\ purse' \in [Posters -> Nat] /\ purse'[p] = z2
       /\ \A q \in Posters : q # p => bag'[q] = bag[q] /\ purse'[q] = purse[q]
    BY <1>1, <1>2, <1>6, <1>8, BagChanges DEF PostTypes
<1>11. msg.t # "delete" /\ poster' \in [Posters -> PosterStates]
    BY <1>1, <1>7, <1>8 DEF PostTypes
<1>12. \A u \in Kinds : Holding(u, bag'[p], purse'[p]) + InPacket(u, msg) = Holding(u, bag[p], purse[p])
    BY <1>9, <1>10
<1> QED BY <1>7, <1>8, <1>10, <1>11, <1>12, GoodsKeep

(* Given from hand to hand, p's to q or q's to p. *)
Handing(p, q, c, y, d, z) == p # q /\ \A r \in Posters \ {p, q} : d[r] = c[r] /\ z[r] = y[r]

LEMMA HandedCarried ==
    ASSUME NEW u, NEW p \in Posters, NEW q \in Posters,
           NEW c, NEW y \in [Posters -> Nat], NEW d, NEW z \in [Posters -> Nat],
           Handing(p, q, c, y, d, z),
           Holding(u, d[p], z[p]) + Holding(u, d[q], z[q]) = Holding(u, c[p], y[p]) + Holding(u, c[q], y[q])
    PROVE  Carried(u, d, z) = Carried(u, c, y)
<1> DEFINE f == Holdings(u, c, y)
           g == Holdings(u, d, z)
<1>1. f \in [Posters -> Int] /\ IsFiniteSet(Posters) /\ \A r \in Posters : f[r] = Holding(u, c[r], y[r])
    BY CarriedType
<1>2. g \in [Posters -> Int] /\ \A r \in Posters : g[r] = Holding(u, d[r], z[r])
    BY CarriedType
<1> HIDE DEF f, g
<1>3. p # q /\ \A r \in Posters \ {p, q} : g[r] = f[r]
    BY <1>1, <1>2 DEF Handing
<1>4. g[p] + g[q] = f[p] + f[q]
    BY <1>1, <1>2
<1>5. Exchanged(f, g, Posters, p, q)
    BY <1>3, <1>4 DEF Exchanged
<1>6. Sum(g, Posters) = Sum(f, Posters)
    BY <1>1, <1>2, <1>5, SumExchange
<1> QED BY <1>6 DEF Carried, f, g

LEMMA HandedKeeps ==
    ASSUME PostInv, NEW p \in Posters, NEW q \in Posters, p # q,
           bag' \in [Posters -> SUBSET Wares], purse' \in [Posters -> Nat],
           \A r \in Posters \ {p, q} : bag'[r] = bag[r] /\ purse'[r] = purse[r],
           UNCHANGED <<linkVars, poster, inbox, postTables, mislaid>>,
           \A u \in Kinds : Holding(u, bag'[p], purse'[p]) + Holding(u, bag'[q], purse'[q])
                              = Holding(u, bag[p], purse[p]) + Holding(u, bag[q], purse[q])
    PROVE  PostInv'
<1>1. PipeTypes /\ PostTypes
    BY DEF PostInv
<1>3. ASSUME NEW u \in Kinds PROVE Carried(u, bag', purse') = Carried(u, bag, purse)
  <2> DEFINE d == bag'
             z == purse'
  <2>1. purse \in [Posters -> Nat]
      BY <1>1 DEF PostTypes
  <2>2. z \in [Posters -> Nat] /\ Handing(p, q, bag, purse, d, z)
      BY DEF Handing
  <2>3. Holding(u, d[p], z[p]) + Holding(u, d[q], z[q]) = Holding(u, bag[p], purse[p]) + Holding(u, bag[q], purse[q])
      BY <1>3
  <2> HIDE DEF d, z
  <2>4. Carried(u, d, z) = Carried(u, bag, purse)
      BY <2>1, <2>2, <2>3, HandedCarried
  <2> QED BY <2>4 DEF d, z
<1>4. poster' \in [Posters -> PosterStates] /\ inbox' \in [Posters -> SUBSET Rows] /\ \A r \in Posters : inbox'[r] \subseteq inbox[r]
    BY <1>1 DEF PostTypes
<1>5. UNCHANGED <<linkVars, postTables, mislaid>>
    OBVIOUS
<1> QED BY <1>3, <1>4, <1>5, SilentKeeps

(* An item is with one player at most. *)
LEMMA ItemsAreOnce ==
    ASSUME PostInv, NEW w \in Wares
    PROVE  /\ \A p, q \in Posters : w \in bag[p] /\ w \in bag[q] => p = q
           /\ 1 <= In(w, Asked) => auctions[w].seller = Manager
           /\ 1 <= In(w, Answered) => w \notin mislaid.items /\ \A p \in Posters : w \notin bag[p]
<1>1. PipeTypes /\ PostTypes /\ w # NoWare /\ w \in Kinds
    BY ServerOfPosters DEF PostInv, Kinds
<1>2. Total(w) = 1
    BY <1>1 DEF PostInv, Balanced
<1>3. /\ Carried(w, bag, purse) \in Nat /\ In(w, Asked) \in Nat /\ In(w, Answered) \in Nat
      /\ Mailed(w, mails) \in Nat /\ Sold(w, auctions) \in Nat /\ Gone(w, mislaid) \in Nat
    BY <1>1, PartsAre
<1> DEFINE a == Carried(w, bag, purse)
           b == In(w, Asked)
           c == In(w, Answered)
           d == Mailed(w, mails)
           e == Sold(w, auctions)
           f == Gone(w, mislaid)
<1>4. a + b + c + d + e + f = 1 /\ a \in Nat /\ b \in Nat /\ c \in Nat /\ d \in Nat /\ e \in Nat /\ f \in Nat
    BY <1>2, <1>3 DEF Total
<1> HIDE DEF a, b, c, d, e, f
<1>5. a <= 1 /\ (1 <= b => e = 0) /\ (1 <= c => a = 0 /\ f = 0)
    BY <1>4
<1>6. ASSUME NEW p \in Posters PROVE Holding(w, bag[p], purse[p]) = IF w \in bag[p] THEN 1 ELSE 0
    BY <1>1 DEF Holding
<1>7. ASSUME NEW p \in Posters, NEW q \in Posters, w \in bag[p], w \in bag[q], p # q PROVE FALSE
  <2>1. Holding(w, bag[p], purse[p]) + Holding(w, bag[q], purse[q]) <= a
      BY <1>1, <1>7, CarriedBounds DEF PostTypes, a
  <2>2. Holding(w, bag[p], purse[p]) = 1 /\ Holding(w, bag[q], purse[q]) = 1
      BY <1>6, <1>7
  <2> QED BY <1>4, <1>5, <2>1, <2>2
<1>8. ASSUME 1 <= b PROVE auctions[w].seller = Manager
  <2>1. auctions[w].seller # Manager => 1 <= e
      BY <1>1, SoldBound DEF PostTypes, e
  <2> QED BY <1>4, <1>5, <1>8, <2>1
<1>9. ASSUME 1 <= c PROVE w \notin mislaid.items /\ \A p \in Posters : w \notin bag[p]
  <2>1. w \notin mislaid.items
      BY <1>1, <1>5, <1>9 DEF f, Gone
  <2>2. ASSUME NEW p \in Posters PROVE w \notin bag[p]
    <3>1. Holding(w, bag[p], purse[p]) <= a
        BY <1>1, CarriedBounds DEF PostTypes, a
    <3>2. a = 0
        BY <1>5, <1>9
    <3> QED BY <1>6, <3>1, <3>2
  <2> QED BY <2>1, <2>2
<1> QED BY <1>7, <1>8, <1>9 DEF b, c

LEMMA GiveItemKeeps ==
    ASSUME PostInv, NEW p \in Posters, NEW q \in Posters, GiveItem(p, q)
    PROVE  PostInv'
<1>1. PostTypes
    BY DEF PostInv
<1>2. PICK w \in bag[p] : bag' = [bag EXCEPT ![p] = @ \ {w}, ![q] = @ \cup {w}]
    BY DEF GiveItem
<1>3. p # q /\ purse' = purse /\ UNCHANGED <<linkVars, poster, inbox, postTables, mislaid>>
    BY DEF GiveItem
<1> DEFINE b == bag[p] \ {w}
           b2 == bag[q] \cup {w}
           z == purse[p]
           z2 == purse[q]
<1>4. w \in Wares /\ w # NoWare /\ b \in SUBSET Wares /\ b2 \in SUBSET Wares /\ z \in Nat /\ z2 \in Nat /\ w \notin bag[q]
  <2>1. bag[p] \subseteq Wares /\ bag[q] \subseteq Wares /\ purse[p] \in Nat /\ purse[q] \in Nat
      BY <1>1, PosterFields
  <2>2. w \notin bag[q]
      BY <1>3, <2>1, ItemsAreOnce
  <2> QED BY <2>1, <2>2, ServerOfPosters
<1>5. bag' = [bag EXCEPT ![p] = b, ![q] = b2] /\ purse' = [purse EXCEPT ![p] = z, ![q] = z2]
  <2>1. bag' = [bag EXCEPT ![p] = b, ![q] = b2]
      BY <1>1, <1>2, <1>3 DEF PostTypes
  <2>2. purse' = [purse EXCEPT ![p] = z, ![q] = z2]
      BY <1>1, <1>3 DEF PostTypes
  <2> QED BY <2>1, <2>2
<1>6. ASSUME NEW u \in Kinds
      PROVE  Holding(u, b, z) + Holding(u, b2, z2) = Holding(u, bag[p], purse[p]) + Holding(u, bag[q], purse[q])
  <2>1. CASE u = NoWare
      BY <2>1 DEF Holding
  <2>2. CASE u = w
      BY <1>4, <2>2 DEF Holding
  <2>3. CASE u # NoWare /\ u # w
      BY <2>3 DEF Holding
  <2> QED BY <2>1, <2>2, <2>3
<1>7. p # q
    BY <1>3
<1>8. UNCHANGED <<linkVars, poster, inbox, postTables, mislaid>>
    BY <1>3
<1> HIDE DEF b, b2, z, z2
<1>9. /\ bag' \in [Posters -> SUBSET Wares] /\ purse' \in [Posters -> Nat]
      /\ bag'[p] = b /\ bag'[q] = b2 /\ purse'[p] = z /\ purse'[q] = z2
      /\ \A r \in Posters \ {p, q} : bag'[r] = bag[r] /\ purse'[r] = purse[r]
    BY <1>1, <1>4, <1>5, <1>7 DEF PostTypes
<1> QED BY <1>6, <1>7, <1>8, <1>9, HandedKeeps

LEMMA GiveZenyKeeps ==
    ASSUME PostInv, NEW p \in Posters, NEW q \in Posters, GiveZeny(p, q)
    PROVE  PostInv'
<1>1. PostTypes
    BY DEF PostInv
<1>2. /\ p # q /\ purse[p] > 0 /\ purse' = [purse EXCEPT ![p] = @ - 1, ![q] = @ + 1] /\ bag' = bag
      /\ UNCHANGED <<linkVars, poster, inbox, postTables, mislaid>>
    BY DEF GiveZeny
<1> DEFINE b == bag[p]
           b2 == bag[q]
           z == purse[p] - 1
           z2 == purse[q] + 1
<1>3. b \in SUBSET Wares /\ b2 \in SUBSET Wares /\ purse[p] \in Nat /\ purse[q] \in Nat
    BY <1>1, PosterFields
<1>4. z \in Nat /\ z2 \in Nat
    BY <1>2, <1>3
<1>5. purse' = [purse EXCEPT ![p] = z, ![q] = z2]
    BY <1>1, <1>2 DEF PostTypes
<1>6. bag' = [bag EXCEPT ![p] = b, ![q] = b2]
    BY <1>1, <1>2 DEF PostTypes
<1>7. ASSUME NEW u \in Kinds
      PROVE  Holding(u, b, z) + Holding(u, b2, z2) = Holding(u, bag[p], purse[p]) + Holding(u, bag[q], purse[q])
    BY <1>3 DEF Holding
<1>8. UNCHANGED <<linkVars, poster, inbox, postTables, mislaid>>
    BY <1>2
<1>9. p # q
    BY <1>2
<1> HIDE DEF b, b2, z, z2
<1>10. /\ bag' \in [Posters -> SUBSET Wares] /\ purse' \in [Posters -> Nat]
       /\ bag'[p] = b /\ bag'[q] = b2 /\ purse'[p] = z /\ purse'[q] = z2
       /\ \A r \in Posters \ {p, q} : bag'[r] = bag[r] /\ purse'[r] = purse[r]
    BY <1>1, <1>3, <1>4, <1>5, <1>6, <1>9 DEF PostTypes
<1> QED BY <1>7, <1>8, <1>9, <1>10, HandedKeeps

----------------------------------------------------------------------------
(* What the char server does. *)
LEMMA TakenFromIs ==
    ASSUME PipeTypes, TakenFrom(m0), Asked # <<>>
    PROVE  toInter' \in [MapServers -> Seq(Requests)] /\ Asked' = Tail(Asked)
<1>1. Asked \in Seq(Requests) /\ m0 \in MapServers /\ toInter \in [MapServers -> Seq(Requests)]
    BY PipesAre, ServerOfPosters DEF PipeTypes
<1> DEFINE r == Tail(Asked)
<1>2. r \in Seq(Requests)
    BY <1>1, TailIs
<1>3. toInter' = [toInter EXCEPT ![m0] = r]
    BY DEF TakenFrom, Asked
<1> HIDE DEF r
<1>4. toInter' \in [MapServers -> Seq(Requests)] /\ toInter'[m0] = r
    BY <1>1, <1>2, <1>3
<1> QED BY <1>4 DEF Asked, r

LEMMA TakenByIs ==
    ASSUME PipeTypes, TakenBy(m0), Answered # <<>>
    PROVE  fromInter' \in [MapServers -> Seq(Answers)] /\ Answered' = Tail(Answered)
<1>1. Answered \in Seq(Answers) /\ m0 \in MapServers /\ fromInter \in [MapServers -> Seq(Answers)]
    BY PipesAre, ServerOfPosters DEF PipeTypes
<1> DEFINE r == Tail(Answered)
<1>2. r \in Seq(Answers)
    BY <1>1, TailIs
<1>3. fromInter' = [fromInter EXCEPT ![m0] = r]
    BY DEF TakenBy, Answered
<1> HIDE DEF r
<1>4. fromInter' \in [MapServers -> Seq(Answers)] /\ fromInter'[m0] = r
    BY <1>1, <1>2, <1>3
<1> QED BY <1>4 DEF Answered, r

LEMMA AnswersAre ==
    ASSUME PipeTypes, NEW rs \in Seq(Answers), PostAnswer(rs) \/ (rs = <<>> /\ fromInter' = fromInter)
    PROVE  fromInter' \in [MapServers -> Seq(Answers)] /\ Answered' = Answered \o rs
<1>1. Answered \in Seq(Answers) /\ m0 \in MapServers /\ fromInter \in [MapServers -> Seq(Answers)]
    BY PipesAre, ServerOfPosters DEF PipeTypes
<1>2. CASE PostAnswer(rs)
  <2> DEFINE c == Answered \o rs
  <2>1. c \in Seq(Answers)
      BY <1>1, ConcatProperties
  <2>2. fromInter' = [fromInter EXCEPT ![m0] = c]
      BY <1>2 DEF PostAnswer, Reply, Answered, PipeTypes
  <2> HIDE DEF c
  <2>3. fromInter' \in [MapServers -> Seq(Answers)] /\ fromInter'[m0] = c
      BY <1>1, <2>1, <2>2
  <2> QED BY <2>3 DEF Answered, c
<1>3. CASE rs = <<>> /\ fromInter' = fromInter
  <2>1. Answered \o <<>> = Answered
      BY <1>1, ConcatEmptySeq
  <2>2. Answered' = Answered
      BY <1>3 DEF Answered
  <2> QED BY <1>1, <1>3, <2>1, <2>2
<1> QED BY <1>2, <1>3

LEMMA AnswerIs ==
    /\ \A p \in Posters, page \in SUBSET Rows, full \in BOOLEAN : [t |-> "inbox", p |-> p, page |-> page, full |-> full] \in Answers
    /\ \A p \in Posters, item \in Kinds, zeny \in Nat, how \in {"attached", "back"} :
           [t |-> how, p |-> p, item |-> item, zeny |-> zeny] \in Answers
    /\ \A p \in Posters, id \in Nat : [t |-> "struck", p |-> p, id |-> id] \in Answers
    /\ \A p \in Someone : [t |-> "newmail", p |-> p] \in Answers
    /\ \A p, to \in Posters : [t |-> "mailed", p |-> p, to |-> to] \in Answers
    /\ \A p \in Posters, z \in Nat : Returned(p, z) \in Answers /\ Returned(p, z).t = "bid" /\ Returned(p, z).zeny = z
    /\ \A p \in Posters : [t |-> "closed", p |-> p] \in Answers
BY DEF Answers, Returned

LEMMA AnswersAreMessages == ASSUME NEW s \in Seq(Answers) PROVE s \in Seq(Messages)
<1>1. Answers \subseteq Messages
    BY DEF Messages
<1> QED BY <1>1, SeqMonotonic

LEMMA LetterIs ==
    \A from, to \in Someone, item \in Kinds, zeny \in Nat :
        /\ Letter(from, to, item, zeny) \in Letters
        /\ Letter(from, to, item, zeny).to = to
        /\ Letter(from, to, item, zeny).item = item /\ Letter(from, to, item, zeny).zeny = zeny
BY DEF Letters, Letter

LEMMA NewsAre ==
    ASSUME NEW S \in Seq(Letters)
    PROVE  /\ News(S) \in Seq(Answers) /\ Len(News(S)) = Len(S) /\ \A i \in 1 .. Len(News(S)) : News(S)[i].t = "newmail"
           /\ \A u : In(u, News(S)) = 0
<1>1. ASSUME NEW i \in 1 .. Len(S) PROVE [t |-> "newmail", p |-> S[i].to] \in Answers
  <2>1. S[i] \in Letters
      OBVIOUS
  <2>2. S[i].to \in Someone
      BY <2>1, LetterFields
  <2> QED BY <2>2, AnswerIs
<1> DEFINE n == News(S)
<1>2. n = [i \in 1 .. Len(S) |-> [t |-> "newmail", p |-> S[i].to]]
    BY DEF News
<1>3. n \in Seq(Answers) /\ Len(n) = Len(S)
    BY <1>1, <1>2
<1>4. \A i \in 1 .. Len(S) : n[i].t = "newmail"
    BY <1>2
<1> HIDE DEF n
<1>5. \A u : In(u, n) = 0
    BY <1>3, <1>4, AnswersAreMessages, LightPackets
<1> QED BY <1>3, <1>4, <1>5 DEF n

(* Letters are stored, after the rows of out are removed. *)
LEMMA SameRowFollows ==
    ASSUME NEW x, NEW h, h.t \notin {"read", "attach"}
    PROVE  Follows(x, x, h)
BY DEF Follows

LEMMA StoreIs ==
    ASSUME PostTypes, RowsDiffer, NEW S \in Seq(Letters), NEW out \in SUBSET mails, Store(S, out)
    PROVE  /\ IsFiniteSet(mails') /\ mails' \subseteq Rows /\ written' \in Nat /\ written <= written' /\ RowsDiffer'
           /\ \A x2 \in mails' : x2.id <= written => x2 \in mails
           /\ \A h : h.t \notin {"read", "attach"} => RowsFollow(mails', mails, h, written)
           /\ \A u : Mailed(u, mails') = Mailed(u, mails \ out) + Worth(u, S)
<1> DEFINE N == mails \ out
           new == Stored(S, Len(S), written)
<1>1. IsFiniteSet(N) /\ N \subseteq Rows /\ (\A x \in N : x.id <= written) /\ written \in Nat
  <2>1. IsFiniteSet(N)
      BY FS_Subset DEF PostTypes
  <2> QED BY <2>1 DEF PostTypes, RowsDiffer
<1>2. mails' = N \cup new /\ written' = written + Len(S)
    BY DEF Store, Numbered, Stored, RowAt
<1>3. Len(S) \in Nat
    OBVIOUS
<1>4. \A x \in new : \E i \in 1 .. Len(S) : x = RowAt(S, i, written)
    BY DEF Stored
<1>5. \A i \in 1 .. Len(S) : RowAt(S, i, written).id = written + i
    BY <1>1, RowAtType
<1> HIDE DEF N
<1>6. /\ IsFiniteSet(N \cup new) /\ N \cup new \subseteq Rows
      /\ \A u : Mailed(u, N \cup new) = Mailed(u, N) + Worth(u, S)
    BY <1>1, MailedStored
<1> HIDE DEF new
<1>7. \A x \in new : x.id <= written' /\ ~(x.id <= written)
    BY <1>1, <1>2, <1>3, <1>4, <1>5
<1>8. \A x, y \in new : x.id = y.id => x = y
  <2> SUFFICES ASSUME NEW x \in new, NEW y \in new, x.id = y.id PROVE x = y
      OBVIOUS
  <2>0. x.id = y.id
      OBVIOUS
  <2>1. PICK i \in 1 .. Len(S) : x = RowAt(S, i, written)
      BY <1>4
  <2>2. PICK j \in 1 .. Len(S) : y = RowAt(S, j, written)
      BY <1>4
  <2>3. i = j
    <3>1. x.id = written + i /\ y.id = written + j
        BY <1>5, <2>1, <2>2
    <3>2. written + i = written + j
        BY <2>0, <3>1, Zenon
    <3>3. i \in Nat /\ j \in Nat /\ written \in Nat
      <4> HIDE DEF N
      <4> QED BY <1>1, <1>3
    <3> QED BY <3>2, <3>3
  <2> QED BY <2>1, <2>2, <2>3
<1>9. \A x2 \in mails' : x2.id <= written => x2 \in N
    BY <1>2, <1>7
<1>10. \A x \in N : x.id \in Nat /\ x.id <= written'
    BY <1>1, <1>2, <1>3, RowFields
<1>11. N \subseteq mails
    BY DEF N
<1>12. RowsDiffer'
  <2>1. \A x \in mails' : x.id <= written'
      BY <1>2, <1>7, <1>10
  <2>2. ASSUME NEW x \in mails', NEW y \in mails', x.id = y.id PROVE x = y
      BY <1>1, <1>2, <1>7, <1>8, <1>11, <2>2 DEF RowsDiffer
  <2> QED BY <2>1, <2>2 DEF RowsDiffer
<1>13. ASSUME NEW h, h.t \notin {"read", "attach"} PROVE RowsFollow(mails', mails, h, written)
    BY <1>9, <1>11, <1>13, SameRowFollows DEF RowsFollow
<1>14. written' \in Nat /\ written <= written'
    BY <1>1, <1>2, <1>3
<1> QED BY <1>2, <1>6, <1>9, <1>11, <1>12, <1>13, <1>14 DEF N

(* Nothing is stored, and what came is sent back. *)
LEMMA TablesStay ==
    ASSUME PostInv, Asked # <<>>, TakenFrom(m0), NEW rs \in Seq(Answers),
           PostAnswer(rs) \/ (rs = <<>> /\ fromInter' = fromInter),
           UNCHANGED <<ends, poster, bag, purse, inbox, mislaid>>, UNCHANGED postTables,
           Head(Asked).t \notin {"read", "attach"},
           \A j \in 1 .. Len(rs) : rs[j].t = "inbox" => \A y \in rs[j].page : y \in mails /\ y.to = rs[j].p,
           \A u \in Kinds : In(u, rs) = InPacket(u, Head(Asked))
    PROVE  PostInv'
<1>1. PipeTypes /\ PostTypes /\ RowsDiffer /\ BidsAreForSale
    BY DEF PostInv
<1>2. toInter' \in [MapServers -> Seq(Requests)] /\ Asked' = Tail(Asked)
    BY <1>1, TakenFromIs
<1>3. fromInter' \in [MapServers -> Seq(Answers)] /\ Answered' = Answered \o rs
    BY <1>1, AnswersAre
<1>4. mails' = mails /\ written' = written /\ auctions' = auctions
    BY DEF postTables
<1>5. /\ IsFiniteSet(mails') /\ mails' \subseteq Rows /\ written' \in Nat /\ written <= written' /\ auctions' \in [Wares -> Sales]
    BY <1>1, <1>4 DEF PostTypes
<1>6. RowsDiffer' /\ BidsAreForSale'
    BY <1>1, <1>4 DEF RowsDiffer, BidsAreForSale
<1>7. RowsFollow(mails', mails, Head(Asked), written)
    BY <1>4, SameRowFollows DEF RowsFollow
<1>8. \A j \in 1 .. Len(rs) : rs[j].t = "inbox" => mails' = mails /\ \A y \in rs[j].page : y \in mails /\ y.to = rs[j].p
    BY <1>4
<1>9. \A u \in Kinds : In(u, rs) + Mailed(u, mails') + Sold(u, auctions') = InPacket(u, Head(Asked)) + Mailed(u, mails) + Sold(u, auctions)
    BY <1>4
<1>10. UNCHANGED <<ends, poster, bag, purse, inbox, mislaid>>
    OBVIOUS
<1> QED BY <1>2, <1>3, <1>5, <1>6, <1>7, <1>8, <1>9, <1>10, ServerKeeps

(* Letters are stored, or rows removed. *)
LEMMA StoringKeeps ==
    ASSUME PostInv, Asked # <<>>, TakenFrom(m0), NEW rs \in Seq(Answers),
           PostAnswer(rs) \/ (rs = <<>> /\ fromInter' = fromInter),
           UNCHANGED <<ends, poster, bag, purse, inbox, mislaid>>,
           NEW S \in Seq(Letters), NEW out \in SUBSET mails, Store(S, out),
           auctions' \in [Wares -> Sales], BidsAreForSale',
           Head(Asked).t \notin {"read", "attach"},
           \A j \in 1 .. Len(rs) : rs[j].t # "inbox",
           \A u \in Kinds : In(u, rs) + Mailed(u, mails \ out) + Worth(u, S) + Sold(u, auctions')
                              = InPacket(u, Head(Asked)) + Mailed(u, mails) + Sold(u, auctions)
    PROVE  PostInv'
<1>1. PipeTypes /\ PostTypes /\ RowsDiffer
    BY DEF PostInv
<1>2. toInter' \in [MapServers -> Seq(Requests)] /\ Asked' = Tail(Asked)
    BY <1>1, TakenFromIs
<1>3. fromInter' \in [MapServers -> Seq(Answers)] /\ Answered' = Answered \o rs
    BY <1>1, AnswersAre
<1>4. /\ IsFiniteSet(mails') /\ mails' \subseteq Rows /\ written' \in Nat /\ written <= written' /\ RowsDiffer'
      /\ RowsFollow(mails', mails, Head(Asked), written)
      /\ \A u : Mailed(u, mails') = Mailed(u, mails \ out) + Worth(u, S)
    BY <1>1, StoreIs
<1>5. ASSUME NEW u \in Kinds
      PROVE  In(u, rs) + Mailed(u, mails') + Sold(u, auctions') = InPacket(u, Head(Asked)) + Mailed(u, mails) + Sold(u, auctions)
  <2>1. In(u, rs) \in Nat
      BY AnswersAreMessages, LoadsType
  <2>2. Mailed(u, mails \ out) \in Nat
    <3>1. IsFiniteSet(mails \ out) /\ mails \ out \subseteq Rows
        BY <1>1, FS_Subset DEF PostTypes
    <3> QED BY <3>1, MailedType
  <2>3. Worth(u, S) \in Nat
      BY WorthsType
  <2>4. Sold(u, auctions') \in Nat
      BY SoldType
  <2>5. Mailed(u, mails') = Mailed(u, mails \ out) + Worth(u, S)
      BY <1>4
  <2>6. In(u, rs) + Mailed(u, mails \ out) + Worth(u, S) + Sold(u, auctions')
                              = InPacket(u, Head(Asked)) + Mailed(u, mails) + Sold(u, auctions)
      OBVIOUS
  <2> QED BY <2>1, <2>2, <2>3, <2>4, <2>5, <2>6
<1>6. \A j \in 1 .. Len(rs) : rs[j].t = "inbox" => mails' = mails /\ \A y \in rs[j].page : y \in mails /\ y.to = rs[j].p
    OBVIOUS
<1>7. UNCHANGED <<ends, poster, bag, purse, inbox, mislaid>>
    OBVIOUS
<1> QED BY <1>2, <1>3, <1>4, <1>5, <1>6, <1>7, ServerKeeps

LEMMA PageKeeps ==
    ASSUME PostInv, Asked # <<>>, TakenFrom(m0), UNCHANGED <<ends, poster, bag, purse, inbox, mislaid>>,
           Head(Asked).t = "inbox", mapif_Mail_sendinbox(Head(Asked).p)
    PROVE  PostInv'
<1>1. PipeTypes /\ PostTypes
    BY DEF PostInv
<1> DEFINE h == Head(Asked)
           p == h.p
           mine == {x \in mails : x.to = p}
           page == {x \in mine : Cardinality({y \in mine : y.id < x.id}) < MaxInbox}
           full == mine # page
           msg == [t |-> "inbox", p |-> p, page |-> page, full |-> full]
           rs == <<msg>>
<1>2. h \in Requests
    BY <1>1, PipesAre, TailIs
<1>3. p \in Posters
    BY <1>2, RequestFields
<1>4. page \in SUBSET Rows /\ full \in BOOLEAN /\ \A y \in page : y \in mails /\ y.to = p
    BY <1>1 DEF PostTypes
<1>5. PostAnswer(rs) /\ UNCHANGED postTables
    BY DEF mapif_Mail_sendinbox
<1> HIDE DEF page, full, p
<1>6. msg \in Answers /\ msg.t = "inbox" /\ msg.page = page /\ msg.p = p
    BY <1>3, <1>4, AnswerIs
<1> HIDE DEF msg
<1>7. rs \in Seq(Answers) /\ \A i \in 1 .. Len(rs) : rs[i] = msg
    BY <1>6, OneMessage
<1> HIDE DEF rs
<1>8. \A u \in Kinds : In(u, rs) = InPacket(u, h)
  <2>1. \A u \in Kinds : In(u, rs) = 0
      BY <1>6, <1>7, AnswersAreMessages, LightPackets
  <2>2. \A u : InPacket(u, h) = 0
      BY DEF InPacket
  <2> QED BY <2>1, <2>2
<1>9. \A j \in 1 .. Len(rs) : rs[j].t = "inbox" => \A y \in rs[j].page : y \in mails /\ y.to = rs[j].p
    BY <1>4, <1>6, <1>7
<1>10. h.t \notin {"read", "attach"}
    OBVIOUS
<1>11. UNCHANGED <<ends, poster, bag, purse, inbox, mislaid>>
    OBVIOUS
<1> QED BY <1>5, <1>7, <1>8, <1>9, <1>10, <1>11, TablesStay DEF h

(* A row is marked as read, or its attachment taken: x of id becomes y. *)
LEMMA RowChanges ==
    ASSUME PostTypes, RowsDiffer, NEW x \in mails, NEW y \in Rows, y.id = x.id, NEW h, Follows(y, x, h),
           \A z \in mails \ {x} : Follows(z, z, h), mails' = (mails \ {x}) \cup {y}, written' = written
    PROVE  /\ IsFiniteSet(mails') /\ mails' \subseteq Rows /\ RowsDiffer' /\ RowsFollow(mails', mails, h, written)
           /\ \A u : Mailed(u, mails') = Mailed(u, mails) - Of(u, x.item, x.zeny) + Of(u, y.item, y.zeny)
<1>1. \A z \in mails : z.id = x.id => z = x
    BY DEF RowsDiffer
<1>2. y \notin mails \ {x}
    BY <1>1
<1> DEFINE M == mails
           M2 == (mails \ {x}) \cup {y}
<1>3. IsFiniteSet(M) /\ M \subseteq Rows /\ x \in M /\ y \notin M \ {x} /\ M2 = (M \ {x}) \cup {y} /\ mails' = M2
    BY <1>2 DEF PostTypes
<1>4. RowsDiffer'
    BY <1>1 DEF RowsDiffer
<1>5. RowsFollow(mails', mails, h, written)
    BY DEF RowsFollow
<1> HIDE DEF M, M2
<1>6. /\ IsFiniteSet(M2) /\ M2 \subseteq Rows
      /\ \A u : Mailed(u, M2) = Mailed(u, M) - Of(u, x.item, x.zeny) + Of(u, y.item, y.zeny)
    BY <1>3, MailedChanged
<1>7. \A u : Mailed(u, mails') = Mailed(u, mails) - Of(u, x.item, x.zeny) + Of(u, y.item, y.zeny)
    BY <1>3, <1>6 DEF M
<1> QED BY <1>3, <1>4, <1>5, <1>6, <1>7

LEMMA ReadRowKeeps ==
    ASSUME PostInv, Asked # <<>>, TakenFrom(m0), UNCHANGED <<ends, poster, bag, purse, inbox, mislaid>>,
           Head(Asked).t = "read", mapif_parse_Mail_read(Head(Asked).id)
    PROVE  PostInv'
<1>1. PipeTypes /\ PostTypes /\ RowsDiffer /\ BidsAreForSale
    BY DEF PostInv
<1> DEFINE h == Head(Asked)
           id == h.id
<1>2. h \in Requests
    BY <1>1, PipesAre, TailIs
<1>3. mails' = {IF x.id = id THEN Shown(x) ELSE x : x \in mails} /\ UNCHANGED <<fromInter, written, auctions>>
    BY DEF mapif_parse_Mail_read
<1>4. toInter' \in [MapServers -> Seq(Requests)] /\ Asked' = Tail(Asked)
    BY <1>1, TakenFromIs
<1> DEFINE rs == <<>>
<1>5. rs \in Seq(Answers) /\ fromInter' \in [MapServers -> Seq(Answers)] /\ Answered' = Answered \o rs
  <2>1. rs \in Seq(Answers) /\ rs = <<>> /\ fromInter' = fromInter
      BY <1>3
  <2> HIDE DEF rs
  <2> QED BY <1>1, <2>1, AnswersAre
<1>6. \A u : In(u, rs) = 0 /\ InPacket(u, h) = 0
    BY InNone DEF InPacket
<1>7. \A x : x.id # id \/ x.read => Follows(x, x, h)
  <2> SUFFICES ASSUME NEW x, x.id # id \/ x.read PROVE Follows(x, x, h)
      OBVIOUS
  <2>1. h = [t |-> "read", id |-> x.id] => x.read
    <3>1. ASSUME h = [t |-> "read", id |-> x.id] PROVE id = x.id
      <4>1. h.id = x.id
          BY <3>1
      <4> QED BY <4>1
    <3> QED BY <3>1
  <2>2. h # [t |-> "attach", p |-> x.to, id |-> x.id]
    <3>1. ASSUME h = [t |-> "attach", p |-> x.to, id |-> x.id] PROVE FALSE
      <4>1. h.t = "attach"
          BY <3>1
      <4> QED BY <4>1
    <3> QED BY <3>1
  <2> QED BY <2>1, <2>2 DEF Follows
<1> HIDE DEF rs, h
<1>8. /\ IsFiniteSet(mails') /\ mails' \subseteq Rows /\ RowsDiffer' /\ RowsFollow(mails', mails, h, written)
      /\ \A u \in Kinds : Mailed(u, mails') = Mailed(u, mails)
  <2>1. CASE \A x \in mails : x.id # id
    <3>1. mails' = mails
        BY <1>3, <2>1
    <3>2. RowsFollow(mails', mails, h, written)
        BY <1>7, <2>1, <3>1 DEF RowsFollow
    <3>3. RowsDiffer'
        BY <1>1, <1>3, <3>1 DEF RowsDiffer
    <3>4. \A u \in Kinds : Mailed(u, mails') = Mailed(u, mails)
        BY <3>1
    <3> QED BY <1>1, <3>1, <3>2, <3>3, <3>4 DEF PostTypes
  <2>2. CASE \E x \in mails : x.id = id
    <3>1. PICK x \in mails : x.id = id
        BY <2>2
    <3> DEFINE y == Shown(x)
    <3>2. x \in Rows /\ y \in Rows /\ y.id = x.id /\ y.to = x.to /\ y.read /\ y.item = x.item /\ y.zeny = x.zeny /\ (HasParcel(y) <=> HasParcel(x))
      <4>1. x \in Rows
          BY <1>1 DEF PostTypes
      <4> QED BY <4>1, CopyFields
    <3>3. \A z \in mails \ {x} : z.id # id
        BY <1>1, <3>1 DEF RowsDiffer
    <3>4. mails' = (mails \ {x}) \cup {y}
        BY <1>3, <3>1, <3>3
    <3> HIDE DEF y
    <3>5. Follows(y, x, h)
      <4>1. h # [t |-> "attach", p |-> x.to, id |-> x.id]
        <5>1. ASSUME h = [t |-> "attach", p |-> x.to, id |-> x.id] PROVE FALSE
          <6>1. h.t = "attach"
              BY <5>1
          <6> QED BY <6>1 DEF h
        <5> QED BY <5>1
      <4> QED BY <3>2, <4>1 DEF Follows
    <3>6. \A z \in mails \ {x} : Follows(z, z, h)
        BY <1>7, <3>3
    <3>7. written' = written
        BY <1>3
    <3>8. /\ IsFiniteSet(mails') /\ mails' \subseteq Rows /\ RowsDiffer' /\ RowsFollow(mails', mails, h, written)
          /\ \A u : Mailed(u, mails') = Mailed(u, mails) - Of(u, x.item, x.zeny) + Of(u, y.item, y.zeny)
        BY <1>1, <3>2, <3>4, <3>5, <3>6, <3>7, RowChanges
    <3>9. ASSUME NEW u \in Kinds PROVE Mailed(u, mails') = Mailed(u, mails)
      <4>1. Mailed(u, mails) \in Nat
          BY <1>1, PartsAre
      <4>2. Of(u, x.item, x.zeny) \in Nat /\ Of(u, y.item, y.zeny) = Of(u, x.item, x.zeny)
          BY <3>2, OfType, RowFields
      <4>3. Mailed(u, mails') = Mailed(u, mails) - Of(u, x.item, x.zeny) + Of(u, y.item, y.zeny)
          BY <3>8
      <4> QED BY <4>1, <4>2, <4>3
    <3> QED BY <3>8, <3>9
  <2> QED BY <2>1, <2>2
<1>9. written' \in Nat /\ written <= written' /\ auctions' \in [Wares -> Sales] /\ BidsAreForSale'
    BY <1>1, <1>3 DEF PostTypes, BidsAreForSale
<1>10. ASSUME NEW u \in Kinds
       PROVE  In(u, rs) + Mailed(u, mails') + Sold(u, auctions') = InPacket(u, Head(Asked)) + Mailed(u, mails) + Sold(u, auctions)
  <2>1. In(u, rs) = 0 /\ InPacket(u, Head(Asked)) = 0 /\ Mailed(u, mails') = Mailed(u, mails) /\ auctions' = auctions
      BY <1>3, <1>6, <1>8 DEF h
  <2> QED BY <2>1
<1>11. \A j \in 1 .. Len(rs) : rs[j].t = "inbox" => mails' = mails /\ \A y \in rs[j].page : y \in mails /\ y.to = rs[j].p
    BY DEF rs
<1>12. UNCHANGED <<ends, poster, bag, purse, inbox, mislaid>>
    OBVIOUS
<1> QED BY <1>4, <1>5, <1>8, <1>9, <1>10, <1>11, <1>12, ServerKeeps DEF h

LEMMA AttachRowKeeps ==
    ASSUME PostInv, Asked # <<>>, TakenFrom(m0), UNCHANGED <<ends, poster, bag, purse, inbox, mislaid>>,
           Head(Asked).t = "attach", mapif_Mail_getattach(Head(Asked).p, Head(Asked).id)
    PROVE  PostInv'
<1>1. PipeTypes /\ PostTypes /\ RowsDiffer /\ BidsAreForSale
    BY DEF PostInv
<1> DEFINE h == Head(Asked)
           id == h.id
           p == h.p
           found == {x \in RowOf(id) : x.to = p /\ x.read /\ HasParcel(x)}
<1>2. h \in Requests
    BY <1>1, PipesAre, TailIs
<1>3. p \in Posters
    BY <1>2, RequestFields
<1>4. mails' = (mails \ found) \cup {Emptied(x) : x \in found} /\ UNCHANGED <<written, auctions>>
    BY DEF mapif_Mail_getattach
<1>5. toInter' \in [MapServers -> Seq(Requests)] /\ Asked' = Tail(Asked)
    BY <1>1, TakenFromIs
<1>6. \A u : InPacket(u, h) = 0
    BY DEF InPacket
<1>7. \A x \in mails : x \notin found => Follows(x, x, h)
  <2> SUFFICES ASSUME NEW x \in mails, x \notin found PROVE Follows(x, x, h)
      OBVIOUS
  <2>1. h # [t |-> "read", id |-> x.id]
    <3>1. ASSUME h = [t |-> "read", id |-> x.id] PROVE FALSE
      <4>1. h.t = "read"
          BY <3>1
      <4> QED BY <4>1
    <3> QED BY <3>1
  <2>2. h = [t |-> "attach", p |-> x.to, id |-> x.id] /\ x.read => ~HasParcel(x)
    <3>1. ASSUME h = [t |-> "attach", p |-> x.to, id |-> x.id], x.read PROVE ~HasParcel(x)
      <4>1. h.p = x.to /\ h.id = x.id
          BY <3>1
      <4> QED BY <3>1, <4>1 DEF RowOf
    <3> QED BY <3>1
  <2> QED BY <2>1, <2>2 DEF Follows
<1>8. written' \in Nat /\ written <= written' /\ written' = written /\ auctions' \in [Wares -> Sales] /\ BidsAreForSale' /\ auctions' = auctions
    BY <1>1, <1>4 DEF PostTypes, BidsAreForSale
<1>9. UNCHANGED <<ends, poster, bag, purse, inbox, mislaid>>
    OBVIOUS
<1>10. CASE found = {}
  <2> DEFINE rs == <<>>
  <2>1. fromInter' = fromInter
      BY <1>10 DEF mapif_Mail_getattach
  <2>2. mails' = mails
      BY <1>4, <1>10
  <2>3. rs \in Seq(Answers) /\ fromInter' \in [MapServers -> Seq(Answers)] /\ Answered' = Answered \o rs
    <3>1. rs \in Seq(Answers) /\ rs = <<>>
        OBVIOUS
    <3> HIDE DEF rs
    <3> QED BY <1>1, <2>1, <3>1, AnswersAre
  <2>4. RowsFollow(mails', mails, h, written)
      BY <1>7, <1>10, <2>2 DEF RowsFollow
  <2>5. ASSUME NEW u \in Kinds
        PROVE  In(u, rs) + Mailed(u, mails') + Sold(u, auctions') = InPacket(u, h) + Mailed(u, mails) + Sold(u, auctions)
    <3>1. In(u, rs) = 0 /\ InPacket(u, h) = 0 /\ Mailed(u, mails') = Mailed(u, mails)
        BY <1>6, <2>2, InNone
    <3> QED BY <1>8, <3>1
  <2>6. \A j \in 1 .. Len(rs) : rs[j].t = "inbox" => mails' = mails /\ \A y \in rs[j].page : y \in mails /\ y.to = rs[j].p
      OBVIOUS
  <2>7. IsFiniteSet(mails') /\ mails' \subseteq Rows /\ RowsDiffer'
      BY <1>1, <1>8, <2>2 DEF PostTypes, RowsDiffer
  <2> HIDE DEF rs
  <2> QED BY <1>5, <1>8, <1>9, <2>3, <2>4, <2>5, <2>6, <2>7, ServerKeeps DEF h
<1>11. CASE found # {}
  <2> DEFINE x == CHOOSE y \in found : TRUE
             y == Emptied(x)
             msg == [t |-> "attached", p |-> p, item |-> x.item, zeny |-> x.zeny]
             rs == <<msg>>
  <2>1. PostAnswer(rs)
      BY <1>11 DEF mapif_Mail_getattach
  <2>2. x \in found
      BY <1>11
  <2> HIDE DEF x
  <2>3. x \in mails /\ x.id = id /\ x.to = p /\ x.read /\ x \in Rows
      BY <1>1, <2>2 DEF RowOf, PostTypes
  <2>4. \A z \in mails : z.id = id => z = x
      BY <1>1, <2>3 DEF RowsDiffer
  <2>5. found = {x}
      BY <2>2, <2>4 DEF RowOf
  <2>6. y \in Rows /\ y.id = x.id /\ y.to = x.to /\ y.read = x.read /\ y.item = NoWare /\ y.zeny = 0 /\ ~HasParcel(y)
      BY <2>3, CopyFields
  <2>7. x.item \in Kinds /\ x.zeny \in Nat
      BY <2>3, RowFields
  <2>8. msg \in Answers /\ msg.t = "attached" /\ msg.item = x.item /\ msg.zeny = x.zeny
      BY <1>3, <2>7, AnswerIs
  <2>9. mails' = (mails \ {x}) \cup {y}
      BY <1>4, <2>5
  <2>10. Follows(y, x, h)
    <3>1. h # [t |-> "read", id |-> x.id]
      <4>1. ASSUME h = [t |-> "read", id |-> x.id] PROVE FALSE
        <5>1. h.t = "read"
            BY <4>1
        <5> QED BY <5>1
      <4> QED BY <4>1
    <3> QED BY <2>3, <2>6, <3>1 DEF Follows
  <2>11. \A z \in mails \ {x} : Follows(z, z, h)
      BY <1>7, <2>5
  <2> HIDE DEF y, msg
  <2>12. /\ IsFiniteSet(mails') /\ mails' \subseteq Rows /\ RowsDiffer' /\ RowsFollow(mails', mails, h, written)
         /\ \A u : Mailed(u, mails') = Mailed(u, mails) - Of(u, x.item, x.zeny) + Of(u, y.item, y.zeny)
      BY <1>1, <1>8, <2>3, <2>6, <2>9, <2>10, <2>11, RowChanges
  <2>13. rs \in Seq(Answers) /\ rs \in Seq(Messages) /\ (\A i \in 1 .. Len(rs) : rs[i] = msg) /\ \A u : In(u, rs) = InPacket(u, msg)
    <3>1. msg \in Messages
        BY <2>8 DEF Messages
    <3> QED BY <2>8, <3>1, OneMessage, InOne
  <2> HIDE DEF rs
  <2>14. fromInter' \in [MapServers -> Seq(Answers)] /\ Answered' = Answered \o rs
      BY <1>1, <2>1, <2>13, AnswersAre
  <2>15. ASSUME NEW u \in Kinds
         PROVE  In(u, rs) + Mailed(u, mails') + Sold(u, auctions') = InPacket(u, h) + Mailed(u, mails) + Sold(u, auctions)
    <3>1. In(u, rs) = Of(u, x.item, x.zeny) /\ InPacket(u, h) = 0
        BY <1>6, <2>8, <2>13 DEF InPacket
    <3>2. Mailed(u, mails') = Mailed(u, mails) - Of(u, x.item, x.zeny) + Of(u, y.item, y.zeny)
        BY <2>12
    <3>3. Of(u, y.item, y.zeny) = 0
        BY <2>6 DEF Of
    <3>4. Mailed(u, mails) \in Nat /\ Sold(u, auctions) \in Nat /\ Of(u, x.item, x.zeny) \in Nat /\ Sold(u, auctions') = Sold(u, auctions)
        BY <1>1, <1>8, <2>7, PartsAre, OfType
    <3> QED BY <3>1, <3>2, <3>3, <3>4
  <2>16. \A j \in 1 .. Len(rs) : rs[j].t = "inbox" => mails' = mails /\ \A z \in rs[j].page : z \in mails /\ z.to = rs[j].p
      BY <2>8, <2>13
  <2> QED BY <1>5, <1>8, <1>9, <2>12, <2>13, <2>14, <2>15, <2>16, ServerKeeps DEF h
<1> QED BY <1>10, <1>11

LEMMA DeleteRowKeeps ==
    ASSUME PostInv, Asked # <<>>, TakenFrom(m0), UNCHANGED <<ends, poster, bag, purse, inbox, mislaid>>,
           Head(Asked).t = "delete", mapif_Mail_delete(Head(Asked).p, Head(Asked).id)
    PROVE  PostInv'
<1>1. PipeTypes /\ PostTypes /\ RowsDiffer /\ BidsAreForSale
    BY DEF PostInv
<1> DEFINE h == Head(Asked)
           id == h.id
           p == h.p
           msg == [t |-> "struck", p |-> p, id |-> id]
           rs == <<msg>>
           out == RowOf(id)
<1>2. h \in Requests /\ h = Asked[1] /\ 1 \in 1 .. Len(Asked)
    BY <1>1, PipesAre, TailIs
<1>3. p \in Posters /\ id \in Nat
    BY <1>2, RequestFields
<1>4. mails' = mails \ out /\ PostAnswer(rs) /\ UNCHANGED <<written, auctions>>
    BY DEF mapif_Mail_delete
<1>5. toInter' \in [MapServers -> Seq(Requests)] /\ Asked' = Tail(Asked)
    BY <1>1, TakenFromIs
<1>6. msg \in Answers /\ msg.t = "struck"
    BY <1>3, AnswerIs
(* The row has no attachment: nothing was asked before this request. *)
<1>7. ASSUME NEW x \in out PROVE ~HasParcel(x)
  <2>1. x \in mails /\ x.id = Asked[1].id
      BY <1>2, <1>7 DEF RowOf
  <2>2. Bare(x, Asked, 1)
      BY <1>2, <2>1 DEF PostInv, DeletesBare
  <2>3. Asked[1] # [t |-> "attach", p |-> x.to, id |-> x.id]
    <3>1. ASSUME Asked[1] = [t |-> "attach", p |-> x.to, id |-> x.id] PROVE FALSE
      <4>1. Asked[1].t = "attach"
          BY <3>1
      <4> QED BY <1>2, <4>1
    <3> QED BY <3>1
  <2>4. \A j \in 1 .. 1 : j = 1
      OBVIOUS
  <2> QED BY <2>2, <2>3, <2>4 DEF Bare, Striking
<1> HIDE DEF msg
<1>8. rs \in Seq(Answers) /\ (\A i \in 1 .. Len(rs) : rs[i] = msg)
    BY <1>6, OneMessage
<1> HIDE DEF rs
<1>9. \A u : In(u, rs) = 0
    BY <1>6, <1>8, AnswersAreMessages, LightPackets
<1>10. fromInter' \in [MapServers -> Seq(Answers)] /\ Answered' = Answered \o rs
    BY <1>1, <1>4, <1>8, AnswersAre
<1>11. \A u : InPacket(u, h) = 0
    BY DEF InPacket
<1>12. RowsFollow(mails', mails, h, written)
  <2>1. h.t \notin {"read", "attach"}
      OBVIOUS
  <2> HIDE DEF h, out
  <2> QED BY <1>4, <2>1, SameRowFollows DEF RowsFollow
<1>13. ASSUME NEW u \in Kinds PROVE Mailed(u, mails') = Mailed(u, mails)
  <2>1. CASE out = {}
    <3>1. mails' = mails
        BY <1>4, <2>1
    <3> QED BY <3>1
  <2>2. CASE out # {}
    <3>1. PICK x : x \in out
        BY <2>2
    <3>2. x \in mails /\ x.id = id /\ x \in Rows
        BY <1>1, <3>1 DEF RowOf, PostTypes
    <3>3. out = {x}
        BY <1>1, <3>1, <3>2 DEF RowsDiffer, RowOf
    <3>4. mails' = mails \ {x}
        BY <1>4, <3>3
    <3>5. Mailed(u, mails) = Of(u, x.item, x.zeny) + Mailed(u, mails \ {x})
        BY <1>1, <3>2, MailedWithout DEF PostTypes
    <3>6. Of(u, x.item, x.zeny) = 0
      <4>1. x.item = NoWare /\ x.zeny = 0
          BY <1>7, <3>1, <3>2, RowFields DEF HasParcel
      <4> QED BY <4>1 DEF Of
    <3>7. Mailed(u, mails \ {x}) \in Nat
      <4>1. IsFiniteSet(mails \ {x}) /\ mails \ {x} \subseteq Rows
          BY <1>1, FS_Subset DEF PostTypes
      <4> QED BY <4>1, MailedType
    <3>8. Mailed(u, mails') = Mailed(u, mails \ {x})
        BY <3>4
    <3> QED BY <3>5, <3>6, <3>7, <3>8
  <2> QED BY <2>1, <2>2
<1>14. /\ IsFiniteSet(mails') /\ mails' \subseteq Rows /\ written' \in Nat /\ written <= written' /\ auctions' \in [Wares -> Sales]
       /\ RowsDiffer' /\ BidsAreForSale'
  <2> HIDE DEF h, out
  <2>1. IsFiniteSet(mails')
      BY <1>1, <1>4, FS_Subset DEF PostTypes
  <2>2. mails' \subseteq Rows /\ written' \in Nat /\ written <= written' /\ auctions' \in [Wares -> Sales]
      BY <1>1, <1>4 DEF PostTypes
  <2>3. RowsDiffer' /\ BidsAreForSale'
      BY <1>1, <1>4 DEF RowsDiffer, BidsAreForSale
  <2> QED BY <2>1, <2>2, <2>3
<1>15. ASSUME NEW u \in Kinds
       PROVE  In(u, rs) + Mailed(u, mails') + Sold(u, auctions') = InPacket(u, h) + Mailed(u, mails) + Sold(u, auctions)
  <2>1. In(u, rs) = 0 /\ InPacket(u, h) = 0 /\ Mailed(u, mails') = Mailed(u, mails) /\ Sold(u, auctions') = Sold(u, auctions)
      BY <1>4, <1>9, <1>11, <1>13
  <2> QED BY <2>1
<1>16. \A j \in 1 .. Len(rs) : rs[j].t = "inbox" => mails' = mails /\ \A z \in rs[j].page : z \in mails /\ z.to = rs[j].p
    BY <1>6, <1>8
<1>17. UNCHANGED <<ends, poster, bag, purse, inbox, mislaid>>
    OBVIOUS
<1> QED BY <1>5, <1>8, <1>10, <1>12, <1>14, <1>15, <1>16, <1>17, ServerKeeps DEF h

(* What a request that is refused leaves. *)
LEMMA RefusedKeeps ==
    ASSUME PostInv, Asked # <<>>, TakenFrom(m0), UNCHANGED <<ends, poster, bag, purse, inbox, mislaid>>,
           UNCHANGED <<fromInter, postTables>>, Head(Asked).t \in {"return", "cancel", "close"}
    PROVE  PostInv'
<1> DEFINE rs == <<>>
<1>1. rs \in Seq(Answers) /\ (rs = <<>> /\ fromInter' = fromInter) /\ UNCHANGED postTables /\ \A j \in 1 .. Len(rs) : FALSE
    OBVIOUS
<1>2. \A u \in Kinds : In(u, rs) = InPacket(u, Head(Asked))
    BY InNone DEF InPacket
<1>3. Head(Asked).t \notin {"read", "attach"}
    OBVIOUS
<1>4. \A j \in 1 .. Len(rs) : rs[j].t = "inbox" => \A y \in rs[j].page : y \in mails /\ y.to = rs[j].p
    BY <1>1
<1>5. UNCHANGED <<ends, poster, bag, purse, inbox, mislaid>>
    OBVIOUS
<1> HIDE DEF rs
<1> QED BY <1>1, <1>2, <1>3, <1>4, <1>5, TablesStay

LEMMA ReturnKeeps ==
    ASSUME PostInv, Asked # <<>>, TakenFrom(m0), UNCHANGED <<ends, poster, bag, purse, inbox, mislaid>>,
           Head(Asked).t = "return", mapif_Mail_return(Head(Asked).p, Head(Asked).id)
    PROVE  PostInv'
<1>1. PipeTypes /\ PostTypes /\ RowsDiffer /\ BidsAreForSale
    BY DEF PostInv
<1> DEFINE h == Head(Asked)
           id == h.id
           p == h.p
           x == CHOOSE y \in RowOf(id) : TRUE
           back == <<Letter(x.to, x.from, x.item, x.zeny)>>
           msg == [t |-> "struck", p |-> p, id |-> id]
           rs == News(back) \o <<msg>>
<1>2. h \in Requests
    BY <1>1, PipesAre, TailIs
<1>3. p \in Posters /\ id \in Nat
    BY <1>2, RequestFields
<1>4. CASE RowOf(id) = {} \/ x.to # p
  <2>1. UNCHANGED <<fromInter, postTables>>
      BY <1>4 DEF mapif_Mail_return
  <2>2. UNCHANGED <<ends, poster, bag, purse, inbox, mislaid>> /\ h.t \in {"return", "cancel", "close"}
      OBVIOUS
  <2> HIDE DEF x
  <2> QED BY <2>1, <2>2, RefusedKeeps DEF h
<1>5. CASE RowOf(id) # {} /\ x.to = p
  <2>1. Store(back, {x}) /\ PostAnswer(rs) /\ UNCHANGED auctions
      BY <1>5 DEF mapif_Mail_return
  <2>2. x \in RowOf(id)
      BY <1>5
  <2> HIDE DEF x
  <2>3. x \in mails /\ x \in Rows /\ {x} \in SUBSET mails
      BY <1>1, <2>2 DEF RowOf, PostTypes
  <2>4. x.to \in Someone /\ x.from \in Someone /\ x.item \in Kinds /\ x.zeny \in Nat
      BY <2>3, RowFields
  <2>5. back \in Seq(Letters) /\ \A u : Worth(u, back) = Of(u, x.item, x.zeny)
    <3> DEFINE l == Letter(x.to, x.from, x.item, x.zeny)
    <3>1. l \in Letters /\ l.item = x.item /\ l.zeny = x.zeny
        BY <2>4, LetterIs
    <3> HIDE DEF l
    <3> QED BY <3>1, OneMessage, WorthOne DEF l
  <2>6. msg \in Answers /\ msg.t = "struck"
      BY <1>3, AnswerIs
  <2> HIDE DEF back, msg
  <2>7. rs \in Seq(Answers) /\ (\A j \in 1 .. Len(rs) : rs[j].t \in {"newmail", "struck"}) /\ \A u : In(u, rs) = 0
    <3> DEFINE a == News(back)
               b == <<msg>>
    <3>1. a \in Seq(Answers) /\ \A i \in 1 .. Len(a) : a[i].t = "newmail"
        BY <2>5, NewsAre
    <3>2. b \in Seq(Answers) /\ \A i \in 1 .. Len(b) : b[i] = msg
        BY <2>6, OneMessage
    <3> HIDE DEF a, b
    <3>3. rs \in Seq(Answers) /\ \A j \in 1 .. Len(rs) : rs[j].t \in {"newmail", "struck"}
      <4> DEFINE c == a \o b
      <4>1. /\ c \in Seq(Answers) /\ (\A i \in 1 .. Len(a) : c[i] = a[i])
            /\ \A i \in 1 .. Len(c) : i \in 1 .. Len(a) \/ \E j \in 1 .. Len(b) : i = Len(a) + j /\ c[i] = b[j]
        <5>1. a \in Seq(Answers) /\ b \in Seq(Answers)
            BY <3>1, <3>2
        <5>2. c \in Seq(Answers) /\ \A i \in 1 .. Len(a) : c[i] = a[i]
            BY <5>1, Appended
        <5>3. \A i \in 1 .. Len(c) : i \in 1 .. Len(a) \/ \E j \in 1 .. Len(b) : i = Len(a) + j /\ c[i] = b[j]
            BY <5>1, Appended
        <5> QED BY <5>2, <5>3
      <4> HIDE DEF c
      <4>2. \A j \in 1 .. Len(c) : c[j].t \in {"newmail", "struck"}
          BY <2>6, <3>1, <3>2, <4>1
      <4> QED BY <4>1, <4>2 DEF a, b, c
    <3> HIDE DEF rs
    <3>4. \A u : In(u, rs) = 0
        BY <3>3, AnswersAreMessages, LightPackets
    <3> QED BY <3>3, <3>4
  <2> HIDE DEF rs
  <2>8. ASSUME NEW u \in Kinds
        PROVE  In(u, rs) + Mailed(u, mails \ {x}) + Worth(u, back) + Sold(u, auctions') = InPacket(u, h) + Mailed(u, mails) + Sold(u, auctions)
    <3>1. In(u, rs) = 0 /\ InPacket(u, h) = 0 /\ Sold(u, auctions') = Sold(u, auctions)
        BY <2>1, <2>7 DEF InPacket
    <3>2. Mailed(u, mails) = Of(u, x.item, x.zeny) + Mailed(u, mails \ {x})
        BY <1>1, <2>3, MailedWithout DEF PostTypes
    <3>3. Mailed(u, mails \ {x}) \in Nat
      <4>1. IsFiniteSet(mails \ {x}) /\ mails \ {x} \subseteq Rows
          BY <1>1, FS_Subset DEF PostTypes
      <4> QED BY <4>1, MailedType
    <3>4. Of(u, x.item, x.zeny) \in Nat /\ Worth(u, back) = Of(u, x.item, x.zeny) /\ Sold(u, auctions) \in Nat
        BY <1>1, <2>4, <2>5, OfType, PartsAre
    <3> QED BY <3>1, <3>2, <3>3, <3>4
  <2>9. auctions' \in [Wares -> Sales] /\ BidsAreForSale'
      BY <1>1, <2>1 DEF PostTypes, BidsAreForSale
  <2>10. h.t \notin {"read", "attach"}
      OBVIOUS
  <2>11. \A j \in 1 .. Len(rs) : rs[j].t # "inbox"
      BY <2>7
  <2>12. UNCHANGED <<ends, poster, bag, purse, inbox, mislaid>>
      OBVIOUS
  <2>13. PostAnswer(rs) \/ (rs = <<>> /\ fromInter' = fromInter)
      BY <2>1
  <2> QED BY <2>1, <2>3, <2>5, <2>7, <2>8, <2>9, <2>10, <2>11, <2>12, <2>13, StoringKeeps DEF h
<1> QED BY <1>4, <1>5

LEMMA StoredMailKeeps ==
    ASSUME PostInv, Asked # <<>>, TakenFrom(m0), UNCHANGED <<ends, poster, bag, purse, inbox, mislaid>>,
           Head(Asked).t = "mail", mapif_parse_Mail_send(Head(Asked))
    PROVE  PostInv'
<1>1. PipeTypes /\ PostTypes /\ RowsDiffer /\ BidsAreForSale
    BY DEF PostInv
<1> DEFINE h == Head(Asked)
<1>2. h \in Requests
    BY <1>1, PipesAre, TailIs
<1>3. h.from \in Posters /\ h.to \in Someone /\ h.item \in Kinds /\ h.zeny \in Nat
    BY <1>2, RequestFields
<1>4. UNCHANGED <<ends, poster, bag, purse, inbox, mislaid>> /\ h.t \notin {"read", "attach"}
    OBVIOUS
<1>5. \A u : InPacket(u, h) = Of(u, h.item, h.zeny)
    BY DEF InPacket
<1>6. CASE h.to \in Posters \ {h.from}
  <2> DEFINE l == Letter(h.from, h.to, h.item, h.zeny)
             S == <<l>>
             msg == [t |-> "mailed", p |-> h.from, to |-> h.to]
             rs == <<msg>>
  <2>1. Store(S, {}) /\ PostAnswer(rs) /\ UNCHANGED auctions
      BY <1>6 DEF mapif_parse_Mail_send
  <2>2. l \in Letters /\ l.item = h.item /\ l.zeny = h.zeny
    <3>1. h.from \in Someone
        BY <1>3 DEF Someone
    <3> QED BY <1>3, <3>1, LetterIs
  <2>3. msg \in Answers /\ msg.t = "mailed"
      BY <1>3, <1>6, AnswerIs
  <2> HIDE DEF l, msg, h
  <2>4. S \in Seq(Letters) /\ \A u : Worth(u, S) = Of(u, h.item, h.zeny)
      BY <2>2, OneMessage, WorthOne
  <2>5. rs \in Seq(Answers) /\ \A i \in 1 .. Len(rs) : rs[i] = msg
      BY <2>3, OneMessage
  <2> HIDE DEF S, rs
  <2>6. \A u : In(u, rs) = 0
      BY <2>3, <2>5, AnswersAreMessages, LightPackets
  <2>7. mails \ {} = mails /\ {} \in SUBSET mails
      OBVIOUS
  <2>8. ASSUME NEW u \in Kinds
        PROVE  In(u, rs) + Mailed(u, mails \ {}) + Worth(u, S) + Sold(u, auctions') = InPacket(u, h) + Mailed(u, mails) + Sold(u, auctions)
    <3>1. In(u, rs) = 0 /\ InPacket(u, h) = Of(u, h.item, h.zeny) /\ Sold(u, auctions') = Sold(u, auctions)
        BY <1>5, <2>1, <2>6
    <3>2. Mailed(u, mails \ {}) = Mailed(u, mails) /\ Worth(u, S) = Of(u, h.item, h.zeny)
        BY <2>4, <2>7
    <3>3. Mailed(u, mails) \in Nat /\ Of(u, h.item, h.zeny) \in Nat /\ Sold(u, auctions) \in Nat
        BY <1>1, <1>3, OfType, PartsAre
    <3> QED BY <3>1, <3>2, <3>3
  <2>9. auctions' \in [Wares -> Sales] /\ BidsAreForSale'
      BY <1>1, <2>1 DEF PostTypes, BidsAreForSale
  <2>10. \A j \in 1 .. Len(rs) : rs[j].t # "inbox"
      BY <2>3, <2>5
  <2>11. PostAnswer(rs) \/ (rs = <<>> /\ fromInter' = fromInter)
      BY <2>1
  <2>12. Store(S, {})
      BY <2>1
  <2> QED BY <1>4, <2>4, <2>5, <2>7, <2>8, <2>9, <2>10, <2>11, <2>12, StoringKeeps DEF h
<1>7. CASE h.to \notin Posters \ {h.from}
  <2> DEFINE msg == [t |-> "back", p |-> h.from, item |-> h.item, zeny |-> h.zeny]
             rs == <<msg>>
  <2>1. PostAnswer(rs) /\ UNCHANGED postTables
      BY <1>7 DEF mapif_parse_Mail_send
  <2>2. msg \in Answers /\ msg.t = "back" /\ msg.item = h.item /\ msg.zeny = h.zeny
      BY <1>3, AnswerIs
  <2> HIDE DEF msg, h
  <2>3. rs \in Seq(Answers) /\ (\A i \in 1 .. Len(rs) : rs[i] = msg) /\ \A u : In(u, rs) = InPacket(u, msg)
    <3>1. msg \in Messages
        BY <2>2 DEF Messages
    <3> QED BY <2>2, <3>1, OneMessage, InOne
  <2> HIDE DEF rs
  <2>4. \A u \in Kinds : In(u, rs) = InPacket(u, h)
      BY <1>5, <2>2, <2>3 DEF InPacket
  <2>5. \A j \in 1 .. Len(rs) : rs[j].t = "inbox" => \A y \in rs[j].page : y \in mails /\ y.to = rs[j].p
      BY <2>2, <2>3
  <2>6. PostAnswer(rs) \/ (rs = <<>> /\ fromInter' = fromInter)
      BY <2>1
  <2> QED BY <1>4, <2>1, <2>3, <2>4, <2>5, <2>6, TablesStay DEF h
<1> QED BY <1>6, <1>7

(* An auction changes while no mail does. *)
LEMMA AuctionKeeps ==
    ASSUME PostInv, Asked # <<>>, TakenFrom(m0), UNCHANGED <<ends, poster, bag, purse, inbox, mislaid>>,
           NEW rs \in Seq(Answers), PostAnswer(rs) \/ (rs = <<>> /\ fromInter' = fromInter), UNCHANGED <<mails, written>>,
           NEW w \in Wares, NEW a \in Sales, auctions' = [auctions EXCEPT ![w] = a], a.seller = Manager => a.buyer = Manager,
           Head(Asked).t \notin {"read", "attach"}, \A j \in 1 .. Len(rs) : rs[j].t # "inbox",
           \A u \in Kinds : u \notin {w, NoWare} => In(u, rs) = InPacket(u, Head(Asked)),
           \A u \in {w, NoWare} : In(u, rs) + AtAuction(u, a) = InPacket(u, Head(Asked)) + AtAuction(u, auctions[w])
    PROVE  PostInv'
<1>1. PipeTypes /\ PostTypes /\ RowsDiffer /\ BidsAreForSale
    BY DEF PostInv
<1>2. toInter' \in [MapServers -> Seq(Requests)] /\ Asked' = Tail(Asked)
    BY <1>1, TakenFromIs
<1>3. fromInter' \in [MapServers -> Seq(Answers)] /\ Answered' = Answered \o rs
    BY <1>1, AnswersAre
<1>4. mails' = mails /\ written' = written
    OBVIOUS
<1>5. /\ IsFiniteSet(mails') /\ mails' \subseteq Rows /\ written' \in Nat /\ written <= written'
      /\ RowsDiffer' /\ RowsFollow(mails', mails, Head(Asked), written)
    BY <1>1, <1>4, SameRowFollows DEF PostTypes, RowsDiffer, RowsFollow
<1>6. auctions \in [Wares -> Sales]
    BY <1>1 DEF PostTypes
<1>7. /\ auctions' \in [Wares -> Sales]
      /\ \A u : u \in {w, NoWare} => Sold(u, auctions') = Sold(u, auctions) + AtAuction(u, a) - AtAuction(u, auctions[w])
      /\ \A u : u \notin {w, NoWare} => Sold(u, auctions') = Sold(u, auctions)
  <2>1. auctions' \in [Wares -> Sales] /\ auctions'[w] = a /\ \A v \in Wares : v # w => auctions'[v] = auctions[v]
      BY <1>6
  <2> DEFINE B == auctions'
  <2>2. B \in [Wares -> Sales] /\ B[w] = a /\ \A v \in Wares : v # w => B[v] = auctions[v]
      BY <2>1
  <2> HIDE DEF B
  <2>3. ASSUME NEW u
        PROVE  /\ u \in {w, NoWare} => Sold(u, B) = Sold(u, auctions) + AtAuction(u, a) - AtAuction(u, auctions[w])
               /\ u \notin {w, NoWare} => Sold(u, B) = Sold(u, auctions)
    <3>1. /\ u \in {w, NoWare} => Sold(u, B) = Sold(u, auctions) + AtAuction(u, B[w]) - AtAuction(u, auctions[w])
          /\ u \notin {w, NoWare} => Sold(u, B) = Sold(u, auctions)
        BY <1>6, <2>2, SoldChange
    <3> QED BY <2>2, <3>1
  <2> QED BY <2>2, <2>3 DEF B
<1>8. BidsAreForSale'
    BY <1>1, <1>6 DEF BidsAreForSale
<1>9. ASSUME NEW u \in Kinds
      PROVE  In(u, rs) + Mailed(u, mails') + Sold(u, auctions') = InPacket(u, Head(Asked)) + Mailed(u, mails) + Sold(u, auctions)
  <2>1. Mailed(u, mails') = Mailed(u, mails) /\ Mailed(u, mails) \in Nat /\ Sold(u, auctions) \in Nat
      BY <1>1, <1>4, PartsAre
  <2>2. In(u, rs) \in Nat
      BY AnswersAreMessages, LoadsType
  <2>3. InPacket(u, Head(Asked)) \in Nat
    <3>1. Head(Asked) \in Messages
        BY <1>1, PipesAre, TailIs
    <3> QED BY <3>1, InPacketType
  <2>4. AtAuction(u, a) \in Nat /\ AtAuction(u, auctions[w]) \in Nat
    <3>1. a.price \in Nat /\ auctions[w].price \in Nat
        BY <1>6 DEF Sales
    <3> QED BY <3>1 DEF AtAuction
  <2>5. CASE u \in {w, NoWare}
    <3>1. Sold(u, auctions') = Sold(u, auctions) + AtAuction(u, a) - AtAuction(u, auctions[w])
        BY <1>7, <2>5
    <3>2. In(u, rs) + AtAuction(u, a) = InPacket(u, Head(Asked)) + AtAuction(u, auctions[w])
        BY <2>5
    <3> DEFINE i == In(u, rs)
               h == InPacket(u, Head(Asked))
               m2 == Mailed(u, mails')
               m == Mailed(u, mails)
               s2 == Sold(u, auctions')
               s == Sold(u, auctions)
               b == AtAuction(u, a)
               c == AtAuction(u, auctions[w])
    <3>3. i \in Nat /\ h \in Nat /\ m \in Nat /\ s \in Nat /\ b \in Nat /\ c \in Nat /\ m2 = m /\ s2 = s + b - c /\ i + b = h + c
        BY <2>1, <2>2, <2>3, <2>4, <3>1, <3>2
    <3> HIDE DEF i, h, m2, m, s2, s, b, c
    <3>4. i + m2 + s2 = h + m + s
        BY <3>3
    <3> QED BY <3>4 DEF i, h, m2, m, s2, s
  <2>6. CASE u \notin {w, NoWare}
    <3>1. Sold(u, auctions') = Sold(u, auctions) /\ In(u, rs) = InPacket(u, Head(Asked))
        BY <1>7, <2>6
    <3> QED BY <2>1, <3>1
  <2> QED BY <2>5, <2>6
<1>10. \A j \in 1 .. Len(rs) : rs[j].t = "inbox" => mails' = mails /\ \A y \in rs[j].page : y \in mails /\ y.to = rs[j].p
    OBVIOUS
<1>11. UNCHANGED <<ends, poster, bag, purse, inbox, mislaid>>
    OBVIOUS
<1> QED BY <1>2, <1>3, <1>5, <1>7, <1>8, <1>9, <1>10, <1>11, ServerKeeps

LEMMA RegisteredKeeps ==
    ASSUME PostInv, Asked # <<>>, TakenFrom(m0), UNCHANGED <<ends, poster, bag, purse, inbox, mislaid>>,
           Head(Asked).t = "register", mapif_parse_Auction_register(Head(Asked))
    PROVE  PostInv'
<1>1. PipeTypes /\ PostTypes /\ RowsDiffer /\ BidsAreForSale
    BY DEF PostInv
<1> DEFINE h == Head(Asked)
           w == h.item
<1>2. h \in Requests /\ h \in Messages
    BY <1>1, PipesAre, TailIs
<1>3. h.p \in Posters /\ w \in Wares /\ h.price \in Nat
    BY <1>2, RequestFields
<1>4. UNCHANGED <<ends, poster, bag, purse, inbox, mislaid>> /\ h.t \notin {"read", "attach"}
    OBVIOUS
<1>5. \A u : InPacket(u, h) = Of(u, w, 0)
    BY DEF InPacket
<1>6. w # NoWare /\ Manager \notin Posters
    BY <1>3, ServerOfPosters
(* The item is in the packet, so that it is not for sale yet. *)
<1>7. auctions[w].seller = Manager /\ auctions[w].buyer = Manager
  <2>1. 1 <= In(w, Asked)
    <3>1. In(w, Tail(Asked)) = In(w, Asked) - InPacket(w, h)
        BY <1>1, PipesAre, InTaken
    <3>2. In(w, Tail(Asked)) \in Nat /\ In(w, Asked) \in Nat
      <4>1. Tail(Asked) \in Seq(Messages)
          BY <1>1, PipesAre, TailIs
      <4> QED BY <1>1, <4>1, PipesAre, LoadsType
    <3>3. InPacket(w, h) = 1
        BY <1>5, <1>6 DEF Of
    <3> QED BY <3>1, <3>2, <3>3
  <2>2. auctions[w].seller = Manager
      BY <1>3, <2>1, ItemsAreOnce
  <2> QED BY <1>1, <1>3, <2>2 DEF BidsAreForSale
<1>8. CASE auctions' = [auctions EXCEPT ![w] = [seller |-> h.p, buyer |-> Manager, price |-> h.price]]
             /\ UNCHANGED <<fromInter, mails, written>>
  <2> DEFINE a == [seller |-> h.p, buyer |-> Manager, price |-> h.price]
             rs == <<>>
  <2>1. a \in Sales /\ a.seller = h.p /\ a.buyer = Manager
      BY <1>3 DEF Sales, Someone
  <2>2. rs \in Seq(Answers) /\ rs = <<>> /\ fromInter' = fromInter /\ \A j \in 1 .. Len(rs) : rs[j].t # "inbox"
      BY <1>8
  <2>3. \A u : In(u, rs) = 0
      BY InNone
  <2>4. auctions' = [auctions EXCEPT ![w] = a] /\ UNCHANGED <<mails, written>>
      BY <1>8
  <2> HIDE DEF a, rs
  <2>5. \A u \in Kinds : u \notin {w, NoWare} => In(u, rs) = InPacket(u, h)
      BY <1>5, <2>3 DEF Of
  <2>6. \A u \in {w, NoWare} : In(u, rs) + AtAuction(u, a) = InPacket(u, h) + AtAuction(u, auctions[w])
    <3>1. In(w, rs) + AtAuction(w, a) = InPacket(w, h) + AtAuction(w, auctions[w])
      <4>1. In(w, rs) = 0 /\ InPacket(w, h) = 1 /\ AtAuction(w, a) = 1 /\ AtAuction(w, auctions[w]) = 0
          BY <1>3, <1>5, <1>6, <1>7, <2>1, <2>3 DEF Of, AtAuction
      <4> QED BY <4>1
    <3>2. In(NoWare, rs) + AtAuction(NoWare, a) = InPacket(NoWare, h) + AtAuction(NoWare, auctions[w])
      <4>1. In(NoWare, rs) = 0 /\ InPacket(NoWare, h) = 0 /\ AtAuction(NoWare, a) = 0 /\ AtAuction(NoWare, auctions[w]) = 0
          BY <1>5, <1>7, <2>1, <2>3 DEF Of, AtAuction
      <4> QED BY <4>1
    <3> QED BY <3>1, <3>2
  <2>7. PostAnswer(rs) \/ (rs = <<>> /\ fromInter' = fromInter)
      BY <2>2
  <2>8. a.seller = Manager => a.buyer = Manager
      BY <2>1
  <2> QED BY <1>3, <1>4, <2>1, <2>2, <2>4, <2>5, <2>6, <2>7, <2>8, AuctionKeeps DEF h
<1>9. CASE PostAnswer(<<[t |-> "back", p |-> h.p, item |-> w, zeny |-> 0]>>) /\ UNCHANGED postTables
  <2> DEFINE msg == [t |-> "back", p |-> h.p, item |-> w, zeny |-> 0]
             rs == <<msg>>
  <2>1. msg \in Answers /\ msg.t = "back" /\ msg.item = w /\ msg.zeny = 0
    <3>1. w \in Kinds /\ 0 \in Nat
        BY <1>3 DEF Kinds
    <3> QED BY <1>3, <3>1, AnswerIs
  <2>2. PostAnswer(rs) /\ UNCHANGED postTables
      BY <1>9
  <2> HIDE DEF msg
  <2>3. rs \in Seq(Answers) /\ (\A i \in 1 .. Len(rs) : rs[i] = msg) /\ \A u : In(u, rs) = InPacket(u, msg)
    <3>1. msg \in Messages
        BY <2>1 DEF Messages
    <3> QED BY <2>1, <3>1, OneMessage, InOne
  <2> HIDE DEF rs
  <2>4. \A u \in Kinds : In(u, rs) = InPacket(u, h)
      BY <1>5, <2>1, <2>3 DEF InPacket
  <2>5. \A j \in 1 .. Len(rs) : rs[j].t = "inbox" => \A y \in rs[j].page : y \in mails /\ y.to = rs[j].p
      BY <2>1, <2>3
  <2>6. PostAnswer(rs) \/ (rs = <<>> /\ fromInter' = fromInter)
      BY <2>2
  <2> QED BY <1>4, <2>2, <2>3, <2>4, <2>5, <2>6, TablesStay DEF h
<1> QED BY <1>8, <1>9 DEF mapif_parse_Auction_register

(* An auction ends: what it held goes into letters, or back with the answer. *)
Stake(u, w) == IF u = NoWare THEN (IF auctions[w].buyer = Manager THEN 0 ELSE auctions[w].price)
               ELSE IF u = w /\ auctions[w].seller # Manager THEN 1 ELSE 0

LEMMA StakeType ==
    ASSUME PostTypes, NEW w \in Wares
    PROVE  /\ \A u : Stake(u, w) \in Nat
           /\ auctions[w].seller \in Someone /\ auctions[w].buyer \in Someone /\ auctions[w].price \in Nat
<1>1. auctions[w] \in Sales
    BY DEF PostTypes
<1>2. auctions[w].seller \in Someone /\ auctions[w].buyer \in Someone /\ auctions[w].price \in Nat
    BY <1>1 DEF Sales
<1> QED BY <1>2 DEF Stake

LEMMA AuctionLetters ==
    /\ \A w \in Wares, p \in Someone :
           Goods(w, p) \in Letters /\ \A u : Of(u, Goods(w, p).item, Goods(w, p).zeny) = IF u = w THEN 1 ELSE 0
    /\ \A z \in Nat, p \in Someone :
           Zeny(z, p) \in Letters /\ \A u : Of(u, Zeny(z, p).item, Zeny(z, p).zeny) = IF u = NoWare THEN z ELSE 0
<1>1. Manager \in Someone /\ Wares \subseteq Kinds /\ NoWare \in Kinds /\ NoWare \notin Wares /\ 0 \in Nat
    BY ServerOfPosters DEF Someone, Kinds
<1>2. ASSUME NEW w \in Wares, NEW p \in Someone
      PROVE  Goods(w, p) \in Letters /\ \A u : Of(u, Goods(w, p).item, Goods(w, p).zeny) = IF u = w THEN 1 ELSE 0
  <2>1. Goods(w, p) \in Letters /\ Goods(w, p).item = w /\ Goods(w, p).zeny = 0
      BY <1>1, LetterIs DEF Goods
  <2>2. w # NoWare
      BY <1>1
  <2> QED BY <2>1, <2>2 DEF Of
<1>3. ASSUME NEW z \in Nat, NEW p \in Someone
      PROVE  Zeny(z, p) \in Letters /\ \A u : Of(u, Zeny(z, p).item, Zeny(z, p).zeny) = IF u = NoWare THEN z ELSE 0
  <2>1. Zeny(z, p) \in Letters /\ Zeny(z, p).item = NoWare /\ Zeny(z, p).zeny = z
      BY <1>1, LetterIs DEF Zeny
  <2> QED BY <2>1 DEF Of
<1> QED BY <1>2, <1>3

LEMMA OutbidIs ==
    ASSUME PostTypes, NEW w \in Wares
    PROVE  /\ Outbid(auctions[w]) \in Seq(Letters)
           /\ \A u : Worth(u, Outbid(auctions[w])) = IF u = NoWare THEN Stake(u, w) ELSE 0
<1> DEFINE a == auctions[w]
           l == Zeny(a.price, a.buyer)
<1>1. a.buyer \in Someone /\ a.price \in Nat
    BY StakeType
<1>2. CASE a.buyer = Manager
  <2>1. Outbid(a) = <<>>
      BY <1>2 DEF Outbid
  <2>2. <<>> \in Seq(Letters) /\ \A u : Worth(u, <<>>) = 0
      BY WorthNone
  <2>3. Stake(NoWare, w) = 0
      BY <1>2 DEF Stake
  <2> QED BY <2>1, <2>2, <2>3
<1>3. CASE a.buyer # Manager
  <2>1. Outbid(a) = <<l>>
      BY <1>3 DEF Outbid
  <2>2. l \in Letters /\ \A u : Of(u, l.item, l.zeny) = IF u = NoWare THEN a.price ELSE 0
      BY <1>1, AuctionLetters
  <2>3. Stake(NoWare, w) = a.price
      BY <1>3 DEF Stake
  <2> HIDE DEF l
  <2>4. <<l>> \in Seq(Letters) /\ \A u : Worth(u, <<l>>) = Of(u, l.item, l.zeny)
      BY <2>2, OneMessage, WorthOne
  <2> QED BY <2>1, <2>2, <2>3, <2>4
<1> QED BY <1>2, <1>3

LEMMA EndsAre ==
    ASSUME PipeTypes, PostTypes, BidsAreForSale, NEW w \in Wares, NEW S \in Seq(Letters), NEW reply \in Seq(Answers),
           Ends(w, S, reply), \A j \in 1 .. Len(reply) : reply[j].t # "inbox"
    PROVE  /\ Store(S, {}) /\ PostAnswer(News(S) \o reply) /\ News(S) \o reply \in Seq(Answers)
           /\ \A j \in 1 .. Len(News(S) \o reply) : (News(S) \o reply)[j].t # "inbox"
           /\ \A u : In(u, News(S) \o reply) = In(u, reply) /\ In(u, reply) \in Nat
           /\ auctions' \in [Wares -> Sales] /\ BidsAreForSale'
           /\ \A u : Sold(u, auctions') = Sold(u, auctions) - Stake(u, w)
<1> DEFINE n == News(S)
<1>1. Store(S, {}) /\ PostAnswer(n \o reply) /\ auctions' = [auctions EXCEPT ![w] = NoAuction]
    BY DEF Ends
<1>2. n \in Seq(Answers) /\ (\A i \in 1 .. Len(n) : n[i].t = "newmail") /\ \A u : In(u, n) = 0
    BY NewsAre
<1> HIDE DEF n
<1>3. n \o reply \in Seq(Answers) /\ \A j \in 1 .. Len(n \o reply) : (n \o reply)[j].t # "inbox"
  <2> DEFINE c == n \o reply
  <2>1. /\ c \in Seq(Answers) /\ (\A i \in 1 .. Len(n) : c[i] = n[i])
        /\ \A i \in 1 .. Len(c) : i \in 1 .. Len(n) \/ \E j \in 1 .. Len(reply) : i = Len(n) + j /\ c[i] = reply[j]
      BY <1>2, Appended
  <2> HIDE DEF c
  <2>2. \A j \in 1 .. Len(c) : c[j].t # "inbox"
      BY <1>2, <2>1
  <2> QED BY <2>1, <2>2 DEF c
<1>4. ASSUME NEW u PROVE In(u, n \o reply) = In(u, reply) /\ In(u, reply) \in Nat
  <2>1. n \in Seq(Messages) /\ reply \in Seq(Messages)
      BY <1>2, AnswersAreMessages
  <2>2. In(u, n \o reply) = In(u, n) + In(u, reply) /\ In(u, reply) \in Nat
      BY <2>1, InMore, LoadsType
  <2> QED BY <1>2, <2>2
<1>5. auctions \in [Wares -> Sales] /\ NoAuction \in Sales /\ NoAuction.seller = Manager /\ NoAuction.buyer = Manager
    BY DEF PostTypes, Sales, NoAuction, Someone
<1>6. auctions' \in [Wares -> Sales] /\ auctions'[w] = NoAuction /\ \A v \in Wares : v # w => auctions'[v] = auctions[v]
    BY <1>1, <1>5
<1>7. BidsAreForSale'
  <2>1. ASSUME NEW v \in Wares, auctions'[v].seller = Manager PROVE auctions'[v].buyer = Manager
      BY <1>5, <1>6, <2>1 DEF BidsAreForSale
  <2> QED BY <2>1 DEF BidsAreForSale
<1>8. ASSUME NEW u PROVE Sold(u, auctions') = Sold(u, auctions) - Stake(u, w)
  <2> DEFINE B == auctions'
  <2>1. B \in [Wares -> Sales] /\ B[w] = NoAuction /\ \A v \in Wares : v # w => B[v] = auctions[v]
      BY <1>6
  <2> HIDE DEF B
  <2>2. /\ u \in {w, NoWare} => Sold(u, B) = Sold(u, auctions) + AtAuction(u, B[w]) - AtAuction(u, auctions[w])
        /\ u \notin {w, NoWare} => Sold(u, B) = Sold(u, auctions)
      BY <1>5, <2>1, SoldChange
  <2>3. AtAuction(u, B[w]) = 0
      BY <1>5, <2>1 DEF AtAuction
  <2>4. (u \in {w, NoWare} => AtAuction(u, auctions[w]) = Stake(u, w)) /\ (u \notin {w, NoWare} => Stake(u, w) = 0)
      BY DEF AtAuction, Stake
  <2>5. Sold(u, auctions) \in Nat /\ Stake(u, w) \in Nat
      BY <1>5, SoldType, StakeType
  <2>6. Sold(u, B) = Sold(u, auctions) - Stake(u, w)
    <3> DEFINE b == AtAuction(u, B[w])
               c == AtAuction(u, auctions[w])
    <3>1. /\ u \in {w, NoWare} => Sold(u, B) = Sold(u, auctions) + b - c /\ b = 0 /\ c = Stake(u, w)
          /\ u \notin {w, NoWare} => Sold(u, B) = Sold(u, auctions) /\ Stake(u, w) = 0
        BY <2>2, <2>3, <2>4
    <3> HIDE DEF b, c
    <3> QED BY <2>5, <3>1
  <2> QED BY <2>6 DEF B
<1> QED BY <1>1, <1>3, <1>4, <1>6, <1>7, <1>8 DEF n

LEMMA EndsKeeps ==
    ASSUME PostInv, Asked # <<>>, TakenFrom(m0), UNCHANGED <<ends, poster, bag, purse, inbox, mislaid>>,
           NEW w \in Wares, NEW S \in Seq(Letters), NEW reply \in Seq(Answers), Ends(w, S, reply),
           \A j \in 1 .. Len(reply) : reply[j].t # "inbox", Head(Asked).t \notin {"read", "attach"},
           \A u \in Kinds : In(u, reply) + Worth(u, S) = InPacket(u, Head(Asked)) + Stake(u, w)
    PROVE  PostInv'
<1>1. PipeTypes /\ PostTypes /\ BidsAreForSale
    BY DEF PostInv
<1> DEFINE rs == News(S) \o reply
<1>2. /\ Store(S, {}) /\ PostAnswer(rs) /\ rs \in Seq(Answers) /\ (\A j \in 1 .. Len(rs) : rs[j].t # "inbox")
      /\ (\A u : In(u, rs) = In(u, reply) /\ In(u, reply) \in Nat)
      /\ auctions' \in [Wares -> Sales] /\ BidsAreForSale' /\ \A u : Sold(u, auctions') = Sold(u, auctions) - Stake(u, w)
    BY <1>1, EndsAre
<1> HIDE DEF rs
<1>3. mails \ {} = mails /\ {} \in SUBSET mails
    OBVIOUS
<1>4. ASSUME NEW u \in Kinds
      PROVE  In(u, rs) + Mailed(u, mails \ {}) + Worth(u, S) + Sold(u, auctions') = InPacket(u, Head(Asked)) + Mailed(u, mails) + Sold(u, auctions)
  <2> DEFINE i == In(u, reply)
             v == Worth(u, S)
             h == InPacket(u, Head(Asked))
             s == Stake(u, w)
             m == Mailed(u, mails)
             t == Sold(u, auctions)
  <2>1. In(u, rs) = i /\ Mailed(u, mails \ {}) = m /\ Sold(u, auctions') = t - s /\ i + v = h + s
      BY <1>2, <1>3
  <2>2. i \in Nat /\ v \in Nat /\ s \in Nat /\ m \in Nat /\ t \in Nat
      BY <1>1, <1>2, WorthsType, StakeType, PartsAre
  <2>3. h \in Nat
    <3>1. Head(Asked) \in Messages
        BY <1>1, PipesAre, TailIs
    <3> QED BY <3>1, InPacketType
  <2> HIDE DEF i, v, h, s, m, t
  <2>4. i + m + v + (t - s) = h + m + t
      BY <2>1, <2>2, <2>3
  <2> QED BY <2>1, <2>4 DEF v, h, m, t
<1>5. UNCHANGED <<ends, poster, bag, purse, inbox, mislaid>>
    OBVIOUS
<1>6. PostAnswer(rs) \/ (rs = <<>> /\ fromInter' = fromInter)
    BY <1>2
<1>7. Store(S, {}) /\ auctions' \in [Wares -> Sales] /\ BidsAreForSale'
    BY <1>2
<1> QED BY <1>2, <1>3, <1>4, <1>5, <1>6, <1>7, StoringKeeps

LEMMA CancelledKeeps ==
    ASSUME PostInv, Asked # <<>>, TakenFrom(m0), UNCHANGED <<ends, poster, bag, purse, inbox, mislaid>>,
           Head(Asked).t = "cancel", mapif_parse_Auction_cancel(Head(Asked).p, Head(Asked).item)
    PROVE  PostInv'
<1>1. PipeTypes /\ PostTypes
    BY DEF PostInv
<1> DEFINE h == Head(Asked)
           w == h.item
           p == h.p
           a == auctions[w]
<1>2. h \in Requests
    BY <1>1, PipesAre, TailIs
<1>3. p \in Posters /\ w \in Wares
    BY <1>2, RequestFields
<1>4. UNCHANGED <<ends, poster, bag, purse, inbox, mislaid>> /\ h.t = "cancel"
    OBVIOUS
<1>5. CASE ~(a.seller = p /\ a.buyer = Manager)
  <2>1. UNCHANGED <<fromInter, postTables>>
      BY <1>5 DEF mapif_parse_Auction_cancel
  <2> QED BY <1>4, <2>1, RefusedKeeps DEF h
<1>6. CASE a.seller = p /\ a.buyer = Manager
  <2> DEFINE l == Goods(w, p)
             S == <<l>>
             reply == <<>>
  <2>1. Ends(w, S, reply)
      BY <1>6 DEF mapif_parse_Auction_cancel
  <2>2. l \in Letters /\ \A u : Of(u, l.item, l.zeny) = IF u = w THEN 1 ELSE 0
    <3>1. p \in Someone
        BY <1>3 DEF Someone
    <3> QED BY <1>3, <3>1, AuctionLetters
  <2> HIDE DEF l
  <2>3. S \in Seq(Letters) /\ \A u : Worth(u, S) = IF u = w THEN 1 ELSE 0
      BY <2>2, OneMessage, WorthOne
  <2>4. reply \in Seq(Answers) /\ (\A j \in 1 .. Len(reply) : reply[j].t # "inbox") /\ \A u : In(u, reply) = 0
      BY InNone
  <2>5. \A u : Stake(u, w) = IF u = w THEN 1 ELSE 0
    <3>1. p # Manager /\ w # NoWare
        BY <1>3, ServerOfPosters
    <3> QED BY <1>6, <3>1 DEF Stake
  <2>6. \A u : InPacket(u, h) = 0
      BY <1>4 DEF InPacket
  <2> HIDE DEF S, reply, h, w
  <2>7. \A u \in Kinds : In(u, reply) + Worth(u, S) = InPacket(u, h) + Stake(u, w)
      BY <2>3, <2>4, <2>5, <2>6
  <2> QED BY <1>3, <1>4, <2>1, <2>3, <2>4, <2>7, EndsKeeps DEF h
<1> QED BY <1>5, <1>6

LEMMA ClosedKeeps ==
    ASSUME PostInv, Asked # <<>>, TakenFrom(m0), UNCHANGED <<ends, poster, bag, purse, inbox, mislaid>>,
           Head(Asked).t = "close", mapif_parse_Auction_close(Head(Asked).p, Head(Asked).item)
    PROVE  PostInv'
<1>1. PipeTypes /\ PostTypes
    BY DEF PostInv
<1> DEFINE h == Head(Asked)
           w == h.item
           p == h.p
           a == auctions[w]
<1>2. h \in Requests
    BY <1>1, PipesAre, TailIs
<1>3. p \in Posters /\ w \in Wares
    BY <1>2, RequestFields
<1>4. UNCHANGED <<ends, poster, bag, purse, inbox, mislaid>> /\ h.t = "close"
    OBVIOUS
<1>5. CASE ~(a.seller = p /\ a.buyer # Manager)
  <2>1. UNCHANGED <<fromInter, postTables>>
      BY <1>5 DEF mapif_parse_Auction_close
  <2> QED BY <1>4, <2>1, RefusedKeeps DEF h
<1>6. CASE a.seller = p /\ a.buyer # Manager
  <2> DEFINE l == Zeny(a.price, p)
             k == Goods(w, a.buyer)
             S == <<l, k>>
             msg == [t |-> "closed", p |-> p]
             reply == <<msg>>
  <2>1. Ends(w, S, reply)
      BY <1>6 DEF mapif_parse_Auction_close
  <2>2. /\ l \in Letters /\ \A u : Of(u, l.item, l.zeny) = IF u = NoWare THEN a.price ELSE 0
        /\ k \in Letters /\ \A u : Of(u, k.item, k.zeny) = IF u = w THEN 1 ELSE 0
    <3>1. p \in Someone /\ a.buyer \in Someone /\ a.price \in Nat
        BY <1>1, <1>3, StakeType DEF Someone
    <3> QED BY <1>3, <3>1, AuctionLetters
  <2>3. msg \in Answers /\ msg.t = "closed"
      BY <1>3, AnswerIs
  <2> HIDE DEF l, k, msg
  <2>4. S \in Seq(Letters) /\ \A u : Worth(u, S) = (IF u = NoWare THEN a.price ELSE 0) + (IF u = w THEN 1 ELSE 0)
      BY <2>2, WorthTwo
  <2>5. reply \in Seq(Answers) /\ (\A j \in 1 .. Len(reply) : reply[j] = msg)
      BY <2>3, OneMessage
  <2> HIDE DEF S, reply
  <2>6. \A u : In(u, reply) = 0
      BY <2>3, <2>5, AnswersAreMessages, LightPackets
  <2>7. \A u : Stake(u, w) = (IF u = NoWare THEN a.price ELSE 0) + (IF u = w THEN 1 ELSE 0)
    <3>1. p # Manager /\ w # NoWare /\ a.price \in Nat
        BY <1>1, <1>3, ServerOfPosters, StakeType
    <3>2. a.seller # Manager /\ a.buyer # Manager
        BY <1>6, <3>1
    <3> QED BY <3>1, <3>2 DEF Stake
  <2>8. \A u : InPacket(u, h) = 0
      BY <1>4 DEF InPacket
  <2>9. \A u \in Kinds : In(u, reply) + Worth(u, S) = InPacket(u, h) + Stake(u, w)
    <3>1. \A u : Stake(u, w) \in Nat
        BY <1>1, <1>3, StakeType
    <3>2. \A u : Worth(u, S) = Stake(u, w)
        BY <2>4, <2>7
    <3> QED BY <2>6, <2>8, <3>1, <3>2
  <2>10. \A j \in 1 .. Len(reply) : reply[j].t # "inbox"
      BY <2>3, <2>5
  <2> HIDE DEF w, h
  <2> QED BY <1>3, <1>4, <2>1, <2>4, <2>5, <2>9, <2>10, EndsKeeps DEF h
<1> QED BY <1>5, <1>6

(* A bid: given back, or kept, and who was outbid gets the former one by mail. *)
LEMMA ReturnedIs ==
    ASSUME NEW p \in Posters, NEW z \in Nat
    PROVE  /\ <<Returned(p, z)>> \in Seq(Answers) /\ \A j \in 1 .. Len(<<Returned(p, z)>>) : <<Returned(p, z)>>[j].t # "inbox"
           /\ \A u : In(u, <<Returned(p, z)>>) = IF u = NoWare THEN z ELSE 0
<1> DEFINE msg == Returned(p, z)
           reply == <<msg>>
<1>1. msg \in Answers /\ msg.t = "bid" /\ msg.zeny = z
    BY AnswerIs
<1> HIDE DEF msg
<1>2. msg \in Messages
    BY <1>1 DEF Messages
<1>3. reply \in Seq(Answers) /\ (\A j \in 1 .. Len(reply) : reply[j] = msg) /\ \A u : In(u, reply) = InPacket(u, msg)
    BY <1>1, <1>2, OneMessage, InOne
<1>4. \A u : InPacket(u, msg) = IF u = NoWare THEN z ELSE 0
    BY <1>1, ServerOfPosters DEF InPacket, Of
<1> HIDE DEF reply
<1>5. \A j \in 1 .. Len(reply) : reply[j].t # "inbox"
    BY <1>1, <1>3
<1> QED BY <1>3, <1>4, <1>5 DEF reply, msg

LEMMA BidWeighs ==
    ASSUME NEW h \in Requests, h.t = "bid"
    PROVE  \A u \in Kinds : InPacket(u, h) = IF u = NoWare THEN h.zeny ELSE 0
<1>1. NoWare \notin Wares
    BY ServerOfPosters
<1> QED BY <1>1 DEF InPacket, Of, Kinds

LEMMA BidIsKept ==
    ASSUME NEW a \in Sales, NEW p \in Someone, NEW z \in Nat
    PROVE  [[a EXCEPT !.buyer = p] EXCEPT !.price = z] = [seller |-> a.seller, buyer |-> p, price |-> z]
<1> DEFINE c == [a EXCEPT !.buyer = p]
           d == [c EXCEPT !.price = z]
           b == [seller |-> a.seller, buyer |-> p, price |-> z]
<1>1. \A x, y \in Sales : x.seller = y.seller /\ x.buyer = y.buyer /\ x.price = y.price => x = y
    BY DEF Sales
<1>2. c \in Sales /\ c.seller = a.seller /\ c.buyer = p
    BY DEF Sales
<1> HIDE DEF c
<1>3. d \in Sales /\ d.seller = c.seller /\ d.buyer = c.buyer /\ d.price = z
    BY <1>2 DEF Sales
<1>4. b \in Sales /\ b.seller = a.seller /\ b.buyer = p /\ b.price = z
    BY DEF Sales
<1> HIDE DEF d, b
<1>5. d = b
    BY <1>1, <1>2, <1>3, <1>4
<1> QED BY <1>5 DEF b, c, d

LEMMA OfferKeeps ==
    ASSUME PostInv, Asked # <<>>, TakenFrom(m0), UNCHANGED <<ends, poster, bag, purse, inbox, mislaid>>,
           Head(Asked).t = "bid", mapif_parse_Auction_bid(Head(Asked).p, Head(Asked).item, Head(Asked).zeny)
    PROVE  PostInv'
<1>1. PipeTypes /\ PostTypes /\ BidsAreForSale
    BY DEF PostInv
<1> DEFINE h == Head(Asked)
           w == h.item
           p == h.p
           bid == h.zeny
           a == auctions[w]
<1>2. h \in Requests
    BY <1>1, PipesAre, TailIs
<1>3. p \in Posters /\ w \in Wares /\ bid \in Nat
    BY <1>2, RequestFields
<1>4. UNCHANGED <<ends, poster, bag, purse, inbox, mislaid>> /\ h.t = "bid" /\ h.t \notin {"read", "attach"}
    OBVIOUS
<1>5. \A u \in Kinds : InPacket(u, h) = IF u = NoWare THEN bid ELSE 0
    BY <1>2, BidWeighs
<1>6. p \in Someone /\ a.seller \in Someone /\ a.buyer \in Someone /\ a.price \in Nat /\ w # NoWare /\ p # Manager /\ Manager \notin Posters
    BY <1>1, <1>3, StakeType, ServerOfPosters DEF Someone
<1>7. CASE PostAnswer(<<Returned(p, bid)>>) /\ UNCHANGED postTables
  <2> DEFINE rs == <<Returned(p, bid)>>
  <2>1. rs \in Seq(Answers) /\ (\A j \in 1 .. Len(rs) : rs[j].t # "inbox") /\ \A u : In(u, rs) = IF u = NoWare THEN bid ELSE 0
      BY <1>3, ReturnedIs
  <2>2. PostAnswer(rs) \/ (rs = <<>> /\ fromInter' = fromInter)
      BY <1>7
  <2> HIDE DEF rs, bid
  <2>3. \A u \in Kinds : In(u, rs) = InPacket(u, h)
      BY <1>5, <2>1
  <2>4. \A j \in 1 .. Len(rs) : rs[j].t = "inbox" => \A y \in rs[j].page : y \in mails /\ y.to = rs[j].p
      BY <2>1
  <2>5. UNCHANGED postTables
      BY <1>7
  <2> QED BY <1>4, <2>1, <2>2, <2>3, <2>4, <2>5, TablesStay DEF h
<1>8. CASE a.seller \notin {Manager, p} /\ bid >= BuyNow /\ Ends(w, Outbid(a) \o <<Goods(w, p), Zeny(BuyNow, a.seller)>>, <<Returned(p, bid - BuyNow)>>)
  <2> DEFINE o == Outbid(a)
             l == Goods(w, p)
             k == Zeny(BuyNow, a.seller)
             g == <<l, k>>
             S == o \o g
             rest == bid - BuyNow
             reply == <<Returned(p, rest)>>
  <2>1. Ends(w, S, reply)
      BY <1>8
  <2>2. rest \in Nat /\ rest + BuyNow = bid /\ BuyNow \in Nat
      BY <1>3, <1>8, ServerOfPosters
  <2> HIDE DEF rest
  <2>3. reply \in Seq(Answers) /\ (\A j \in 1 .. Len(reply) : reply[j].t # "inbox") /\ \A u : In(u, reply) = IF u = NoWare THEN rest ELSE 0
      BY <1>3, <2>2, ReturnedIs
  <2>4. o \in Seq(Letters) /\ \A u : Worth(u, o) = IF u = NoWare THEN Stake(u, w) ELSE 0
      BY <1>1, <1>3, OutbidIs
  <2>5. /\ l \in Letters /\ \A u : Of(u, l.item, l.zeny) = IF u = w THEN 1 ELSE 0
        /\ k \in Letters /\ \A u : Of(u, k.item, k.zeny) = IF u = NoWare THEN BuyNow ELSE 0
      BY <1>3, <1>6, <2>2, AuctionLetters
  <2> HIDE DEF l, k, o
  <2>6. g \in Seq(Letters) /\ \A u : Worth(u, g) = (IF u = w THEN 1 ELSE 0) + (IF u = NoWare THEN BuyNow ELSE 0)
      BY <2>5, WorthTwo
  <2> HIDE DEF g
  <2>7. S \in Seq(Letters) /\ \A u : Worth(u, S) = Worth(u, o) + Worth(u, g)
      BY <2>4, <2>6, ConcatProperties, WorthMore
  <2> HIDE DEF S, reply, bid, w, a
  <2>8. \A u \in Kinds : In(u, reply) + Worth(u, S) = InPacket(u, h) + Stake(u, w)
    <3> SUFFICES ASSUME NEW u \in Kinds PROVE In(u, reply) + Worth(u, S) = InPacket(u, h) + Stake(u, w)
        OBVIOUS
    <3>1. Worth(u, S) = Worth(u, o) + Worth(u, g) /\ Stake(u, w) \in Nat
        BY <1>1, <1>3, <2>7, StakeType
    <3>2. CASE u = NoWare
      <4>1. In(u, reply) = rest /\ Worth(u, o) = Stake(u, w) /\ Worth(u, g) = 0 + BuyNow /\ InPacket(u, h) = bid
          BY <1>5, <1>6, <2>3, <2>4, <2>6, <3>2
      <4> QED BY <1>3, <2>2, <3>1, <4>1
    <3>3. CASE u # NoWare
      <4>1. In(u, reply) = 0 /\ Worth(u, o) = 0 /\ Worth(u, g) = (IF u = w THEN 1 ELSE 0) + 0 /\ InPacket(u, h) = 0
          BY <1>5, <1>6, <2>3, <2>4, <2>6, <3>3
      <4>2. Stake(u, w) = IF u = w THEN 1 ELSE 0
          BY <1>8, <3>3 DEF Stake, a
      <4> QED BY <3>1, <4>1, <4>2
    <3> QED BY <3>2, <3>3
  <2> QED BY <1>3, <1>4, <2>1, <2>3, <2>7, <2>8, EndsKeeps DEF h
<1>9. CASE /\ a.seller \notin {Manager, p} /\ Store(Outbid(a), {}) /\ PostAnswer(News(Outbid(a)) \o <<Returned(p, 0)>>)
           /\ auctions' = [auctions EXCEPT ![w].buyer = p, ![w].price = bid]
  <2> DEFINE S == Outbid(a)
             n == News(S)
             r == <<Returned(p, 0)>>
             rs == n \o r
  <2>1. Store(S, {}) /\ PostAnswer(rs)
      BY <1>9
  <2>2. S \in Seq(Letters) /\ \A u : Worth(u, S) = IF u = NoWare THEN Stake(u, w) ELSE 0
      BY <1>1, <1>3, OutbidIs
  <2> HIDE DEF S
  <2>3. n \in Seq(Answers) /\ (\A i \in 1 .. Len(n) : n[i].t = "newmail") /\ \A u : In(u, n) = 0
      BY <2>2, NewsAre
  <2>4. r \in Seq(Answers) /\ (\A j \in 1 .. Len(r) : r[j].t # "inbox") /\ \A u : In(u, r) = IF u = NoWare THEN 0 ELSE 0
    <3>1. 0 \in Nat
        OBVIOUS
    <3> QED BY <1>3, <3>1, ReturnedIs
  <2> HIDE DEF n, r
  <2>5. rs \in Seq(Answers) /\ \A j \in 1 .. Len(rs) : rs[j].t # "inbox"
    <3>1. /\ rs \in Seq(Answers) /\ (\A i \in 1 .. Len(n) : rs[i] = n[i])
          /\ \A i \in 1 .. Len(rs) : i \in 1 .. Len(n) \/ \E j \in 1 .. Len(r) : i = Len(n) + j /\ rs[i] = r[j]
        BY <2>3, <2>4, Appended
    <3> HIDE DEF rs
    <3> QED BY <2>3, <2>4, <3>1
  <2>6. \A u : In(u, rs) = 0
    <3>1. n \in Seq(Messages) /\ r \in Seq(Messages)
        BY <2>3, <2>4, AnswersAreMessages
    <3>2. \A u : In(u, rs) = In(u, n) + In(u, r)
        BY <3>1, InMore
    <3> QED BY <2>3, <2>4, <3>2
  <2> HIDE DEF rs
  <2>7. auctions \in [Wares -> Sales]
      BY <1>1 DEF PostTypes
  <2>8. /\ auctions' \in [Wares -> Sales] /\ \A v \in Wares : v # w => auctions'[v] = auctions[v]
        /\ auctions'[w].seller = a.seller /\ auctions'[w].buyer = p /\ auctions'[w].price = bid
    <3> DEFINE b == [seller |-> a.seller, buyer |-> p, price |-> bid]
    <3>1. b \in Sales
        BY <1>3, <1>6 DEF Sales
    <3>2. auctions' = [auctions EXCEPT ![w] = b]
      <4>1. a \in Sales
          BY <1>3, <2>7
      <4>2. [[a EXCEPT !.buyer = p] EXCEPT !.price = bid] = b
          BY <1>3, <1>6, <4>1, BidIsKept
      <4>3. auctions' = [auctions EXCEPT ![w] = [[a EXCEPT !.buyer = p] EXCEPT !.price = bid]]
          BY <1>3, <1>9, <2>7
      <4> QED BY <4>2, <4>3
    <3>3. b.seller = a.seller /\ b.buyer = p /\ b.price = bid
        OBVIOUS
    <3> HIDE DEF b
    <3>4. auctions' \in [Wares -> Sales] /\ auctions'[w] = b /\ \A v \in Wares : v # w => auctions'[v] = auctions[v]
        BY <1>3, <2>7, <3>1, <3>2
    <3> QED BY <3>3, <3>4
  <2>9. BidsAreForSale'
    <3>1. ASSUME NEW v \in Wares, auctions'[v].seller = Manager PROVE auctions'[v].buyer = Manager
      <4> HIDE DEF w
      <4>1. v # w
          BY <1>9, <2>8, <3>1
      <4> QED BY <1>1, <2>8, <3>1, <4>1 DEF BidsAreForSale
    <3> QED BY <3>1 DEF BidsAreForSale
  <2>10. mails \ {} = mails /\ {} \in SUBSET mails
      OBVIOUS
  <2> HIDE DEF h, w, a, bid
  <2>11. ASSUME NEW u \in Kinds
         PROVE  In(u, rs) + Mailed(u, mails \ {}) + Worth(u, S) + Sold(u, auctions') = InPacket(u, h) + Mailed(u, mails) + Sold(u, auctions)
    <3> DEFINE B == auctions'
    <3>1. /\ B \in [Wares -> Sales] /\ \A v \in Wares : v # w => B[v] = auctions[v]
          /\ B[w].seller = a.seller /\ B[w].buyer = p /\ B[w].price = bid
        BY <2>8
    <3> HIDE DEF B
    <3>2. /\ u \in {w, NoWare} => Sold(u, B) = Sold(u, auctions) + AtAuction(u, B[w]) - AtAuction(u, auctions[w])
          /\ u \notin {w, NoWare} => Sold(u, B) = Sold(u, auctions)
        BY <1>3, <2>7, <3>1, SoldChange
    <3>3. u = NoWare => AtAuction(u, B[w]) = bid /\ AtAuction(u, auctions[w]) = Stake(u, w)
        BY <1>6, <3>1 DEF AtAuction, Stake
    <3>4. u # NoWare /\ u = w => AtAuction(u, B[w]) = 1 /\ AtAuction(u, auctions[w]) = 1
        BY <1>9, <3>1 DEF AtAuction, a
    <3>5. Mailed(u, mails) \in Nat /\ Sold(u, auctions) \in Nat /\ Stake(u, w) \in Nat /\ Mailed(u, mails \ {}) = Mailed(u, mails)
        BY <1>1, <1>3, <2>10, PartsAre, StakeType
    <3>6. InPacket(u, h) = (IF u = NoWare THEN bid ELSE 0) /\ Worth(u, S) = (IF u = NoWare THEN Stake(u, w) ELSE 0) /\ In(u, rs) = 0
        BY <1>5, <2>2, <2>6
    <3> DEFINE m == Mailed(u, mails)
               s == Sold(u, auctions)
               s2 == Sold(u, B)
               x == AtAuction(u, B[w])
               y == AtAuction(u, auctions[w])
               z == Stake(u, w)
               k == InPacket(u, h)
               v == Worth(u, S)
    <3>7. /\ u \in {w, NoWare} => s2 = s + x - y
          /\ u \notin {w, NoWare} => s2 = s
        BY <3>2
    <3>8. (u = NoWare => x = bid /\ y = z) /\ (u # NoWare /\ u = w => x = 1 /\ y = 1) /\ m \in Nat /\ s \in Nat /\ z \in Nat /\ bid \in Nat
        BY <1>3, <3>3, <3>4, <3>5
    <3>9. k = (IF u = NoWare THEN bid ELSE 0) /\ v = (IF u = NoWare THEN z ELSE 0)
        BY <3>6
    <3> HIDE DEF m, s, s2, x, y, z, k, v
    <3>10. 0 + m + v + s2 = k + m + s
        BY <3>7, <3>8, <3>9
    <3> QED BY <3>5, <3>6, <3>10 DEF m, s, s2, v, k, B
  <2>12. PostAnswer(rs) \/ (rs = <<>> /\ fromInter' = fromInter)
      BY <2>1
  <2>13. auctions' \in [Wares -> Sales] /\ Store(S, {})
      BY <2>1, <2>8
  <2> QED BY <1>4, <2>2, <2>5, <2>9, <2>10, <2>11, <2>12, <2>13, StoringKeeps DEF h
<1> QED BY <1>7, <1>8, <1>9 DEF mapif_parse_Auction_bid

LEMMA ExpiryKeeps ==
    ASSUME PostInv, NEW w \in Wares, auction_end_timer(w)
    PROVE  PostInv'
<1>1. PipeTypes /\ PostTypes /\ BidsAreForSale /\ RowsDiffer
    BY DEF PostInv
<1> DEFINE a == auctions[w]
           S == IF a.buyer = Manager THEN <<Goods(w, a.seller)>> ELSE <<Goods(w, a.buyer), Zeny(a.price, a.seller)>>
           reply == <<>>
           rs == News(S) \o reply
           h == [t |-> "none"]
<1>2. a.seller # Manager /\ Ends(w, S, reply) /\ UNCHANGED <<toInter, ends, poster, bag, purse, inbox, mislaid>>
    BY DEF auction_end_timer
<1>3. a.seller \in Someone /\ a.buyer \in Someone /\ a.price \in Nat /\ w # NoWare /\ \A u : Stake(u, w) \in Nat
    BY <1>1, StakeType, ServerOfPosters
<1>4. S \in Seq(Letters) /\ \A u : Worth(u, S) = Stake(u, w)
  <2>1. CASE a.buyer = Manager
    <3> DEFINE l == Goods(w, a.seller)
    <3>1. l \in Letters /\ \A u : Of(u, l.item, l.zeny) = IF u = w THEN 1 ELSE 0
        BY <1>3, AuctionLetters
    <3> HIDE DEF l
    <3>2. <<l>> \in Seq(Letters) /\ \A u : Worth(u, <<l>>) = IF u = w THEN 1 ELSE 0
        BY <3>1, OneMessage, WorthOne
    <3>3. \A u : Stake(u, w) = IF u = w THEN 1 ELSE 0
        BY <1>2, <1>3, <2>1 DEF Stake
    <3> QED BY <2>1, <3>2, <3>3 DEF l
  <2>2. CASE a.buyer # Manager
    <3> DEFINE k == Goods(w, a.buyer)
               l == Zeny(a.price, a.seller)
               g == <<k, l>>
    <3>1. /\ l \in Letters /\ \A u : Of(u, l.item, l.zeny) = IF u = NoWare THEN a.price ELSE 0
          /\ k \in Letters /\ \A u : Of(u, k.item, k.zeny) = IF u = w THEN 1 ELSE 0
        BY <1>3, AuctionLetters
    <3>2. S = g
        BY <2>2
    <3> HIDE DEF k, l
    <3>3. g \in Seq(Letters) /\ \A u : Worth(u, g) = (IF u = w THEN 1 ELSE 0) + (IF u = NoWare THEN a.price ELSE 0)
        BY <3>1, WorthTwo
    <3>4. \A u : Stake(u, w) = (IF u = w THEN 1 ELSE 0) + (IF u = NoWare THEN a.price ELSE 0)
        BY <1>2, <1>3, <2>2 DEF Stake
    <3> HIDE DEF g
    <3> QED BY <3>2, <3>3, <3>4
  <2> QED BY <2>1, <2>2
<1>5. reply \in Seq(Answers) /\ (\A j \in 1 .. Len(reply) : reply[j].t # "inbox") /\ \A u : In(u, reply) = 0
    BY InNone
<1> HIDE DEF S, reply
<1>6. /\ Store(S, {}) /\ PostAnswer(rs) /\ rs \in Seq(Answers) /\ (\A j \in 1 .. Len(rs) : rs[j].t # "inbox")
      /\ (\A u : In(u, rs) = In(u, reply))
      /\ auctions' \in [Wares -> Sales] /\ BidsAreForSale' /\ \A u : Sold(u, auctions') = Sold(u, auctions) - Stake(u, w)
    BY <1>1, <1>2, <1>4, <1>5, EndsAre
<1> HIDE DEF rs
<1>7. {} \in SUBSET mails /\ mails \ {} = mails /\ h.t \notin {"read", "attach"}
    OBVIOUS
<1> HIDE DEF h
<1>8. /\ IsFiniteSet(mails') /\ mails' \subseteq Rows /\ written' \in Nat /\ written <= written' /\ RowsDiffer'
      /\ (\A x2 \in mails' : x2.id <= written => x2 \in mails) /\ RowsFollow(mails', mails, h, written)
      /\ \A u : Mailed(u, mails') = Mailed(u, mails \ {}) + Worth(u, S)
    BY <1>1, <1>4, <1>6, <1>7, StoreIs
<1>9. fromInter' \in [MapServers -> Seq(Answers)] /\ Answered' = Answered \o rs
    BY <1>1, <1>6, AnswersAre
<1>10. ASSUME NEW u \in Kinds
       PROVE  In(u, rs) + Mailed(u, mails') + Sold(u, auctions') = Mailed(u, mails) + Sold(u, auctions)
  <2> DEFINE m == Mailed(u, mails)
             s == Sold(u, auctions)
             k == Stake(u, w)
  <2>1. In(u, rs) = 0 /\ Mailed(u, mails') = m + k /\ Sold(u, auctions') = s - k /\ m \in Nat /\ s \in Nat /\ k \in Nat
      BY <1>1, <1>3, <1>4, <1>5, <1>6, <1>7, <1>8, PartsAre
  <2> HIDE DEF m, s, k
  <2>2. 0 + (m + k) + (s - k) = m + s
      BY <2>1
  <2> QED BY <2>1, <2>2 DEF m, s
<1>11. toInter' = toInter /\ UNCHANGED <<ends, poster, bag, purse, inbox, mislaid>>
    BY <1>2
<1> QED BY <1>6, <1>8, <1>9, <1>10, <1>11, TimerKeeps

LEMMA CharServerKeeps ==
    ASSUME PostInv, inter_post_parse_frommap
    PROVE  PostInv'
<1> DEFINE h == Head(Asked)
<1>1. Asked # <<>> /\ TakenFrom(m0) /\ UNCHANGED <<ends, poster, bag, purse, inbox, mislaid>>
    BY DEF inter_post_parse_frommap, Asked
<1>2. \/ h.t = "inbox" /\ mapif_Mail_sendinbox(h.p)
      \/ h.t = "read" /\ mapif_parse_Mail_read(h.id)
      \/ h.t = "attach" /\ mapif_Mail_getattach(h.p, h.id)
      \/ h.t = "delete" /\ mapif_Mail_delete(h.p, h.id)
      \/ h.t = "return" /\ mapif_Mail_return(h.p, h.id)
      \/ h.t = "mail" /\ mapif_parse_Mail_send(h)
      \/ h.t = "register" /\ mapif_parse_Auction_register(h)
      \/ h.t = "cancel" /\ mapif_parse_Auction_cancel(h.p, h.item)
      \/ h.t = "close" /\ mapif_parse_Auction_close(h.p, h.item)
      \/ h.t = "bid" /\ mapif_parse_Auction_bid(h.p, h.item, h.zeny)
    BY DEF inter_post_parse_frommap, Asked
<1>3. UNCHANGED <<ends, poster, bag, purse, inbox, mislaid>>
    BY <1>1
<1>4. CASE h.t = "inbox" /\ mapif_Mail_sendinbox(h.p)
    BY <1>1, <1>3, <1>4, PageKeeps
<1>5. CASE h.t = "read" /\ mapif_parse_Mail_read(h.id)
    BY <1>1, <1>3, <1>5, ReadRowKeeps
<1>6. CASE h.t = "attach" /\ mapif_Mail_getattach(h.p, h.id)
    BY <1>1, <1>3, <1>6, AttachRowKeeps
<1>7. CASE h.t = "delete" /\ mapif_Mail_delete(h.p, h.id)
    BY <1>1, <1>3, <1>7, DeleteRowKeeps
<1>8. CASE h.t = "return" /\ mapif_Mail_return(h.p, h.id)
    BY <1>1, <1>3, <1>8, ReturnKeeps
<1>9. CASE h.t = "mail" /\ mapif_parse_Mail_send(h)
    BY <1>1, <1>3, <1>9, StoredMailKeeps
<1>10. CASE h.t = "register" /\ mapif_parse_Auction_register(h)
    BY <1>1, <1>3, <1>10, RegisteredKeeps
<1>11. CASE h.t = "cancel" /\ mapif_parse_Auction_cancel(h.p, h.item)
    BY <1>1, <1>3, <1>11, CancelledKeeps
<1>12. CASE h.t = "close" /\ mapif_parse_Auction_close(h.p, h.item)
    BY <1>1, <1>3, <1>12, ClosedKeeps
<1>13. CASE h.t = "bid" /\ mapif_parse_Auction_bid(h.p, h.item, h.zeny)
    BY <1>1, <1>3, <1>13, OfferKeeps
<1> QED BY <1>2, <1>4, <1>5, <1>6, <1>7, <1>8, <1>9, <1>10, <1>11, <1>12, <1>13

----------------------------------------------------------------------------
(* What the map server does with an answer.  The goods in it are given or dropped. *)
LEMMA HandKeeps ==
    ASSUME PostInv, Answered # <<>>, TakenBy(m0), UNCHANGED <<toInter, ends, postTables>>,
           NEW p \in Posters, NEW item \in Kinds, NEW zeny \in Nat, Hand(p, item, zeny),
           \A u \in Kinds : InPacket(u, Head(Answered)) = Of(u, item, zeny)
    PROVE  PostInv'
<1>1. PipeTypes /\ PostTypes
    BY DEF PostInv
<1>2. fromInter' \in [MapServers -> Seq(Answers)] /\ Answered' = Tail(Answered)
    BY <1>1, TakenByIs
<1>3. NoWare \notin Wares
    BY ServerOfPosters
<1>4. item \in Wares => item \notin mislaid.items /\ item \notin bag[p]
  <2> SUFFICES ASSUME item \in Wares PROVE item \notin mislaid.items /\ item \notin bag[p]
      OBVIOUS
  <2>1. In(item, Tail(Answered)) = In(item, Answered) - InPacket(item, Head(Answered))
      BY <1>1, PipesAre, InTaken
  <2>2. InPacket(item, Head(Answered)) = 1
      BY <1>3 DEF Of
  <2>3. In(item, Tail(Answered)) \in Nat /\ In(item, Answered) \in Nat
    <3>1. Tail(Answered) \in Seq(Messages)
        BY <1>1, PipesAre, TailIs
    <3> QED BY <1>1, <3>1, PipesAre, LoadsType
  <2>4. 1 <= In(item, Answered)
      BY <2>1, <2>2, <2>3
  <2> QED BY <2>4, ItemsAreOnce
<1>5. PICK room \in BOOLEAN :
          /\ bag' = IF poster[p].here /\ room THEN [bag EXCEPT ![p] = @ \cup Some(item)] ELSE bag
          /\ purse' = IF poster[p].here THEN [purse EXCEPT ![p] = @ + zeny] ELSE purse
          /\ mislaid' = [mislaid EXCEPT !.items = IF poster[p].here /\ room THEN @ ELSE @ \cup Some(item),
                                        !.zeny = IF poster[p].here THEN @ ELSE @ + zeny]
          /\ UNCHANGED <<poster, inbox>>
    BY DEF Hand
<1> DEFINE here == poster[p].here
           fits == here /\ room
           gets == IF fits THEN Some(item) ELSE {}
           loses == IF fits THEN {} ELSE Some(item)
           paid == IF here THEN zeny ELSE 0
           lost == IF here THEN 0 ELSE zeny
<1>6. bag[p] \subseteq Wares /\ purse[p] \in Nat /\ bag \in [Posters -> SUBSET Wares] /\ purse \in [Posters -> Nat]
    BY <1>1 DEF PostTypes
<1>7. Some(item) \subseteq Wares /\ (\A u \in Wares : u \in Some(item) <=> u = item)
    BY <1>3 DEF Some, Kinds
<1>8. gets \subseteq Wares /\ loses \subseteq Wares /\ paid \in Nat /\ lost \in Nat /\ paid + lost = zeny
      /\ \A u \in Wares : (u \in gets => u = item) /\ (u \in loses => u = item) /\ ~(u \in gets /\ u \in loses)
                          /\ (u = item => u \in gets \/ u \in loses)
    BY <1>7
<1>9. /\ bag' \in [Posters -> SUBSET Wares] /\ bag'[p] = bag[p] \cup gets /\ \A q \in Posters : q # p => bag'[q] = bag[q]
  <2>1. CASE fits
      BY <1>5, <1>6, <1>7, <2>1
  <2>2. CASE ~fits
      BY <1>5, <1>6, <2>2
  <2> QED BY <2>1, <2>2
<1>10. /\ purse' \in [Posters -> Nat] /\ purse'[p] = purse[p] + paid /\ \A q \in Posters : q # p => purse'[q] = purse[q]
  <2>1. CASE here
      BY <1>5, <1>6, <2>1
  <2>2. CASE ~here
      BY <1>5, <1>6, <2>2
  <2> QED BY <2>1, <2>2
<1>11. mislaid \in Mislaid /\ mislaid.items \subseteq Wares /\ mislaid.zeny \in Nat /\ mislaid.all \in Nat
    BY <1>1 DEF PostTypes, Mislaid
<1>12. mislaid' \in Mislaid /\ mislaid'.all = mislaid.all /\ mislaid'.items = mislaid.items \cup loses /\ mislaid'.zeny = mislaid.zeny + lost
  <2> DEFINE I == IF fits THEN mislaid.items ELSE mislaid.items \cup Some(item)
             Z == IF here THEN mislaid.zeny ELSE mislaid.zeny + zeny
  <2>1. I = mislaid.items \cup loses /\ Z = mislaid.zeny + lost /\ I \subseteq Wares /\ Z \in Nat
      BY <1>7, <1>11
  <2>2. mislaid' = [mislaid EXCEPT !.items = I, !.zeny = Z]
      BY <1>5
  <2> HIDE DEF I, Z
  <2>3. mislaid' \in Mislaid /\ mislaid'.all = mislaid.all /\ mislaid'.items = I /\ mislaid'.zeny = Z
      BY <1>11, <2>1, <2>2 DEF Mislaid
  <2> QED BY <2>1, <2>3
<1> HIDE DEF gets, loses, paid, lost
<1>13. ASSUME NEW u \in Kinds
       PROVE  Carried(u, bag', purse') + In(u, <<>>) + Gone(u, mislaid') = Carried(u, bag, purse) + Gone(u, mislaid) + InPacket(u, Head(Answered))
  <2> DEFINE bags == bag'
             purses == purse'
  <2>1. purses \in [Posters -> Nat] /\ \A q \in Posters : q # p => bags[q] = bag[q] /\ purses[q] = purse[q]
      BY <1>9, <1>10
  <2>2. bags[p] = bag[p] \cup gets /\ purses[p] = purse[p] + paid
      BY <1>9, <1>10
  <2> HIDE DEF bags, purses
  <2>3. Carried(u, bags, purses) = Carried(u, bag, purse) + Holding(u, bags[p], purses[p]) - Holding(u, bag[p], purse[p])
      BY <1>6, <2>1, CarriedChange, SMTT(30)
  <2>4. Carried(u, bag, purse) \in Nat
      BY <1>6, CarriedType
  <2>5. Holding(u, bags[p], purses[p]) + Gone(u, mislaid') = Holding(u, bag[p], purse[p]) + Gone(u, mislaid) + Of(u, item, zeny)
    <3>1. CASE u = NoWare
      <4>1. Holding(u, bags[p], purses[p]) = purse[p] + paid /\ Holding(u, bag[p], purse[p]) = purse[p]
          BY <2>2, <3>1 DEF Holding
      <4>2. Gone(u, mislaid') = mislaid.zeny + lost /\ Gone(u, mislaid) = mislaid.zeny /\ Of(u, item, zeny) = zeny
          BY <1>12, <3>1 DEF Gone, Of
      <4>3. paid \in Nat /\ lost \in Nat /\ paid + lost = zeny /\ purse[p] \in Nat /\ mislaid.zeny \in Nat
          BY <1>6, <1>8, <1>11
      <4> DEFINE a == purse[p]
                 b == mislaid.zeny
      <4>4. a \in Nat /\ b \in Nat
          BY <4>3
      <4> HIDE DEF a, b
      <4>5. (a + paid) + (b + lost) = a + b + zeny
          BY <4>3, <4>4
      <4> QED BY <4>1, <4>2, <4>5 DEF a, b
    <3>2. CASE u \in Wares
      <4>1. u # NoWare
          BY <1>3, <3>2
      <4>2. Of(u, item, zeny) = IF item = u THEN 1 ELSE 0
          BY <4>1 DEF Of
      <4>3. /\ Holding(u, bags[p], purses[p]) = (IF u \in bag[p] \/ u \in gets THEN 1 ELSE 0)
            /\ Holding(u, bag[p], purse[p]) = IF u \in bag[p] THEN 1 ELSE 0
          BY <2>2, <4>1 DEF Holding
      <4>4. /\ Gone(u, mislaid') = (IF u \in mislaid.items \/ u \in loses THEN 1 ELSE 0)
            /\ Gone(u, mislaid) = IF u \in mislaid.items THEN 1 ELSE 0
          BY <1>12, <4>1 DEF Gone
      <4>5. CASE u = item
        <5>1. u \notin bag[p] /\ u \notin mislaid.items /\ (u \in gets \/ u \in loses) /\ ~(u \in gets /\ u \in loses)
            BY <1>4, <1>8, <3>2, <4>5
        <5> QED BY <4>2, <4>3, <4>4, <4>5, <5>1
      <4>6. CASE u # item
        <5>1. u \notin gets /\ u \notin loses
            BY <1>8, <3>2, <4>6
        <5> QED BY <4>2, <4>3, <4>4, <4>6, <5>1
      <4> QED BY <4>5, <4>6
    <3> QED BY <3>1, <3>2 DEF Kinds
  <2>6. Holding(u, bags[p], purses[p]) \in Nat /\ Holding(u, bag[p], purse[p]) \in Nat /\ Of(u, item, zeny) \in Nat
        /\ Gone(u, mislaid) \in Nat /\ Gone(u, mislaid') \in Nat
    <3>1. purses[p] \in Nat
        BY <2>1
    <3> QED BY <1>6, <1>11, <1>12, <3>1, OfType, GoneType DEF Holding
  <2>7. In(u, <<>>) = 0 /\ InPacket(u, Head(Answered)) = Of(u, item, zeny)
      BY InNone
  <2> DEFINE c == Carried(u, bag, purse)
             c2 == Carried(u, bags, purses)
             x == Holding(u, bags[p], purses[p])
             y == Holding(u, bag[p], purse[p])
             g == Gone(u, mislaid)
             g2 == Gone(u, mislaid')
             o == Of(u, item, zeny)
  <2>8. c \in Nat /\ x \in Nat /\ y \in Nat /\ g \in Nat /\ g2 \in Nat /\ o \in Nat /\ c2 = c + x - y /\ x + g2 = y + g + o
      BY <2>3, <2>4, <2>5, <2>6
  <2> HIDE DEF c, c2, x, y, g, g2, o
  <2>9. c2 + 0 + g2 = c + g + o
      BY <2>8
  <2> QED BY <2>7, <2>9 DEF c, c2, g, g2, o, bags, purses
<1>14. toInter' \in [MapServers -> Seq(Requests)] /\ Asked' = Asked \o <<>> /\ <<>> \in Seq(Requests) /\ \A j \in 1 .. Len(<<>>) : FALSE
    BY <1>1, AsksNothing
<1>15. poster' \in [Posters -> PosterStates] /\ inbox' \in [Posters -> SUBSET Rows] /\ inbox' = inbox
    BY <1>1, <1>5 DEF PostTypes
<1> DEFINE msgs == <<>>
<1>16. msgs \in Seq(Requests) /\ Asked' = Asked \o msgs /\ \A j \in 1 .. Len(msgs) : msgs[j].t # "delete"
    BY <1>14
<1>17. \A u \in Kinds : Carried(u, bag', purse') + In(u, msgs) + Gone(u, mislaid')
                              = Carried(u, bag, purse) + Gone(u, mislaid) + InPacket(u, Head(Answered))
    BY <1>13
<1> HIDE DEF msgs
<1>18. \A q \in Posters : \A y \in inbox'[q] : y \in inbox[q]
    BY <1>15
<1>19. UNCHANGED <<ends, postTables>>
    OBVIOUS
<1> QED BY <1>2, <1>9, <1>10, <1>12, <1>14, <1>15, <1>16, <1>17, <1>18, <1>19, MapKeeps

(* Answers without goods. *)
LEMMA LightAnswerKeeps ==
    ASSUME PostInv, Answered # <<>>, TakenBy(m0), UNCHANGED <<ends, postTables>>, UNCHANGED <<bag, purse, mislaid>>,
           NEW msgs \in Seq(Requests), Asks(msgs) \/ (msgs = <<>> /\ toInter' = toInter), \A j \in 1 .. Len(msgs) : msgs[j].t = "inbox",
           poster' \in [Posters -> PosterStates], inbox' \in [Posters -> SUBSET Rows],
           \A p \in Posters : \A y \in inbox'[p] :
               y \in inbox[p] \/ (y.id <= written /\ Tells(y, p, mails, Asked \o msgs, Len(Asked \o msgs))),
           Head(Answered).t \in {"inbox", "struck", "newmail", "mailed", "closed"}
    PROVE  PostInv'
<1>1. PipeTypes /\ PostTypes
    BY DEF PostInv
<1>2. fromInter' \in [MapServers -> Seq(Answers)] /\ Answered' = Tail(Answered)
    BY <1>1, TakenByIs
<1>3. toInter' \in [MapServers -> Seq(Requests)] /\ Asked' = Asked \o msgs
  <2>1. UNCHANGED ends
      OBVIOUS
  <2>2. CASE Asks(msgs)
      BY <1>1, <2>1, <2>2, AsksAre
  <2>3. CASE msgs = <<>> /\ toInter' = toInter
      BY <1>1, <2>3, AsksNothing
  <2> QED BY <2>2, <2>3
<1>4. \A u \in Kinds : In(u, msgs) = 0 /\ InPacket(u, Head(Answered)) = 0
  <2>1. \A u : In(u, msgs) = 0
      BY RequestsAreMessages, LightPackets
  <2>2. \A u : InPacket(u, Head(Answered)) = 0
      BY DEF InPacket
  <2> QED BY <2>1, <2>2
<1>5. bag' = bag /\ purse' = purse /\ mislaid' = mislaid
    OBVIOUS
<1>6. ASSUME NEW u \in Kinds
      PROVE  Carried(u, bag', purse') + In(u, msgs) + Gone(u, mislaid') = Carried(u, bag, purse) + Gone(u, mislaid) + InPacket(u, Head(Answered))
  <2>1. Carried(u, bag, purse) \in Nat /\ Gone(u, mislaid) \in Nat
      BY <1>1, PartsAre
  <2>2. Carried(u, bag', purse') = Carried(u, bag, purse) /\ Gone(u, mislaid') = Gone(u, mislaid) /\ In(u, msgs) = 0 /\ InPacket(u, Head(Answered)) = 0
      BY <1>4, <1>5
  <2> QED BY <2>1, <2>2
<1>7. bag' \in [Posters -> SUBSET Wares] /\ purse' \in [Posters -> Nat] /\ mislaid' \in Mislaid /\ mislaid'.all = mislaid.all
    BY <1>1, <1>5 DEF PostTypes
<1>8. \A p \in Posters : \A y \in inbox'[p] : y \in inbox[p] \/ (y.id <= written /\ Tells(y, p, mails, Asked', Len(Asked')))
    BY <1>3
<1>9. UNCHANGED <<ends, postTables>> /\ \A j \in 1 .. Len(msgs) : msgs[j].t # "delete"
    OBVIOUS
<1> QED BY <1>2, <1>3, <1>6, <1>7, <1>8, <1>9, MapKeeps

LEMMA NoMessages ==
    /\ <<>> \in Seq(Requests) /\ \A j \in 1 .. Len(<<>>) : FALSE
OBVIOUS

LEMMA PageShown ==
    ASSUME PostTypes, NEW p \in Posters, NEW full \in BOOLEAN
    PROVE  [poster EXCEPT ![p].changed = FALSE, ![p].full = full] \in [Posters -> PosterStates]
<1>1. \A b \in BOOLEAN : [poster EXCEPT ![p].changed = FALSE, ![p].full = b] \in [Posters -> PosterStates]
    BY PosterChanges
<1> QED BY <1>1

LEMMA PageArrivesKeeps ==
    ASSUME PostInv, Answered # <<>>, TakenBy(m0), UNCHANGED <<ends, postTables>>, UNCHANGED <<bag, purse, mislaid>>,
           toInter' = toInter, NEW p \in Posters, Head(Answered).t = "inbox", p = Head(Answered).p,
           NEW page, page = Head(Answered).page, NEW full \in BOOLEAN,
           inbox' = IF poster[p].here THEN [inbox EXCEPT ![p] = page] ELSE inbox,
           poster' = IF poster[p].here THEN [poster EXCEPT ![p].changed = FALSE, ![p].full = full] ELSE poster
    PROVE  PostInv'
<1>1. PipeTypes /\ PostTypes /\ PagesTell
    BY DEF PostInv
<1> DEFINE h == Head(Answered)
           msgs == <<>>
<1>2. h \in Answers /\ h = Answered[1] /\ 1 \in 1 .. Len(Answered)
    BY <1>1, PipesAre, TailIs
<1>3. page \subseteq Rows
    BY <1>2, AnswerFields
<1>4. \A y \in page : y.id <= written /\ Tells(y, p, mails, Asked, 0)
    BY <1>1, <1>2 DEF PagesTell
<1>5. msgs \in Seq(Requests) /\ msgs = <<>> /\ toInter' = toInter /\ \A j \in 1 .. Len(msgs) : msgs[j].t = "inbox"
    BY NoMessages
<1> HIDE DEF msgs
<1>6. poster' \in [Posters -> PosterStates]
  <2>1. poster \in [Posters -> PosterStates] /\ [poster EXCEPT ![p].changed = FALSE, ![p].full = full] \in [Posters -> PosterStates]
    <3>1. poster \in [Posters -> PosterStates]
        BY <1>1 DEF PostTypes
    <3>2. [poster EXCEPT ![p].changed = FALSE, ![p].full = full] \in [Posters -> PosterStates]
      <4>1. PostTypes
          BY <1>1
      <4> QED BY <4>1, PageShown, Zenon
    <3> QED BY <3>1, <3>2
  <2> QED BY <2>1
<1>7. inbox \in [Posters -> SUBSET Rows]
    BY <1>1 DEF PostTypes
<1>8. /\ inbox' \in [Posters -> SUBSET Rows]
      /\ \A q \in Posters : \A y \in inbox'[q] : y \in inbox[q] \/ (q = p /\ y \in page)
  <2>1. CASE poster[p].here
      BY <1>3, <1>7, <2>1
  <2>2. CASE ~poster[p].here
      BY <1>7, <2>2
  <2> QED BY <2>1, <2>2
<1>9. ASSUME NEW y \in page PROVE y.id <= written /\ Tells(y, p, mails, Asked \o msgs, Len(Asked \o msgs))
  <2> DEFINE c == Asked \o msgs
             n == Len(c)
  <2>1. n \in Nat /\ 0 <= n
    <3>1. c \in Seq(Requests)
        BY <1>1, <1>5, PipesAre, ConcatProperties
    <3> QED BY <3>1, LenProperties
  <2>2. y.id <= written /\ Tells(y, p, mails, Asked, 0)
      BY <1>4
  <2> HIDE DEF c, n
  <2>3. 0 \in Nat /\ \A i \in 1 .. 0 : c[i] = Asked[i]
      OBVIOUS
  <2>4. \A x2 \in mails : x2.id <= written => x2 \in mails
      OBVIOUS
  <2>5. Tells(y, p, mails, c, n)
      BY <2>1, <2>2, <2>3, <2>4, TellsMore
  <2> QED BY <2>2, <2>5 DEF c, n
<1>10. \A q \in Posters : \A y \in inbox'[q] :
           y \in inbox[q] \/ (y.id <= written /\ Tells(y, q, mails, Asked \o msgs, Len(Asked \o msgs)))
    BY <1>8, <1>9
<1>11. UNCHANGED <<ends, postTables>> /\ UNCHANGED <<bag, purse, mislaid>>
    OBVIOUS
<1>12. Asks(msgs) \/ (msgs = <<>> /\ toInter' = toInter)
    BY <1>5
<1> QED BY <1>5, <1>6, <1>8, <1>10, <1>11, <1>12, LightAnswerKeeps

LEMMA StruckKeeps ==
    ASSUME PostInv, Answered # <<>>, TakenBy(m0), UNCHANGED <<ends, postTables>>, UNCHANGED <<poster, bag, purse, mislaid>>,
           Head(Answered).t = "struck", NEW p \in Posters, NEW id, inbox' = Struck(p, id),
           Asks(IF poster[p].here /\ poster[p].full THEN <<Inbox(p)>> ELSE <<>>)
    PROVE  PostInv'
<1>1. PipeTypes /\ PostTypes
    BY DEF PostInv
<1> DEFINE msgs == IF poster[p].here /\ poster[p].full THEN <<Inbox(p)>> ELSE <<>>
<1>2. msgs \in Seq(Requests) /\ \A j \in 1 .. Len(msgs) : msgs[j].t = "inbox"
  <2> DEFINE i == Inbox(p)
             s == <<i>>
  <2>1. i \in Requests /\ i.t = "inbox"
      BY RequestIs
  <2> HIDE DEF i
  <2>2. s \in Seq(Requests) /\ \A j \in 1 .. Len(s) : s[j] = i
      BY <2>1, OneMessage
  <2> HIDE DEF s
  <2>3. msgs = s \/ msgs = <<>>
      BY DEF s, i
  <2> HIDE DEF msgs
  <2> QED BY <2>1, <2>2, <2>3, NoMessages
<1>3. Asks(msgs)
    OBVIOUS
<1> HIDE DEF msgs
<1>4. poster' \in [Posters -> PosterStates]
    BY <1>1 DEF PostTypes
<1>5. inbox \in [Posters -> SUBSET Rows]
    BY <1>1 DEF PostTypes
<1>6. inbox' \in [Posters -> SUBSET Rows] /\ \A q \in Posters : \A y \in inbox'[q] : y \in inbox[q]
    BY <1>5 DEF Struck
<1>7. UNCHANGED <<ends, postTables>> /\ UNCHANGED <<bag, purse, mislaid>>
    OBVIOUS
<1> QED BY <1>2, <1>3, <1>4, <1>6, <1>7, LightAnswerKeeps

LEMMA TidingsKeep ==
    ASSUME PostInv, Answered # <<>>, TakenBy(m0), UNCHANGED <<ends, postTables>>, UNCHANGED <<toInter, bag, purse, inbox, mislaid>>,
           poster' \in [Posters -> PosterStates], Head(Answered).t \in {"newmail", "mailed", "closed"}
    PROVE  PostInv'
<1>1. PostTypes
    BY DEF PostInv
<1> DEFINE msgs == <<>>
<1>2. msgs \in Seq(Requests) /\ (msgs = <<>> /\ toInter' = toInter) /\ \A j \in 1 .. Len(msgs) : msgs[j].t = "inbox"
    BY NoMessages
<1> HIDE DEF msgs
<1>3. inbox' \in [Posters -> SUBSET Rows] /\ \A q \in Posters : \A y \in inbox'[q] : y \in inbox[q]
    BY <1>1 DEF PostTypes
<1>4. UNCHANGED <<ends, postTables>> /\ UNCHANGED <<bag, purse, mislaid>>
    OBVIOUS
<1>5. Asks(msgs) \/ (msgs = <<>> /\ toInter' = toInter)
    BY <1>2
<1> QED BY <1>2, <1>3, <1>4, <1>5, LightAnswerKeeps

LEMMA MapServerKeeps ==
    ASSUME PostInv, intif_parse_post
    PROVE  PostInv'
<1>1. PipeTypes /\ PostTypes
    BY DEF PostInv
<1> DEFINE h == Head(Answered)
<1>2. Answered # <<>> /\ TakenBy(m0) /\ UNCHANGED <<ends, postTables>>
    BY DEF intif_parse_post, Answered
<1>3. \/ /\ h.t \in {"attached", "back"}
         /\ Hand(h.p, h.item, h.zeny) /\ UNCHANGED toInter
      \/ /\ h.t = "bid"
         /\ Hand(h.p, NoWare, h.zeny) /\ UNCHANGED toInter
      \/ /\ h.t = "inbox"
         /\ inbox' = IF poster[h.p].here THEN [inbox EXCEPT ![h.p] = h.page] ELSE inbox
         /\ poster' = IF poster[h.p].here
                      THEN [poster EXCEPT ![h.p].changed = FALSE, ![h.p].full = h.full] ELSE poster
         /\ UNCHANGED <<toInter, bag, purse, mislaid>>
      \/ /\ h.t = "struck"
         /\ inbox' = Struck(h.p, h.id)
         /\ Asks(IF poster[h.p].here /\ poster[h.p].full THEN <<Inbox(h.p)>> ELSE <<>>)
         /\ UNCHANGED <<poster, bag, purse, mislaid>>
      \/ /\ h.t = "newmail"
         /\ poster' = [poster EXCEPT ![h.p].changed = poster[h.p].here]
         /\ UNCHANGED <<toInter, bag, purse, inbox, mislaid>>
      \/ /\ h.t = "mailed"
         /\ poster' = [poster EXCEPT ![h.to].changed = poster[h.to].here]
         /\ UNCHANGED <<toInter, bag, purse, inbox, mislaid>>
      \/ /\ h.t = "closed"
         /\ poster' = [poster EXCEPT ![h.p].sale = NoWare]
         /\ UNCHANGED <<toInter, bag, purse, inbox, mislaid>>
    BY DEF intif_parse_post, Answered
<1>4. h \in Answers
    BY <1>1, <1>2, PipesAre, TailIs
<1>5. poster \in [Posters -> PosterStates] /\ NoWare \in Kinds
    BY <1>1 DEF PostTypes, Kinds
<1>6. CASE h.t \in {"attached", "back"} /\ Hand(h.p, h.item, h.zeny) /\ UNCHANGED toInter
  <2>1. h.p \in Posters /\ h.item \in Kinds /\ h.zeny \in Nat
      BY <1>4, <1>6, AnswerFields
  <2>2. \A u \in Kinds : InPacket(u, h) = Of(u, h.item, h.zeny)
      BY <1>6 DEF InPacket
  <2>3. UNCHANGED <<toInter, ends, postTables>>
      BY <1>2, <1>6
  <2> QED BY <1>2, <1>6, <2>1, <2>2, <2>3, HandKeeps
<1>7. CASE h.t = "bid" /\ Hand(h.p, NoWare, h.zeny) /\ UNCHANGED toInter
  <2>1. h.p \in Posters /\ h.zeny \in Nat
      BY <1>4, <1>7, AnswerFields
  <2>2. \A u \in Kinds : InPacket(u, h) = Of(u, NoWare, h.zeny)
      BY <1>7 DEF InPacket
  <2>3. UNCHANGED <<toInter, ends, postTables>>
      BY <1>2, <1>7
  <2> QED BY <1>2, <1>5, <1>7, <2>1, <2>2, <2>3, HandKeeps
<1>8. CASE /\ h.t = "inbox"
           /\ inbox' = IF poster[h.p].here THEN [inbox EXCEPT ![h.p] = h.page] ELSE inbox
           /\ poster' = IF poster[h.p].here
                        THEN [poster EXCEPT ![h.p].changed = FALSE, ![h.p].full = h.full] ELSE poster
           /\ UNCHANGED <<toInter, bag, purse, mislaid>>
  <2>1. h.p \in Posters /\ h.full \in BOOLEAN
      BY <1>4, <1>8, AnswerFields
  <2>2. UNCHANGED <<ends, postTables>> /\ UNCHANGED <<bag, purse, mislaid>> /\ toInter' = toInter
      BY <1>2, <1>8
  <2> DEFINE p == h.p
             page == h.page
             full == h.full
  <2>3. p \in Posters /\ full \in BOOLEAN /\ p = h.p /\ page = h.page /\ h.t = "inbox"
        /\ inbox' = (IF poster[p].here THEN [inbox EXCEPT ![p] = page] ELSE inbox)
        /\ poster' = IF poster[p].here THEN [poster EXCEPT ![p].changed = FALSE, ![p].full = full] ELSE poster
      BY <1>8, <2>1
  <2> HIDE DEF p, page, full
  <2> QED BY <1>2, <2>2, <2>3, PageArrivesKeeps
<1>9. CASE /\ h.t = "struck"
           /\ inbox' = Struck(h.p, h.id)
           /\ Asks(IF poster[h.p].here /\ poster[h.p].full THEN <<Inbox(h.p)>> ELSE <<>>)
           /\ UNCHANGED <<poster, bag, purse, mislaid>>
  <2>1. h.p \in Posters
      BY <1>4, <1>9, AnswerFields
  <2>2. UNCHANGED <<ends, postTables>> /\ UNCHANGED <<poster, bag, purse, mislaid>>
      BY <1>2, <1>9
  <2> QED BY <1>2, <1>9, <2>1, <2>2, StruckKeeps
<1>10. CASE /\ h.t = "newmail"
            /\ poster' = [poster EXCEPT ![h.p].changed = poster[h.p].here]
            /\ UNCHANGED <<toInter, bag, purse, inbox, mislaid>>
  <2>1. poster' \in [Posters -> PosterStates]
    <3>1. CASE h.p \in Posters
      <4>1. poster[h.p].here \in BOOLEAN
          BY <1>1, <3>1, PosterFields
      <4> QED BY <1>1, <1>10, <3>1, <4>1, PosterChanges
    <3>2. CASE h.p \notin Posters
      <4>1. poster' = poster
          BY <1>5, <1>10, <3>2
      <4> QED BY <1>5, <4>1
    <3> QED BY <3>1, <3>2
  <2>2. UNCHANGED <<ends, postTables>> /\ UNCHANGED <<toInter, bag, purse, inbox, mislaid>>
      BY <1>2, <1>10
  <2> QED BY <1>2, <1>10, <2>1, <2>2, TidingsKeep
<1>11. CASE /\ h.t = "mailed"
            /\ poster' = [poster EXCEPT ![h.to].changed = poster[h.to].here]
            /\ UNCHANGED <<toInter, bag, purse, inbox, mislaid>>
  <2>1. poster' \in [Posters -> PosterStates]
    <3>1. h.to \in Posters
        BY <1>4, <1>11, AnswerFields
    <3>2. poster[h.to].here \in BOOLEAN
        BY <1>1, <3>1, PosterFields
    <3> QED BY <1>1, <1>11, <3>1, <3>2, PosterChanges
  <2>2. UNCHANGED <<ends, postTables>> /\ UNCHANGED <<toInter, bag, purse, inbox, mislaid>>
      BY <1>2, <1>11
  <2> QED BY <1>2, <1>11, <2>1, <2>2, TidingsKeep
<1>12. CASE /\ h.t = "closed"
            /\ poster' = [poster EXCEPT ![h.p].sale = NoWare]
            /\ UNCHANGED <<toInter, bag, purse, inbox, mislaid>>
  <2>1. poster' \in [Posters -> PosterStates]
    <3>1. h.p \in Posters
        BY <1>4, <1>12, AnswerFields
    <3> QED BY <1>1, <1>5, <1>12, <3>1, PosterChanges
  <2>2. UNCHANGED <<ends, postTables>> /\ UNCHANGED <<toInter, bag, purse, inbox, mislaid>>
      BY <1>2, <1>12
  <2> QED BY <1>2, <1>12, <2>1, <2>2, TidingsKeep
<1> QED BY <1>3, <1>6, <1>7, <1>8, <1>9, <1>10, <1>11, <1>12

----------------------------------------------------------------------------
(* At the start. *)
LEMMA NothingAdds ==
    ASSUME NEW S, IsFiniteSet(S), NEW f \in [S -> Int], \A x \in S : f[x] = 0
    PROVE  Sum(f, S) = 0
<1> DEFINE T == {}
<1>1. T \in SUBSET S /\ (\A y \in S \ T : f[y] = 0) /\ T = {}
    OBVIOUS
<1>2. Sum(f, T) = 0
    BY <1>1, SumEmpty
<1> HIDE DEF T
<1> QED BY <1>1, <1>2, SumOfParts

LEMMA OneAdds ==
    ASSUME NEW S, IsFiniteSet(S), NEW f \in [S -> Int], NEW x \in S, f[x] = 1, \A y \in S : y # x => f[y] = 0
    PROVE  Sum(f, S) = 1
<1> DEFINE T == {x}
<1>1. T \in SUBSET S /\ (\A y \in S \ T : f[y] = 0) /\ x \in T /\ IsFiniteSet(T) /\ (\A y \in T : f[y] \in Int) /\ T \ {x} = {}
    BY FS_Singleton
<1> HIDE DEF T
<1>2. Sum(f, T) = Sum(f, S)
    BY <1>1, SumOfParts
<1>3. Sum(f, T) = f[x] + Sum(f, T \ {x})
    BY <1>1, SumWithout
<1>4. Sum(f, T \ {x}) = 0
    BY <1>1, SumEmpty
<1> QED BY <1>2, <1>3, <1>4

LEMMA PostStarts == ASSUME LinkInit, PostInit PROVE PostInv
<1>1. PipeTypes /\ Asked = <<>> /\ Answered = <<>>
    BY ServerOfPosters DEF LinkInit, PipeTypes, Asked, Answered
<1>2. PICK p \in Posters : bag = [q \in Posters |-> IF q = p THEN Wares ELSE {}]
    BY DEF PostInit
<1>3. /\ purse \in [Posters -> 0 .. MostZeny] /\ poster = [q \in Posters |-> Idle(TRUE)] /\ inbox = [q \in Posters |-> {}]
      /\ mails = {} /\ written = 0 /\ auctions = [w \in Wares |-> NoAuction]
      /\ mislaid = [items |-> {}, zeny |-> 0, all |-> Sum(purse, Posters)]
    BY PostAssumption DEF PostInit, Sum
<1>4. IsFiniteSet(Posters) /\ IsFiniteSet(Wares) /\ NoWare \notin Wares /\ MostZeny \in Nat
    BY PostAssumption
<1>5. purse \in [Posters -> Nat] /\ purse \in [Posters -> Int]
    BY <1>3, <1>4
<1>6. Sum(purse, Posters) \in Nat
    BY <1>4, <1>5, SumNotNegative
<1>7. PostTypes
  <2>1. poster \in [Posters -> PosterStates]
      BY <1>3 DEF PosterStates, Idle, Kinds
  <2>2. bag \in [Posters -> SUBSET Wares] /\ inbox \in [Posters -> SUBSET Rows]
      BY <1>2, <1>3
  <2>3. IsFiniteSet(mails) /\ mails \subseteq Rows /\ written \in Nat
      BY <1>3, FS_EmptySet
  <2>4. auctions \in [Wares -> Sales]
      BY <1>3 DEF Sales, NoAuction, Someone
  <2>5. mislaid \in Mislaid
      BY <1>3, <1>6 DEF Mislaid
  <2> QED BY <1>5, <2>1, <2>2, <2>3, <2>4, <2>5 DEF PostTypes
<1>8. RowsDiffer /\ BidsAreForSale /\ CopiesTell /\ PagesTell /\ DeletesBare
  <2>1. RowsDiffer
      BY <1>3 DEF RowsDiffer
  <2>2. BidsAreForSale
      BY <1>3 DEF BidsAreForSale, NoAuction
  <2>3. CopiesTell
      BY <1>3 DEF CopiesTell
  <2>4. PagesTell /\ DeletesBare
    <3>1. \A i \in 1 .. Len(<<>>) : FALSE
        BY NoMessages
    <3> QED BY <1>1, <3>1 DEF PagesTell, DeletesBare
  <2> QED BY <2>1, <2>2, <2>3, <2>4
<1>9. ASSUME NEW u \in Kinds PROVE Total(u) = IF u = NoWare THEN mislaid.all ELSE 1
  <2>1. In(u, Asked) = 0 /\ In(u, Answered) = 0
      BY <1>1, InNone
  <2>2. Mailed(u, mails) = 0
      BY <1>3, SumEmpty DEF Mailed
  <2>3. Sold(u, auctions) = 0
    <3> DEFINE f == Stakes(u, auctions)
    <3>1. f \in [Wares -> Int] /\ \A w \in Wares : f[w] = IF u \in {w, NoWare} THEN AtAuction(u, auctions[w]) ELSE 0
        BY <1>7, SoldType DEF PostTypes
    <3>2. \A w \in Wares : AtAuction(u, auctions[w]) = 0
        BY <1>3 DEF AtAuction, NoAuction
    <3> HIDE DEF f
    <3>3. \A w \in Wares : f[w] = 0
        BY <3>1, <3>2
    <3>4. Sum(f, Wares) = 0
        BY <1>4, <3>1, <3>3, NothingAdds
    <3> QED BY <3>4 DEF Sold, f
  <2>4. Gone(u, mislaid) = 0
      BY <1>3 DEF Gone
  <2>5. Carried(u, bag, purse) = IF u = NoWare THEN mislaid.all ELSE 1
    <3> DEFINE f == Holdings(u, bag, purse)
    <3>1. f \in [Posters -> Int] /\ \A q \in Posters : f[q] = Holding(u, bag[q], purse[q])
        BY <1>5, CarriedType
    <3> HIDE DEF f
    <3>2. CASE u = NoWare
      <4>1. \A q \in Posters : f[q] = purse[q]
          BY <3>1, <3>2 DEF Holding
      <4>2. Sum(f, Posters) = Sum(purse, Posters)
          BY <1>4, <4>1, SumSame
      <4>3. mislaid.all = Sum(purse, Posters)
          BY <1>3
      <4> QED BY <3>2, <4>2, <4>3 DEF Carried, f
    <3>3. CASE u # NoWare
      <4>1. u \in Wares
          BY <3>3 DEF Kinds
      <4>2. f[p] = 1 /\ \A q \in Posters : q # p => f[q] = 0
          BY <1>2, <3>1, <3>3, <4>1 DEF Holding
      <4>3. Sum(f, Posters) = 1
          BY <1>4, <3>1, <4>2, OneAdds
      <4> QED BY <3>3, <4>3 DEF Carried, f
    <3> QED BY <3>2, <3>3
  <2>6. (IF u = NoWare THEN mislaid.all ELSE 1) \in Nat
      BY <1>3, <1>6
  <2> QED BY <2>1, <2>2, <2>3, <2>4, <2>5, <2>6 DEF Total
<1> QED BY <1>1, <1>7, <1>8, <1>9 DEF PostInv, Balanced

----------------------------------------------------------------------------
LEMMA PostStays == ASSUME PostInv, UNCHANGED <<linkVars, postVars>> PROVE PostInv'
<1>1. UNCHANGED <<linkVars, bag, purse, postTables, mislaid>> /\ poster' = poster /\ inbox' = inbox
    BY DEF postVars, postTables
<1>2. PostTypes
    BY DEF PostInv
<1>3. poster' \in [Posters -> PosterStates] /\ inbox' \in [Posters -> SUBSET Rows] /\ \A p \in Posters : inbox'[p] \subseteq inbox[p]
    BY <1>1, <1>2 DEF PostTypes
<1> QED BY <1>1, <1>3, QuietKeeps

LEMMA MailboxKeeps ==
    ASSUME PostInv, NEW p \in Posters, Mailbox(p, Posters)
    PROVE  PostInv'
<1>1. CASE clif_parse_Mail_setattach(p) \/ clif_parse_Mail_winopen(p)
    BY <1>1, QuietActionsKeep
<1>2. CASE \E to \in Posters \cup {Manager} : clif_parse_Mail_send(p, to)
    BY <1>2, SendKeeps DEF Someone
<1>3. CASE clif_parse_Mail_refreshinbox(p) \/ clif_parse_Mail_return(p)
    BY <1>3, PlainActionsKeep
<1>4. CASE clif_parse_Mail_read(p)
    BY <1>4, ReadKeeps
<1>5. CASE clif_parse_Mail_getattach(p)
    BY <1>5, GetattachKeeps
<1>6. CASE clif_parse_Mail_delete(p)
    BY <1>6, DeleteKeeps
<1> QED BY <1>1, <1>2, <1>3, <1>4, <1>5, <1>6 DEF Mailbox

LEMMA AuctionWindowKeeps ==
    ASSUME PostInv, NEW p \in Posters, AuctionWindow(p)
    PROVE  PostInv'
<1>1. CASE clif_parse_Auction_setitem(p) \/ clif_parse_Auction_cancelreg(p)
    BY <1>1, QuietActionsKeep
<1>2. CASE clif_parse_Auction_register(p)
    BY <1>2, RegisterKeeps
<1>3. CASE clif_parse_Auction_bid(p)
    BY <1>3, BidKeeps
<1>4. CASE \E how \in {"cancel", "close"} : EndAuction(p, how)
    BY <1>4, PlainActionsKeep
<1> QED BY <1>1, <1>2, <1>3, <1>4 DEF AuctionWindow

LEMMA PostStep == ASSUME PostInv, [PostNext]_<<linkVars, postVars>> PROVE PostInv'
<1>1. CASE UNCHANGED <<linkVars, postVars>>
    BY <1>1, PostStays
<1>2. CASE PostServers
    BY <1>2, CharServerKeeps, MapServerKeeps DEF PostServers
<1>3. ASSUME NEW p \in Posters, Elsewhere(p, Posters) PROVE PostInv'
  <2>1. CASE PosterQuits(p)
      BY <2>1, QuietActionsKeep
  <2>2. CASE PosterComes(p)
      BY <2>2, PlainActionsKeep
  <2>3. CASE \E q \in Posters : GiveItem(p, q)
      BY <2>3, GiveItemKeeps
  <2> QED BY <1>3, <2>1, <2>2, <2>3 DEF Elsewhere
<1>4. ASSUME NEW p \in Posters, NEW q \in Posters, GiveZeny(p, q) PROVE PostInv'
    BY <1>4, GiveZenyKeeps
<1>5. ASSUME NEW w \in Wares, auction_end_timer(w) PROVE PostInv'
    BY <1>5, ExpiryKeeps
<1>6. CASE MailNext(Posters)
    BY <1>2, <1>3, <1>4, <1>6, MailboxKeeps DEF MailNext
<1>7. CASE AuctionNext(Posters)
    BY <1>2, <1>3, <1>5, <1>7, AuctionWindowKeeps DEF AuctionNext
<1> QED BY <1>1, <1>6, <1>7 DEF PostNext

LEMMA BalancedIsCounted == ASSUME PostInv PROVE PostLosesNothing
BY CountIsTotal DEF PostInv, Balanced, PostLosesNothing

(* Whatever players do with their mailboxes and auctions, whoever comes, goes or trades meanwhile  *)
(* and in whatever order the two servers handle what is on the way: every item and every zeny      *)
(* stays in exactly one place (int_mail.c, int_auction.c, mail.c and intif.c).                     *)
THEOREM PostKeeps == PostSpec => []PostLosesNothing
<1>1. LinkInit /\ PostInit => PostInv
    BY PostStarts
<1>2. PostInv /\ [PostNext]_<<linkVars, postVars>> => PostInv'
    BY PostStep
<1>3. PostInv => PostLosesNothing
    BY BalancedIsCounted
<1> QED BY <1>1, <1>2, <1>3, PTL DEF PostSpec
=============================================================================
