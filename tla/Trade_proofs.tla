---------------------------- MODULE Trade_proofs ----------------------------
(***************************************************************************)
(* Theorems about deals between players, for any players, items and        *)
(* limits: first the trade window (Trade), then shops (Shops).             *)
(***************************************************************************)
EXTENDS Trade, Shops, Iteration

Goods == [Players -> [Slots -> Stack]]

LEMMA StackFields ==
    ASSUME NEW x \in Stack
    PROVE  /\ x.item \in Items \cup {NoItem} /\ x.amount \in 0 .. MaxAmount /\ x.amount \in Nat
           /\ x.item = NoItem => x.amount = 0
<1>1. x.item \in Items \cup {NoItem} /\ x.amount \in 0 .. MaxAmount /\ (x.item = NoItem => x.amount = 0)
    BY DEF Stack
<1> QED BY <1>1, LimitsAssumption

LEMMA StackedType ==
    ASSUME NEW inv \in [Slots -> Stack], NEW it \in Items, NEW amount \in 1 .. MaxAmount,
           HasRoom(inv, it, amount)
    PROVE  Stacked(inv, it, amount) \in [Slots -> Stack]
<1>1. Slots \subseteq Nat
    BY LimitsAssumption DEF Slots
<1>2. CASE StacksOf(inv, it) # {}
  <2>1. StacksOf(inv, it) \subseteq Slots
      BY DEF StacksOf
  <2> DEFINE s == Min(StacksOf(inv, it))
  <2>2. s \in Slots /\ inv[s].item = it
    <3>1. s \in StacksOf(inv, it)
        BY <1>1, <1>2, <2>1, MinIsLeast
    <3> QED BY <3>1 DEF StacksOf
  <2>3. inv[s].amount + amount \in 0 .. MaxAmount
      BY <1>2, <2>2, LimitsAssumption DEF HasRoom, Stack
  <2>4. Stacked(inv, it, amount) = [inv EXCEPT ![s].amount = @ + amount]
      BY <1>2 DEF Stacked
  <2> HIDE DEF s
  <2>5. [inv[s] EXCEPT !.amount = @ + amount] \in Stack
      BY <2>2, <2>3, ItemsAssumption DEF Stack
  <2> QED BY <2>2, <2>4, <2>5
<1>3. CASE StacksOf(inv, it) = {}
  <2>1. FreeSlots(inv) # {} /\ FreeSlots(inv) \subseteq Slots
      BY <1>3 DEF HasRoom, FreeSlots
  <2>2. Min(FreeSlots(inv)) \in Slots
      BY <1>1, <2>1, MinIsLeast
  <2>3. [item |-> it, amount |-> amount] \in Stack
      BY ItemsAssumption, LimitsAssumption DEF Stack
  <2> QED BY <1>3, <2>2, <2>3 DEF Stacked
<1> QED BY <1>2, <1>3

LEMMA DelitemType ==
    ASSUME NEW inv \in [Slots -> Stack], NEW s \in Slots, NEW amount \in Nat
    PROVE  pc_delitem(inv, s, amount) \in [Slots -> Stack]
<1>1. CASE inv[s].item = NoItem \/ amount <= 0 \/ inv[s].amount < amount
    BY <1>1 DEF pc_delitem
<1>2. CASE ~(inv[s].item = NoItem \/ amount <= 0 \/ inv[s].amount < amount)
  <2>1. inv[s] \in Stack /\ Empty \in Stack
      BY LimitsAssumption DEF Stack, Empty
  <2>2. inv[s].amount - amount \in 0 .. MaxAmount
      BY <1>2, <2>1, LimitsAssumption DEF Stack
  <2>3. [item |-> inv[s].item, amount |-> inv[s].amount - amount] \in Stack
      BY <2>1, <2>2 DEF Stack
  <2>4. CASE inv[s].amount = amount
    <3>1. pc_delitem(inv, s, amount) = [inv EXCEPT ![s] = Empty]
        BY <1>2, <2>4 DEF pc_delitem
    <3> QED BY <2>1, <3>1
  <2>5. CASE inv[s].amount # amount
    <3>1. pc_delitem(inv, s, amount) = [inv EXCEPT ![s] = [item |-> @.item, amount |-> @.amount - amount]]
        BY <1>2, <2>5 DEF pc_delitem
    <3> QED BY <2>3, <3>1
  <2> QED BY <2>4, <2>5
<1> QED BY <1>1, <1>2

LEMMA GivenType ==
    ASSUME NEW inv \in Goods, NEW from \in Players, NEW to \in Players, from # to, NEW o \in Offer
    PROVE  /\ Given(inv, from, to, o) \in Goods
           /\ \A q \in Players \ {from, to} : Given(inv, from, to, o)[q] = inv[q]
<1> DEFINE it == inv[from][o.slot].item
<1>1. o.slot \in Slots /\ o.amount \in 0 .. MaxAmount
    BY DEF Offer
<1>2. CASE o.amount = 0 \/ ~pc_additem_ok(inv[to], it, o.amount)
    BY <1>2 DEF Given
<1>3. CASE ~(o.amount = 0 \/ ~pc_additem_ok(inv[to], it, o.amount))
  <2>1. it \in Items /\ o.amount \in 1 .. MaxAmount /\ HasRoom(inv[to], it, o.amount)
      BY <1>1, <1>3 DEF pc_additem_ok, Goods, Stack
  <2>2. Stacked(inv[to], it, o.amount) \in [Slots -> Stack]
      BY <2>1, StackedType DEF Goods
  <2>3. pc_delitem(inv[from], o.slot, o.amount) \in [Slots -> Stack]
      BY <1>1, DelitemType DEF Goods
  <2>4. Given(inv, from, to, o) = [inv EXCEPT ![to] = Stacked(inv[to], it, o.amount),
                                              ![from] = pc_delitem(inv[from], o.slot, o.amount)]
      BY <1>3 DEF Given, Goods
  <2> QED BY <2>2, <2>3, <2>4 DEF Goods
<1> QED BY <1>2, <1>3

LEMMA TurnType ==
    ASSUME SessionsOK, NEW inv \in Goods, NEW p \in Players, NEW t \in Players, p # t, NEW i \in Positions
    PROVE  /\ Turn(p, t, i, inv) \in Goods
           /\ \A q \in Players \ {p, t} : Turn(p, t, i, inv)[q] = inv[q]
<1>1. sd[p].deal.goods[i] \in Offer /\ sd[t].deal.goods[i] \in Offer
    BY DEF SessionsOK, Session, Deal
<1>2. ASSUME NEW x \in Goods, NEW from \in {p, t}, NEW to \in {p, t}, from # to, NEW o \in Offer
      PROVE  Given(x, from, to, o) \in Goods /\ \A q \in Players \ {p, t} : Given(x, from, to, o)[q] = x[q]
  <2>1. from \in Players /\ to \in Players /\ {from, to} = {p, t}
      BY <1>2
  <2>2. /\ Given(x, from, to, o) \in Goods
        /\ \A q \in Players \ {from, to} : Given(x, from, to, o)[q] = x[q]
      BY <1>2, <2>1, GivenType
  <2> QED BY <2>1, <2>2
<1> DEFINE given == Given(inv, p, t, sd[p].deal.goods[i])
<1>3. Turn(p, t, i, inv) = Given(given, t, p, sd[t].deal.goods[i])
    BY DEF Turn
<1>4. given \in Goods /\ \A q \in Players \ {p, t} : given[q] = inv[q]
    BY <1>1, <1>2
<1> HIDE DEF given
<1>5. /\ Given(given, t, p, sd[t].deal.goods[i]) \in Goods
      /\ \A q \in Players \ {p, t} : Given(given, t, p, sd[t].deal.goods[i])[q] = given[q]
    BY <1>1, <1>2, <1>4
<1> QED BY <1>3, <1>4, <1>5

(* The exchange is as many turns as a window has places. *)
LEMMA ExchangeTurns ==
    ASSUME SessionsOK, inventory \in Goods, NEW p \in Players, NEW t \in Players, p # t
    PROVE  \E after : /\ after[0] = inventory
                      /\ \A i \in 1 .. MaxDeals : after[i] = Turn(p, t, i, after[i - 1])
                      /\ GoodsExchanged(p, t) = after[MaxDeals]
<1> DEFINE after == CHOOSE h : h = [i \in 0 .. MaxDeals |->
                        IF i = 0 THEN inventory ELSE Turn(p, t, i, h[i - 1])]
           step == [i \in 1 .. MaxDeals |-> [inv \in Goods |-> Turn(p, t, i, inv)]]
<1>1. MaxDeals \in Nat /\ Positions = 1 .. MaxDeals
    BY LimitsAssumption DEF Positions
<1>2. step \in [1 .. MaxDeals -> [Goods -> Goods]]
    BY <1>1, TurnType
<1>3. PICK h \in [0 .. MaxDeals -> Goods] :
          h[0] = inventory /\ \A i \in 1 .. MaxDeals : h[i] = step[i][h[i - 1]]
  <2> HIDE DEF step
  <2> QED BY <1>1, <1>2, IterationExists, SMTT(30)
<1>4. h = [i \in 0 .. MaxDeals |-> IF i = 0 THEN inventory ELSE Turn(p, t, i, h[i - 1])]
  <2>1. ASSUME NEW i \in 0 .. MaxDeals, i # 0
        PROVE  h[i] = Turn(p, t, i, h[i - 1])
    <3>1. i \in 1 .. MaxDeals /\ h[i - 1] \in Goods
        BY <1>1, <2>1
    <3> QED BY <1>3, <3>1
  <2> QED BY <1>3, <2>1
<1>5. after = [i \in 0 .. MaxDeals |-> IF i = 0 THEN inventory ELSE Turn(p, t, i, after[i - 1])]
    BY <1>4, Zenon
<1>6. GoodsExchanged(p, t) = after[MaxDeals]
    BY DEF GoodsExchanged, after
<1> HIDE DEF after
<1>7. after[0] = inventory /\ \A i \in 1 .. MaxDeals : after[i] = Turn(p, t, i, after[i - 1])
    BY <1>1, <1>5
<1> QED BY <1>6, <1>7

(* It ends in inventories of the right shape, and touches nobody else's. *)
LEMMA ExchangeType ==
    ASSUME SessionsOK, inventory \in Goods, NEW p \in Players, NEW t \in Players, p # t
    PROVE  /\ GoodsExchanged(p, t) \in Goods
           /\ \A q \in Players \ {p, t} : GoodsExchanged(p, t)[q] = inventory[q]
<1> DEFINE Kept == {inv \in Goods : \A q \in Players \ {p, t} : inv[q] = inventory[q]}
<1>1. MaxDeals \in Nat /\ Positions = 1 .. MaxDeals
    BY LimitsAssumption DEF Positions
<1>2. PICK after : /\ after[0] = inventory
                   /\ \A i \in 1 .. MaxDeals : after[i] = Turn(p, t, i, after[i - 1])
                   /\ GoodsExchanged(p, t) = after[MaxDeals]
    BY ExchangeTurns
<1>3. after[0] \in Kept
    BY <1>2
<1>4. ASSUME NEW i \in 1 .. MaxDeals, after[i - 1] \in Kept
      PROVE  after[i] \in Kept
  <2>1. after[i - 1] \in Goods /\ i \in Positions /\ after[i] = Turn(p, t, i, after[i - 1])
      BY <1>1, <1>2, <1>4
  <2>2. /\ Turn(p, t, i, after[i - 1]) \in Goods
        /\ \A q \in Players \ {p, t} : Turn(p, t, i, after[i - 1])[q] = after[i - 1][q]
      BY <2>1, TurnType
  <2> QED BY <1>4, <2>1, <2>2
<1>5. after[MaxDeals] \in Kept
  <2> HIDE DEF Kept
  <2>1. \A i \in 0 .. MaxDeals : after[i] \in Kept
      BY <1>1, <1>3, <1>4, IterationInvariant
  <2> QED BY <1>1, <2>1
<1> QED BY <1>2, <1>5
----------------------------------------------------------------------------
(* The shapes of sessions, and the type invariant.                         *)

Sessions == [Players -> Session]

LEMMA EndingsType ==
    ASSUME NEW s \in Session
    PROVE  /\ Unasked(s) \in Session /\ Unpaired(s) \in Session /\ Unlocked(s) \in Session
           /\ Started(s) \in Session /\ Finished(s) \in Session
<1>1. NoDeal \in Deal
    BY LimitsAssumption DEF NoDeal, Deal, Offer, Slots
<1>2. Unasked(s) \in Session
    BY DEF Unasked, Session
<1>3. Unpaired(s) \in Session
    BY DEF Unpaired, Session
<1>4. Unlocked(s) \in Session
  <2>1. 0 \in 0 .. 2
      OBVIOUS
  <2>2. [s EXCEPT !.deal_locked = 0] \in Session
      BY <2>1 DEF Session
  <2>3. Unlocked(s) = [[s EXCEPT !.deal_locked = 0] EXCEPT !.trade_partner = NoOne]
      BY DEF Unlocked, Session
  <2> QED BY <2>2, <2>3 DEF Session
<1>5. Started(s) \in Session
    BY <1>1 DEF Started, Session
<1>6. Finished(s) \in Session
    BY <1>1, <1>4 DEF Finished, Session
<1> QED BY <1>2, <1>3, <1>4, <1>5, <1>6

LEMMA AskingType ==
    ASSUME NEW s \in Session, NEW p \in Players
    PROVE  Asked(s, p) \in Session /\ Asking(s, p) \in Session
<1>1. Asked(s, p) \in Session
    BY DEF Asked, Session
<1>2. Asking(s, p) \in Session
    BY DEF Asking, Session
<1> QED BY <1>1, <1>2

LEMMA CancelType ==
    ASSUME NEW S \in Sessions, NEW p \in Players
    PROVE  trade_tradecancel(S, p) \in Sessions
BY EndingsType DEF trade_tradecancel, Among, Sessions

LEMMA RemovalType ==
    ASSUME NEW S \in Sessions, NEW p \in Players
    PROVE  unit_remove_map(S, p) \in Sessions
BY CancelType DEF unit_remove_map

LEMMA FreshType == Fresh \in Session
BY LimitsAssumption DEF Fresh, Session, NoDeal, Deal, Offer, Slots

LEMMA PartnerType ==
    ASSUME NEW S \in Sessions, NEW p \in Players, map_id2sd(S, p) # NoOne
    PROVE  map_id2sd(S, p) \in Players /\ map_id2sd(S, p) = S[p].trade_partner
BY DEF map_id2sd, Sessions, Session

LEMMA AskingValues ==
    ASSUME NEW s \in Session, NEW p \in Players
    PROVE  /\ Asked(s, p).trade_partner = p /\ Asked(s, p).can_tradeack
           /\ Asked(s, p).trading = s.trading /\ Asked(s, p).deal_locked = s.deal_locked
           /\ Asked(s, p).deal = s.deal
           /\ Asking(s, p).trade_partner = p /\ Asking(s, p).can_tradeack = s.can_tradeack
           /\ Asking(s, p).trading = s.trading /\ Asking(s, p).deal_locked = s.deal_locked
           /\ Asking(s, p).deal = s.deal
BY DEF Asked, Asking, Session

LEMMA InitType == Init => TypeOK
BY FreshType, StartAssumption, LimitsAssumption
   DEF Init, TypeOK, SessionsOK, PlacesOK, GoodsOK, ZenyOK

(* The handlers that only touch sessions keep them in shape. *)
LEMMA RequestType ==
    ASSUME TypeOK, NEW p \in Players, NEW q \in Players, trade_traderequest(p, q)
    PROVE  TypeOK'
<1> DEFINE S == IF sd[p].trade_partner # NoOne THEN trade_tradecancel(sd, p) ELSE sd
<1>1. S \in Sessions
    BY CancelType DEF TypeOK, SessionsOK, Sessions
<1>2. sd' = IF "vending" \in {mode[p], mode[q]} THEN S
            ELSE [S EXCEPT ![q] = Asked(S[q], p), ![p] = Asking(S[p], q)]
  <2>1. [S EXCEPT ![q] = Asked(@, p), ![p] = Asking(@, q)]
            = [S EXCEPT ![q] = Asked(S[q], p), ![p] = Asking(S[p], q)]
      BY <1>1 DEF trade_traderequest, Sessions
  <2> QED BY <2>1 DEF trade_traderequest
<1>3. sd' \in Sessions
  <2> HIDE DEF S
  <2>1. Asked(S[q], p) \in Session /\ Asking(S[p], q) \in Session
      BY <1>1, AskingType DEF Sessions
  <2> QED BY <1>1, <1>2, <2>1 DEF Sessions
<1> QED BY <1>3 DEF trade_traderequest, goods, TypeOK, SessionsOK, PlacesOK, GoodsOK, ZenyOK, Sessions

LEMMA AnswerType ==
    ASSUME TypeOK, NEW p \in Players, NEW answer, NEW near, trade_tradeack(p, answer, near)
    PROVE  TypeOK'
<1> DEFINE t == map_id2sd(sd, p)
           S == [sd EXCEPT ![p].can_tradeack = FALSE]
<1>1. S \in Sessions
    BY DEF TypeOK, SessionsOK, Sessions, Session
<1>2. sd' = S \/ \E ps \in SUBSET (Players \cup {NoOne}) :
          sd' \in {Among(S, ps, Unpaired), Among(S, ps, Unlocked), Among(S, ps, Started)}
  <2>1. t \in Players \cup {NoOne}
      BY PartnerType DEF TypeOK, SessionsOK, Sessions
  <2> HIDE DEF S, t
  <2>2. {p} \in SUBSET (Players \cup {NoOne}) /\ {p, t} \in SUBSET (Players \cup {NoOne})
      BY <2>1
  <2>3. \/ sd' = S \/ sd' = Among(S, {p}, Unpaired) \/ sd' = Among(S, {p, t}, Unlocked)
        \/ sd' = Among(S, {p, t}, Unpaired) \/ sd' = Among(S, {p, t}, Started)
      BY Zenon DEF trade_tradeack, S, t
  <2> QED BY <2>2, <2>3
<1>3. sd' \in Sessions
  <2> HIDE DEF S
  <2> QED BY <1>1, <1>2, EndingsType DEF Among, Sessions
<1> QED BY <1>3 DEF trade_tradeack, goods, TypeOK, SessionsOK, PlacesOK, GoodsOK, ZenyOK, Sessions
LEMMA PositionType ==
    ASSUME NEW d, NEW s, PositionFor(d, s) # 0
    PROVE  PositionFor(d, s) \in Positions
<1> DEFINE fit == {i \in Positions : d.goods[i].slot = s \/ d.goods[i].amount = 0}
<1>1. fit # {} /\ PositionFor(d, s) = Min(fit)
    BY DEF PositionFor
<1>2. fit \subseteq Nat
    BY LimitsAssumption DEF Positions
<1>3. Min(fit) \in fit
  <2> HIDE DEF fit
  <2> QED BY <1>1, <1>2, MinIsLeast
<1> QED BY <1>1, <1>3

LEMMA AddItemType ==
    ASSUME TypeOK, NEW p \in Players, NEW s \in Slots, NEW amount \in 1 .. MaxAmount,
           trade_tradeadditem(p, s, amount)
    PROVE  TypeOK'
<1> DEFINE d == sd[p].deal
           i == PositionFor(d, s)
           offered == IF d.goods[i].slot = s THEN d.goods[i].amount ELSE 0
           new == [slot |-> s, amount |-> Min({offered + amount, inventory[p][s].amount})]
<1>1. CASE map_id2sd(sd, p) = NoOne
  <2>1. sd' = trade_tradecancel(sd, p)
      BY <1>1 DEF trade_tradeadditem
  <2> QED BY <2>1, CancelType
          DEF trade_tradeadditem, goods, TypeOK, SessionsOK, PlacesOK, GoodsOK, ZenyOK, Sessions
<1>2. CASE map_id2sd(sd, p) # NoOne
  <2>1. i # 0 /\ sd' = [sd EXCEPT ![p].deal.goods[i] = new]
      BY <1>2 DEF trade_tradeadditem
  <2>2. i \in Positions
      BY <2>1, PositionType
  <2>3. sd[p] \in Session /\ d \in Deal /\ d.goods \in [Positions -> Offer]
      BY DEF TypeOK, SessionsOK, Session, Deal
  <2>4. new \in Offer
    <3>1. offered \in Nat /\ inventory[p][s].amount \in 0 .. MaxAmount
        BY <2>2, <2>3, LimitsAssumption DEF TypeOK, GoodsOK, Stack, Offer
    <3> DEFINE two == {offered + amount, inventory[p][s].amount}
    <3>2. two \subseteq Nat /\ two # {}
        BY <3>1, LimitsAssumption
    <3>3. Min(two) \in two /\ Min(two) <= inventory[p][s].amount
      <4>1. inventory[p][s].amount \in two
          OBVIOUS
      <4> HIDE DEF two
      <4> QED BY <3>2, <4>1, MinIsLeast
    <3>4. Min(two) \in 0 .. MaxAmount
        BY <3>1, <3>2, <3>3, LimitsAssumption
    <3> QED BY <3>4 DEF Offer
  <2>5. [d.goods EXCEPT ![i] = new] \in [Positions -> Offer]
      BY <2>2, <2>3, <2>4
  <2> HIDE DEF new, i
  <2>6. [d EXCEPT !.goods = [d.goods EXCEPT ![i] = new]] \in Deal
      BY <2>3, <2>5 DEF Deal
  <2>7. [sd[p] EXCEPT !.deal = [d EXCEPT !.goods = [d.goods EXCEPT ![i] = new]]] \in Session
      BY <2>3, <2>6 DEF Session
  <2>8. sd' = [sd EXCEPT ![p] = [sd[p] EXCEPT !.deal = [d EXCEPT !.goods = [d.goods EXCEPT ![i] = new]]]]
      BY <2>1
  <2>9. sd' \in [Players -> Session]
      BY <2>7, <2>8 DEF TypeOK, SessionsOK
  <2> QED BY <2>9 DEF trade_tradeadditem, goods, TypeOK, SessionsOK, PlacesOK, GoodsOK, ZenyOK
<1> QED BY <1>1, <1>2

LEMMA AddZenyType ==
    ASSUME TypeOK, NEW p \in Players, NEW amount \in 0 .. MaxZeny, trade_tradeaddzeny(p, amount)
    PROVE  TypeOK'
<1>1. sd' = trade_tradecancel(sd, p) \/ sd' = [sd EXCEPT ![p].deal.zeny = amount]
    BY DEF trade_tradeaddzeny
<1>2. [sd EXCEPT ![p].deal.zeny = amount] \in Sessions
    BY DEF TypeOK, SessionsOK, Sessions, Session, Deal
<1> QED BY <1>1, <1>2, CancelType
        DEF trade_tradeaddzeny, goods, TypeOK, SessionsOK, PlacesOK, GoodsOK, ZenyOK, Sessions

LEMMA OkType ==
    ASSUME TypeOK, NEW p \in Players, trade_tradeok(p)
    PROVE  TypeOK'
<1>1. sd' = trade_tradecancel(sd, p) \/ sd' = [sd EXCEPT ![p].deal_locked = 1]
    BY DEF trade_tradeok
<1>2. [sd EXCEPT ![p].deal_locked = 1] \in Sessions
    BY DEF TypeOK, SessionsOK, Sessions, Session
<1> QED BY <1>1, <1>2, CancelType
        DEF trade_tradeok, goods, TypeOK, SessionsOK, PlacesOK, GoodsOK, ZenyOK, Sessions
(* The ways a commit ends. *)
Pressed(p) == [sd EXCEPT ![p].deal_locked = 2]
CommitCancels(p) ==
    /\ \/ sd' = trade_tradecancel(sd, p) /\ map_id2sd(sd, p) = NoOne
       \/ /\ map_id2sd(sd, p) # NoOne
          /\ \/ sd' = trade_tradecancel(Pressed(p), p)
             \/ sd' = trade_tradecancel(Pressed(p), map_id2sd(sd, p))
    /\ UNCHANGED <<inventory, zeny>>
CommitWaits(p) ==
    sd' = Pressed(p) /\ UNCHANGED <<inventory, zeny>>
CommitExchanges(p) ==
    LET t == map_id2sd(sd, p)
    IN  /\ t # NoOne /\ MayConclude(t) /\ trade_check(p, t)
        /\ ~impossible_trade_check(p) /\ ~impossible_trade_check(t)
        /\ inventory' = GoodsExchanged(p, t)
        /\ zeny' = [zeny EXCEPT ![p] = @ + sd[t].deal.zeny - sd[p].deal.zeny,
                                ![t] = @ + sd[p].deal.zeny - sd[t].deal.zeny]
        /\ sd' = Among(Pressed(p), {p, t}, Finished)

LEMMA CommitCases ==
    ASSUME NEW p \in Players, trade_tradecommit(p)
    PROVE  CommitCancels(p) \/ CommitWaits(p) \/ CommitExchanges(p)
<1> DEFINE t == map_id2sd(sd, p)
<1>1. CASE t = NoOne
    BY <1>1, Zenon DEF trade_tradecommit, CommitCancels
<1>2. CASE t # NoOne
  <2>1. \/ sd' = Pressed(p) /\ UNCHANGED <<inventory, zeny>>
        \/ /\ \/ sd' = trade_tradecancel(Pressed(p), p) \/ sd' = trade_tradecancel(Pressed(p), t)
           /\ UNCHANGED <<inventory, zeny>>
        \/ CommitExchanges(p)
      BY <1>2, Zenon DEF trade_tradecommit, CommitExchanges, Pressed
  <2> QED BY <1>2, <2>1, Zenon DEF CommitCancels, CommitWaits
<1> QED BY <1>1, <1>2

LEMMA CommitType ==
    ASSUME TypeOK, NEW p \in Players, trade_tradecommit(p), map_id2sd(sd, p) # p
    PROVE  TypeOK'
<1> DEFINE t == map_id2sd(sd, p)
<1>1. Pressed(p) \in Sessions
    BY DEF Pressed, TypeOK, SessionsOK, Sessions, Session
<1>2. sd \in Sessions /\ (t # NoOne => t \in Players)
    BY PartnerType DEF TypeOK, SessionsOK, Sessions
<1>3. place' = place /\ mode' = mode /\ outside' = outside
    BY DEF trade_tradecommit
<1> HIDE DEF t
<1>4. CASE CommitCancels(p)
  <2>1. sd' \in Sessions
      BY <1>1, <1>2, <1>4, CancelType DEF CommitCancels, t
  <2> QED BY <1>3, <1>4, <2>1
          DEF CommitCancels, TypeOK, SessionsOK, PlacesOK, GoodsOK, ZenyOK, Sessions
<1>5. CASE CommitWaits(p)
    BY <1>1, <1>3, <1>5 DEF CommitWaits, TypeOK, SessionsOK, PlacesOK, GoodsOK, ZenyOK, Sessions
<1>6. CASE CommitExchanges(p)
  <2>1. t \in Players /\ t # p
      BY <1>2, <1>6 DEF CommitExchanges, t
  <2>2. sd' = Among(Pressed(p), {p, t}, Finished)
      BY <1>6 DEF CommitExchanges, t
  <2>3. sd' \in Sessions
      BY <1>1, <2>2, EndingsType DEF Among, Sessions
  <2>4. inventory' \in Goods
      BY <1>6, <2>1, ExchangeType DEF CommitExchanges, t, TypeOK, GoodsOK, Goods
  <2>5. zeny' \in [Players -> 0 .. MaxZeny]
    <3>1. /\ sd[p].deal.zeny \in 0 .. MaxZeny /\ sd[t].deal.zeny \in 0 .. MaxZeny
          /\ zeny[p] \in 0 .. MaxZeny /\ zeny[t] \in 0 .. MaxZeny
        BY <2>1 DEF TypeOK, SessionsOK, ZenyOK, Session, Deal
    <3>2. ZenyFits(p, t) /\ ZenyFits(t, p)
        BY <1>6 DEF CommitExchanges, t, trade_check
    <3>3. /\ zeny[p] + sd[t].deal.zeny - sd[p].deal.zeny \in 0 .. MaxZeny
          /\ zeny[t] + sd[p].deal.zeny - sd[t].deal.zeny \in 0 .. MaxZeny
        BY <3>1, <3>2, LimitsAssumption DEF ZenyFits
    <3>4. zeny' = [zeny EXCEPT ![p] = zeny[p] + sd[t].deal.zeny - sd[p].deal.zeny,
                               ![t] = zeny[t] + sd[p].deal.zeny - sd[t].deal.zeny]
        BY <1>6, <2>1 DEF CommitExchanges, t, TypeOK, ZenyOK
    <3> QED BY <2>1, <3>3, <3>4 DEF TypeOK, ZenyOK
  <2> QED BY <1>3, <2>3, <2>4, <2>5
          DEF TypeOK, SessionsOK, PlacesOK, GoodsOK, ZenyOK, Sessions, Goods
<1> QED BY <1>4, <1>5, <1>6, CommitCases

(* The steps outside the window. *)
LEMMA OutsideType ==
    ASSUME TypeOK, NEW p \in Players, Outside(p)
    PROVE  TypeOK'
<1>1. outside' \in 0 .. MaxOutside
    BY LimitsAssumption DEF Outside, TypeOK, GoodsOK
<1>2. inventory' \in Goods /\ zeny' \in [Players -> 0 .. MaxZeny]
  <2>1. CASE \E it \in Items : /\ pc_additem_ok(inventory[p], it, 1)
                              /\ inventory' = [inventory EXCEPT ![p] = Stacked(@, it, 1)]
                              /\ UNCHANGED zeny
    <3>1. PICK it \in Items : /\ pc_additem_ok(inventory[p], it, 1)
                             /\ inventory' = [inventory EXCEPT ![p] = Stacked(@, it, 1)]
        BY <2>1
    <3>2. inventory' = [inventory EXCEPT ![p] = Stacked(inventory[p], it, 1)]
        BY <3>1 DEF TypeOK, GoodsOK
    <3>3. Stacked(inventory[p], it, 1) \in [Slots -> Stack]
        BY <3>1, StackedType, LimitsAssumption DEF pc_additem_ok, TypeOK, GoodsOK
    <3> QED BY <2>1, <3>2, <3>3 DEF TypeOK, GoodsOK, ZenyOK, Goods
  <2>2. CASE \E s \in Slots : /\ inventory' = [inventory EXCEPT ![p] = pc_delitem(@, s, 1)]
                             /\ UNCHANGED zeny
    <3>1. PICK s \in Slots : inventory' = [inventory EXCEPT ![p] = pc_delitem(@, s, 1)]
        BY <2>2
    <3>2. inventory' = [inventory EXCEPT ![p] = pc_delitem(inventory[p], s, 1)]
        BY <3>1 DEF TypeOK, GoodsOK
    <3>3. pc_delitem(inventory[p], s, 1) \in [Slots -> Stack]
        BY DelitemType DEF TypeOK, GoodsOK
    <3> QED BY <2>2, <3>2, <3>3 DEF TypeOK, GoodsOK, ZenyOK, Goods
  <2>3. CASE /\ UNCHANGED inventory
             /\ \/ zeny[p] < MaxZeny /\ zeny' = [zeny EXCEPT ![p] = @ + 1]
                \/ zeny[p] > 0 /\ zeny' = [zeny EXCEPT ![p] = @ - 1]
      BY <2>3, LimitsAssumption DEF TypeOK, GoodsOK, ZenyOK, Goods
  <2> QED BY <2>1, <2>2, <2>3 DEF Outside
<1> QED BY <1>1, <1>2 DEF Outside, TypeOK, SessionsOK, PlacesOK, GoodsOK, ZenyOK, Goods

LEMMA OtherType ==
    ASSUME TypeOK, NEW p \in Players, OtherStep(p)
    PROVE  TypeOK'
<1> USE DEF TypeOK, SessionsOK, PlacesOK, GoodsOK, ZenyOK, goods
<1>1. CASE pc_setpos(p)
  <2>1. sd' \in Sessions
      BY <1>1, RemovalType DEF pc_setpos, Sessions
  <2> QED BY <1>1, <2>1 DEF pc_setpos, Sessions
<1>2. CASE map_quit(p)
  <2>1. sd' \in Sessions
      BY <1>2, RemovalType, FreshType DEF map_quit, Sessions
  <2> QED BY <1>2, <2>1 DEF map_quit, Sessions
<1>3. CASE clif_parse_LoadEndAck(p)
    BY <1>3 DEF clif_parse_LoadEndAck
<1>4. CASE pc_authok(p)
    BY <1>4 DEF pc_authok
<1>5. CASE vending_openvending(p) \/ OtherWindow(p) \/ CloseWindow(p)
    BY <1>5 DEF vending_openvending, OtherWindow, CloseWindow
<1> QED BY <1>1, <1>2, <1>3, <1>4, <1>5, OutsideType DEF OtherStep
----------------------------------------------------------------------------
(* What holds of each session on its own, whoever may be asked to trade.   *)

OneSided(S) ==
    \A p \in Players : S[p].trade_partner # p /\ (S[p].deal_locked # 0 => S[p].trading)

(* T has no more players trading than S, and no more of them are locked. *)
NoneStarts(S, T) == \A p \in Players : T[p].trading => S[p].trading

Basic == TypeOK /\ OneSided(sd) /\ NeverVendingAndTrading

LEMMA EndingsValues ==
    ASSUME NEW s \in Session
    PROVE  /\ Unpaired(s).trade_partner = NoOne /\ Unpaired(s).trading = s.trading
           /\ Unpaired(s).deal_locked = s.deal_locked /\ Unpaired(s).can_tradeack = s.can_tradeack
           /\ Unpaired(s).deal = s.deal
           /\ Unlocked(s).trade_partner = NoOne /\ Unlocked(s).trading = s.trading
           /\ Unlocked(s).deal_locked = 0 /\ Unlocked(s).can_tradeack = s.can_tradeack
           /\ Unlocked(s).deal = s.deal
           /\ Started(s).trade_partner = s.trade_partner /\ Started(s).trading
           /\ Started(s).deal_locked = s.deal_locked /\ Started(s).can_tradeack = s.can_tradeack
           /\ Finished(s).trade_partner = NoOne /\ ~Finished(s).trading
           /\ Finished(s).deal_locked = 0 /\ Finished(s).can_tradeack = s.can_tradeack
           /\ Unasked(s).trade_partner = NoOne /\ Unasked(s).trading = s.trading
           /\ Unasked(s).deal_locked = s.deal_locked /\ ~Unasked(s).can_tradeack
           /\ Unasked(s).deal = s.deal
BY DEF Unasked, Unpaired, Unlocked, Started, Finished, Session

LEMMA CancelOneSided ==
    ASSUME NEW S \in Sessions, OneSided(S), NEW p \in Players
    PROVE  OneSided(trade_tradecancel(S, p)) /\ NoneStarts(S, trade_tradecancel(S, p))
<1> DEFINE both == {p, map_id2sd(S, p)}
           C == trade_tradecancel(S, p)
<1>1. ASSUME NEW q \in Players
      PROVE  /\ C[q].trade_partner # q /\ (C[q].deal_locked # 0 => C[q].trading)
             /\ C[q].trading => S[q].trading
  <2>1. S[q] \in Session
      BY DEF Sessions
  <2>2. C[q] = IF q \in both THEN IF S[p].trading THEN Finished(S[q]) ELSE Unasked(S[q]) ELSE S[q]
      BY DEF trade_tradecancel, Among
  <2> HIDE DEF C, both
  <2>3. S[q].trade_partner # q /\ (S[q].deal_locked # 0 => S[q].trading)
      BY DEF OneSided
  <2>4. CASE q \notin both
      BY <2>2, <2>3, <2>4
  <2>5. CASE q \in both /\ S[p].trading
    <3>1. C[q] = Finished(S[q])
        BY <2>2, <2>5
    <3>2. Finished(S[q]).trade_partner = NoOne /\ Finished(S[q]).deal_locked = 0 /\ ~Finished(S[q]).trading
        BY <2>1, EndingsValues
    <3> QED BY <3>1, <3>2, NoOneAssumption
  <2>6. CASE q \in both /\ ~S[p].trading
    <3>1. C[q] = Unasked(S[q])
        BY <2>2, <2>6
    <3>2. /\ Unasked(S[q]).trade_partner = NoOne /\ Unasked(S[q]).deal_locked = S[q].deal_locked
          /\ Unasked(S[q]).trading = S[q].trading
        BY <2>1, EndingsValues
    <3> QED BY <2>3, <3>1, <3>2, NoOneAssumption
  <2> QED BY <2>4, <2>5, <2>6
<1> QED BY <1>1 DEF OneSided, NoneStarts

LEMMA RemovalOneSided ==
    ASSUME NEW S \in Sessions, OneSided(S), NEW p \in Players
    PROVE  OneSided(unit_remove_map(S, p)) /\ NoneStarts(S, unit_remove_map(S, p))
BY CancelOneSided DEF unit_remove_map, NoneStarts

(* Pressing a button or changing an offer leaves who trades with whom alone. *)
SameLinks(S, T) ==
    \A q \in Players : /\ T[q].trade_partner = S[q].trade_partner
                       /\ T[q].can_tradeack = S[q].can_tradeack
                       /\ T[q].trading = S[q].trading

LEMMA OfferLinks ==
    ASSUME SessionsOK, NEW p \in Players, NEW d
    PROVE  /\ SameLinks(sd, [sd EXCEPT ![p].deal = d])
           /\ \A q \in Players : [sd EXCEPT ![p].deal = d][q].deal_locked = sd[q].deal_locked
           /\ \A q \in Players \ {p} : [sd EXCEPT ![p].deal = d][q] = sd[q]
BY DEF SameLinks, SessionsOK, Session

LEMMA LockLinks ==
    ASSUME SessionsOK, NEW p \in Players, NEW n
    PROVE  /\ SameLinks(sd, [sd EXCEPT ![p].deal_locked = n])
           /\ [sd EXCEPT ![p].deal_locked = n][p].deal_locked = n
           /\ [sd EXCEPT ![p].deal_locked = n][p].deal = sd[p].deal
           /\ \A q \in Players \ {p} : [sd EXCEPT ![p].deal_locked = n][q] = sd[q]
BY DEF SameLinks, SessionsOK, Session

LEMMA AnsweringLinks ==
    ASSUME SessionsOK, NEW p \in Players
    PROVE  LET S == [sd EXCEPT ![p].can_tradeack = FALSE]
           IN  /\ S \in Sessions /\ ~S[p].can_tradeack
               /\ \A q \in Players \ {p} : S[q] = sd[q]
               /\ \A q \in Players : /\ S[q].trade_partner = sd[q].trade_partner
                                     /\ S[q].trading = sd[q].trading
                                     /\ S[q].deal_locked = sd[q].deal_locked
                                     /\ S[q].deal = sd[q].deal
<1> DEFINE S == [sd EXCEPT ![p].can_tradeack = FALSE]
<1>1. [sd[p] EXCEPT !.can_tradeack = FALSE] \in Session
    BY DEF SessionsOK, Session
<1>2. S \in Sessions
    BY <1>1 DEF SessionsOK, Sessions
<1>3. S[p] = [sd[p] EXCEPT !.can_tradeack = FALSE] /\ \A q \in Players \ {p} : S[q] = sd[q]
    BY DEF SessionsOK
<1> HIDE DEF S
<1>4. /\ ~S[p].can_tradeack /\ S[p].trade_partner = sd[p].trade_partner /\ S[p].trading = sd[p].trading
      /\ S[p].deal_locked = sd[p].deal_locked /\ S[p].deal = sd[p].deal
    BY <1>3 DEF SessionsOK, Session
<1>5. /\ S \in Sessions /\ ~S[p].can_tradeack
      /\ \A q \in Players \ {p} : S[q] = sd[q]
      /\ \A q \in Players : /\ S[q].trade_partner = sd[q].trade_partner
                            /\ S[q].trading = sd[q].trading
                            /\ S[q].deal_locked = sd[q].deal_locked
                            /\ S[q].deal = sd[q].deal
    BY <1>2, <1>3, <1>4
<1> QED BY <1>5 DEF S

LEMMA ChangedDeal ==
    ASSUME SessionsOK, NEW p \in Players, NEW i, NEW o, NEW z
    PROVE  /\ \E d : [sd EXCEPT ![p].deal.goods[i] = o] = [sd EXCEPT ![p].deal = d]
           /\ \E d : [sd EXCEPT ![p].deal.zeny = z] = [sd EXCEPT ![p].deal = d]
<1>1. [sd EXCEPT ![p].deal.goods[i] = o] = [sd EXCEPT ![p].deal = [sd[p].deal EXCEPT !.goods[i] = o]]
    BY DEF SessionsOK, Session
<1>2. [sd EXCEPT ![p].deal.zeny = z] = [sd EXCEPT ![p].deal = [sd[p].deal EXCEPT !.zeny = z]]
    BY DEF SessionsOK, Session
<1> QED BY <1>1, <1>2

(* A step of p's window other than a request or an answer: the trade ends, or p's offer or *)
(* p's lock changes and p is trading.                                                      *)
Cancels(p) == \/ sd' = trade_tradecancel(sd, p)
              \/ sd[p].trading /\ sd' = trade_tradecancel(Pressed(p), p)
              \/ /\ sd[p].trading /\ map_id2sd(sd, p) # NoOne
                 /\ sd' = trade_tradecancel(Pressed(p), map_id2sd(sd, p))
SetsDeal(p)  == \E d : sd' = [sd EXCEPT ![p].deal = d]
Locks(p)   == sd[p].trading /\ \E n \in 1 .. 2 : sd' = [sd EXCEPT ![p].deal_locked = n]

LEMMA WindowCases ==
    ASSUME SessionsOK, NEW p \in Players,
           \/ \E s \in Slots, amount \in 1 .. MaxAmount : trade_tradeadditem(p, s, amount)
           \/ \E amount \in 0 .. MaxZeny : trade_tradeaddzeny(p, amount)
           \/ trade_tradeok(p) \/ clif_parse_TradeCancel(p) \/ trade_tradecommit(p)
    PROVE  /\ \/ Cancels(p)
              \/ SetsDeal(p) /\ sd[p].deal_locked = 0
              \/ Locks(p)
              \/ CommitExchanges(p) /\ sd[p].trading /\ sd[p].deal_locked # 0
           /\ UNCHANGED <<place, mode, outside>>
           /\ trade_tradecommit(p) \/ UNCHANGED <<inventory, zeny>>
<1>1. CASE \E s \in Slots, amount \in 1 .. MaxAmount : trade_tradeadditem(p, s, amount)
  <2>1. PICK s \in Slots, amount \in 1 .. MaxAmount : trade_tradeadditem(p, s, amount)
      BY <1>1
  <2>2. sd' = trade_tradecancel(sd, p) \/ \E i, o : sd' = [sd EXCEPT ![p].deal.goods[i] = o]
      BY <2>1, Zenon DEF trade_tradeadditem
  <2> QED BY <2>1, <2>2, ChangedDeal DEF trade_tradeadditem, Open, Trading, goods, Cancels, SetsDeal
<1>2. CASE \E amount \in 0 .. MaxZeny : trade_tradeaddzeny(p, amount)
  <2>1. PICK amount \in 0 .. MaxZeny : trade_tradeaddzeny(p, amount)
      BY <1>2
  <2>2. sd' = trade_tradecancel(sd, p) \/ sd' = [sd EXCEPT ![p].deal.zeny = amount]
      BY <2>1 DEF trade_tradeaddzeny
  <2> QED BY <2>1, <2>2, ChangedDeal DEF trade_tradeaddzeny, Open, Trading, goods, Cancels, SetsDeal
<1>3. CASE trade_tradeok(p)
    BY <1>3 DEF trade_tradeok, Open, Trading, goods, Cancels, Locks
<1>4. CASE clif_parse_TradeCancel(p)
    BY <1>4 DEF clif_parse_TradeCancel, goods, Cancels
<1>5. CASE trade_tradecommit(p)
  <2>1. sd[p].trading /\ sd[p].deal_locked # 0 /\ UNCHANGED <<place, mode, outside>>
      BY <1>5 DEF trade_tradecommit, Trading
  <2>2. CASE CommitCancels(p)
      BY <1>5, <2>1, <2>2, Zenon DEF CommitCancels, Cancels
  <2>3. CASE CommitWaits(p)
    <3>1. sd' = [sd EXCEPT ![p].deal_locked = 2] /\ 2 \in 1 .. 2
        BY <2>3 DEF CommitWaits, Pressed
    <3> QED BY <1>5, <2>1, <3>1 DEF Locks
  <2> QED BY <1>5, <2>1, <2>2, <2>3, CommitCases
<1> QED BY <1>1, <1>2, <1>3, <1>4, <1>5

LEMMA PressedOneSided ==
    ASSUME SessionsOK, OneSided(sd), NEW p \in Players, sd[p].trading
    PROVE  Pressed(p) \in Sessions /\ OneSided(Pressed(p)) /\ SameLinks(sd, Pressed(p))
<1>1. Pressed(p) \in Sessions
    BY DEF Pressed, SessionsOK, Sessions, Session
<1>2. SameLinks(sd, Pressed(p)) /\ \A q \in Players \ {p} : Pressed(p)[q] = sd[q]
    BY LockLinks DEF Pressed
<1> QED BY <1>1, <1>2 DEF OneSided, SameLinks

LEMMA WindowOneSided ==
    ASSUME SessionsOK, OneSided(sd), NEW p \in Players,
           Cancels(p) \/ SetsDeal(p) \/ Locks(p) \/ CommitExchanges(p)
    PROVE  OneSided(sd)' /\ NoneStarts(sd, sd')
<1>1. CASE Cancels(p)
  <2>1. CASE sd' = trade_tradecancel(sd, p)
      BY <2>1, CancelOneSided DEF SessionsOK, Sessions, OneSided
  <2>2. CASE /\ sd[p].trading
             /\ \E q \in Players : sd' = trade_tradecancel(Pressed(p), q)
    <3>1. PICK q \in Players : sd' = trade_tradecancel(Pressed(p), q)
        BY <2>2
    <3>2. Pressed(p) \in Sessions /\ OneSided(Pressed(p)) /\ SameLinks(sd, Pressed(p))
        BY <2>2, PressedOneSided
    <3> DEFINE C == trade_tradecancel(Pressed(p), q)
    <3>3. OneSided(C) /\ NoneStarts(Pressed(p), C)
        BY <3>2, CancelOneSided
    <3> HIDE DEF C
    <3>4. sd' = C
        BY <3>1 DEF C
    <3> QED BY <3>2, <3>3, <3>4 DEF OneSided, NoneStarts, SameLinks
  <2> QED BY <1>1, <2>1, <2>2, PartnerType DEF Cancels, SessionsOK, Sessions
<1>2. CASE SetsDeal(p)
  <2>1. PICK d : sd' = [sd EXCEPT ![p].deal = d]
      BY <1>2 DEF SetsDeal
  <2> QED BY <2>1, OfferLinks DEF OneSided, NoneStarts, SameLinks
<1>3. CASE Locks(p)
  <2>1. PICK n \in 1 .. 2 : sd' = [sd EXCEPT ![p].deal_locked = n]
      BY <1>3 DEF Locks
  <2> DEFINE L == [sd EXCEPT ![p].deal_locked = n]
  <2>2. SameLinks(sd, sd') /\ \A q \in Players \ {p} : sd'[q] = sd[q]
    <3>1. SameLinks(sd, L) /\ \A q \in Players \ {p} : L[q] = sd[q]
        BY LockLinks
    <3>2. sd' = L
        BY <2>1
    <3> HIDE DEF L
    <3> QED BY <3>1, <3>2
  <2> QED BY <1>3, <2>2 DEF Locks, OneSided, NoneStarts, SameLinks
<1>4. CASE CommitExchanges(p)
  <2>1. Pressed(p) \in Sessions
      BY DEF Pressed, SessionsOK, Sessions, Session
  <2>2. SameLinks(sd, Pressed(p)) /\ \A q \in Players \ {p} : Pressed(p)[q] = sd[q]
      BY LockLinks DEF Pressed
  <2>3. ASSUME NEW q \in Players
        PROVE  /\ sd'[q].trade_partner # q /\ (sd'[q].deal_locked # 0 => sd'[q].trading)
               /\ sd'[q].trading => sd[q].trading
    <3>1. Pressed(p)[q] \in Session
        BY <2>1 DEF Sessions
    <3>2. sd'[q] = IF q \in {p, map_id2sd(sd, p)} THEN Finished(Pressed(p)[q]) ELSE Pressed(p)[q]
        BY <1>4 DEF CommitExchanges, Among
    <3>3. CASE q \in {p, map_id2sd(sd, p)}
        BY <3>1, <3>2, <3>3, EndingsValues, NoOneAssumption
    <3>4. CASE q \notin {p, map_id2sd(sd, p)}
        BY <2>2, <3>2, <3>4 DEF OneSided
    <3> QED BY <3>3, <3>4
  <2> QED BY <2>3 DEF OneSided, NoneStarts
<1> QED BY <1>1, <1>2, <1>3, <1>4
LEMMA RequestOneSided ==
    ASSUME SessionsOK, OneSided(sd), NEW p \in Players, NEW q \in Players, trade_traderequest(p, q)
    PROVE  OneSided(sd)' /\ NoneStarts(sd, sd')
<1> DEFINE S == IF sd[p].trade_partner # NoOne THEN trade_tradecancel(sd, p) ELSE sd
<1>1. S \in Sessions /\ OneSided(S) /\ NoneStarts(sd, S)
    BY CancelType, CancelOneSided DEF SessionsOK, Sessions, NoneStarts
<1>2. p # q /\ sd' = IF "vending" \in {mode[p], mode[q]} THEN S
                     ELSE [S EXCEPT ![q] = Asked(@, p), ![p] = Asking(@, q)]
    BY DEF trade_traderequest
<1> HIDE DEF S
<1>3. CASE sd' = S
    BY <1>1, <1>3 DEF OneSided, NoneStarts
<1>4. CASE sd' = [S EXCEPT ![q] = Asked(@, p), ![p] = Asking(@, q)]
  <2>1. sd'[q] = Asked(S[q], p) /\ sd'[p] = Asking(S[p], q) /\ \A r \in Players \ {p, q} : sd'[r] = S[r]
      BY <1>1, <1>2, <1>4 DEF Sessions
  <2>2. S[p] \in Session /\ S[q] \in Session
      BY <1>1 DEF Sessions
  <2>3. /\ sd'[q].trade_partner = p /\ sd'[q].trading = S[q].trading
        /\ sd'[q].deal_locked = S[q].deal_locked
        /\ sd'[p].trade_partner = q /\ sd'[p].trading = S[p].trading
        /\ sd'[p].deal_locked = S[p].deal_locked
      BY <2>1, <2>2, AskingValues
  <2>4. ASSUME NEW r \in Players
        PROVE  /\ sd'[r].trade_partner # r /\ (sd'[r].deal_locked # 0 => sd'[r].trading)
               /\ sd'[r].trading => sd[r].trading
    <3>1. /\ S[r].trade_partner # r /\ (S[r].deal_locked # 0 => S[r].trading)
          /\ S[r].trading => sd[r].trading
        BY <1>1 DEF OneSided, NoneStarts
    <3>2. r = q \/ r = p \/ sd'[r] = S[r]
        BY <2>1
    <3> QED BY <1>2, <2>3, <3>1, <3>2
  <2> QED BY <2>4 DEF OneSided, NoneStarts
<1> QED BY <1>2, <1>3, <1>4

(* Who starts to trade by an answer has no other window open. *)
LEMMA AnswerOneSided ==
    ASSUME SessionsOK, OneSided(sd), NEW p \in Players, NEW answer, NEW near,
           trade_tradeack(p, answer, near)
    PROVE  OneSided(sd)' /\ \A q \in Players : sd'[q].trading => sd[q].trading \/ mode[q] = "free"
<1> DEFINE t == map_id2sd(sd, p)
           S == [sd EXCEPT ![p].can_tradeack = FALSE]
<1>1. S \in Sessions /\ OneSided(S) /\ NoneStarts(sd, S)
    BY AnsweringLinks DEF OneSided, NoneStarts
<1>2. \/ sd' = S
      \/ \E ps : sd' = Among(S, ps, Unpaired) \/ sd' = Among(S, ps, Unlocked)
      \/ sd' = Among(S, {p, t}, Started) /\ ~Busy(p) /\ ~Busy(t)
  <2> HIDE DEF S, t
  <2>1. \/ sd' = S \/ sd' = Among(S, {p}, Unpaired) \/ sd' = Among(S, {p, t}, Unlocked)
        \/ sd' = Among(S, {p, t}, Unpaired)
        \/ sd' = Among(S, {p, t}, Started) /\ ~Busy(p) /\ ~Busy(t)
      BY Zenon DEF trade_tradeack, S, t
  <2> QED BY <2>1
<1> HIDE DEF S
<1>3. CASE sd' = S
    BY <1>1, <1>3 DEF OneSided, NoneStarts
<1>4. CASE \E ps : sd' = Among(S, ps, Unpaired) \/ sd' = Among(S, ps, Unlocked)
  <2>1. ASSUME NEW q \in Players
        PROVE  /\ sd'[q].trade_partner # q /\ (sd'[q].deal_locked # 0 => sd'[q].trading)
               /\ sd'[q].trading => sd[q].trading
    <3>1. sd'[q] \in {S[q], Unpaired(S[q]), Unlocked(S[q])} /\ S[q] \in Session
        BY <1>1, <1>4 DEF Among, Sessions
    <3> QED BY <1>1, <3>1, EndingsValues, NoOneAssumption DEF OneSided, NoneStarts
  <2> QED BY <2>1 DEF OneSided
<1>5. CASE sd' = Among(S, {p, t}, Started) /\ ~Busy(p) /\ ~Busy(t)
  <2>1. ASSUME NEW q \in Players
        PROVE  /\ sd'[q].trade_partner # q /\ (sd'[q].deal_locked # 0 => sd'[q].trading)
               /\ sd'[q].trading => sd[q].trading \/ mode[q] = "free"
    <3>1. CASE q \in {p, t}
      <4>1. sd'[q] = Started(S[q]) /\ S[q] \in Session /\ mode[q] = "free"
          BY <1>1, <1>5, <3>1 DEF Among, Sessions, Busy
      <4> QED BY <1>1, <4>1, EndingsValues DEF OneSided
    <3>2. CASE q \notin {p, t}
      <4>1. sd'[q] = S[q]
          BY <1>5, <3>2 DEF Among
      <4> QED BY <1>1, <4>1 DEF OneSided, NoneStarts
    <3> QED BY <3>1, <3>2
  <2> QED BY <2>1 DEF OneSided
<1> QED BY <1>2, <1>3, <1>4, <1>5

LEMMA OtherOneSided ==
    ASSUME SessionsOK, OneSided(sd), NEW p \in Players, OtherStep(p)
    PROVE  OneSided(sd)' /\ NoneStarts(sd, sd')
<1>1. CASE pc_setpos(p)
    BY <1>1, RemovalOneSided DEF pc_setpos, SessionsOK, Sessions, OneSided
<1>2. CASE map_quit(p)
  <2> DEFINE R == unit_remove_map(sd, p)
  <2>1. R \in Sessions /\ OneSided(R) /\ NoneStarts(sd, R)
      BY RemovalOneSided, RemovalType DEF SessionsOK, Sessions
  <2>2. sd' = [R EXCEPT ![p] = Fresh]
      BY <1>2 DEF map_quit
  <2> HIDE DEF R
  <2> QED BY <2>1, <2>2, NoOneAssumption DEF Sessions, OneSided, NoneStarts, Fresh
<1>3. CASE sd' = sd
    BY <1>3 DEF OneSided, NoneStarts
<1> QED BY <1>1, <1>2, <1>3 DEF OtherStep, clif_parse_LoadEndAck, pc_authok, vending_openvending,
                                OtherWindow, CloseWindow, Outside
(* Nobody starts a trade while vending, nor a shop while trading. *)
LEMMA NeverBothStep ==
    ASSUME NeverVendingAndTrading, NEW p \in Players,
           \/ NoneStarts(sd, sd') /\ mode' = mode
           \/ mode' = mode /\ \A q \in Players : sd'[q].trading => sd[q].trading \/ mode[q] = "free"
           \/ NoneStarts(sd, sd') /\ PlacesOK /\ OtherStep(p)
    PROVE  NeverVendingAndTrading'
<1>1. CASE NoneStarts(sd, sd') /\ PlacesOK /\ OtherStep(p)
  <2>1. \A q \in Players : mode'[q] = "vending" => mode[q] = "vending" \/ ~sd[q].trading
      BY <1>1 DEF OtherStep, PlacesOK, pc_setpos, clif_parse_LoadEndAck, map_quit, pc_authok,
                  vending_openvending, OtherWindow, CloseWindow, Outside, goods
  <2> QED BY <1>1, <2>1 DEF NeverVendingAndTrading, NoneStarts
<1> QED BY <1>1 DEF NeverVendingAndTrading, NoneStarts

LEMMA BasicStep == Basic /\ [Next]_vars => Basic'
<1> SUFFICES ASSUME Basic, [Next]_vars PROVE Basic'
    OBVIOUS
<1> USE DEF Basic
<1>1. SessionsOK /\ PlacesOK
    BY DEF TypeOK
<1>2. CASE UNCHANGED vars
    BY <1>2 DEF vars, TypeOK, SessionsOK, PlacesOK, GoodsOK, ZenyOK, OneSided, NeverVendingAndTrading
<1>3. ASSUME NEW p \in Players, NEW q \in Players, trade_traderequest(p, q)
      PROVE  Basic'
  <2>1. mode' = mode
      BY <1>3 DEF trade_traderequest
  <2> QED BY <1>1, <1>3, <2>1, RequestType, RequestOneSided, NeverBothStep
<1>4. ASSUME NEW p \in Players, NEW answer, NEW near, trade_tradeack(p, answer, near)
      PROVE  Basic'
  <2>1. mode' = mode
      BY <1>4 DEF trade_tradeack
  <2> QED BY <1>1, <1>4, <2>1, AnswerType, AnswerOneSided, NeverBothStep
<1>5. ASSUME NEW p \in Players,
             \/ \E s \in Slots, amount \in 1 .. MaxAmount : trade_tradeadditem(p, s, amount)
             \/ \E amount \in 0 .. MaxZeny : trade_tradeaddzeny(p, amount)
             \/ trade_tradeok(p) \/ clif_parse_TradeCancel(p) \/ trade_tradecommit(p)
      PROVE  Basic'
  <2>1. OneSided(sd)' /\ NoneStarts(sd, sd') /\ mode' = mode
      BY <1>1, <1>5, WindowCases, WindowOneSided
  <2>2. TypeOK'
    <3>1. map_id2sd(sd, p) # p
        BY NoOneAssumption DEF map_id2sd, OneSided
    <3>2. CASE clif_parse_TradeCancel(p)
        BY <3>2, CancelType DEF clif_parse_TradeCancel, goods, Sessions,
                                TypeOK, SessionsOK, PlacesOK, GoodsOK, ZenyOK
    <3> QED BY <1>5, <3>1, <3>2, AddItemType, AddZenyType, OkType, CommitType
  <2> QED BY <2>1, <2>2, NeverBothStep
<1>6. ASSUME NEW p \in Players, OtherStep(p)
      PROVE  Basic'
    BY <1>1, <1>6, OtherType, OtherOneSided, NeverBothStep
<1> QED BY <1>2, <1>3, <1>4, <1>5, <1>6 DEF Next, TradeStep

LEMMA InitBasic == Init => Basic
<1>1. Init => OneSided(sd) /\ NeverVendingAndTrading
    BY NoOneAssumption DEF Init, Fresh, OneSided, NeverVendingAndTrading
<1> QED BY <1>1, InitType DEF Basic

(* Sessions, inventories and purses keep their shape, nobody is their own partner, a locked offer *)
(* is in an open window, and no one trades while vending: together these are inductive.           *)
THEOREM BasicInvariant == Spec => []Basic
<1> QED BY InitBasic, BasicStep, PTL DEF Spec

(* The type invariant: sessions keep their shape, no stack passes MAX_AMOUNT, and no purse *)
(* goes below zero or above MAX_ZENY, whatever the trades and the rest of the server do.   *)
THEOREM TypeCorrect == Spec => []TypeOK
<1>1. Basic => TypeOK
    BY DEF Basic
<1> QED BY <1>1, BasicInvariant, PTL

(* No player ever has a vending shop and a trade window open. *)
THEOREM VendingExcludesTrading == Spec => []NeverVendingAndTrading
<1>1. Basic => NeverVendingAndTrading
    BY DEF Basic
<1> QED BY <1>1, BasicInvariant, PTL

----------------------------------------------------------------------------
(* Pairs of partners: a locked offer stands, and, when only players who have loaded their map are
   asked, partners name each other, only the one who was asked can answer, and goods change hands
   by consent of both. *)

(* A locked offer that stays locked stays what it was. *)
OffersKept(S, T) ==
    \A q \in Players : S[q].deal_locked # 0 /\ T[q].deal_locked # 0 => T[q].deal = S[q].deal

LEMMA CancelValues ==
    ASSUME NEW S \in Sessions, NEW p \in Players
    PROVE  \A q \in Players : trade_tradecancel(S, p)[q] =
               IF q \notin {p, map_id2sd(S, p)} THEN S[q]
               ELSE IF S[p].trading THEN Finished(S[q]) ELSE Unasked(S[q])
BY DEF trade_tradecancel, Among

LEMMA CancelOffers ==
    ASSUME NEW S \in Sessions, NEW p \in Players
    PROVE  OffersKept(S, trade_tradecancel(S, p))
<1> DEFINE C == trade_tradecancel(S, p)
<1>1. ASSUME NEW q \in Players, C[q].deal_locked # 0
      PROVE  C[q].deal = S[q].deal
  <2>1. C[q] \in {S[q], Finished(S[q]), Unasked(S[q])}
      BY CancelValues
  <2> HIDE DEF C
  <2>2. S[q] \in Session
      BY DEF Sessions
  <2>3. Finished(S[q]).deal_locked = 0 /\ Unasked(S[q]).deal = S[q].deal
      BY <2>2, EndingsValues
  <2> QED BY <1>1, <2>1, <2>3
<1> QED BY <1>1 DEF OffersKept

LEMMA PressedOffers ==
    ASSUME SessionsOK, NEW p \in Players
    PROVE  /\ Pressed(p) \in Sessions
           /\ \A q \in Players : /\ Pressed(p)[q].deal = sd[q].deal
                                 /\ sd[q].deal_locked # 0 => Pressed(p)[q].deal_locked # 0
BY DEF Pressed, SessionsOK, Sessions, Session

LEMMA RequestOffers ==
    ASSUME SessionsOK, NEW p \in Players, NEW q \in Players, trade_traderequest(p, q)
    PROVE  OffersKept(sd, sd')
<1> DEFINE S == IF sd[p].trade_partner # NoOne THEN trade_tradecancel(sd, p) ELSE sd
<1>1. S \in Sessions /\ OffersKept(sd, S)
    BY CancelType, CancelOffers DEF SessionsOK, Sessions, OffersKept
<1>2. p # q /\ (sd' = S \/ sd' = [S EXCEPT ![q] = Asked(@, p), ![p] = Asking(@, q)])
    BY DEF trade_traderequest
<1> HIDE DEF S
<1>3. ASSUME NEW r \in Players
      PROVE  sd'[r].deal_locked = S[r].deal_locked /\ sd'[r].deal = S[r].deal
  <2>1. sd'[r] = S[r] \/ sd'[r] = Asked(S[r], p) \/ sd'[r] = Asking(S[r], q)
      BY <1>1, <1>2 DEF Sessions
  <2>2. S[r] \in Session
      BY <1>1 DEF Sessions
  <2> QED BY <2>1, <2>2, AskingValues
<1> QED BY <1>1, <1>3 DEF OffersKept

LEMMA AnswerOffers ==
    ASSUME SessionsOK, OneSided(sd), NEW p \in Players, NEW answer, NEW near,
           trade_tradeack(p, answer, near)
    PROVE  OffersKept(sd, sd')
<1> DEFINE t == map_id2sd(sd, p)
           S == [sd EXCEPT ![p].can_tradeack = FALSE]
<1>1. /\ S \in Sessions
      /\ \A q \in Players : S[q].deal_locked = sd[q].deal_locked /\ S[q].deal = sd[q].deal
    BY AnsweringLinks
<1>2. \/ sd' = S
      \/ \E ps : sd' = Among(S, ps, Unpaired) \/ sd' = Among(S, ps, Unlocked)
      \/ sd' = Among(S, {p, t}, Started) /\ ~sd[p].trading /\ ~sd[t].trading
  <2> HIDE DEF S, t
  <2>1. \/ sd' = S \/ sd' = Among(S, {p}, Unpaired) \/ sd' = Among(S, {p, t}, Unlocked)
        \/ sd' = Among(S, {p, t}, Unpaired)
        \/ sd' = Among(S, {p, t}, Started) /\ ~sd[p].trading /\ ~sd[t].trading
      BY Zenon DEF trade_tradeack, S, t
  <2> QED BY <2>1
<1> HIDE DEF S
<1>3. ASSUME NEW q \in Players, sd[q].deal_locked # 0, sd'[q].deal_locked # 0
      PROVE  sd'[q].deal = sd[q].deal
  <2>1. S[q] \in Session
      BY <1>1 DEF Sessions
  <2>2. CASE sd' = S \/ \E ps : sd' = Among(S, ps, Unpaired) \/ sd' = Among(S, ps, Unlocked)
    <3>1. sd'[q] \in {S[q], Unpaired(S[q]), Unlocked(S[q])}
        BY <2>2 DEF Among
    <3>2. Unpaired(S[q]).deal = S[q].deal /\ Unlocked(S[q]).deal = S[q].deal
        BY <2>1, EndingsValues
    <3> QED BY <1>1, <3>1, <3>2
  <2>3. CASE sd' = Among(S, {p, t}, Started) /\ ~sd[p].trading /\ ~sd[t].trading
    <3>1. q \notin {p, t}
        BY <1>3, <2>3 DEF OneSided
    <3>2. sd'[q] = S[q]
        BY <2>3, <3>1 DEF Among
    <3> QED BY <1>1, <3>2
  <2> QED BY <1>2, <2>2, <2>3
<1> QED BY <1>3 DEF OffersKept

LEMMA WindowOffers ==
    ASSUME SessionsOK, NEW p \in Players,
           Cancels(p) \/ (SetsDeal(p) /\ sd[p].deal_locked = 0) \/ Locks(p) \/ CommitExchanges(p)
    PROVE  OffersKept(sd, sd')
<1>1. CASE Cancels(p)
  <2>1. CASE sd' = trade_tradecancel(sd, p)
      BY <2>1, CancelOffers DEF SessionsOK, Sessions
  <2>2. CASE \E q \in Players : sd' = trade_tradecancel(Pressed(p), q)
    <3>1. PICK q \in Players : sd' = trade_tradecancel(Pressed(p), q)
        BY <2>2
    <3>2. OffersKept(Pressed(p), trade_tradecancel(Pressed(p), q))
        BY CancelOffers, PressedOffers
    <3> DEFINE C == trade_tradecancel(Pressed(p), q)
    <3>3. sd' = C /\ OffersKept(Pressed(p), C)
        BY <3>1, <3>2
    <3> HIDE DEF C
    <3> QED BY <3>3, PressedOffers DEF OffersKept
  <2> QED BY <1>1, <2>1, <2>2, PartnerType DEF Cancels, SessionsOK, Sessions
<1>2. CASE SetsDeal(p) /\ sd[p].deal_locked = 0
  <2>1. PICK d : sd' = [sd EXCEPT ![p].deal = d]
      BY <1>2 DEF SetsDeal
  <2>2. \A q \in Players \ {p} : sd'[q] = sd[q]
      BY <2>1 DEF SessionsOK
  <2> QED BY <1>2, <2>2 DEF OffersKept
<1>3. CASE Locks(p)
  <2>1. PICK n \in 1 .. 2 : sd' = [sd EXCEPT ![p].deal_locked = n]
      BY <1>3 DEF Locks
  <2>2. \A q \in Players : sd'[q].deal = sd[q].deal
      BY <2>1 DEF SessionsOK, Session
  <2> QED BY <2>2 DEF OffersKept
<1>4. CASE CommitExchanges(p)
  <2>1. ASSUME NEW q \in Players
        PROVE  sd'[q].deal_locked = 0 \/ sd'[q].deal = sd[q].deal
    <3>1. sd'[q] = Finished(Pressed(p)[q]) \/ sd'[q] = Pressed(p)[q]
        BY <1>4 DEF CommitExchanges, Among
    <3>2. Pressed(p)[q] \in Session /\ Pressed(p)[q].deal = sd[q].deal
        BY PressedOffers DEF Sessions
    <3> QED BY <3>1, <3>2, EndingsValues
  <2> QED BY <2>1 DEF OffersKept
<1> QED BY <1>1, <1>2, <1>3, <1>4

LEMMA OtherOffers ==
    ASSUME SessionsOK, NEW p \in Players, OtherStep(p)
    PROVE  OffersKept(sd, sd')
<1> DEFINE R == unit_remove_map(sd, p)
<1>1. R \in Sessions /\ OffersKept(sd, R)
    BY RemovalType, CancelOffers DEF unit_remove_map, SessionsOK, Sessions, OffersKept
<1>2. sd' = R \/ sd' = [R EXCEPT ![p] = Fresh] \/ sd' = sd
    BY DEF OtherStep, pc_setpos, map_quit, clif_parse_LoadEndAck, pc_authok, vending_openvending,
           OtherWindow, CloseWindow, Outside
<1> HIDE DEF R
<1> QED BY <1>1, <1>2 DEF Sessions, OffersKept, Fresh

LEMMA OffersStep == Basic /\ [Next]_vars => OffersKept(sd, sd')
<1> SUFFICES ASSUME Basic, [Next]_vars PROVE OffersKept(sd, sd')
    OBVIOUS
<1>1. SessionsOK /\ OneSided(sd)
    BY DEF Basic, TypeOK
<1>2. CASE UNCHANGED vars
    BY <1>2 DEF vars, OffersKept
<1>3. ASSUME NEW p \in Players, TradeStep(p)
      PROVE  OffersKept(sd, sd')
    BY <1>1, <1>3, RequestOffers, AnswerOffers, WindowCases, WindowOffers DEF TradeStep
<1> QED BY <1>1, <1>2, <1>3, OtherOffers DEF Next

(* Once a player pressed OK, no step of anyone changes the offer while the trade lasts. *)
THEOREM LockedStands == Spec => LockedOfferStands
<1>1. OffersKept(sd, sd') =>
          \A p \in Players : sd[p].deal_locked # 0 /\ sd'[p].deal_locked # 0
              => sd'[p].deal = sd[p].deal
    BY DEF OffersKept
<1> QED BY <1>1, OffersStep, BasicInvariant, PTL DEF Spec, LockedOfferStands
----------------------------------------------------------------------------
(* Partners name each other: with pl for where the players are.            *)

Linked(S, pl) ==
    \A p \in Players : LET q == S[p].trade_partner IN
        /\ q # NoOne => pl[p] = "map" /\ S[q].trade_partner = p /\ S[q].trading = S[p].trading
        /\ S[p].trading => q # NoOne
        /\ S[p].can_tradeack => q # NoOne /\ ~S[p].trading /\ ~S[q].can_tradeack

Alone(S, p) == S[p].trade_partner = NoOne /\ ~S[p].trading /\ ~S[p].can_tradeack

LEMMA LinkedPartner ==
    ASSUME NEW S \in Sessions, OneSided(S), Linked(S, place), NEW p \in Players
    PROVE  /\ map_id2sd(S, p) = S[p].trade_partner
           /\ S[p].trade_partner = NoOne => Alone(S, p)
           /\ S[p].trade_partner # NoOne =>
                 /\ S[p].trade_partner \in Players \ {p} /\ place[p] = "map"
                 /\ place[S[p].trade_partner] = "map"
                 /\ S[S[p].trade_partner].trade_partner = p
                 /\ S[S[p].trade_partner].trading = S[p].trading
<1>1. S[p].trade_partner \in Players \cup {NoOne} /\ S[p].trade_partner # p /\ p # NoOne
    BY NoOneAssumption DEF Sessions, Session, OneSided
<1>2. S[p].trade_partner = NoOne => Alone(S, p)
    BY DEF Linked, Alone
<1>3. ASSUME S[p].trade_partner # NoOne
      PROVE  /\ place[p] = "map" /\ place[S[p].trade_partner] = "map"
             /\ S[S[p].trade_partner].trade_partner = p
             /\ S[S[p].trade_partner].trading = S[p].trading
    BY <1>1, <1>3 DEF Linked
<1> QED BY <1>1, <1>2, <1>3 DEF map_id2sd

(* A cancel leaves the one who cancels and the partner alone, and the others as they were. *)
LEMMA CancelLinked ==
    ASSUME NEW S \in Sessions, OneSided(S), Linked(S, place), NEW p \in Players
    PROVE  LET C == trade_tradecancel(S, p)
           IN  /\ Linked(C, place) /\ Alone(C, p)
               /\ \A q \in Players : Alone(S, q) => Alone(C, q)
<1> DEFINE C == trade_tradecancel(S, p)
           t == S[p].trade_partner
<1>1. /\ map_id2sd(S, p) = t
      /\ t = NoOne => Alone(S, p)
      /\ t # NoOne => t \in Players /\ S[t].trade_partner = p /\ S[t].trading = S[p].trading
    BY LinkedPartner
<1>2. \A q \in Players : C[q] = IF q \notin {p, t} THEN S[q]
                                ELSE IF S[p].trading THEN Finished(S[q]) ELSE Unasked(S[q])
    BY <1>1, CancelValues
<1> HIDE DEF C
<1>3. ASSUME NEW q \in Players, q \in {p, t}
      PROVE  Alone(C, q)
  <2>1. S[q] \in Session /\ S[q].trading = S[p].trading
      BY <1>1, <1>3, NoOneAssumption DEF Sessions
  <2>2. CASE S[p].trading
    <3>1. C[q] = Finished(S[q]) /\ ~S[q].can_tradeack
        BY <1>2, <1>3, <2>1, <2>2 DEF Linked
    <3> QED BY <2>1, <3>1, EndingsValues DEF Alone
  <2>3. CASE ~S[p].trading
    <3>1. C[q] = Unasked(S[q])
        BY <1>2, <1>3, <2>3
    <3> QED BY <2>1, <2>3, <3>1, EndingsValues DEF Alone
  <2> QED BY <2>2, <2>3
<1>4. ASSUME NEW q \in Players, Alone(S, q)
      PROVE  Alone(C, q)
  <2>1. CASE q \in {p, t}
      BY <1>3, <2>1
  <2>2. CASE q \notin {p, t}
    <3>1. C[q] = S[q]
        BY <1>2, <2>2
    <3> QED BY <1>4, <3>1 DEF Alone
  <2> QED BY <2>1, <2>2
<1>5. ASSUME NEW q \in Players
      PROVE  LET r == C[q].trade_partner IN
             /\ r # NoOne => place[q] = "map" /\ C[r].trade_partner = q /\ C[r].trading = C[q].trading
             /\ C[q].trading => r # NoOne
             /\ C[q].can_tradeack => r # NoOne /\ ~C[q].trading /\ ~C[r].can_tradeack
  <2>1. CASE q \in {p, t}
      BY <1>3, <2>1 DEF Alone
  <2>2. CASE q \notin {p, t}
    <3> DEFINE r == S[q].trade_partner
    <3>1. C[q] = S[q]
        BY <1>2, <2>2
    <3>2. /\ r # NoOne => /\ r \in Players /\ place[q] = "map" /\ S[r].trade_partner = q
                          /\ S[r].trading = S[q].trading
          /\ r = NoOne => Alone(S, q)
        BY LinkedPartner
    <3>3. r # NoOne => r \notin {p, t}
        BY <1>1, <2>2, <3>2, NoOneAssumption
    <3>4. r # NoOne => C[r] = S[r]
        BY <1>2, <3>2, <3>3
    <3>5. S[q].can_tradeack => r # NoOne /\ ~S[q].trading /\ ~S[r].can_tradeack
        BY DEF Linked
    <3> QED BY <3>1, <3>2, <3>4, <3>5 DEF Alone
  <2> QED BY <2>1, <2>2
<1>6. Linked(C, place)
    BY <1>5 DEF Linked
<1> QED BY <1>3, <1>4, <1>6 DEF C

LEMMA SameLinksLinked ==
    ASSUME NEW S \in Sessions, NEW T, NEW pl, Linked(S, pl), SameLinks(S, T)
    PROVE  Linked(T, pl)
BY DEF Linked, SameLinks, Sessions, Session

LEMMA RemovalLinked ==
    ASSUME NEW S \in Sessions, OneSided(S), Linked(S, place), NEW p \in Players
    PROVE  /\ Linked(unit_remove_map(S, p), place)
           /\ Alone(unit_remove_map(S, p), p)
BY CancelLinked, LinkedPartner DEF unit_remove_map

LEMMA RequestLinked ==
    ASSUME AskedOnMapOnly, SessionsOK, OneSided(sd), Linked(sd, place),
           NEW p \in Players, NEW q \in Players, trade_traderequest(p, q)
    PROVE  Linked(sd', place')
<1> DEFINE S == IF sd[p].trade_partner # NoOne THEN trade_tradecancel(sd, p) ELSE sd
<1>1. place[p] = "map" /\ place[q] = "map" /\ p # q /\ place' = place /\ sd[q].trade_partner = NoOne
    BY DEF trade_traderequest, Playing
<1>2. sd \in Sessions /\ S \in Sessions
    BY CancelType DEF SessionsOK, Sessions
<1>3. Alone(sd, q) /\ (sd[p].trade_partner = NoOne => Alone(sd, p))
    BY <1>1, <1>2, LinkedPartner
<1>4. Linked(S, place) /\ Alone(S, p) /\ Alone(S, q)
    BY <1>2, <1>3, CancelLinked
<1>5. sd' = S \/ sd' = [S EXCEPT ![q] = Asked(@, p), ![p] = Asking(@, q)]
    BY DEF trade_traderequest
<1> HIDE DEF S
<1>6. CASE sd' = [S EXCEPT ![q] = Asked(@, p), ![p] = Asking(@, q)]
  <2>1. sd'[q] = Asked(S[q], p) /\ sd'[p] = Asking(S[p], q) /\ \A r \in Players \ {p, q} : sd'[r] = S[r]
      BY <1>1, <1>2, <1>6 DEF Sessions
  <2>2. S[p] \in Session /\ S[q] \in Session
      BY <1>2 DEF Sessions
  <2>3. /\ sd'[q].trade_partner = p /\ ~sd'[q].trading
        /\ sd'[p].trade_partner = q /\ ~sd'[p].trading /\ ~sd'[p].can_tradeack
        /\ sd'[p].trading = sd'[q].trading
    <3>1. /\ S[p].trading \in BOOLEAN /\ ~S[p].trading /\ S[q].trading \in BOOLEAN /\ ~S[q].trading
          /\ ~S[p].can_tradeack
        BY <1>4, <2>2 DEF Alone, Session
    <3>2. S[p].trading = S[q].trading
        BY <3>1
    <3> QED BY <2>1, <2>2, <3>1, <3>2, AskingValues
  <2>4. ASSUME NEW r \in Players
        PROVE  LET u == sd'[r].trade_partner IN
               /\ u # NoOne => place[r] = "map" /\ sd'[u].trade_partner = r /\ sd'[u].trading = sd'[r].trading
               /\ sd'[r].trading => u # NoOne
               /\ sd'[r].can_tradeack => u # NoOne /\ ~sd'[r].trading /\ ~sd'[u].can_tradeack
    <3>1. CASE r = q
        BY <1>1, <2>3, <3>1, NoOneAssumption
    <3>2. CASE r = p
        BY <1>1, <2>3, <3>2, NoOneAssumption
    <3>3. CASE r \notin {p, q}
      <4> DEFINE u == S[r].trade_partner
      <4>1. sd'[r] = S[r] /\ u \in Players \cup {NoOne}
          BY <1>2, <2>1, <3>3 DEF Sessions, Session
      <4>2. /\ u # NoOne => place[r] = "map" /\ S[u].trade_partner = r /\ S[u].trading = S[r].trading
            /\ S[r].trading => u # NoOne
            /\ S[r].can_tradeack => u # NoOne /\ ~S[r].trading /\ ~S[u].can_tradeack
          BY <1>4 DEF Linked
      <4>3. u # NoOne => u \notin {p, q}
          BY <1>4, <4>2, NoOneAssumption DEF Alone
      <4>4. u # NoOne => sd'[u] = S[u]
          BY <2>1, <4>1, <4>3
      <4> QED BY <4>1, <4>2, <4>4
    <3> QED BY <3>1, <3>2, <3>3
  <2>5. Linked(sd', place)
      BY <2>4 DEF Linked
  <2> QED BY <1>1, <2>5
<1> QED BY <1>1, <1>4, <1>5, <1>6

(* The answer finds the one who asked, not trading, with the answerer for a partner. *)
LEMMA AnswerCases ==
    ASSUME SessionsOK, OneSided(sd), Linked(sd, place),
           NEW p \in Players, NEW answer, NEW near, trade_tradeack(p, answer, near)
    PROVE  LET t == sd[p].trade_partner
               S == [sd EXCEPT ![p].can_tradeack = FALSE]
           IN  /\ t \in Players \ {p} /\ ~sd[p].trading /\ ~sd[t].can_tradeack
               /\ \/ sd' = S
                  \/ sd' = Among(S, {p, t}, Unpaired)
                  \/ sd' = Among(S, {p, t}, Unlocked)
                  \/ sd' = Among(S, {p, t}, Started)
<1> DEFINE t == sd[p].trade_partner
           S == [sd EXCEPT ![p].can_tradeack = FALSE]
<1>1. sd \in Sessions
    BY DEF SessionsOK, Sessions
<1>2. t # NoOne /\ ~sd[p].trading /\ ~sd[t].can_tradeack
    BY DEF trade_tradeack, Linked
<1>3. /\ t \in Players \ {p} /\ map_id2sd(sd, p) = t
      /\ sd[t].trade_partner = p /\ sd[t].trading = sd[p].trading
    BY <1>1, <1>2, LinkedPartner
<1> HIDE DEF S, t
<1>4. \/ sd' = S \/ sd' = Among(S, {p, t}, Unpaired) \/ sd' = Among(S, {p, t}, Unlocked)
      \/ sd' = Among(S, {p, t}, Started)
    BY <1>2, <1>3, Zenon DEF trade_tradeack, S, t
<1> QED BY <1>2, <1>3, <1>4 DEF S, t

LEMMA AnswerLinked ==
    ASSUME SessionsOK, OneSided(sd), Linked(sd, place),
           NEW p \in Players, NEW answer, NEW near, trade_tradeack(p, answer, near)
    PROVE  Linked(sd', place')
<1> DEFINE t == sd[p].trade_partner
           S == [sd EXCEPT ![p].can_tradeack = FALSE]
<1>1. place' = place /\ sd \in Sessions
    BY DEF trade_tradeack, SessionsOK, Sessions
<1>2. /\ t \in Players \ {p} /\ ~sd[p].trading /\ ~sd[t].can_tradeack
      /\ \/ sd' = S \/ sd' = Among(S, {p, t}, Unpaired) \/ sd' = Among(S, {p, t}, Unlocked)
         \/ sd' = Among(S, {p, t}, Started)
    BY AnswerCases
<1>3. /\ S \in Sessions /\ ~S[p].can_tradeack
      /\ \A q \in Players \ {p} : S[q] = sd[q]
      /\ \A q \in Players : S[q].trade_partner = sd[q].trade_partner /\ S[q].trading = sd[q].trading
    BY AnsweringLinks
<1>4. place[p] = "map" /\ place[t] = "map" /\ sd[t].trade_partner = p /\ sd[t].trading = sd[p].trading
    BY <1>1, <1>2, LinkedPartner, NoOneAssumption
<1> HIDE DEF S
<1>5. ~S[p].can_tradeack /\ ~S[t].can_tradeack /\ ~S[p].trading /\ ~S[t].trading
    BY <1>2, <1>3, <1>4
<1>6. S[p] \in Session /\ S[t] \in Session
    BY <1>2, <1>3 DEF Sessions
(* The two of the pair afterwards: partners still, or both alone. *)
<1> DEFINE both(T) == Alone(T, p) /\ Alone(T, t)
           pair(T) == /\ T[p].trade_partner = t /\ T[t].trade_partner = p /\ T[p].trading = T[t].trading
                      /\ ~T[p].can_tradeack /\ ~T[t].can_tradeack
<1>7. both(sd') \/ pair(sd')
  <2>1. CASE sd' = S
      BY <1>2, <1>3, <1>4, <1>5, <2>1
  <2>2. CASE sd' = Among(S, {p, t}, Unpaired)
    <3>1. sd'[p] = Unpaired(S[p]) /\ sd'[t] = Unpaired(S[t])
        BY <1>2, <2>2 DEF Among
    <3> QED BY <1>5, <1>6, <3>1, EndingsValues DEF Alone
  <2>3. CASE sd' = Among(S, {p, t}, Unlocked)
    <3>1. sd'[p] = Unlocked(S[p]) /\ sd'[t] = Unlocked(S[t])
        BY <1>2, <2>3 DEF Among
    <3> QED BY <1>5, <1>6, <3>1, EndingsValues DEF Alone
  <2>4. CASE sd' = Among(S, {p, t}, Started)
    <3>1. sd'[p] = Started(S[p]) /\ sd'[t] = Started(S[t])
        BY <1>2, <2>4 DEF Among
    <3>2. S[p].trade_partner = t /\ S[t].trade_partner = p
        BY <1>2, <1>3, <1>4
    <3>3. Started(S[p]).trading = TRUE /\ Started(S[t]).trading = TRUE
        BY <1>6 DEF Started, Session
    <3>4. sd'[p].trading = sd'[t].trading
        BY <3>1, <3>3
    <3>5. Started(S[p]).trade_partner = t /\ Started(S[t]).trade_partner = p
        BY <1>6, <3>2, EndingsValues
    <3>6. ~Started(S[p]).can_tradeack /\ ~Started(S[t]).can_tradeack
        BY <1>5, <1>6, EndingsValues
    <3> QED BY <3>1, <3>4, <3>5, <3>6
  <2> HIDE DEF both, pair
  <2> QED BY <1>2, <2>1, <2>2, <2>3, <2>4
<1>8. \A q \in Players \ {p, t} : sd'[q] = sd[q]
  <2>1. \A q \in Players \ {p, t} : sd'[q] = S[q]
      BY <1>2 DEF Among
  <2> QED BY <1>3, <2>1
<1>9. ASSUME NEW r \in Players
      PROVE  LET u == sd'[r].trade_partner IN
             /\ u # NoOne => place[r] = "map" /\ sd'[u].trade_partner = r /\ sd'[u].trading = sd'[r].trading
             /\ sd'[r].trading => u # NoOne
             /\ sd'[r].can_tradeack => u # NoOne /\ ~sd'[r].trading /\ ~sd'[u].can_tradeack
  <2>1. CASE r \in {p, t}
      BY <1>2, <1>4, <1>7, <2>1, NoOneAssumption DEF Alone
  <2>2. CASE r \notin {p, t}
    <3> DEFINE u == sd[r].trade_partner
    <3>1. sd'[r] = sd[r] /\ u \in Players \cup {NoOne}
        BY <1>1, <1>8, <2>2 DEF Sessions, Session
    <3>2. /\ u # NoOne => place[r] = "map" /\ sd[u].trade_partner = r /\ sd[u].trading = sd[r].trading
          /\ sd[r].trading => u # NoOne
          /\ sd[r].can_tradeack => u # NoOne /\ ~sd[r].trading /\ ~sd[u].can_tradeack
        BY DEF Linked
    <3>3. u # NoOne => u \notin {p, t}
        BY <1>4, <2>2, <3>2, NoOneAssumption
    <3>4. u # NoOne => sd'[u] = sd[u]
        BY <1>8, <3>1, <3>3
    <3> QED BY <3>1, <3>2, <3>4
  <2> QED BY <2>1, <2>2
<1>10. Linked(sd', place)
    BY <1>9 DEF Linked
<1> QED BY <1>1, <1>10

LEMMA WindowLinked ==
    ASSUME SessionsOK, OneSided(sd), Linked(sd, place), NEW p \in Players, place' = place,
           Cancels(p) \/ SetsDeal(p) \/ Locks(p) \/ (CommitExchanges(p) /\ sd[p].trading)
    PROVE  Linked(sd', place')
<1>1. sd \in Sessions
    BY DEF SessionsOK, Sessions
<1>2. sd[p].trading => /\ Pressed(p) \in Sessions /\ OneSided(Pressed(p))
                       /\ SameLinks(sd, Pressed(p)) /\ Linked(Pressed(p), place)
    BY <1>1, PressedOneSided, SameLinksLinked
<1>3. CASE Cancels(p)
    BY <1>1, <1>2, <1>3, CancelLinked, PartnerType DEF Cancels
<1>4. CASE SetsDeal(p)
  <2>1. PICK d : sd' = [sd EXCEPT ![p].deal = d]
      BY <1>4 DEF SetsDeal
  <2>2. SameLinks(sd, sd')
    <3> DEFINE T == [sd EXCEPT ![p].deal = d]
    <3>1. SameLinks(sd, T) /\ sd' = T
        BY <2>1, OfferLinks
    <3> HIDE DEF T
    <3> QED BY <3>1
  <2> QED BY <1>1, <2>2, SameLinksLinked
<1>5. CASE Locks(p)
  <2>1. PICK n \in 1 .. 2 : sd' = [sd EXCEPT ![p].deal_locked = n]
      BY <1>5 DEF Locks
  <2>2. SameLinks(sd, sd')
    <3> DEFINE T == [sd EXCEPT ![p].deal_locked = n]
    <3>1. SameLinks(sd, T) /\ sd' = T
        BY <2>1, LockLinks
    <3> HIDE DEF T
    <3> QED BY <3>1
  <2> QED BY <1>1, <2>2, SameLinksLinked
<1>6. CASE CommitExchanges(p) /\ sd[p].trading
  <2>1. Pressed(p)[p].trading /\ map_id2sd(Pressed(p), p) = map_id2sd(sd, p)
      BY <1>2, <1>6 DEF SameLinks, map_id2sd
  <2>2. sd' = Among(Pressed(p), {p, map_id2sd(Pressed(p), p)}, Finished)
      BY <1>6, <2>1 DEF CommitExchanges
  <2>3. sd' = trade_tradecancel(Pressed(p), p)
      BY <2>1, <2>2 DEF trade_tradecancel
  <2> QED BY <1>2, <1>6, <2>3, CancelLinked
<1> QED BY <1>3, <1>4, <1>5, <1>6

(* A player without a partner may go anywhere and start afresh. *)
LEMMA AloneMoves ==
    ASSUME NEW S \in Sessions, OneSided(S), Linked(S, place), NEW p \in Players, Alone(S, p),
           NEW T \in {S, [S EXCEPT ![p] = Fresh]}, NEW where,
           place \in [Players -> {"map", "loading", "off"}]
    PROVE  Linked(T, [place EXCEPT ![p] = where])
<1> DEFINE moved == [place EXCEPT ![p] = where]
<1>1. Alone(T, p) /\ \A q \in Players \ {p} : T[q] = S[q] /\ moved[q] = place[q]
    BY DEF Sessions, Alone, Fresh
<1>2. ASSUME NEW r \in Players
      PROVE  LET u == T[r].trade_partner IN
             /\ u # NoOne => moved[r] = "map" /\ T[u].trade_partner = r /\ T[u].trading = T[r].trading
             /\ T[r].trading => u # NoOne
             /\ T[r].can_tradeack => u # NoOne /\ ~T[r].trading /\ ~T[u].can_tradeack
  <2>1. CASE r = p
      BY <1>1, <2>1 DEF Alone
  <2>2. CASE r # p
    <3> DEFINE u == S[r].trade_partner
    <3>1. T[r] = S[r] /\ moved[r] = place[r] /\ u \in Players \cup {NoOne}
        BY <1>1, <2>2 DEF Sessions, Session
    <3>2. /\ u # NoOne => place[r] = "map" /\ S[u].trade_partner = r /\ S[u].trading = S[r].trading
          /\ S[r].trading => u # NoOne
          /\ S[r].can_tradeack => u # NoOne /\ ~S[r].trading /\ ~S[u].can_tradeack
        BY DEF Linked
    <3>3. u # NoOne => u # p
        BY <3>2, NoOneAssumption DEF Alone
    <3>4. u # NoOne => T[u] = S[u]
        BY <1>1, <3>1, <3>3
    <3> HIDE DEF moved
    <3> QED BY <3>1, <3>2, <3>4
  <2> QED BY <2>1, <2>2
<1> HIDE DEF moved
<1>3. Linked(T, moved)
    BY <1>2 DEF Linked
<1> QED BY <1>3 DEF moved

LEMMA OtherLinked ==
    ASSUME SessionsOK, PlacesOK, OneSided(sd), Linked(sd, place), NEW p \in Players, OtherStep(p)
    PROVE  Linked(sd', place')
<1> DEFINE R == unit_remove_map(sd, p)
<1>1. /\ sd \in Sessions /\ R \in Sessions /\ OneSided(R) /\ Linked(R, place) /\ Alone(R, p)
      /\ place \in [Players -> {"map", "loading", "off"}]
    BY RemovalType, RemovalOneSided, RemovalLinked DEF SessionsOK, Sessions, PlacesOK
<1>2. CASE pc_setpos(p)
  <2>1. sd' = R /\ place' = [place EXCEPT ![p] = "loading"]
      BY <1>2 DEF pc_setpos
  <2> HIDE DEF R
  <2> QED BY <1>1, <2>1, AloneMoves
<1>3. CASE map_quit(p)
  <2>1. sd' = [R EXCEPT ![p] = Fresh] /\ place' = [place EXCEPT ![p] = "off"]
      BY <1>3 DEF map_quit
  <2> HIDE DEF R
  <2> QED BY <1>1, <2>1, AloneMoves
<1>4. CASE clif_parse_LoadEndAck(p) \/ pc_authok(p)
  <2>1. /\ place[p] # "map" /\ sd' = sd
        /\ place' = [place EXCEPT ![p] = "map"] \/ place' = [place EXCEPT ![p] = "loading"]
      BY <1>4 DEF clif_parse_LoadEndAck, pc_authok
  <2>2. Alone(sd, p)
      BY <1>1, <2>1, LinkedPartner
  <2> HIDE DEF R
  <2>3. \A where : Linked(sd, [place EXCEPT ![p] = where])
    <3>1. sd \in {sd, [sd EXCEPT ![p] = Fresh]} /\ sd \in Sessions
        BY <1>1
    <3> QED BY <1>1, <2>2, <3>1, AloneMoves
  <2> QED BY <2>1, <2>3
<1>5. CASE sd' = sd /\ place' = place
    BY <1>1, <1>5
<1> QED BY <1>2, <1>3, <1>4, <1>5 DEF OtherStep, vending_openvending, OtherWindow, CloseWindow, Outside

Pairs == Basic /\ Linked(sd, place)

LEMMA LinkedStep == AskedOnMapOnly => (Pairs /\ [Next]_vars => Linked(sd, place)')
<1> SUFFICES ASSUME AskedOnMapOnly, Pairs, [Next]_vars PROVE Linked(sd', place')
    OBVIOUS
<1>1. SessionsOK /\ PlacesOK /\ OneSided(sd) /\ Linked(sd, place)
    BY DEF Pairs, Basic, TypeOK
<1>2. CASE UNCHANGED vars
    BY <1>1, <1>2 DEF vars
<1>3. ASSUME NEW p \in Players, TradeStep(p)
      PROVE  Linked(sd', place')
  <2>1. CASE \E q \in Players : trade_traderequest(p, q)
      BY <1>1, <2>1, RequestLinked
  <2>2. CASE \E answer \in {"accept", "cancel", "garbled"}, near \in BOOLEAN : trade_tradeack(p, answer, near)
      BY <1>1, <2>2, AnswerLinked
  <2>3. CASE \/ \E s \in Slots, amount \in 1 .. MaxAmount : trade_tradeadditem(p, s, amount)
             \/ \E amount \in 0 .. MaxZeny : trade_tradeaddzeny(p, amount)
             \/ trade_tradeok(p) \/ clif_parse_TradeCancel(p) \/ trade_tradecommit(p)
    <3>1. /\ \/ Cancels(p) \/ SetsDeal(p) \/ Locks(p) \/ (CommitExchanges(p) /\ sd[p].trading)
          /\ place' = place
        BY <1>1, <2>3, WindowCases
    <3> QED BY <1>1, <3>1, WindowLinked
  <2> QED BY <1>3, <2>1, <2>2, <2>3 DEF TradeStep
<1> QED BY <1>1, <1>2, <1>3, OtherLinked DEF Next

LEMMA PairsInvariant == ASSUME AskedOnMapOnly PROVE Spec => []Pairs
<1>1. Init => Linked(sd, place)
  <2>1. Fresh.trade_partner = NoOne /\ Fresh.trading = FALSE /\ Fresh.can_tradeack = FALSE
      BY DEF Fresh
  <2>2. Init => \A p \in Players : sd[p] = Fresh
      BY DEF Init
  <2> QED BY <2>1, <2>2 DEF Linked
<1>2. Pairs /\ [Next]_vars => Pairs'
    BY LinkedStep, BasicStep DEF Pairs
<1>3. Init => Pairs
    BY <1>1, InitBasic DEF Pairs
<1> QED BY <1>2, <1>3, PTL DEF Spec

(* When only players who have loaded their map are asked, partners name each other, are *)
(* connected, and trade or do not trade together.                                       *)
THEOREM PairsCorrect == ASSUME AskedOnMapOnly PROVE Spec => []TradesArePairs
<1>1. Pairs => TradesArePairs
  <2> SUFFICES ASSUME Pairs PROVE TradesArePairs
      OBVIOUS
  <2>1. sd \in Sessions /\ OneSided(sd) /\ Linked(sd, place)
      BY DEF Pairs, Basic, TypeOK, SessionsOK, Sessions
  <2>2. \A p \in Players : Paired(p)
      BY <2>1, LinkedPartner DEF Paired
  <2>3. \A p \in Players : /\ sd[p].deal_locked # 0 => sd[p].trading
                           /\ sd[p].trading => sd[p].trade_partner # NoOne
      BY <2>1 DEF OneSided, Linked
  <2> QED BY <2>2, <2>3 DEF TradesArePairs
<1> QED BY <1>1, PairsInvariant, PTL

(* When only players who have loaded their map are asked, of a pair at most one may answer, *)
(* and nobody once the window is open.                                                      *)
THEOREM AskedAnswers == ASSUME AskedOnMapOnly PROVE Spec => []OnlyTheAskedAnswers
<1>1. Pairs => OnlyTheAskedAnswers
    BY DEF Pairs, Linked, OnlyTheAskedAnswers
<1> QED BY <1>1, PairsInvariant, PTL
----------------------------------------------------------------------------
(* Goods change hands only by a commit that both players have locked.      *)

Consents(p) ==
    LET q == sd[p].trade_partner
    IN  Agreed(p, q) /\ zeny'[p] = zeny[p] - sd[p].deal.zeny + sd[q].deal.zeny

Untouched(p) == inventory'[p] = inventory[p] /\ zeny'[p] = zeny[p]

LEMMA CommitConsents ==
    ASSUME TypeOK, OneSided(sd), Linked(sd, place), NEW p \in Players, sd[p].deal_locked # 0,
           CommitExchanges(p)
    PROVE  \A r \in Players : Untouched(r) \/ Consents(r)
<1> DEFINE t == sd[p].trade_partner
<1>1. sd \in Sessions /\ SessionsOK /\ inventory \in Goods /\ zeny \in [Players -> 0 .. MaxZeny]
    BY DEF TypeOK, SessionsOK, Sessions, GoodsOK, Goods, ZenyOK
<1>2. map_id2sd(sd, p) = t /\ t # NoOne /\ t \in Players /\ p # t /\ sd[t].trade_partner = p
    BY <1>1, LinkedPartner DEF CommitExchanges
<1>3. sd[t].deal_locked = 2 /\ sd[p].deal_locked \in 0 .. 2 /\ p # NoOne
    BY <1>1, <1>2, NoOneAssumption DEF CommitExchanges, MayConclude, Sessions, Session
<1>4. sd[p].deal.zeny \in Nat /\ sd[t].deal.zeny \in Nat /\ zeny[p] \in Nat /\ zeny[t] \in Nat
    BY <1>1, <1>2, LimitsAssumption DEF Sessions, Session, Deal
<1> HIDE DEF t
<1>5. /\ inventory' = GoodsExchanged(p, t)
      /\ zeny' = [zeny EXCEPT ![p] = zeny[p] + sd[t].deal.zeny - sd[p].deal.zeny,
                              ![t] = zeny[t] + sd[p].deal.zeny - sd[t].deal.zeny]
    BY <1>1, <1>2 DEF CommitExchanges
<1>6. CASE Consents(p) /\ Consents(t)
  <2>1. \A r \in Players \ {p, t} : Untouched(r)
      BY <1>1, <1>2, <1>5, ExchangeType DEF Untouched
  <2> QED BY <1>6, <2>1
<1>7. Agreed(p, t) /\ Agreed(t, p)
  <2>1. sd[p].trade_partner = t /\ sd[p].deal_locked > 0 /\ sd[t].deal_locked > 0
      BY <1>3 DEF t
  <2> QED BY <1>2, <1>3, <2>1 DEF Agreed
<1>8. /\ zeny'[p] = zeny[p] - sd[p].deal.zeny + sd[t].deal.zeny
      /\ zeny'[t] = zeny[t] - sd[t].deal.zeny + sd[p].deal.zeny
    BY <1>1, <1>2, <1>4, <1>5
<1> QED BY <1>2, <1>6, <1>7, <1>8 DEF Consents, t

LEMMA ConsentStep ==
    Pairs /\ [Next]_vars =>
        (outside' = outside => \A r \in Players : Untouched(r) \/ Consents(r))
<1> SUFFICES ASSUME Pairs, [Next]_vars, outside' = outside
             PROVE  \A r \in Players : Untouched(r) \/ Consents(r)
    OBVIOUS
<1>1. TypeOK /\ SessionsOK /\ OneSided(sd) /\ Linked(sd, place) /\ outside \in Nat
    BY LimitsAssumption DEF Pairs, Basic, TypeOK, GoodsOK
<1>2. CASE UNCHANGED <<inventory, zeny>>
    BY <1>2 DEF Untouched
<1>3. ASSUME NEW p \in Players, trade_tradecommit(p)
      PROVE  \A r \in Players : Untouched(r) \/ Consents(r)
  <2>1. sd[p].deal_locked # 0
      BY <1>3 DEF trade_tradecommit
  <2> QED BY <1>1, <1>2, <1>3, <2>1, CommitCases, CommitConsents DEF CommitCancels, CommitWaits
<1>4. ASSUME NEW p \in Players, TradeStep(p)
      PROVE  UNCHANGED <<inventory, zeny>> \/ trade_tradecommit(p)
    BY <1>4 DEF TradeStep, trade_traderequest, trade_tradeack, trade_tradeadditem, trade_tradeaddzeny,
                trade_tradeok, clif_parse_TradeCancel, goods
<1>5. ASSUME NEW p \in Players, OtherStep(p)
      PROVE  UNCHANGED <<inventory, zeny>>
    BY <1>1, <1>5 DEF OtherStep, pc_setpos, clif_parse_LoadEndAck, map_quit, pc_authok,
                      vending_openvending, OtherWindow, CloseWindow, Outside, goods
<1> QED BY <1>2, <1>3, <1>4, <1>5 DEF Next, vars

(* When only players who have loaded their map are asked, no trade changes a player's goods *)
(* unless the player and the partner have both locked, and one of them has concluded.       *)
THEOREM ConsentCorrect == ASSUME AskedOnMapOnly PROVE Spec => ConsentedExchange
<1>1. (outside' = outside => \A r \in Players : Untouched(r) \/ Consents(r)) =>
          \A p \in Players : LET q == sd[p].trade_partner IN
              (inventory'[p] # inventory[p] \/ zeny'[p] # zeny[p]) /\ outside' = outside =>
                  Agreed(p, q) /\ zeny'[p] = zeny[p] - sd[p].deal.zeny + sd[q].deal.zeny
    BY DEF Untouched, Consents
<1> QED BY <1>1, ConsentStep, PairsInvariant, PTL DEF Spec, ConsentedExchange

----------------------------------------------------------------------------
(***************************************************************************)
(* The trade window makes and loses nothing.  The exchange goes place by   *)
(* place; what holds between two places (Between) is that the two players  *)
(* have together what they had, that neither has lost more than offered so *)
(* far, and that what the places ahead offer is still in its slots.  The   *)
(* last is why no slot may be at two places of a window, which holds       *)
(* because places are filled from the first (Orderly).                     *)
(***************************************************************************)

HeldOf(inv, it) == [s \in Slots |-> IF inv[s].item = it THEN inv[s].amount ELSE 0]

LEMMA SlotsFinite == IsFiniteSet(Slots) /\ Slots \subseteq Nat
BY LimitsAssumption, FS_Interval DEF Slots

LEMMA HeldOfType ==
    ASSUME NEW inv \in [Slots -> Stack], NEW it
    PROVE  HeldOf(inv, it) \in [Slots -> Int] /\ \A s \in Slots : HeldOf(inv, it)[s] >= 0
BY LimitsAssumption DEF HeldOf, Stack

LEMMA CountIsSum ==
    ASSUME NEW inv \in [Slots -> Stack], NEW it
    PROVE  Count(inv, it) = Sum(HeldOf(inv, it), Slots)
<1> DEFINE S == {s \in Slots : inv[s].item = it}
           f == HeldOf(inv, it)
           Works(g) == g = [s \in SUBSET S |-> IF s = {} THEN 0 ELSE inv[Picked(s)].amount + g[s \ {Picked(s)}]]
<1>1. Count(inv, it) = (CHOOSE g : Works(g))[S]
    BY DEF Count, MapThenSumSet, MapThenFoldSet, Picked
<1>2. \A s \in SUBSET S : s # {} => inv[Picked(s)].amount = f[Picked(s)]
    BY DEF Picked, HeldOf
<1>3. \A g : Works(g) <=> Adds(g, f, S)
    BY <1>2 DEF Adds
<1>4. IsFiniteSet(S) /\ S \subseteq Slots
    BY SlotsFinite, FS_Subset
<1> HIDE DEF f, S
<1>5. \E g : Works(g)
    BY <1>3, <1>4, AddsExists
<1>6. Adds((CHOOSE g : Works(g)), f, S)
  <2> HIDE DEF Works
  <2> QED BY <1>3, <1>5
<1>7. Count(inv, it) = Sum(f, S)
  <2> DEFINE g == CHOOSE x : Works(x)
  <2>1. Count(inv, it) = g[S] /\ Adds(g, f, S)
      BY <1>1, <1>6
  <2> HIDE DEF g
  <2> QED BY <1>4, <2>1, AddsIsSum
<1>8. f \in [Slots -> Int]
    BY HeldOfType DEF f
<1>9. \A s \in Slots \ S : f[s] = 0
    BY DEF f, S, HeldOf
<1>10. Sum(f, S) = Sum(f, Slots)
    BY <1>4, <1>8, <1>9, SlotsFinite, SumOfParts
<1> QED BY <1>7, <1>10 DEF f

LEMMA CountType ==
    ASSUME NEW inv \in [Slots -> Stack], NEW it
    PROVE  Count(inv, it) \in Int
<1> DEFINE f == HeldOf(inv, it)
<1>1. \A s \in Slots : f[s] \in Int
    BY HeldOfType
<1> HIDE DEF f
<1>2. Sum(f, Slots) \in Int
    BY <1>1, SlotsFinite, SumType
<1> QED BY <1>2, CountIsSum DEF f

(* Who changes one slot changes the count by what is in the slot before and after. *)
LEMMA CountChange ==
    ASSUME NEW inv \in [Slots -> Stack], NEW new \in [Slots -> Stack], NEW s \in Slots,
           \A t \in Slots \ {s} : new[t] = inv[t], NEW it
    PROVE  Count(new, it) = Count(inv, it) + (IF new[s].item = it THEN new[s].amount ELSE 0)
                                           - (IF inv[s].item = it THEN inv[s].amount ELSE 0)
<1> DEFINE f == HeldOf(inv, it)
           h == HeldOf(new, it)
<1>1. /\ f[s] = IF inv[s].item = it THEN inv[s].amount ELSE 0
      /\ h[s] = IF new[s].item = it THEN new[s].amount ELSE 0
    BY DEF HeldOf
<1>2. \A t \in Slots : t # s => h[t] = f[t]
    BY DEF HeldOf
<1>3. f \in [Slots -> Int] /\ h \in [Slots -> Int]
    BY HeldOfType
<1>4. Count(inv, it) = Sum(f, Slots) /\ Count(new, it) = Sum(h, Slots)
    BY CountIsSum
<1> HIDE DEF f, h
<1>5. Sum(h, Slots) = Sum(f, Slots) + h[s] - f[s]
    BY <1>2, <1>3, SlotsFinite, SumChange, ZenonT(40)
<1> QED BY <1>1, <1>4, <1>5

LEMMA StackedCount ==
    ASSUME NEW inv \in [Slots -> Stack], NEW it \in Items, NEW amount \in 1 .. MaxAmount,
           HasRoom(inv, it, amount), NEW any \in Items
    PROVE  Count(Stacked(inv, it, amount), any) = Count(inv, any) + (IF any = it THEN amount ELSE 0)
<1>1. Count(inv, any) \in Int
    BY CountType
<1>2. CASE StacksOf(inv, it) # {}
  <2> DEFINE s == Min(StacksOf(inv, it))
  <2>1. s \in Slots /\ inv[s].item = it
    <3>1. StacksOf(inv, it) \subseteq Slots /\ \A x \in StacksOf(inv, it) : inv[x].item = it
        BY DEF StacksOf
    <3> QED BY <1>2, <3>1, SlotsFinite, MinIsLeast
  <2> HIDE DEF s
  <2>2. inv[s].amount + amount \in 0 .. MaxAmount /\ inv[s].amount \in Nat
      BY <1>2, <2>1, LimitsAssumption DEF HasRoom, Stack, s
  <2> DEFINE new == [item |-> it, amount |-> inv[s].amount + amount]
  <2>3. new \in Stack /\ new.item = it /\ new.amount = inv[s].amount + amount
      BY <2>2, ItemsAssumption DEF Stack
  <2>4. Stacked(inv, it, amount) = [inv EXCEPT ![s] = new]
    <3>1. [inv[s] EXCEPT !.amount = @ + amount] = new
        BY <2>1 DEF Stack
    <3> HIDE DEF new
    <3>2. Stacked(inv, it, amount) = [inv EXCEPT ![s].amount = @ + amount]
        BY <1>2 DEF Stacked, s
    <3> QED BY <2>1, <3>1, <3>2
  <2> HIDE DEF new
  <2> DEFINE inv2 == [inv EXCEPT ![s] = new]
  <2>5. inv2 \in [Slots -> Stack] /\ inv2[s] = new /\ \A t \in Slots \ {s} : inv2[t] = inv[t]
      BY <2>1, <2>3
  <2> HIDE DEF inv2
  <2>6. Count(inv2, any) = Count(inv, any) + (IF inv2[s].item = any THEN inv2[s].amount ELSE 0)
                                           - (IF inv[s].item = any THEN inv[s].amount ELSE 0)
      BY <2>1, <2>5, CountChange
  <2> QED BY <1>1, <2>1, <2>2, <2>3, <2>4, <2>5, <2>6 DEF inv2
<1>3. CASE StacksOf(inv, it) = {}
  <2> DEFINE s == Min(FreeSlots(inv))
             new == [item |-> it, amount |-> amount]
  <2>1. s \in Slots /\ inv[s].item = NoItem
    <3>1. /\ FreeSlots(inv) # {} /\ FreeSlots(inv) \subseteq Slots
          /\ \A x \in FreeSlots(inv) : inv[x].item = NoItem
        BY <1>3 DEF HasRoom, FreeSlots
    <3> QED BY <3>1, SlotsFinite, MinIsLeast
  <2>2. new \in Stack /\ new.item = it /\ new.amount = amount
      BY ItemsAssumption, LimitsAssumption DEF Stack
  <2>3. Stacked(inv, it, amount) = [inv EXCEPT ![s] = new]
      BY <1>3 DEF Stacked
  <2> HIDE DEF s, new
  <2> DEFINE inv2 == [inv EXCEPT ![s] = new]
  <2>4. inv2 \in [Slots -> Stack] /\ inv2[s] = new /\ \A t \in Slots \ {s} : inv2[t] = inv[t]
      BY <2>1, <2>2
  <2> HIDE DEF inv2
  <2>6. Count(inv2, any) = Count(inv, any) + (IF inv2[s].item = any THEN inv2[s].amount ELSE 0)
                                           - (IF inv[s].item = any THEN inv[s].amount ELSE 0)
      BY <2>1, <2>4, CountChange
  <2>5. inv[s].item # any
      BY <2>1, ItemsAssumption
  <2> QED BY <1>1, <2>2, <2>3, <2>4, <2>5, <2>6 DEF inv2
<1> QED BY <1>2, <1>3

LEMMA DelitemCount ==
    ASSUME NEW inv \in [Slots -> Stack], NEW s \in Slots, NEW amount \in 1 .. MaxAmount,
           inv[s].item \in Items, amount <= inv[s].amount, NEW any \in Items
    PROVE  Count(pc_delitem(inv, s, amount), any) = Count(inv, any) - (IF any = inv[s].item THEN amount ELSE 0)
<1> DEFINE new == IF inv[s].amount = amount THEN Empty
                  ELSE [item |-> inv[s].item, amount |-> inv[s].amount - amount]
<1>1. Count(inv, any) \in Int
    BY CountType
<1>2. inv[s].item # NoItem /\ inv[s].amount \in 0 .. MaxAmount
    BY ItemsAssumption DEF Stack
<1>3. new \in Stack /\ (new.item = any => any = inv[s].item /\ new.amount = inv[s].amount - amount)
      /\ (any = inv[s].item /\ new.item # any => inv[s].amount = amount)
    BY <1>2, ItemsAssumption, LimitsAssumption DEF Stack, Empty
<1>4. pc_delitem(inv, s, amount) = [inv EXCEPT ![s] = new]
    BY <1>2, LimitsAssumption DEF pc_delitem
<1> HIDE DEF new
<1> DEFINE inv2 == [inv EXCEPT ![s] = new]
<1>5. inv2 \in [Slots -> Stack] /\ inv2[s] = new /\ \A t \in Slots \ {s} : inv2[t] = inv[t]
    BY <1>3
<1> HIDE DEF inv2
<1>6. Count(inv2, any) = Count(inv, any) + (IF inv2[s].item = any THEN inv2[s].amount ELSE 0)
                                         - (IF inv[s].item = any THEN inv[s].amount ELSE 0)
    BY <1>5, CountChange
<1> QED BY <1>1, <1>2, <1>3, <1>4, <1>5, <1>6, LimitsAssumption DEF inv2

(* What is added to an inventory lands in a free place or on a stack of its kind. *)
LEMMA StackedSlots ==
    ASSUME NEW inv \in [Slots -> Stack], NEW it \in Items, NEW amount \in 1 .. MaxAmount,
           HasRoom(inv, it, amount), NEW s \in Slots, inv[s].item \in Items
    PROVE  /\ Stacked(inv, it, amount)[s].item = inv[s].item
           /\ inv[s].amount <= Stacked(inv, it, amount)[s].amount
<1>1. inv[s].amount \in Nat
    BY LimitsAssumption DEF Stack
<1>2. CASE StacksOf(inv, it) # {}
  <2> DEFINE r == Min(StacksOf(inv, it))
  <2>1. Stacked(inv, it, amount) = [inv EXCEPT ![r].amount = @ + amount]
      BY <1>2 DEF Stacked
  <2> HIDE DEF r
  <2>2. Stacked(inv, it, amount)[s] = IF s = r THEN [inv[s] EXCEPT !.amount = @ + amount] ELSE inv[s]
      BY <2>1
  <2> QED BY <1>1, <2>2, LimitsAssumption DEF Stack
<1>3. CASE StacksOf(inv, it) = {}
  <2> DEFINE r == Min(FreeSlots(inv))
  <2>1. inv[r].item = NoItem
    <3>1. FreeSlots(inv) # {} /\ FreeSlots(inv) \subseteq Slots /\ \A x \in FreeSlots(inv) : inv[x].item = NoItem
        BY <1>3 DEF HasRoom, FreeSlots
    <3> QED BY <3>1, SlotsFinite, MinIsLeast
  <2>2. Stacked(inv, it, amount) = [inv EXCEPT ![r] = [item |-> it, amount |-> amount]]
      BY <1>3 DEF Stacked
  <2> HIDE DEF r
  <2>3. s # r
      BY <2>1, ItemsAssumption
  <2> QED BY <1>1, <2>2, <2>3
<1> QED BY <1>2, <1>3

LEMMA DelitemSlots ==
    ASSUME NEW inv \in [Slots -> Stack], NEW s \in Slots, NEW amount, NEW r \in Slots, r # s
    PROVE  pc_delitem(inv, s, amount)[r] = inv[r]
BY DEF pc_delitem

(* No slot is at two places of a deal. *)
Distinct(d) == \A i, j \in Positions : i # j /\ d.goods[i].amount > 0 /\ d.goods[j].amount > 0
                                         => d.goods[i].slot # d.goods[j].slot

(* What q offers at the places after i is still in q's inventory. *)
Unspent(inv, q, i) ==
    \A j \in Positions : LET o == sd[q].deal.goods[j] IN
        j > i /\ o.amount > 0 => /\ inv[q][o.slot].item \in Items
                                 /\ inv[q][o.slot].item = inventory[q][o.slot].item
                                 /\ o.amount <= inv[q][o.slot].amount

(* One place of one side: its goods go over whole or stay. *)
Moved(inv, new, from, to, o, it) ==
    \E m \in Nat : /\ m <= o.amount /\ (m > 0 => it = inventory[from][o.slot].item)
                   /\ Count(new[from], it) = Count(inv[from], it) - m
                   /\ Count(new[to], it) = Count(inv[to], it) + m

LEMMA HalfTurn ==
    ASSUME SessionsOK, NEW inv \in Goods, NEW from \in Players, NEW to \in Players, from # to,
           NEW i \in Positions, NEW k, Distinct(sd[from].deal),
           Unspent(inv, from, i - 1), Unspent(inv, to, k)
    PROVE  LET o == sd[from].deal.goods[i]
               new == Given(inv, from, to, o)
           IN  /\ new \in Goods /\ \A q \in Players \ {from, to} : new[q] = inv[q]
               /\ Unspent(new, from, i) /\ Unspent(new, to, k)
               /\ \A any \in Items : Moved(inv, new, from, to, o, any)
<1> DEFINE o == sd[from].deal.goods[i]
           new == Given(inv, from, to, o)
           it == inv[from][o.slot].item
<1>1. /\ \A q \in Players, j \in Positions : sd[q].deal.goods[j] \in Offer
      /\ o \in Offer /\ o.slot \in Slots /\ o.amount \in 0 .. MaxAmount
    BY DEF SessionsOK, Session, Deal, Offer
<1>2. new \in Goods /\ \A q \in Players \ {from, to} : new[q] = inv[q]
    BY <1>1, GivenType
<1>3. (\A j \in Positions : j \in Int) /\ i \in Int /\ MaxAmount \in Nat
    BY LimitsAssumption DEF Positions
<1>4. inv[from] \in [Slots -> Stack] /\ inv[to] \in [Slots -> Stack]
    BY DEF Goods
<1>5. CASE o.amount = 0 \/ ~pc_additem_ok(inv[to], it, o.amount)
  <2>1. new = inv
      BY <1>5 DEF Given
  <2>2. Unspent(inv, from, i)
    <3>1. \A j \in Positions : j > i => j > i - 1
        BY <1>3
    <3> QED BY <3>1 DEF Unspent
  <2>3. ASSUME NEW any \in Items PROVE Moved(inv, inv, from, to, o, any)
    <3>1. Count(inv[from], any) \in Int /\ Count(inv[to], any) \in Int
        BY <1>4, CountType
    <3>2. 0 \in Nat /\ 0 <= o.amount
        BY <1>1, <1>3
    <3> HIDE DEF o
    <3> QED BY <3>1, <3>2 DEF Moved
  <2> HIDE DEF o, new
  <2> QED BY <1>2, <2>1, <2>2, <2>3 DEF o, new
<1>6. CASE ~(o.amount = 0 \/ ~pc_additem_ok(inv[to], it, o.amount))
  <2>1. it \in Items /\ o.amount \in 1 .. MaxAmount /\ HasRoom(inv[to], it, o.amount)
    <3>1. inv[from][o.slot] \in Stack
        BY <1>1, <1>4
    <3>2. it \in Items \cup {NoItem}
      <4> HIDE DEF o
      <4> QED BY <3>1, StackFields
    <3> HIDE DEF it, o
    <3> QED BY <1>6, <3>2 DEF pc_additem_ok
  <2>2. o.amount <= inv[from][o.slot].amount /\ it = inventory[from][o.slot].item
    <3>1. i > i - 1
        BY <1>3
    <3>2. o.amount > 0
      <4> HIDE DEF o
      <4> QED BY <1>3, <2>1
    <3> QED BY <3>1, <3>2 DEF Unspent
  <2> DEFINE more == Stacked(inv[to], it, o.amount)
             less == pc_delitem(inv[from], o.slot, o.amount)
  <2>3. new = [inv EXCEPT ![to] = more, ![from] = less]
      BY <1>6 DEF Given, Goods
  <2>4. new[to] = more /\ new[from] = less
      BY <2>3 DEF Goods
  <2>5. ASSUME NEW any \in Items PROVE Moved(inv, new, from, to, o, any)
    <3>1. Count(inv[from], any) \in Int /\ Count(inv[to], any) \in Int
        BY <1>4, CountType
    <3>2. Count(more, any) = Count(inv[to], any) + (IF any = it THEN o.amount ELSE 0)
      <4> HIDE DEF it, o
      <4> QED BY <1>4, <2>1, StackedCount
    <3>3. Count(less, any) = Count(inv[from], any) - (IF any = it THEN o.amount ELSE 0)
      <4> HIDE DEF o
      <4> QED BY <1>1, <1>4, <2>1, <2>2, DelitemCount
    <3> DEFINE m == IF any = it THEN o.amount ELSE 0
    <3>4. m \in Nat /\ m <= o.amount /\ (m > 0 => any = inventory[from][o.slot].item)
      <4> HIDE DEF o, it
      <4> QED BY <2>1, <2>2, <1>3
    <3> HIDE DEF new, more, less, o, it
    <3>5. Count(new[from], any) = Count(inv[from], any) - m /\ Count(new[to], any) = Count(inv[to], any) + m
        BY <2>4, <3>2, <3>3 DEF m
    <3> HIDE DEF m
    <3> QED BY <3>4, <3>5 DEF Moved
  <2>6. Unspent(new, from, i)
    <3> SUFFICES ASSUME NEW j \in Positions, j > i, sd[from].deal.goods[j].amount > 0
                 PROVE  LET b == sd[from].deal.goods[j] IN
                        /\ new[from][b.slot].item \in Items
                        /\ new[from][b.slot].item = inventory[from][b.slot].item
                        /\ b.amount <= new[from][b.slot].amount
        BY DEF Unspent
    <3> DEFINE b == sd[from].deal.goods[j]
    <3>1. b.slot \in Slots /\ b.slot # o.slot
      <4>0. j \in Int /\ i \in Int
          BY <1>3
      <4>1. j # i
          BY <4>0
      <4>3. o.amount > 0
        <5> HIDE DEF o
        <5> QED BY <1>3, <2>1
      <4>2. b.slot # o.slot
          BY <4>1, <4>3 DEF Distinct
      <4>4. b \in Offer
          BY <1>1
      <4> QED BY <4>2, <4>4 DEF Offer
    <3>2. new[from][b.slot] = inv[from][b.slot]
      <4>1. less[b.slot] = inv[from][b.slot]
        <5> HIDE DEF b, o
        <5> QED BY <1>1, <1>4, <3>1, DelitemSlots
      <4> HIDE DEF new, less
      <4> QED BY <2>4, <4>1
    <3>3. /\ inv[from][b.slot].item \in Items
          /\ inv[from][b.slot].item = inventory[from][b.slot].item
          /\ b.amount <= inv[from][b.slot].amount
      <4>0. j \in Int /\ i \in Int
          BY <1>3
      <4>1. j > i - 1
          BY <4>0
      <4> QED BY <4>1 DEF Unspent
    <3> QED BY <3>2, <3>3
  <2>7. Unspent(new, to, k)
    <3> SUFFICES ASSUME NEW j \in Positions, j > k, sd[to].deal.goods[j].amount > 0
                 PROVE  LET b == sd[to].deal.goods[j] IN
                        /\ new[to][b.slot].item \in Items
                        /\ new[to][b.slot].item = inventory[to][b.slot].item
                        /\ b.amount <= new[to][b.slot].amount
        BY DEF Unspent
    <3> DEFINE b == sd[to].deal.goods[j]
    <3>1. b.slot \in Slots /\ b.amount \in Nat
        BY <1>1, <1>3 DEF Offer
    <3>2. /\ inv[to][b.slot].item \in Items
          /\ inv[to][b.slot].item = inventory[to][b.slot].item
          /\ b.amount <= inv[to][b.slot].amount
        BY DEF Unspent
    <3>3. more[b.slot].item = inv[to][b.slot].item /\ inv[to][b.slot].amount <= more[b.slot].amount
        BY <1>4, <2>1, <3>1, <3>2, StackedSlots
    <3>4. inv[to][b.slot].amount \in Nat /\ more[b.slot].amount \in Nat
      <4>1. more \in [Slots -> Stack]
          BY <1>4, <2>1, StackedType
      <4>2. more[b.slot] \in Stack /\ inv[to][b.slot] \in Stack
          BY <1>4, <3>1, <4>1
      <4> HIDE DEF more, b
      <4> QED BY <4>2, StackFields
    <3> HIDE DEF more, new
    <3>5. b.amount <= more[b.slot].amount
      <4> HIDE DEF b
      <4> QED BY <3>1, <3>2, <3>3, <3>4
    <3> QED BY <2>4, <3>2, <3>3, <3>5
  <2> QED BY <1>2, <2>5, <2>6, <2>7
<1> QED BY <1>5, <1>6

(* What q offers of an item, place by place. *)
Share(q, it) == [j \in Positions |-> IF inventory[q][sd[q].deal.goods[j].slot].item = it
                                     THEN sd[q].deal.goods[j].amount ELSE 0]

(* What holds between two places of the exchange: the two have together what they had, and neither has lost more *)
(* than was offered so far.                                                                                       *)
Between(p, t, i, inv) ==
    /\ inv \in Goods /\ \A q \in Players \ {p, t} : inv[q] = inventory[q]
    /\ Unspent(inv, p, i) /\ Unspent(inv, t, i)
    /\ \A it \in Items :
           /\ Count(inv[p], it) + Count(inv[t], it) = Count(inventory[p], it) + Count(inventory[t], it)
           /\ Count(inv[p], it) >= Count(inventory[p], it) - Sum(Share(p, it), 1 .. i)
           /\ Count(inv[t], it) >= Count(inventory[t], it) - Sum(Share(t, it), 1 .. i)

LEMMA ShareType ==
    ASSUME SessionsOK, NEW q \in Players, NEW it
    PROVE  /\ Share(q, it) \in [1 .. MaxDeals -> Int] /\ Positions = 1 .. MaxDeals
           /\ \A j \in Positions : /\ 0 <= Share(q, it)[j]
                                   /\ Share(q, it)[j] \in Int
                                   /\ it = inventory[q][sd[q].deal.goods[j].slot].item
                                          => Share(q, it)[j] = sd[q].deal.goods[j].amount
<1>1. \A j \in Positions : sd[q].deal.goods[j].amount \in 0 .. MaxAmount
    BY DEF SessionsOK, Session, Deal, Offer
<1>2. \A j \in Positions : sd[q].deal.goods[j].amount \in Int /\ 0 <= sd[q].deal.goods[j].amount
    BY <1>1, LimitsAssumption
<1>3. Positions = 1 .. MaxDeals
    BY DEF Positions
<1>4. Share(q, it) \in [Positions -> Int]
    BY <1>2 DEF Share
<1>5. ASSUME NEW j \in Positions
      PROVE  /\ 0 <= Share(q, it)[j]
             /\ it = inventory[q][sd[q].deal.goods[j].slot].item
                    => Share(q, it)[j] = sd[q].deal.goods[j].amount
  <2> DEFINE given == sd[q].deal.goods[j].amount
             has == inventory[q][sd[q].deal.goods[j].slot].item
             share == Share(q, it)[j]
  <2>1. share = IF has = it THEN given ELSE 0
      BY Zenon DEF Share
  <2>2. given \in Int /\ 0 <= given
      BY <1>2
  <2> HIDE DEF given, has, share
  <2>3. 0 <= share /\ (it = has => share = given)
      BY <2>1, <2>2
  <2> QED BY <2>3 DEF given, has, share
<1> QED BY <1>3, <1>4, <1>5

LEMMA TurnKeeps ==
    ASSUME SessionsOK, inventory \in Goods, NEW p \in Players, NEW t \in Players, p # t,
           Distinct(sd[p].deal), Distinct(sd[t].deal),
           NEW i \in 1 .. MaxDeals, NEW inv, Between(p, t, i - 1, inv)
    PROVE  Between(p, t, i, Turn(p, t, i, inv))
<1> DEFINE op == sd[p].deal.goods[i]
           ot == sd[t].deal.goods[i]
           half == Given(inv, p, t, op)
           new == Given(half, t, p, ot)
<1>1. i \in Positions /\ Turn(p, t, i, inv) = new /\ inv \in Goods
    BY DEF Turn, Positions, Between
<1>2. /\ half \in Goods /\ \A q \in Players \ {p, t} : half[q] = inv[q]
      /\ Unspent(half, p, i) /\ Unspent(half, t, i - 1)
      /\ \A any \in Items : Moved(inv, half, p, t, op, any)
  <2>1. Unspent(inv, p, i - 1) /\ Unspent(inv, t, i - 1)
      BY DEF Between
  <2> QED BY <1>1, <2>1, HalfTurn
<1>3. /\ new \in Goods /\ \A q \in Players \ {p, t} : new[q] = half[q]
      /\ Unspent(new, p, i) /\ Unspent(new, t, i)
      /\ \A any \in Items : Moved(half, new, t, p, ot, any)
  <2> HIDE DEF half
  <2> QED BY <1>1, <1>2, HalfTurn
<1> HIDE DEF half, new, op, ot
<1>4. ASSUME NEW it \in Items
      PROVE  /\ Count(new[p], it) + Count(new[t], it) = Count(inventory[p], it) + Count(inventory[t], it)
             /\ Count(new[p], it) >= Count(inventory[p], it) - Sum(Share(p, it), 1 .. i)
             /\ Count(new[t], it) >= Count(inventory[t], it) - Sum(Share(t, it), 1 .. i)
  <2>1. PICK m \in Nat : /\ m <= op.amount /\ (m > 0 => it = inventory[p][op.slot].item)
                         /\ Count(half[p], it) = Count(inv[p], it) - m
                         /\ Count(half[t], it) = Count(inv[t], it) + m
      BY <1>2 DEF Moved
  <2>2. PICK n \in Nat : /\ n <= ot.amount /\ (n > 0 => it = inventory[t][ot.slot].item)
                         /\ Count(new[t], it) = Count(half[t], it) - n
                         /\ Count(new[p], it) = Count(half[p], it) + n
      BY <1>3 DEF Moved
  <2>3. /\ Count(inv[p], it) \in Int /\ Count(inv[t], it) \in Int
        /\ Count(inventory[p], it) \in Int /\ Count(inventory[t], it) \in Int
      BY <1>1, CountType DEF Goods
  <2>4. MaxDeals \in Nat
      BY LimitsAssumption
  <2>5. /\ Sum(Share(p, it), 1 .. i) = Sum(Share(p, it), 1 .. i - 1) + Share(p, it)[i]
        /\ Sum(Share(p, it), 1 .. i - 1) \in Int /\ Share(p, it)[i] \in Int /\ m <= Share(p, it)[i]
    <3>1. /\ Sum(Share(p, it), 1 .. i) = Sum(Share(p, it), 1 .. i - 1) + Share(p, it)[i]
          /\ Sum(Share(p, it), 1 .. i - 1) \in Int
        BY <2>4, ShareType, SumUpTo
    <3>2. /\ 0 <= Share(p, it)[i] /\ Share(p, it)[i] \in Int
          /\ it = inventory[p][op.slot].item => Share(p, it)[i] = op.amount
        BY <1>1, ShareType DEF op
    <3> QED BY <2>1, <3>1, <3>2
  <2>6. /\ Sum(Share(t, it), 1 .. i) = Sum(Share(t, it), 1 .. i - 1) + Share(t, it)[i]
        /\ Sum(Share(t, it), 1 .. i - 1) \in Int /\ Share(t, it)[i] \in Int /\ n <= Share(t, it)[i]
    <3>1. /\ Sum(Share(t, it), 1 .. i) = Sum(Share(t, it), 1 .. i - 1) + Share(t, it)[i]
          /\ Sum(Share(t, it), 1 .. i - 1) \in Int
        BY <2>4, ShareType, SumUpTo
    <3>2. /\ 0 <= Share(t, it)[i] /\ Share(t, it)[i] \in Int
          /\ it = inventory[t][ot.slot].item => Share(t, it)[i] = ot.amount
        BY <1>1, ShareType DEF ot
    <3> QED BY <2>2, <3>1, <3>2
  <2>7. /\ Count(inv[p], it) + Count(inv[t], it) = Count(inventory[p], it) + Count(inventory[t], it)
        /\ Count(inv[p], it) >= Count(inventory[p], it) - Sum(Share(p, it), 1 .. i - 1)
        /\ Count(inv[t], it) >= Count(inventory[t], it) - Sum(Share(t, it), 1 .. i - 1)
      BY DEF Between
  <2>8. /\ Count(new[p], it) = Count(inv[p], it) - m + n
        /\ Count(new[t], it) = Count(inv[t], it) + m - n
      BY <2>1, <2>2, <2>3
  <2>9. Count(new[p], it) + Count(new[t], it) = Count(inventory[p], it) + Count(inventory[t], it)
      BY <2>3, <2>7, <2>8
  <2>10. Count(new[p], it) >= Count(inventory[p], it) - Sum(Share(p, it), 1 .. i)
    <3> DEFINE start == Count(inventory[p], it)
               have  == Count(inv[p], it)
               now   == Count(new[p], it)
               lost  == Sum(Share(p, it), 1 .. i - 1)
               loses == Sum(Share(p, it), 1 .. i)
               share == Share(p, it)[i]
    <3>1. start \in Int /\ have \in Int /\ lost \in Int /\ share \in Int
        BY <2>3, <2>5
    <3>2. have >= start - lost
        BY <2>7
    <3>3. loses = lost + share /\ m <= share
        BY <2>5
    <3>4. now = have - m + n
        BY <2>8, <2>3
    <3> HIDE DEF start, have, now, lost, loses, share
    <3>5. now >= start - loses
        BY <3>1, <3>2, <3>3, <3>4
    <3> QED BY <3>5 DEF start, now, loses
  <2>11. Count(new[t], it) >= Count(inventory[t], it) - Sum(Share(t, it), 1 .. i)
    <3> DEFINE start == Count(inventory[t], it)
               have  == Count(inv[t], it)
               now   == Count(new[t], it)
               lost  == Sum(Share(t, it), 1 .. i - 1)
               loses == Sum(Share(t, it), 1 .. i)
               share == Share(t, it)[i]
    <3>1. start \in Int /\ have \in Int /\ lost \in Int /\ share \in Int
        BY <2>3, <2>6
    <3>2. have >= start - lost
        BY <2>7
    <3>3. loses = lost + share /\ n <= share
        BY <2>6
    <3>4. now = have - n + m
        BY <2>8, <2>3
    <3> HIDE DEF start, have, now, lost, loses, share
    <3>5. now >= start - loses
        BY <3>1, <3>2, <3>3, <3>4
    <3> QED BY <3>5 DEF start, now, loses
  <2> QED BY <2>9, <2>10, <2>11
<1> QED BY <1>1, <1>2, <1>3, <1>4 DEF Between

LEMMA ExchangeKeeps ==
    ASSUME SessionsOK, inventory \in Goods, NEW p \in Players, NEW t \in Players, p # t,
           Distinct(sd[p].deal), Distinct(sd[t].deal), Unspent(inventory, p, 0), Unspent(inventory, t, 0)
    PROVE  Between(p, t, MaxDeals, GoodsExchanged(p, t))
<1> DEFINE T == [i \in 0 .. MaxDeals |-> {inv \in Goods : Between(p, t, i, inv)}]
<1>1. MaxDeals \in Nat /\ Positions = 1 .. MaxDeals
    BY LimitsAssumption DEF Positions
<1>2. PICK after : /\ after[0] = inventory
                   /\ \A i \in 1 .. MaxDeals : after[i] = Turn(p, t, i, after[i - 1])
                   /\ GoodsExchanged(p, t) = after[MaxDeals]
    BY ExchangeTurns
<1>3. after[0] \in T[0]
  <2>1. 0 \in 0 .. MaxDeals /\ 1 .. 0 = {}
      BY <1>1
  <2>2. ASSUME NEW q \in {p, t}, NEW it \in Items
        PROVE  Count(inventory[q], it) >= Count(inventory[q], it) - Sum(Share(q, it), 1 .. 0)
    <3>1. Sum(Share(q, it), 1 .. 0) = 0
      <4>1. Sum(Share(q, it), 1 .. 0) = Sum(Share(q, it), {})
          BY <2>1, Zenon
      <4> QED BY <4>1, SumEmpty, Zenon
    <3>2. Count(inventory[q], it) \in Int
        BY CountType DEF Goods
    <3> QED BY <3>1, <3>2
  <2>3. Between(p, t, 0, inventory)
      BY <2>2 DEF Between
  <2> HIDE DEF Between
  <2> QED BY <1>2, <2>1, <2>3
<1>4. ASSUME NEW i \in 1 .. MaxDeals, after[i - 1] \in T[i - 1]
      PROVE  after[i] \in T[i]
  <2>1. i - 1 \in 0 .. MaxDeals /\ i \in 0 .. MaxDeals
      BY <1>1
  <2>2. Between(p, t, i - 1, after[i - 1])
      BY <1>4, <2>1
  <2>3. Between(p, t, i, after[i])
      BY <1>2, <2>2, TurnKeeps
  <2>4. after[i] \in Goods
      BY <2>3 DEF Between
  <2> QED BY <2>1, <2>3, <2>4
<1>5. after[MaxDeals] \in T[MaxDeals]
  <2> HIDE DEF T
  <2>1. \A i \in 0 .. MaxDeals : after[i] \in T[i]
      BY <1>1, <1>3, <1>4, TurnInvariant
  <2> QED BY <1>1, <2>1
<1> QED BY <1>1, <1>2, <1>5

(* What a player offers of an item altogether. *)
LEMMA OfferedIsSum ==
    ASSUME SessionsOK, NEW q \in Players, NEW it
    PROVE  Offered(q, it) = Sum(Share(q, it), 1 .. MaxDeals) /\ Offered(q, it) \in Nat
<1> DEFINE S == {i \in Positions : inventory[q][sd[q].deal.goods[i].slot].item = it}
           f == Share(q, it)
           Works(g) == g = [s \in SUBSET S |-> IF s = {} THEN 0
                                               ELSE sd[q].deal.goods[Picked(s)].amount + g[s \ {Picked(s)}]]
<1>1. Offered(q, it) = (CHOOSE g : Works(g))[S]
    BY DEF Offered, MapThenSumSet, MapThenFoldSet, Picked
<1>2. ASSUME NEW s \in SUBSET S, s # {}
      PROVE  sd[q].deal.goods[Picked(s)].amount = f[Picked(s)]
  <2>1. Picked(s) \in S
      BY <1>2 DEF Picked
  <2>2. \A i \in S : f[i] = sd[q].deal.goods[i].amount
      BY DEF Share
  <2> QED BY <2>1, <2>2
<1>3. \A g : Works(g) <=> Adds(g, f, S)
    BY <1>2 DEF Adds
<1>4. IsFiniteSet(Positions) /\ IsFiniteSet(S) /\ S \subseteq Positions
  <2>1. IsFiniteSet(Positions)
      BY LimitsAssumption, FS_Interval DEF Positions
  <2>2. S \subseteq Positions
      OBVIOUS
  <2> QED BY <2>1, <2>2, FS_Subset
<1>5. f \in [Positions -> Int] /\ (\A j \in Positions : 0 <= f[j]) /\ Positions = 1 .. MaxDeals
    BY ShareType DEF f
<1>6. \A j \in Positions \ S : f[j] = 0
    BY DEF f, S, Share
<1> HIDE DEF f, S
<1>7. \E g : Works(g)
    BY <1>3, <1>4, AddsExists
<1>8. Adds((CHOOSE g : Works(g)), f, S)
  <2> HIDE DEF Works
  <2> QED BY <1>3, <1>7
<1>9. Offered(q, it) = Sum(f, S)
  <2> DEFINE g == CHOOSE x : Works(x)
  <2>1. Offered(q, it) = g[S] /\ Adds(g, f, S)
      BY <1>1, <1>8
  <2> HIDE DEF g
  <2> QED BY <1>4, <2>1, AddsIsSum
<1>10. Sum(f, S) = Sum(f, Positions)
  <2>1. S \in SUBSET Positions /\ f \in [Positions -> Int]
      BY <1>4, <1>5
  <2> QED BY <1>4, <1>6, <2>1, SumOfParts, Zenon
<1>11. Sum(f, Positions) \in Nat
    BY <1>4, <1>5, SumNotNegative
<1> QED BY <1>5, <1>9, <1>10, <1>11, Zenon DEF f

----------------------------------------------------------------------------
(* The places of a deal are filled from the first, each with a slot of its own. *)
Packed(d)  == \A i, j \in Positions : i < j /\ d.goods[j].amount > 0 => d.goods[i].amount > 0
Orderly(d) == Packed(d) /\ Distinct(d)

(* T has the goods of S in its windows, or windows just opened or closed. *)
DealsFrom(S, T) == \A q \in Players : T[q].deal.goods = S[q].deal.goods \/ T[q].deal = NoDeal

LEMMA NoDealOrderly == Orderly(NoDeal)
BY DEF Orderly, Packed, Distinct, NoDeal

LEMMA DealsStayOrderly ==
    ASSUME NEW S, NEW T, DealsFrom(S, T), \A q \in Players : Orderly(S[q].deal)
    PROVE  \A q \in Players : Orderly(T[q].deal)
BY NoDealOrderly DEF DealsFrom, Orderly, Packed, Distinct

LEMMA EndingsDeals ==
    ASSUME NEW s \in Session
    PROVE  /\ Finished(s).deal = NoDeal /\ Started(s).deal = NoDeal /\ Unasked(s).deal = s.deal
           /\ Unpaired(s).deal = s.deal /\ Unlocked(s).deal = s.deal
BY EndingsValues DEF Finished, Started, Unlocked, Session

LEMMA AmongDeals ==
    ASSUME NEW S \in Sessions, NEW ps
    PROVE  /\ DealsFrom(S, Among(S, ps, Unpaired)) /\ DealsFrom(S, Among(S, ps, Unlocked))
           /\ DealsFrom(S, Among(S, ps, Started)) /\ DealsFrom(S, Among(S, ps, Finished))
           /\ DealsFrom(S, Among(S, ps, Unasked))
BY EndingsDeals DEF Among, DealsFrom, Sessions

LEMMA CancelDeals ==
    ASSUME NEW S \in Sessions, NEW p
    PROVE  DealsFrom(S, trade_tradecancel(S, p))
BY AmongDeals DEF trade_tradecancel

(* What keeps the deals of S may come before or after what keeps those of another. *)
LEMMA DealsOfSame ==
    ASSUME NEW S, NEW T, NEW U, \A q \in Players : T[q].deal = S[q].deal
    PROVE  /\ DealsFrom(T, U) => DealsFrom(S, U)
           /\ DealsFrom(U, S) => DealsFrom(U, T)
BY DEF DealsFrom

LEMMA RequestDeals ==
    ASSUME SessionsOK, NEW p \in Players, NEW q \in Players, trade_traderequest(p, q)
    PROVE  DealsFrom(sd, sd')
<1> DEFINE S == IF sd[p].trade_partner # NoOne THEN trade_tradecancel(sd, p) ELSE sd
<1>1. S \in Sessions /\ DealsFrom(sd, S)
    BY CancelType, CancelDeals DEF SessionsOK, Sessions, DealsFrom
<1>2. p # q /\ (sd' = S \/ sd' = [S EXCEPT ![q] = Asked(@, p), ![p] = Asking(@, q)])
    BY DEF trade_traderequest
<1> HIDE DEF S
<1>3. ASSUME NEW r \in Players
      PROVE  sd'[r].deal = S[r].deal
  <2>1. sd'[r] = S[r] \/ sd'[r] = Asked(S[r], p) \/ sd'[r] = Asking(S[r], q)
      BY <1>1, <1>2 DEF Sessions
  <2>2. S[r] \in Session
      BY <1>1 DEF Sessions
  <2> QED BY <2>1, <2>2, AskingValues
<1> QED BY <1>1, <1>3, DealsOfSame

LEMMA AnswerDeals ==
    ASSUME SessionsOK, NEW p \in Players, NEW answer, NEW near, trade_tradeack(p, answer, near)
    PROVE  DealsFrom(sd, sd')
<1> DEFINE t == map_id2sd(sd, p)
           S == [sd EXCEPT ![p].can_tradeack = FALSE]
<1>1. S \in Sessions /\ \A q \in Players : S[q].deal = sd[q].deal
    BY AnsweringLinks
<1> HIDE DEF S, t
<1>2. \/ sd' = S \/ sd' = Among(S, {p}, Unpaired) \/ sd' = Among(S, {p, t}, Unlocked)
      \/ sd' = Among(S, {p, t}, Unpaired) \/ sd' = Among(S, {p, t}, Started)
    BY Zenon DEF trade_tradeack, S, t
<1>3. DealsFrom(S, sd')
  <2>1. DealsFrom(S, S)
      BY DEF DealsFrom
  <2> QED BY <1>1, <1>2, <2>1, AmongDeals
<1> QED BY <1>1, <1>3, DealsOfSame

LEMMA OtherDeals ==
    ASSUME SessionsOK, NEW p \in Players, OtherStep(p)
    PROVE  DealsFrom(sd, sd')
<1> DEFINE R == unit_remove_map(sd, p)
<1>1. R \in Sessions /\ DealsFrom(sd, R)
    BY RemovalType, CancelDeals DEF unit_remove_map, SessionsOK, Sessions, DealsFrom
<1>2. sd' = R \/ sd' = [R EXCEPT ![p] = Fresh] \/ sd' = sd
    BY DEF OtherStep, pc_setpos, map_quit, clif_parse_LoadEndAck, pc_authok, vending_openvending,
           OtherWindow, CloseWindow, Outside
<1> HIDE DEF R
<1> QED BY <1>1, <1>2 DEF Sessions, DealsFrom, Fresh

(* What is put in goes to the place of its slot, or to the first that is empty. *)
LEMMA AddOrderly ==
    ASSUME NEW d \in Deal, Orderly(d), NEW s \in Slots, NEW n \in Nat, n > 0,
           PositionFor(d, s) # 0, NEW new,
           new.goods = [d.goods EXCEPT ![PositionFor(d, s)] = [slot |-> s, amount |-> n]]
    PROVE  Orderly(new)
<1> DEFINE fit == {j \in Positions : d.goods[j].slot = s \/ d.goods[j].amount = 0}
           i == PositionFor(d, s)
<1>1. i \in fit /\ \A j \in fit : i <= j
  <2>1. fit # {} /\ i = Min(fit)
      BY DEF PositionFor
  <2>2. fit \subseteq Nat
      BY LimitsAssumption DEF Positions
  <2> HIDE DEF fit, i
  <2> QED BY <2>1, <2>2, MinIsLeast
<1>2. i \in Positions /\ (d.goods[i].slot = s \/ d.goods[i].amount = 0)
    BY <1>1
<1>3. \A j \in Positions : /\ d.goods[j].amount \in Nat /\ j \in Int
                           /\ j < i => d.goods[j].slot # s /\ d.goods[j].amount > 0
  <2>1. \A j \in Positions : d.goods[j].amount \in Nat /\ j \in Int
      BY LimitsAssumption DEF Deal, Offer, Positions
  <2>2. \A j \in Positions : j \notin fit => d.goods[j].slot # s /\ d.goods[j].amount # 0
      OBVIOUS
  <2> HIDE DEF fit, i
  <2> QED BY <1>1, <1>2, <2>1, <2>2
<1>4. /\ new.goods[i].amount = n /\ new.goods[i].slot = s
      /\ \A j \in Positions \ {i} : new.goods[j] = d.goods[j]
    BY <1>2 DEF Deal
<1> HIDE DEF fit, i
<1>5. ASSUME NEW j \in Positions, NEW k \in Positions, j < k, new.goods[k].amount > 0
      PROVE  new.goods[j].amount > 0
  <2>1. CASE j = i
      BY <1>4, <2>1
  <2>2. CASE k = i
      BY <1>2, <1>3, <1>4, <1>5, <2>2
  <2>3. CASE j # i /\ k # i
      BY <1>4, <1>5, <2>3 DEF Orderly, Packed
  <2> QED BY <2>1, <2>2, <2>3
<1>6. ASSUME NEW j \in Positions, j # i, d.goods[j].amount > 0
      PROVE  d.goods[j].slot # s
  <2>1. j < i \/ i < j
      BY <1>2, <1>3, <1>6
  <2>2. CASE j < i
      BY <1>3, <2>2
  <2>3. CASE i < j
    <3>1. d.goods[i].amount > 0
        BY <1>2, <1>6, <2>3 DEF Orderly, Packed
    <3>2. d.goods[i].slot = s
        BY <1>2, <3>1
    <3> QED BY <1>2, <1>6, <3>1, <3>2 DEF Orderly, Distinct
  <2> QED BY <2>1, <2>2, <2>3
<1>7. ASSUME NEW j \in Positions, NEW k \in Positions, j # k, new.goods[j].amount > 0, new.goods[k].amount > 0
      PROVE  new.goods[j].slot # new.goods[k].slot
    BY <1>4, <1>6, <1>7 DEF Orderly, Distinct
<1> QED BY <1>5, <1>7 DEF Orderly, Packed, Distinct

LEMMA AddItemOrderly ==
    ASSUME TypeOK, \A q \in Players : Orderly(sd[q].deal), NEW p \in Players,
           NEW s \in Slots, NEW amount \in 1 .. MaxAmount, trade_tradeadditem(p, s, amount)
    PROVE  \A q \in Players : Orderly(sd'[q].deal)
<1> DEFINE d == sd[p].deal
           i == PositionFor(d, s)
           offered == IF d.goods[i].slot = s THEN d.goods[i].amount ELSE 0
           n == Min({offered + amount, inventory[p][s].amount})
<1>1. CASE map_id2sd(sd, p) = NoOne
  <2>1. sd' = trade_tradecancel(sd, p)
      BY <1>1 DEF trade_tradeadditem
  <2> QED BY <2>1, CancelDeals, DealsStayOrderly DEF TypeOK, SessionsOK, Sessions
<1>2. CASE map_id2sd(sd, p) # NoOne
  <2>1. i # 0 /\ sd' = [sd EXCEPT ![p].deal.goods[i] = [slot |-> s, amount |-> n]]
      BY <1>2 DEF trade_tradeadditem
  <2>2. sd[p] \in Session /\ d \in Deal /\ d.goods \in [Positions -> Offer] /\ i \in Positions
      BY <2>1, PositionType DEF TypeOK, SessionsOK, Session, Deal
  <2>3. n \in Nat /\ n > 0
    <3>1. offered \in Nat /\ inventory[p][s].amount \in Nat /\ amount \in Nat /\ 0 < amount
        BY <2>2, LimitsAssumption DEF TypeOK, GoodsOK, Stack, Offer
    <3>2. amount <= inventory[p][s].amount
        BY DEF trade_tradeadditem
    <3> DEFINE two == {offered + amount, inventory[p][s].amount}
    <3> HIDE DEF offered
    <3>3. two \subseteq Nat /\ two # {} /\ \A x \in two : x > 0
        BY <3>1, <3>2
    <3>4. Min(two) \in two
      <4> HIDE DEF two
      <4> QED BY <3>3, MinIsLeast
    <3> QED BY <3>3, <3>4
  <2> HIDE DEF n, i
  <2>4. /\ sd'[p].deal.goods = [d.goods EXCEPT ![i] = [slot |-> s, amount |-> n]]
        /\ \A q \in Players \ {p} : sd'[q] = sd[q]
      BY <2>1, <2>2 DEF TypeOK, SessionsOK, Session, Deal
  <2>5. Orderly(sd'[p].deal)
    <3> DEFINE new == sd'[p].deal
    <3>1. Orderly(d) /\ d \in Deal
        BY <2>2
    <3>2. PositionFor(d, s) # 0 /\ new.goods = [d.goods EXCEPT ![PositionFor(d, s)] = [slot |-> s, amount |-> n]]
        BY <2>1, <2>4 DEF i
    <3> HIDE DEF d, new
    <3> QED BY <2>3, <3>1, <3>2, AddOrderly DEF new
  <2> QED BY <2>4, <2>5
<1> QED BY <1>1, <1>2

LEMMA AddZenyDeals ==
    ASSUME SessionsOK, NEW p \in Players, NEW amount, trade_tradeaddzeny(p, amount)
    PROVE  DealsFrom(sd, sd')
<1>1. sd' = trade_tradecancel(sd, p) \/ sd' = [sd EXCEPT ![p].deal.zeny = amount]
    BY DEF trade_tradeaddzeny
<1>2. DealsFrom(sd, [sd EXCEPT ![p].deal.zeny = amount])
    BY DEF DealsFrom, SessionsOK, Session, Deal
<1> QED BY <1>1, <1>2, CancelDeals DEF SessionsOK, Sessions

LEMMA WindowDeals ==
    ASSUME SessionsOK, NEW p \in Players, Cancels(p) \/ Locks(p) \/ CommitExchanges(p)
    PROVE  DealsFrom(sd, sd')
<1>1. CASE Cancels(p)
  <2>1. CASE sd' = trade_tradecancel(sd, p)
      BY <2>1, CancelDeals DEF SessionsOK, Sessions
  <2>2. CASE \E q : sd' = trade_tradecancel(Pressed(p), q)
    <3>1. DealsFrom(Pressed(p), sd')
        BY <2>2, CancelDeals, PressedOffers
    <3> QED BY <3>1, PressedOffers, DealsOfSame
  <2> QED BY <1>1, <2>1, <2>2 DEF Cancels
<1>2. CASE Locks(p)
  <2>1. PICK n \in 1 .. 2 : sd' = [sd EXCEPT ![p].deal_locked = n]
      BY <1>2 DEF Locks
  <2>2. \A q \in Players : sd'[q].deal = sd[q].deal
      BY <2>1 DEF SessionsOK, Session
  <2> QED BY <2>2 DEF DealsFrom
<1>3. CASE CommitExchanges(p)
  <2>1. DealsFrom(Pressed(p), sd')
      BY <1>3, AmongDeals, PressedOffers DEF CommitExchanges
  <2> QED BY <2>1, PressedOffers, DealsOfSame
<1> QED BY <1>1, <1>2, <1>3

OrderlyDeals == \A q \in Players : Orderly(sd[q].deal)
InOrder == Basic /\ OrderlyDeals

LEMMA OrderlyStep == InOrder /\ [Next]_vars => OrderlyDeals'
<1> SUFFICES ASSUME InOrder, [Next]_vars PROVE OrderlyDeals'
    OBVIOUS
<1>1. TypeOK /\ SessionsOK /\ OrderlyDeals
    BY DEF InOrder, Basic, TypeOK
<1>2. CASE DealsFrom(sd, sd')
    BY <1>1, <1>2, DealsStayOrderly DEF OrderlyDeals
<1>3. CASE UNCHANGED vars
    BY <1>2, <1>3 DEF vars, DealsFrom
<1>4. ASSUME NEW p \in Players, NEW s \in Slots, NEW amount \in 1 .. MaxAmount, trade_tradeadditem(p, s, amount)
      PROVE  OrderlyDeals'
    BY <1>1, <1>4, AddItemOrderly DEF OrderlyDeals
<1>5. ASSUME NEW p \in Players, trade_tradeok(p) \/ clif_parse_TradeCancel(p) \/ trade_tradecommit(p)
      PROVE  DealsFrom(sd, sd')
  <2>1. CASE trade_tradeok(p)
    <3>1. Cancels(p) \/ Locks(p)
        BY <2>1 DEF trade_tradeok, Open, Trading, Cancels, Locks
    <3> QED BY <1>1, <3>1, WindowDeals
  <2>2. CASE clif_parse_TradeCancel(p)
      BY <1>1, <2>2, WindowDeals DEF clif_parse_TradeCancel, Cancels
  <2>3. CASE trade_tradecommit(p)
    <3>1. Cancels(p) \/ Locks(p) \/ CommitExchanges(p)
      <4>1. sd[p].trading
          BY <2>3 DEF trade_tradecommit, Trading
      <4>2. CommitCancels(p) => Cancels(p)
          BY <4>1, Zenon DEF CommitCancels, Cancels
      <4>3. CommitWaits(p) => Locks(p)
        <5>1. 2 \in 1 .. 2
            OBVIOUS
        <5> QED BY <4>1, <5>1 DEF CommitWaits, Locks, Pressed
      <4> QED BY <2>3, <4>2, <4>3, CommitCases
    <3> QED BY <1>1, <3>1, WindowDeals
  <2> QED BY <1>5, <2>1, <2>2, <2>3
<1>6. ASSUME NEW p \in Players, TradeStep(p)
      PROVE  OrderlyDeals'
    BY <1>1, <1>2, <1>4, <1>5, <1>6, RequestDeals, AnswerDeals, AddZenyDeals DEF TradeStep
<1> QED BY <1>1, <1>2, <1>3, <1>6, OtherDeals DEF Next

LEMMA InOrderInvariant == Spec => []InOrder
<1>1. Init => OrderlyDeals
    BY NoDealOrderly DEF Init, Fresh, OrderlyDeals
<1>2. Init => InOrder
    BY <1>1, InitBasic DEF InOrder
<1>3. InOrder /\ [Next]_vars => InOrder'
    BY BasicStep, OrderlyStep DEF InOrder
<1> QED BY <1>2, <1>3, PTL DEF Spec

----------------------------------------------------------------------------
(* What all players have. *)

LEMMA TotalIsSum ==
    ASSUME NEW inv \in Goods, NEW it
    PROVE  /\ [q \in Players |-> Count(inv[q], it)] \in [Players -> Int]
           /\ Total(inv, it) = Sum([q \in Players |-> Count(inv[q], it)], Players)
<1> DEFINE f == [q \in Players |-> Count(inv[q], it)]
           Works(g) == g = [s \in SUBSET Players |-> IF s = {} THEN 0 ELSE Count(inv[Picked(s)], it) + g[s \ {Picked(s)}]]
<1>1. Total(inv, it) = (CHOOSE g : Works(g))[Players]
    BY DEF Total, MapThenSumSet, MapThenFoldSet, Picked
<1>2. ASSUME NEW s \in SUBSET Players, s # {}
      PROVE  Count(inv[Picked(s)], it) = f[Picked(s)]
  <2>1. Picked(s) \in Players
      BY <1>2 DEF Picked
  <2> QED BY <2>1
<1>3. \A g : Works(g) <=> Adds(g, f, Players)
    BY <1>2 DEF Adds
<1>4. f \in [Players -> Int]
    BY CountType DEF Goods
<1> HIDE DEF f
<1>5. \E g : Works(g)
    BY <1>3, PlayersAssumption, AddsExists
<1>6. Adds((CHOOSE g : Works(g)), f, Players)
  <2> HIDE DEF Works
  <2> QED BY <1>3, <1>5
<1>7. Total(inv, it) = Sum(f, Players)
    BY <1>1, <1>6, PlayersAssumption, AddsIsSum
<1> QED BY <1>4, <1>7 DEF f

LEMMA OffersAreThere ==
    ASSUME TypeOK, NEW q \in Players, ~impossible_trade_check(q)
    PROVE  Unspent(inventory, q, 0)
<1> SUFFICES ASSUME NEW j \in Positions, sd[q].deal.goods[j].amount > 0
             PROVE  LET o == sd[q].deal.goods[j] IN
                    inventory[q][o.slot].item \in Items /\ o.amount <= inventory[q][o.slot].amount
    BY DEF Unspent
<1> DEFINE o == sd[q].deal.goods[j]
           i == inventory[q][o.slot]
<1>1. o.slot \in Slots /\ o.amount \in Nat /\ o.amount > 0 /\ i \in Stack
  <2>1. o \in Offer
      BY DEF TypeOK, SessionsOK, Session, Deal
  <2>2. o.slot \in Slots /\ o.amount \in 0 .. MaxAmount
      BY <2>1 DEF Offer
  <2>3. i \in Stack
      BY <2>2 DEF TypeOK, GoodsOK
  <2> QED BY <2>2, <2>3, LimitsAssumption
<1>2. i.amount \in Nat /\ (i.amount # 0 => i.item \in Items)
  <2> HIDE DEF i
  <2> QED BY <1>1, StackFields
<1>3. ~(o.amount > i.amount)
    BY DEF impossible_trade_check
<1> HIDE DEF o, i
<1>4. o.amount <= i.amount /\ i.amount # 0
    BY <1>1, <1>2, <1>3
<1> QED BY <1>2, <1>4 DEF o, i

Lossless ==
    /\ AllZeny(zeny') = AllZeny(zeny)
    /\ \A it \in Items : Total(inventory', it) = Total(inventory, it)
OnlyOffered ==
    \A p \in Players, it \in Items : Count(inventory'[p], it) >= Count(inventory[p], it) - Offered(p, it)

LEMMA ExchangeConserves ==
    ASSUME TypeOK, OneSided(sd), OrderlyDeals, NEW p \in Players, CommitExchanges(p)
    PROVE  Lossless /\ OnlyOffered
<1> DEFINE t == map_id2sd(sd, p)
<1>1. sd \in Sessions /\ SessionsOK /\ inventory \in Goods /\ zeny \in [Players -> 0 .. MaxZeny]
    BY DEF TypeOK, SessionsOK, Sessions, GoodsOK, Goods, ZenyOK
<1>2. t \in Players /\ p # t
    BY <1>1, PartnerType DEF CommitExchanges, OneSided
<1>3. /\ ~impossible_trade_check(p) /\ ~impossible_trade_check(t)
      /\ inventory' = GoodsExchanged(p, t)
      /\ zeny' = [zeny EXCEPT ![p] = zeny[p] + sd[t].deal.zeny - sd[p].deal.zeny,
                              ![t] = zeny[t] + sd[p].deal.zeny - sd[t].deal.zeny]
    BY <1>1, <1>2 DEF CommitExchanges
<1>4. sd[p].deal.zeny \in Int /\ sd[t].deal.zeny \in Int /\ zeny \in [Players -> Int]
    BY <1>1, <1>2, LimitsAssumption DEF Sessions, Session, Deal
<1> HIDE DEF t
<1>5. Between(p, t, MaxDeals, inventory')
  <2>1. Unspent(inventory, p, 0) /\ Unspent(inventory, t, 0)
      BY <1>2, <1>3, OffersAreThere
  <2>2. Distinct(sd[p].deal) /\ Distinct(sd[t].deal)
      BY <1>2 DEF OrderlyDeals, Orderly
  <2> QED BY <1>1, <1>2, <1>3, <2>1, <2>2, ExchangeKeeps
<1>6. AllZeny(zeny') = AllZeny(zeny)
  <2>1. zeny' \in [Players -> Int]
      BY <1>2, <1>3, <1>4
  <2>2. \A q \in Players \ {p, t} : zeny'[q] = zeny[q]
      BY <1>3, <1>4
  <2>3. zeny'[p] + zeny'[t] = zeny[p] + zeny[t]
      BY <1>2, <1>3, <1>4
  <2> DEFINE w == zeny'
  <2>4. w \in [Players -> Int] /\ zeny \in [Players -> Int]
      BY <1>4, <2>1
  <2>5. Exchanged(zeny, w, Players, p, t)
      BY <1>2, <2>2, <2>3 DEF Exchanged
  <2> HIDE DEF w
  <2>6. Sum(w, Players) = Sum(zeny, Players)
      BY <1>2, <2>4, <2>5, PlayersAssumption, SumExchange
  <2> QED BY <2>6 DEF AllZeny, Sum, w
<1>7. ASSUME NEW it \in Items PROVE Total(inventory', it) = Total(inventory, it)
  <2> DEFINE f == [q \in Players |-> Count(inventory[q], it)]
             h == [q \in Players |-> Count(inventory'[q], it)]
  <2>1. inventory' \in Goods
      BY <1>5 DEF Between
  <2>2. /\ f \in [Players -> Int] /\ Total(inventory, it) = Sum(f, Players)
        /\ h \in [Players -> Int] /\ Total(inventory', it) = Sum(h, Players)
      BY <1>1, <2>1, TotalIsSum
  <2>3. (\A q \in Players \ {p, t} : h[q] = f[q]) /\ h[p] + h[t] = f[p] + f[t]
      BY <1>2, <1>5 DEF Between
  <2> HIDE DEF f, h
  <2>4. Exchanged(f, h, Players, p, t)
      BY <1>2, <2>3 DEF Exchanged
  <2>5. Sum(h, Players) = Sum(f, Players)
      BY <1>2, <2>2, <2>4, PlayersAssumption, SumExchange
  <2> QED BY <2>2, <2>5
<1>8. ASSUME NEW q \in Players, NEW it \in Items
      PROVE  Count(inventory'[q], it) >= Count(inventory[q], it) - Offered(q, it)
  <2>1. Count(inventory[q], it) \in Int
      BY <1>1, CountType DEF Goods
  <2>2. Offered(q, it) = Sum(Share(q, it), 1 .. MaxDeals) /\ Offered(q, it) \in Nat
      BY <1>1, OfferedIsSum
  <2>3. CASE q \in {p, t}
      BY <1>5, <2>2, <2>3 DEF Between
  <2>4. CASE q \notin {p, t}
    <3>1. inventory'[q] = inventory[q]
        BY <1>5, <2>4 DEF Between
    <3> QED BY <2>1, <2>2, <3>1
  <2> QED BY <2>3, <2>4
<1> QED BY <1>6, <1>7, <1>8 DEF Lossless, OnlyOffered

LEMMA ConservingStep == InOrder /\ [Next]_vars => (outside' = outside => Lossless /\ OnlyOffered)
<1> SUFFICES ASSUME InOrder, [Next]_vars, outside' = outside
             PROVE  Lossless /\ OnlyOffered
    OBVIOUS
<1>1. TypeOK /\ SessionsOK /\ OneSided(sd) /\ OrderlyDeals /\ outside \in Nat
    BY LimitsAssumption DEF InOrder, Basic, TypeOK, GoodsOK
<1>2. CASE UNCHANGED <<inventory, zeny>>
  <2>1. ASSUME NEW q \in Players, NEW it \in Items
        PROVE  Count(inventory[q], it) >= Count(inventory[q], it) - Offered(q, it)
    <3>1. Count(inventory[q], it) \in Int
        BY <1>1, CountType DEF TypeOK, GoodsOK
    <3>2. Offered(q, it) \in Nat
        BY <1>1, OfferedIsSum
    <3> QED BY <3>1, <3>2
  <2> QED BY <1>2, <2>1 DEF Lossless, OnlyOffered
<1>3. ASSUME NEW p \in Players, trade_tradecommit(p)
      PROVE  Lossless /\ OnlyOffered
    BY <1>1, <1>2, <1>3, CommitCases, ExchangeConserves DEF CommitCancels, CommitWaits
<1>4. ASSUME NEW p \in Players, TradeStep(p)
      PROVE  UNCHANGED <<inventory, zeny>> \/ trade_tradecommit(p)
    BY <1>4 DEF TradeStep, trade_traderequest, trade_tradeack, trade_tradeadditem, trade_tradeaddzeny,
                trade_tradeok, clif_parse_TradeCancel, goods
<1>5. ASSUME NEW p \in Players, OtherStep(p)
      PROVE  UNCHANGED <<inventory, zeny>>
    BY <1>1, <1>5 DEF OtherStep, pc_setpos, clif_parse_LoadEndAck, map_quit, pc_authok,
                      vending_openvending, OtherWindow, CloseWindow, Outside, goods
<1> QED BY <1>2, <1>3, <1>4, <1>5 DEF Next, vars

(* Whatever players ask, answer, put in, lock and conclude, and whatever goods come and go from
   outside meanwhile, no step of the trade window makes or loses an item or any zeny
   (trade.c trade_tradecommit 562-613: pc_delitem only where pc_additem took the goods). *)
THEOREM TradeConserves == Spec => TradingConserves
<1>1. (outside' = outside => Lossless /\ OnlyOffered) =>
          (outside' = outside => /\ AllZeny(zeny') = AllZeny(zeny)
                                 /\ \A it \in Items : Total(inventory', it) = Total(inventory, it))
    BY DEF Lossless
<1> QED BY <1>1, ConservingStep, InOrderInvariant, PTL DEF Spec, TradingConserves

(* And no player loses more of an item by it than stands in the player's own window. *)
THEOREM OffersBoundLosses == Spec => NothingUnofferedLeaves
<1>1. (outside' = outside => Lossless /\ OnlyOffered) =>
          (outside' = outside => \A p \in Players, it \in Items :
               Count(inventory'[p], it) >= Count(inventory[p], it) - Offered(p, it))
    BY DEF OnlyOffered
<1> QED BY <1>1, ConservingStep, InOrderInvariant, PTL DEF Spec, NothingUnofferedLeaves

-----------------------------------------------------------------------------
(***************************************************************************)
(* Shops: nobody pays or gets another price than the list said that its    *)
(* client showed, for any dealers, goods and prices.                       *)
(*                                                                         *)
(* The ids of shops are what makes it true: a list and a shop of one owner *)
(* with the same id are of the same price, since no id is given twice and  *)
(* what an open shop asks does not change.                                 *)
(***************************************************************************)

ShopFields == {"kind", "uid", "amount", "price", "limit"}
SearchFields == {"open", "uses", "kind", "found", "remote"}
IsOpen(s) == s.kind # "none"

(* The ids of shops and of lists have been given. *)
Numbered(shops, lists, next) ==
    /\ next \in Nat
    /\ DOMAIN shops = Dealers /\ \A p \in Dealers : DOMAIN shops[p] = ShopFields
    /\ DOMAIN lists = Dealers
    /\ \A p \in Dealers : IsOpen(shops[p]) => shops[p].uid \in Nat /\ shops[p].uid < next
    /\ \A p \in Dealers : IsOpen(lists[p]) => lists[p].owner \in Dealers /\ lists[p].uid \in Nat /\ lists[p].uid < next

IsOf(list, s) == IsOpen(s) /\ list.kind = s.kind /\ list.uid = s.uid
PricesStand(shops, lists) ==
    \A p, o \in Dealers : lists[p].owner = o /\ IsOf(lists[p], shops[o]) => lists[p].price = shops[o].price

(* The owners of what a search found are dealers, and the owner of the shop opened by it is one of them. *)
Sound(w) ==
    /\ DOMAIN w = SearchFields
    /\ \A r \in w.found : r.owner \in Dealers /\ w.kind # "none"
    /\ w.remote # NoDealer => \E r \in w.found : r.owner = w.remote
FoundOwner(looks) == DOMAIN looks = Dealers /\ \A p \in Dealers : Sound(looks[p])

ShopInv ==
    /\ Numbered(shop, seen, nextid) /\ PricesStand(shop, seen)
    /\ FoundOwner(search)
    /\ lastDeal.paid = lastDeal.due

(* What may become of a shop: it keeps its id and price, closes, or is another with a new id. *)
SameTerms(s, old) == DOMAIN s = ShopFields /\ s.kind = old.kind /\ s.uid = old.uid /\ s.price = old.price
Closed(s) == DOMAIN s = ShopFields /\ ~IsOpen(s)
MayBecome(shops) == DOMAIN shops = Dealers /\ \A p \in Dealers : SameTerms(shops[p], shop[p]) \/ Closed(shops[p])

LEMMA ShopsGoOn ==
    ASSUME Numbered(shop, seen, nextid), PricesStand(shop, seen), NEW shops, MayBecome(shops)
    PROVE  Numbered(shops, seen, nextid) /\ PricesStand(shops, seen)
BY DEF Numbered, PricesStand, MayBecome, SameTerms, Closed, IsOf, IsOpen

LEMMA ShopOpens ==
    ASSUME Numbered(shop, seen, nextid), PricesStand(shop, seen), NEW p \in Dealers,
           NEW s, DOMAIN s = ShopFields, s.uid = nextid, NEW shops, shops = [shop EXCEPT ![p] = s]
    PROVE  Numbered(shops, seen, nextid + 1) /\ PricesStand(shops, seen)
<1>1. shops[p] = s /\ (\A o \in Dealers \ {p} : shops[o] = shop[o]) /\ DOMAIN shops = Dealers
    BY DEF Numbered
<1>2. Numbered(shops, seen, nextid + 1)
    BY <1>1 DEF Numbered
<1>3. \A q \in Dealers : IsOpen(seen[q]) => seen[q].uid # s.uid
    BY DEF Numbered
<1>4. PricesStand(shops, seen)
    BY <1>1, <1>3 DEF PricesStand, IsOf, IsOpen
<1> QED BY <1>2, <1>4

(* A client is shown the list of a shop as it is, or none. *)
LEMMA ListShown ==
    ASSUME NEW shops, NEW next, Numbered(shops, seen, next), PricesStand(shops, seen), NEW p \in Dealers,
           NEW list, ~IsOpen(list) \/ \E o \in Dealers : IsOpen(shops[o]) /\ list = [kind |-> shops[o].kind, owner |-> o,
                                                                uid |-> shops[o].uid, price |-> shops[o].price],
           NEW lists, lists = [seen EXCEPT ![p] = list]
    PROVE  Numbered(shops, lists, next) /\ PricesStand(shops, lists)
<1>1. lists[p] = list /\ (\A q \in Dealers \ {p} : lists[q] = seen[q]) /\ DOMAIN lists = Dealers
    BY DEF Numbered
<1>2. CASE ~IsOpen(list)
  <2>1. Numbered(shops, lists, next)
      BY <1>1, <1>2 DEF Numbered
  <2>2. PricesStand(shops, lists)
      BY <1>1, <1>2 DEF PricesStand, IsOf, IsOpen
  <2> QED BY <2>1, <2>2
<1>3. ASSUME NEW o \in Dealers, IsOpen(shops[o]),
             list = [kind |-> shops[o].kind, owner |-> o, uid |-> shops[o].uid, price |-> shops[o].price]
      PROVE  Numbered(shops, lists, next) /\ PricesStand(shops, lists)
  <2>1. list.owner = o /\ list.uid = shops[o].uid /\ list.price = shops[o].price
      BY <1>3
  <2>2. Numbered(shops, lists, next)
      BY <1>1, <1>3, <2>1 DEF Numbered
  <2>3. PricesStand(shops, lists)
      BY <1>1, <2>1 DEF PricesStand
  <2> QED BY <2>2, <2>3
<1> QED BY <1>2, <1>3

(* The window of a search changes. *)
LEMMA WindowChanges ==
    ASSUME FoundOwner(search), NEW p \in Dealers, NEW w, Sound(w),
           NEW looks, looks = [search EXCEPT ![p] = w]
    PROVE  FoundOwner(looks)
BY DEF FoundOwner

LEMMA NoneClosed == Closed(NoShop) /\ ~IsOpen(NoList) /\ Sound(NoSearch)
BY DEF Sound, Closed, IsOpen, NoShop, NoList, NoSearch, ShopFields, SearchFields

LEMMA ClosedGoesOn ==
    ASSUME ShopInv, NEW p \in Dealers
    PROVE  MayBecome(ShopClosed(p)) /\ MayBecome(shop)
BY NoneClosed DEF ShopInv, Numbered, MayBecome, SameTerms, ShopClosed

LEMMA KeepsShown == ASSUME ShopInv, NEW p \in Dealers, Keeps(p) PROVE ShopInv'
<1>1. Numbered(shop, seen, nextid) /\ PricesStand(shop, seen) /\ FoundOwner(search) /\ lastDeal.paid = lastDeal.due
    BY DEF ShopInv
<1> DEFINE noList == [seen EXCEPT ![p] = NoList]
           noSearch == [search EXCEPT ![p] = NoSearch]
<1>2. FoundOwner(noSearch)
    BY <1>1, NoneClosed, WindowChanges
<1>3. \A shops : MayBecome(shops) =>
          Numbered(shops, seen, nextid) /\ PricesStand(shops, seen) /\ Numbered(shops, noList, nextid) /\ PricesStand(shops, noList)
  <2> SUFFICES ASSUME NEW shops, MayBecome(shops)
               PROVE  Numbered(shops, seen, nextid) /\ PricesStand(shops, seen)
                      /\ Numbered(shops, noList, nextid) /\ PricesStand(shops, noList)
      OBVIOUS
  <2>1. Numbered(shops, seen, nextid) /\ PricesStand(shops, seen)
      BY <1>1, ShopsGoOn
  <2> QED BY <2>1, NoneClosed, ListShown
<1>4. MayBecome(ShopClosed(p)) /\ MayBecome(shop)
    BY ClosedGoesOn
<1> HIDE DEF noList, noSearch
<1>5. ASSUME NEW s, shop' = [shop EXCEPT ![p] = s], DOMAIN s = ShopFields, s.uid = nextid, nextid' = nextid + 1,
             UNCHANGED <<seen, search, lastDeal>>
      PROVE  ShopInv'
  <2>1. Numbered(shop', seen, nextid + 1) /\ PricesStand(shop', seen)
      BY <1>1, <1>5, ShopOpens
  <2> QED BY <1>1, <1>5, <2>1 DEF ShopInv
<1>6. CASE UNCHANGED <<shop, nextid, seen, search, lastDeal>>
    BY <1>6 DEF ShopInv
<1>7. CASE CloseShop(p)
    BY <1>1, <1>3, <1>4, <1>7 DEF CloseShop, ShopInv
<1>8. CASE autotrade(p)
    BY <1>1, <1>2, <1>3, <1>4, <1>8 DEF autotrade, ShopInv, noList, noSearch
<1>9. CASE QuitShop(p)
    BY <1>1, <1>2, <1>3, <1>4, <1>9 DEF QuitShop, ShopInv, noList, noSearch
<1>10. CASE openvending(p)
  <2>1. PICK amount, price : shop' = [shop EXCEPT ![p] = [kind |-> "vend", uid |-> nextid, price |-> price, limit |-> 0,
                                                         amount |-> amount]]
      BY <1>10 DEF openvending
  <2> DEFINE s == [kind |-> "vend", uid |-> nextid, price |-> price, limit |-> 0, amount |-> amount]
  <2>2. DOMAIN s = ShopFields /\ s.uid = nextid
      BY DEF ShopFields
  <2> HIDE DEF s
  <2>3. shop' = [shop EXCEPT ![p] = s]
      BY <2>1 DEF s
  <2> QED BY <1>5, <1>10, <2>2, <2>3 DEF openvending
<1>11. CASE buyingstore_create(p)
  <2>1. UNCHANGED <<seen, search, lastDeal>>
      BY <1>11 DEF buyingstore_create
  <2>2. CASE UNCHANGED <<shop, nextid>>
      BY <1>6, <2>1, <2>2
  <2>3. ASSUME NEW n, NEW limit, NEW price,
               shop' = [shop EXCEPT ![p] = [kind |-> "buy", uid |-> nextid, price |-> price, limit |-> limit,
                                            amount |-> [None EXCEPT ![Plain] = n]]],
               nextid' = nextid + 1
        PROVE  ShopInv'
    <3> DEFINE s == [kind |-> "buy", uid |-> nextid, price |-> price, limit |-> limit, amount |-> [None EXCEPT ![Plain] = n]]
    <3>1. DOMAIN s = ShopFields /\ s.uid = nextid
        BY DEF ShopFields
    <3> HIDE DEF s
    <3>2. shop' = [shop EXCEPT ![p] = s]
        BY <2>3 DEF s
    <3> QED BY <1>5, <2>1, <2>3, <3>1, <3>2
  <2> QED BY <1>11, <2>2, <2>3 DEF buyingstore_create
<1> QED BY <1>6, <1>7, <1>8, <1>9, <1>10, <1>11
        DEF Keeps, buyingstore_setup, ComeBack, WalkOff

LEMMA OpenShopListed ==
    ASSUME ShopInv, NEW p \in Dealers, NEW o \in Dealers, IsOpen(shop[o])
    PROVE  /\ Numbered(shop, [seen EXCEPT ![p] = ListOf(o)], nextid)
           /\ PricesStand(shop, [seen EXCEPT ![p] = ListOf(o)])
BY ListShown DEF ListOf, ShopInv

LEMMA LookShown == ASSUME ShopInv, NEW p \in Dealers, NEW o \in Dealers, LookAt(p, o) PROVE ShopInv'
<1>1. IsOpen(shop[o])
    BY DEF LookAt, MayLook, Sells, Buys, IsOpen
<1> QED BY <1>1, OpenShopListed DEF LookAt, ShopInv

LEMMA SearchesShown == ASSUME ShopInv, NEW p \in Dealers, Searches(p) PROVE ShopInv'
<1>1. FoundOwner(search) /\ DOMAIN search = Dealers /\ Sound(search[p]) /\ DOMAIN search[p] = SearchFields
    BY DEF ShopInv, FoundOwner, Sound
<1>2. CASE searchstore_open(p)
  <2> DEFINE w == [search[p] EXCEPT !.open = TRUE, !.uses = MaxUses]
  <2>1. search' = [search EXCEPT ![p] = w]
      BY <1>2 DEF searchstore_open
  <2>2. DOMAIN w = SearchFields /\ w.remote = search[p].remote /\ w.found = search[p].found /\ w.kind = search[p].kind
      BY <1>1 DEF SearchFields
  <2> HIDE DEF w
  <2>3. Sound(w)
      BY <1>1, <2>2 DEF Sound
  <2>4. FoundOwner(search')
      BY <1>1, <2>1, <2>3, WindowChanges
  <2> QED BY <1>2, <2>4 DEF searchstore_open, ShopInv
<1>3. CASE searchstore_query(p)
  <2>1. PICK kind \in {"vend", "buy"} :
            search' = [search EXCEPT ![p].uses = @ - 1, ![p].kind = kind, ![p].found = Found(p, kind),
                                     ![p].remote = RemoteCleared(p)]
      BY <1>3 DEF searchstore_query
  <2> DEFINE w == [search[p] EXCEPT !.uses = @ - 1, !.kind = kind, !.found = Found(p, kind), !.remote = RemoteCleared(p)]
  <2>2. search' = [search EXCEPT ![p] = w]
      BY <2>1
  <2>3. DOMAIN w = SearchFields /\ w.remote = NoDealer /\ w.kind = kind /\ w.found = Found(p, kind)
      BY <1>1 DEF SearchFields, RemoteCleared
  <2> HIDE DEF w
  <2>4. Sound(w)
      BY <2>3 DEF Sound, Found
  <2>5. FoundOwner(search')
      BY <1>1, <2>2, <2>4, WindowChanges
  <2> QED BY <1>3, <2>5 DEF searchstore_query, ShopInv
<1>4. CASE searchstore_click(p)
  <2>1. PICK r \in search[p].found :
           LET same == shop[r.owner].kind = search[p].kind /\ shop[r.owner].uid = r.uid /\ Offers(r.owner)
               opens == same /\ (Sells(r.owner) \/ ~pc_istrading(p))
           IN /\ search' = [search EXCEPT ![p].remote = IF same THEN r.owner ELSE NoDealer]
              /\ seen' = IF opens THEN [seen EXCEPT ![p] = ListOf(r.owner)] ELSE seen
      BY <1>4 DEF searchstore_click
  <2>2. PICK remote \in {r.owner, NoDealer} : search' = [search EXCEPT ![p].remote = remote]
      BY <2>1
  <2> DEFINE w == [search[p] EXCEPT !.remote = remote]
  <2>3. search' = [search EXCEPT ![p] = w]
      BY <2>2
  <2>4. DOMAIN w = SearchFields /\ w.remote = remote /\ w.found = search[p].found /\ w.kind = search[p].kind
      BY <1>1 DEF SearchFields
  <2> HIDE DEF w
  <2>5. FoundOwner(search')
    <3>1. Sound(w)
        BY <1>1, <2>1, <2>4 DEF Sound
    <3> QED BY <1>1, <2>3, <3>1, WindowChanges
  <2>6. CASE seen' = seen
      BY <1>4, <2>5, <2>6 DEF searchstore_click, ShopInv
  <2>7. CASE shop[r.owner].kind = search[p].kind /\ seen' = [seen EXCEPT ![p] = ListOf(r.owner)]
    <3>1. r.owner \in Dealers /\ IsOpen(shop[r.owner])
        BY <1>1, <2>7 DEF Sound, IsOpen
    <3> QED BY <1>4, <2>5, <2>7, <3>1, OpenShopListed DEF searchstore_click, ShopInv
  <2> QED BY <2>1, <2>6, <2>7
<1>5. CASE searchstore_close(p)
  <2>1. FoundOwner([search EXCEPT ![p] = NoSearch])
      BY <1>1, NoneClosed, WindowChanges
  <2> QED BY <1>5, <2>1 DEF searchstore_close, ShopInv
<1> QED BY <1>2, <1>3, <1>4, <1>5 DEF Searches

----------------------------------------------------------------------------
(* Dealing. *)

(* After a deal a shop may have sold out; it keeps its id and its price till then. *)
LEMMA DealGoesOn ==
    ASSUME ShopInv, NEW o \in Dealers, NEW closing, MayBecome(closing), NEW over, LeavesIf(o, over, closing)
    PROVE  MayBecome(shop')
BY NoneClosed DEF LeavesIf, MayBecome

LEMMA RemoteEnds == ASSUME ShopInv, NEW p \in Dealers PROVE FoundOwner([search EXCEPT ![p].remote = NoDealer])
<1> DEFINE w == [search[p] EXCEPT !.remote = NoDealer]
<1>1. FoundOwner(search) /\ Sound(search[p]) /\ DOMAIN search[p] = SearchFields
    BY DEF ShopInv, FoundOwner, Sound
<1>2. DOMAIN w = SearchFields /\ w.remote = NoDealer /\ w.found = search[p].found /\ w.kind = search[p].kind
    BY <1>1 DEF SearchFields
<1>3. [search EXCEPT ![p].remote = NoDealer] = [search EXCEPT ![p] = w]
    OBVIOUS
<1> HIDE DEF w
<1>4. Sound(w)
    BY <1>1, <1>2 DEF Sound
<1> QED BY <1>1, <1>3, <1>4, WindowChanges

LEMMA PurchaseShown == ASSUME ShopInv, NEW p \in Dealers, vending_purchasereq(p) PROVE ShopInv'
<1> DEFINE o == seen[p].owner
<1>1. o \in Dealers /\ IsOpen(seen[p]) /\ IsOpen(shop[o]) /\ IsOf(seen[p], shop[o])
    BY DEF vending_purchasereq, SameShop, Sells, ShopInv, Numbered, IsOpen, IsOf
<1>2. seen[p].price = shop[o].price
    BY <1>1 DEF ShopInv, PricesStand
<1>3. PICK lines \in (SUBSET Held(shop[o].amount)) \ {{}}, n \in [Variants -> 1 .. 2] :
          /\ \E into \in Placed(p, lines) :
                /\ stock' = [stock EXCEPT ![p].inv = Plus(@, into, n), ![o].cart = Minus(@, lines, n)]
                /\ lastDeal' = [paid |-> SumOf(shop[o].price, lines, n), due |-> SumOf(seen[p].price, lines, n),
                                lost |-> into # lines, unchecked |-> Owns(p)]
          /\ LeavesIf(o, Held(Minus(shop[o].amount, lines, n)) = {},
                      [shop EXCEPT ![o].amount = Minus(shop[o].amount, lines, n)])
    BY DEF vending_purchasereq
<1>4. seen' = [seen EXCEPT ![p] = NoList] /\ search' = [search EXCEPT ![p].remote = NoDealer] /\ nextid' = nextid
    BY DEF vending_purchasereq
<1> HIDE DEF o
<1>5. MayBecome(shop')
  <2> DEFINE left == Minus(shop[o].amount, lines, n)
             closing == [shop EXCEPT ![o].amount = left]
  <2> HIDE DEF left
  <2>1. MayBecome(closing)
      BY <1>1 DEF ShopInv, Numbered, MayBecome, SameTerms, ShopFields
  <2> HIDE DEF closing
  <2> QED BY <1>1, <1>3, <2>1, DealGoesOn DEF left, closing
<1>6. lastDeal'.paid = lastDeal'.due
    BY <1>2, <1>3
<1>7. Numbered(shop', seen', nextid') /\ PricesStand(shop', seen')
  <2>1. Numbered(shop', seen, nextid) /\ PricesStand(shop', seen)
      BY <1>5, ShopsGoOn DEF ShopInv
  <2> QED BY <1>4, <2>1, NoneClosed, ListShown
<1>8. FoundOwner(search')
    BY <1>4, RemoteEnds
<1> QED BY <1>6, <1>7, <1>8 DEF ShopInv

LEMMA RefusedShown == ASSUME ShopInv, NEW p \in Dealers, RefusedPurchase(p) PROVE ShopInv'
<1>1. Numbered(shop, [seen EXCEPT ![p] = NoList], nextid) /\ PricesStand(shop, [seen EXCEPT ![p] = NoList])
    BY NoneClosed, ListShown DEF ShopInv
<1> QED BY <1>1 DEF RefusedPurchase, ShopInv

LEMMA TradeShown == ASSUME ShopInv, NEW p \in Dealers, buyingstore_trade(p) PROVE ShopInv'
<1> DEFINE o == seen[p].owner
<1>1. o \in Dealers /\ IsOpen(seen[p]) /\ IsOpen(shop[o]) /\ IsOf(seen[p], shop[o])
    BY DEF buyingstore_trade, Buys, ShopInv, Numbered, IsOpen, IsOf
<1>2. seen[p].price = shop[o].price
    BY <1>1 DEF ShopInv, PricesStand
<1>3. search' = [search EXCEPT ![p].remote = NoDealer] /\ UNCHANGED <<nextid, seen>>
    BY DEF buyingstore_trade
<1>4. DOMAIN shop = Dealers /\ \A q \in Dealers : DOMAIN shop[q] = ShopFields
    BY DEF ShopInv, Numbered
<1> HIDE DEF o
<1>5. ASSUME MayBecome(shop'), lastDeal'.paid = lastDeal'.due PROVE ShopInv'
  <2>1. Numbered(shop', seen, nextid) /\ PricesStand(shop', seen)
      BY <1>5, ShopsGoOn DEF ShopInv
  <2> QED BY <1>3, <1>5, <2>1, RemoteEnds DEF ShopInv
<1>6. ASSUME NEW n, NEW into,
             lastDeal' = [paid |-> shop[o].price * n, due |-> seen[p].price * n, lost |-> into = {}, unchecked |-> TRUE],
             NEW left, left = [shop[o] EXCEPT !.amount[Plain] = @ - n, !.limit = LimitNow(o) - shop[o].price * n],
             LeavesIf(o, left.amount[Plain] = 0 \/ left.limit = 0, [shop EXCEPT ![o] = left])
      PROVE  ShopInv'
  <2>1. SameTerms(left, shop[o])
      BY <1>1, <1>4, <1>6 DEF SameTerms, ShopFields
  <2>2. MayBecome([shop EXCEPT ![o] = left])
      BY <1>1, <1>4, <2>1 DEF MayBecome, SameTerms
  <2>3. MayBecome(shop')
      BY <1>1, <1>6, <2>2, DealGoesOn
  <2>4. lastDeal'.paid = lastDeal'.due
      BY <1>2, <1>6
  <2> QED BY <1>5, <2>3, <2>4
<1>7. CASE shop' = [shop EXCEPT ![o].limit = LimitNow(o)] /\ lastDeal' = lastDeal
  <2>1. MayBecome(shop')
      BY <1>1, <1>4, <1>7 DEF MayBecome, SameTerms, ShopFields
  <2> QED BY <1>5, <1>7, <2>1 DEF ShopInv
<1> QED BY <1>6, <1>7 DEF buyingstore_trade, o

LEMMA ShopStep == ShopInv /\ [ShopNext]_shopVars => ShopInv'
<1> SUFFICES ASSUME ShopInv, [ShopNext]_shopVars PROVE ShopInv'
    OBVIOUS
<1>1. CASE UNCHANGED shopVars
    BY <1>1 DEF shopVars, ShopInv
<1>2. ASSUME NEW p \in Dealers, Deals(p) PROVE ShopInv'
    BY <1>2, LookShown, PurchaseShown, RefusedShown, TradeShown DEF Deals
<1> QED BY <1>1, <1>2, KeepsShown, SearchesShown DEF ShopNext

LEMMA ShopInitInv == ShopInit => ShopInv
<1> SUFFICES ASSUME ShopInit PROVE ShopInv
    OBVIOUS
<1>1. shop = [p \in Dealers |-> NoShop] /\ seen = [p \in Dealers |-> NoList] /\ search = [p \in Dealers |-> NoSearch]
      /\ nextid = 0 /\ lastDeal = NoDealYet
    BY DEF ShopInit
<1>2. Numbered(shop, seen, nextid)
    BY <1>1, NoneClosed DEF Numbered, Closed
<1>3. PricesStand(shop, seen)
    BY <1>1, NoneClosed DEF PricesStand, IsOf, Closed
<1>4. FoundOwner(search)
    BY <1>1, NoneClosed DEF FoundOwner
<1> QED BY <1>1, <1>2, <1>3, <1>4 DEF ShopInv, NoDealYet

THEOREM ShopInvariant == ShopSpec => []ShopInv
BY ShopInitInv, ShopStep, PTL DEF ShopSpec

(* However shops are closed, opened again and priced between a look and a deal, the price of a deal is that
   of the list (vending.c 82, buyingstore.c 267), and the owner of a shop that may be dealt with from afar
   is one of those found by the last search (searchstore.c 370-381). *)
THEOREM DealsAreAsShown == ShopSpec => []ShopsAsShown
<1>1. ShopInv => ShopsAsShown
    BY DEF ShopInv, FoundOwner, Sound, ShopsAsShown
<1> QED BY <1>1, ShopInvariant, PTL

----------------------------------------------------------------------------
(***************************************************************************)
(* And a deal keeps the goods: what the buyer gets is what the seller had, *)
(* and it is lost only where nobody looked whether there is a place for    *)
(* it.                                                                     *)
(*                                                                         *)
(* Nobody deals with oneself: no list is of an own shop, and no search     *)
(* finds it.                                                               *)
(***************************************************************************)

Whereabouts == [Dealers -> [at : {"here", "auto", "gone"}, afar : BOOLEAN]]
Bags == [Variants -> Nat]
Stocks == [Dealers -> [inv : Bags, cart : Bags]]
Kinds == {"none", "vend", "buy"}
Stores == [Dealers -> [kind : Kinds, uid : 0 .. MaxShops, amount : Bags, price : Nat, limit : Nat]]
NoOwn(owner, p) == owner \in (Dealers \ {p}) \cup {NoDealer}
Windows == [open : BOOLEAN, uses : 0 .. MaxUses, kind : Kinds, found : SUBSET [owner : Dealers, uid : Nat],
            remote : Dealers \cup {NoDealer}]
Fits(bag) == Cardinality(Held(bag)) <= MaxPlaces

ShopKept ==
    /\ dealer \in Whereabouts
    /\ slots \in [Dealers -> BOOLEAN] /\ nextid \in 0 .. MaxShops
    /\ shop \in Stores /\ stock \in Stocks /\ wallet \in [Dealers -> Nat]
    /\ \A p \in Dealers : seen[p].kind \in Kinds /\ NoOwn(seen[p].owner, p)
    /\ search \in [Dealers -> Windows]
    /\ \A p \in Dealers : \A r \in search[p].found : r.owner # p /\ r.uid < nextid
    /\ \A p \in Dealers : Fits(stock[p].inv)

LEMMA HeldFinite ==
    ASSUME NEW b
    PROVE  /\ Held(b) \subseteq Variants /\ IsFiniteSet(Held(b)) /\ Cardinality(Held(b)) \in Nat
<1>1. Held(b) \subseteq Variants
    BY DEF Held
<1>2. IsFiniteSet(Variants)
    BY ShopAssumption
<1>3. IsFiniteSet(Held(b))
    BY <1>1, <1>2, FS_Subset
<1> QED BY <1>1, <1>3, FS_CardinalityType

LEMMA FewerHeld ==
    ASSUME NEW b, NEW c, Held(c) \subseteq Held(b), Fits(b)
    PROVE  Fits(c)
<1>1. IsFiniteSet(Held(b)) /\ Cardinality(Held(b)) \in Nat /\ Cardinality(Held(c)) \in Nat
    BY HeldFinite
<1>2. Cardinality(Held(c)) <= Cardinality(Held(b))
    BY <1>1, FS_Subset
<1> QED BY <1>1, <1>2, ShopAssumption DEF Fits

(* What is placed is part of what was bought, and fits. *)
LEMMA PlacedFits ==
    ASSUME stock \in Stocks, NEW p \in Dealers, Fits(stock[p].inv),
           NEW lines \in SUBSET Variants, NEW into \in Placed(p, lines), NEW n \in Bags
    PROVE  /\ into \subseteq lines
           /\ Plus(stock[p].inv, into, n) \in Bags
           /\ Fits(Plus(stock[p].inv, into, n))
<1> DEFINE inv == stock[p].inv
           stacked == lines \cap Held(inv)
           new == Plus(inv, into, n)
<1>1. inv \in Bags
    BY DEF Stocks
<1>2. PICK S \in SUBSET (lines \ stacked) : Cardinality(S) <= BlankSlots(p) /\ into = stacked \cup S
    BY DEF Placed
<1>3. into \subseteq lines
    BY <1>2
<1>4. new \in Bags
    BY <1>1 DEF Plus, Bags
<1>5. Held(new) \subseteq Held(inv) \cup S
    BY <1>1, <1>2 DEF Held, Plus, Bags
<1>6. IsFiniteSet(Held(inv)) /\ Cardinality(Held(inv)) \in Nat /\ Cardinality(Held(new)) \in Nat
    BY HeldFinite
<1>7. IsFiniteSet(S)
    BY <1>2, ShopAssumption, FS_Subset
<1>8. /\ IsFiniteSet(Held(inv) \cup S)
      /\ Cardinality(Held(inv) \cup S) = Cardinality(Held(inv)) + Cardinality(S) - Cardinality(Held(inv) \cap S)
    BY <1>6, <1>7, FS_Union
<1>9. Cardinality(Held(inv) \cap S) \in Nat /\ Cardinality(S) \in Nat
    BY <1>6, <1>7, FS_Intersection, FS_CardinalityType
<1>10. Cardinality(Held(new)) <= Cardinality(Held(inv) \cup S)
    BY <1>5, <1>8, FS_Subset
<1>11. Cardinality(S) <= MaxPlaces - Cardinality(Held(inv))
    BY <1>2 DEF BlankSlots
<1> HIDE DEF inv, new
<1>12. Fits(new)
    BY <1>6, <1>8, <1>9, <1>10, <1>11, ShopAssumption DEF Fits
<1> QED BY <1>3, <1>4, <1>12 DEF new, inv

(* Who has nothing like it, and has the places checked, gets all of it. *)
LEMMA CheckedArrives ==
    ASSUME stock \in Stocks, NEW p \in Dealers, ~Owns(p),
           NEW lines \in SUBSET Variants, HasPlace(p, lines), NEW into \in Placed(p, lines)
    PROVE  into = lines
<1> DEFINE stacked == lines \cap Held(stock[p].inv)
           room == {S \in SUBSET (lines \ stacked) : Cardinality(S) <= BlankSlots(p)}
<1>1. stacked = {}
    BY DEF Owns, Held, Stocks
<1>2. PICK S \in room : into = stacked \cup S /\ \A T \in room : Cardinality(T) <= Cardinality(S)
    BY DEF Placed
<1>3. lines \in room
    BY <1>1 DEF HasPlace
<1>4. Cardinality(lines) <= Cardinality(S) /\ S \in SUBSET lines
    BY <1>2, <1>3
<1>5. IsFiniteSet(lines)
    BY ShopAssumption, FS_Subset
<1>6. IsFiniteSet(S) /\ Cardinality(S) <= Cardinality(lines) /\ (Cardinality(lines) = Cardinality(S) => lines = S)
    BY <1>4, <1>5, FS_Subset
<1>7. Cardinality(lines) \in Nat /\ Cardinality(S) \in Nat
    BY <1>5, <1>6, FS_CardinalityType
<1> HIDE DEF stacked, room
<1>8. S = lines
    BY <1>4, <1>6, <1>7
<1> QED BY <1>1, <1>2, <1>8

----------------------------------------------------------------------------
(* The sums. *)

LEMMA MoneyIsSum == \A purses : Money(purses) = Sum(purses, Dealers)
BY DEF Money, Sum

LEMMA PayKeeps ==
    ASSUME wallet \in [Dealers -> Nat], NEW p \in Dealers, NEW o \in Dealers, p # o,
           NEW z \in Nat, z <= wallet[p]
    PROVE  Pay(p, o, z) \in [Dealers -> Nat] /\ Money(Pay(p, o, z)) = Money(wallet)
<1> DEFINE w == Pay(p, o, z)
<1>1. /\ w \in [Dealers -> Nat] /\ w[p] = wallet[p] - z /\ w[o] = wallet[o] + z
      /\ \A q \in Dealers \ {p, o} : w[q] = wallet[q]
    BY DEF Pay
<1> HIDE DEF w
<1>2. w \in [Dealers -> Int] /\ wallet \in [Dealers -> Int]
    BY <1>1
<1>3. w[p] + w[o] = wallet[p] + wallet[o]
    BY <1>1
<1>4. Exchanged(wallet, w, Dealers, p, o)
    BY <1>1, <1>3 DEF Exchanged
<1>5. Sum(w, Dealers) = Sum(wallet, Dealers)
    BY <1>2, <1>4, ShopAssumption, SumExchange
<1> QED BY <1>1, <1>5, MoneyIsSum DEF w

HaveOf(piles, v) == [q \in Dealers |-> piles[q].inv[v] + piles[q].cart[v]]

LEMMA AmountIsSum ==
    ASSUME NEW piles \in Stocks, NEW v \in Variants
    PROVE  HaveOf(piles, v) \in [Dealers -> Int] /\ Amount(piles, v) = Sum(HaveOf(piles, v), Dealers)
<1> DEFINE f == HaveOf(piles, v)
           Works(g) == g = [s \in SUBSET Dealers |-> IF s = {} THEN 0
                                ELSE piles[Picked(s)].inv[v] + piles[Picked(s)].cart[v] + g[s \ {Picked(s)}]]
<1>1. Amount(piles, v) = (CHOOSE g : Works(g))[Dealers]
    BY DEF Amount, MapThenSumSet, MapThenFoldSet, Picked
<1>2. ASSUME NEW s \in SUBSET Dealers, s # {}
      PROVE  piles[Picked(s)].inv[v] + piles[Picked(s)].cart[v] = f[Picked(s)]
  <2>1. Picked(s) \in Dealers
      BY <1>2 DEF Picked
  <2> QED BY <2>1 DEF HaveOf
<1>3. \A g : Works(g) <=> Adds(g, f, Dealers)
    BY <1>2 DEF Adds
<1>4. f \in [Dealers -> Int]
    BY DEF HaveOf, Stocks, Bags
<1> HIDE DEF f
<1>5. \E g : Works(g)
    BY <1>3, ShopAssumption, AddsExists
<1>6. Adds((CHOOSE g : Works(g)), f, Dealers)
  <2> HIDE DEF Works
  <2> QED BY <1>3, <1>5
<1>7. Amount(piles, v) = Sum(f, Dealers)
    BY <1>1, <1>6, ShopAssumption, AddsIsSum
<1> QED BY <1>4, <1>7 DEF f

(* What one has less another has more. *)
LEMMA AmountKept ==
    ASSUME stock \in Stocks, NEW piles \in Stocks, NEW v \in Variants,
           NEW p \in Dealers, NEW o \in Dealers, p # o,
           \A q \in Dealers \ {p, o} : piles[q] = stock[q],
           (piles[p].inv[v] + piles[p].cart[v]) + (piles[o].inv[v] + piles[o].cart[v])
              = (stock[p].inv[v] + stock[p].cart[v]) + (stock[o].inv[v] + stock[o].cart[v])
    PROVE  Amount(piles, v) = Amount(stock, v)
<1> DEFINE f == HaveOf(stock, v)
           h == HaveOf(piles, v)
<1>1. /\ f \in [Dealers -> Int] /\ h \in [Dealers -> Int]
      /\ Amount(stock, v) = Sum(f, Dealers) /\ Amount(piles, v) = Sum(h, Dealers)
    BY AmountIsSum
<1>2. (\A q \in Dealers \ {p, o} : h[q] = f[q]) /\ h[p] + h[o] = f[p] + f[o]
    BY DEF HaveOf
<1> HIDE DEF f, h
<1>3. Exchanged(f, h, Dealers, p, o)
    BY <1>2 DEF Exchanged
<1>4. Sum(h, Dealers) = Sum(f, Dealers)
    BY <1>1, <1>3, ShopAssumption, SumExchange
<1> QED BY <1>1, <1>4

LEMMA PriceOfLines ==
    ASSUME NEW price \in Nat, NEW lines \in SUBSET Variants, NEW n \in Bags
    PROVE  SumOf(price, lines, n) \in Nat
<1> DEFINE f == [v \in lines |-> price * n[v]]
           Works(g) == g = [s \in SUBSET lines |-> IF s = {} THEN 0
                                ELSE price * n[Picked(s)] + g[s \ {Picked(s)}]]
<1>1. SumOf(price, lines, n) = (CHOOSE g : Works(g))[lines]
    BY DEF SumOf, MapThenSumSet, MapThenFoldSet, Picked
<1>2. ASSUME NEW s \in SUBSET lines, s # {}
      PROVE  price * n[Picked(s)] = f[Picked(s)]
  <2>1. Picked(s) \in lines
      BY <1>2 DEF Picked
  <2> QED BY <2>1
<1>3. \A g : Works(g) <=> Adds(g, f, lines)
    BY <1>2 DEF Adds
<1>4. f \in [lines -> Int] /\ \A v \in lines : 0 <= f[v]
    BY DEF Bags
<1>5. IsFiniteSet(lines)
    BY ShopAssumption, FS_Subset
<1> HIDE DEF f
<1>6. \E g : Works(g)
    BY <1>3, <1>5, AddsExists
<1>7. Adds((CHOOSE g : Works(g)), f, lines)
  <2> HIDE DEF Works
  <2> QED BY <1>3, <1>6
<1>8. SumOf(price, lines, n) = Sum(f, lines)
    BY <1>1, <1>5, <1>7, AddsIsSum
<1> QED BY <1>4, <1>5, <1>8, SumNotNegative

----------------------------------------------------------------------------
(* The steps. *)

LEMMA StoreFields ==
    ASSUME NEW s \in [kind : Kinds, uid : 0 .. MaxShops, amount : Bags, price : Nat, limit : Nat]
    PROVE  s.kind \in Kinds /\ s.uid \in 0 .. MaxShops /\ s.amount \in Bags /\ s.price \in Nat /\ s.limit \in Nat
OBVIOUS

LEMMA StoreMade ==
    ASSUME shop \in Stores, NEW p \in Dealers, NEW kind \in Kinds, NEW uid \in 0 .. MaxShops, NEW amount \in Bags,
           NEW price \in Nat, NEW limit \in Nat
    PROVE  [shop EXCEPT ![p] = [kind |-> kind, uid |-> uid, price |-> price, limit |-> limit, amount |-> amount]] \in Stores
<1>1. [kind |-> kind, uid |-> uid, price |-> price, limit |-> limit, amount |-> amount]
          \in [kind : Kinds, uid : 0 .. MaxShops, amount : Bags, price : Nat, limit : Nat]
    OBVIOUS
<1> QED BY <1>1 DEF Stores

LEMMA NoShopStore == NoShop \in [kind : Kinds, uid : 0 .. MaxShops, amount : Bags, price : Nat, limit : Nat]
BY ShopAssumption DEF NoShop, Kinds, Bags, None

LEMMA ClosedStore == ASSUME shop \in Stores, NEW p \in Dealers PROVE ShopClosed(p) \in Stores
BY NoShopStore DEF ShopClosed, Stores

(* A window closes, and so do the list and the search of one who leaves. *)
LEMMA NoListKept == NoList.kind \in Kinds /\ \A p \in Dealers : NoOwn(NoList.owner, p)
BY DEF NoList, Kinds, NoOwn

LEMMA NoSearchKept == NoSearch \in Windows /\ NoSearch.found = {}
BY ShopAssumption DEF NoSearch, Windows, Kinds

ListsKept(lists) == \A p \in Dealers : lists[p].kind \in Kinds /\ NoOwn(lists[p].owner, p)
SearchKept(looks, next) ==
    /\ looks \in [Dealers -> Windows]
    /\ \A p \in Dealers : \A r \in looks[p].found : r.owner # p /\ r.uid < next

LEMMA ListKept ==
    ASSUME ShopInv, ListsKept(seen), NEW p \in Dealers, NEW list, list.kind \in Kinds, NoOwn(list.owner, p)
    PROVE  ListsKept([seen EXCEPT ![p] = list])
BY DEF ListsKept, ShopInv, Numbered

LEMMA WindowKept ==
    ASSUME SearchKept(search, nextid), NEW p \in Dealers, NEW w \in Windows,
           \A r \in w.found : r.owner # p /\ r.uid < nextid
    PROVE  SearchKept([search EXCEPT ![p] = w], nextid)
BY DEF SearchKept

LEMMA SearchesStay ==
    ASSUME SearchKept(search, nextid), nextid \in Nat
    PROVE  SearchKept(search, nextid + 1)
<1> SUFFICES ASSUME NEW p \in Dealers, NEW r \in search[p].found PROVE r.owner # p /\ r.uid < nextid + 1
    BY DEF SearchKept
<1>1. search[p] \in Windows /\ r.owner # p /\ r.uid < nextid
    BY DEF SearchKept
<1>2. r \in [owner : Dealers, uid : Nat]
    BY <1>1 DEF Windows
<1>3. r.uid \in Nat
    BY <1>2
<1> QED BY <1>1, <1>3

LEMMA KeptParts ==
    ShopKept <=> /\ dealer \in Whereabouts
                 /\ slots \in [Dealers -> BOOLEAN] /\ nextid \in 0 .. MaxShops
                 /\ shop \in Stores /\ stock \in Stocks /\ wallet \in [Dealers -> Nat]
                 /\ ListsKept(seen) /\ SearchKept(search, nextid)
                 /\ \A p \in Dealers : Fits(stock[p].inv)
BY DEF ShopKept, ListsKept, SearchKept

LEMMA DealerKept ==
    ASSUME dealer \in Whereabouts, NEW p \in Dealers, NEW at \in {"here", "auto", "gone"}
    PROVE  /\ [dealer EXCEPT ![p].at = at] \in Whereabouts
           /\ [dealer EXCEPT ![p].afar = ~@] \in Whereabouts
<1>1. /\ [dealer[p] EXCEPT !.at = at] \in [at : {"here", "auto", "gone"}, afar : BOOLEAN]
      /\ [dealer[p] EXCEPT !.afar = ~@] \in [at : {"here", "auto", "gone"}, afar : BOOLEAN]
    BY DEF Whereabouts
<1> QED BY <1>1 DEF Whereabouts

LEMMA KeepsKept ==
    ASSUME ShopInv, ShopKept, NEW p \in Dealers, Keeps(p)
    PROVE  ShopKept' /\ UNCHANGED <<stock, wallet>>
<1>1. /\ dealer \in Whereabouts
      /\ slots \in [Dealers -> BOOLEAN] /\ nextid \in 0 .. MaxShops /\ nextid \in Nat
      /\ shop \in Stores /\ stock \in Stocks /\ wallet \in [Dealers -> Nat]
      /\ ListsKept(seen) /\ SearchKept(search, nextid)
      /\ \A q \in Dealers : Fits(stock[q].inv)
    BY KeptParts, ShopAssumption
<1>2. UNCHANGED <<stock, wallet>>
    BY DEF Keeps, openvending, buyingstore_setup, buyingstore_create, CloseShop, autotrade, QuitShop, ComeBack, WalkOff
<1>3. dealer' \in Whereabouts
  <2>1. \/ dealer' = dealer \/ dealer' = [dealer EXCEPT ![p].afar = ~@]
        \/ dealer' = [dealer EXCEPT ![p].at = "here"] \/ dealer' = [dealer EXCEPT ![p].at = "auto"]
        \/ dealer' = [dealer EXCEPT ![p].at = "gone"]
      BY DEF Keeps, openvending, buyingstore_setup, buyingstore_create, CloseShop, autotrade, QuitShop, ComeBack, WalkOff
  <2> QED BY <1>1, <2>1, DealerKept
<1>4. slots' \in [Dealers -> BOOLEAN]
    BY <1>1 DEF Keeps, openvending, buyingstore_setup, buyingstore_create, CloseShop, autotrade, QuitShop, ComeBack, WalkOff,
                SlotsClosed
<1>5. nextid' \in 0 .. MaxShops /\ (nextid' = nextid \/ nextid' = nextid + 1)
    BY <1>1, ShopAssumption
       DEF Keeps, openvending, buyingstore_setup, buyingstore_create, CloseShop, autotrade, QuitShop, ComeBack, WalkOff
<1>6. shop' \in Stores
  <2>1. CASE openvending(p)
    <3>1. PICK lines \in (SUBSET {v \in Variants : stock[p].cart[v] > 0}) \ {{}}, price \in Prices :
             shop' = [shop EXCEPT ![p] = [kind |-> "vend", uid |-> nextid, price |-> price, limit |-> 0,
                                          amount |-> [v \in Variants |-> IF v \in lines THEN stock[p].cart[v] ELSE 0]]]
        BY <2>1 DEF openvending
    <3> DEFINE amount == [v \in Variants |-> IF v \in lines THEN stock[p].cart[v] ELSE 0]
    <3>2. stock[p].cart \in Bags
        BY <1>1 DEF Stocks
    <3>3. amount \in Bags
        BY <3>2 DEF Bags
    <3>4. price \in Nat /\ "vend" \in Kinds
        BY ShopAssumption DEF Kinds
    <3> HIDE DEF amount
    <3>5. [shop EXCEPT ![p] = [kind |-> "vend", uid |-> nextid, price |-> price, limit |-> 0, amount |-> amount]] \in Stores
        BY <1>1, <3>3, <3>4, StoreMade
    <3> QED BY <3>1, <3>5 DEF amount
  <2>2. CASE buyingstore_create(p)
    <3>1. CASE UNCHANGED shop
        BY <1>1, <3>1
    <3>2. ASSUME NEW limit \in 1 .. wallet[p], NEW price \in Prices, NEW n \in 1 .. 2,
                 shop' = [shop EXCEPT ![p] = [kind |-> "buy", uid |-> nextid, price |-> price, limit |-> limit,
                                              amount |-> [None EXCEPT ![Plain] = n]]]
          PROVE  shop' \in Stores
      <4>1. [None EXCEPT ![Plain] = n] \in Bags
          BY ShopAssumption DEF None, Bags
      <4>2. price \in Nat /\ limit \in Nat /\ "buy" \in Kinds
          BY <1>1, ShopAssumption DEF Kinds
      <4> QED BY <1>1, <3>2, <4>1, <4>2, StoreMade
    <3> QED BY <2>2, <3>1, <3>2 DEF buyingstore_create
  <2>3. shop' = shop \/ shop' = ShopClosed(p) \/ openvending(p) \/ buyingstore_create(p)
      BY DEF Keeps, buyingstore_setup, CloseShop, autotrade, QuitShop, ComeBack, WalkOff
  <2> QED BY <1>1, <2>1, <2>2, <2>3, ClosedStore
<1>7. ListsKept(seen')
  <2>1. seen' = seen \/ seen' = [seen EXCEPT ![p] = NoList]
      BY DEF Keeps, openvending, buyingstore_setup, buyingstore_create, CloseShop, autotrade, QuitShop, ComeBack, WalkOff
  <2>2. ListsKept([seen EXCEPT ![p] = NoList])
      BY <1>1, NoListKept, ListKept
  <2> QED BY <1>1, <2>1, <2>2
<1>8. SearchKept(search', nextid')
  <2>1. \/ search' = search
        \/ search' = [search EXCEPT ![p] = NoSearch] /\ nextid' = nextid
      BY DEF Keeps, openvending, buyingstore_setup, buyingstore_create, CloseShop, autotrade, QuitShop, ComeBack, WalkOff
  <2>2. SearchKept([search EXCEPT ![p] = NoSearch], nextid)
      BY <1>1, NoSearchKept, WindowKept
  <2> QED BY <1>1, <1>5, <2>1, <2>2, SearchesStay
<1>9. \A q \in Dealers : Fits(stock'[q].inv)
    BY <1>1, <1>2
<1> QED BY <1>1, <1>2, <1>3, <1>4, <1>5, <1>6, <1>7, <1>8, <1>9 DEF ShopKept, ListsKept, SearchKept

LEMMA ListOfKept ==
    ASSUME ShopInv, ShopKept, NEW p \in Dealers, NEW o \in Dealers, o # p
    PROVE  ListsKept([seen EXCEPT ![p] = ListOf(o)])
<1>1. ListOf(o).kind = shop[o].kind /\ ListOf(o).owner = o
    BY DEF ListOf
<1>2. shop[o].kind \in Kinds
    BY StoreFields DEF ShopKept, Stores
<1>3. NoOwn(o, p)
    BY DEF NoOwn
<1> QED BY <1>1, <1>2, <1>3, KeptParts, ListKept

LEMMA SearchesKept ==
    ASSUME ShopInv, ShopKept, NEW p \in Dealers, Searches(p)
    PROVE  ShopKept' /\ UNCHANGED <<stock, wallet>>
<1>1. UNCHANGED <<dealer, shop, slots, nextid, stock, wallet>>
    BY DEF Searches, searchstore_open, searchstore_query, searchstore_click, searchstore_close
<1>2. ListsKept(seen) /\ SearchKept(search, nextid) /\ search[p] \in Windows /\ DOMAIN search = Dealers
    BY KeptParts DEF SearchKept
<1>3. ListsKept(seen')
  <2>1. CASE seen' = seen
      BY <1>2, <2>1
  <2>2. ASSUME NEW r \in search[p].found, seen' = [seen EXCEPT ![p] = ListOf(r.owner)]
        PROVE  ListsKept(seen')
    <3>1. r \in [owner : Dealers, uid : Nat] /\ r.owner # p
        BY <1>2 DEF Windows, SearchKept
    <3>2. r.owner \in Dealers
        BY <3>1
    <3> QED BY <2>2, <3>1, <3>2, ListOfKept
  <2>3. seen' = seen \/ \E r \in search[p].found : seen' = [seen EXCEPT ![p] = ListOf(r.owner)]
      BY DEF Searches, searchstore_open, searchstore_query, searchstore_click, searchstore_close
  <2> QED BY <2>1, <2>2, <2>3
<1>4. SearchKept(search', nextid)
  <2>1. CASE searchstore_open(p)
    <3> DEFINE w == [search[p] EXCEPT !.open = TRUE, !.uses = MaxUses]
    <3>1. w \in Windows /\ w.found = search[p].found
      <4>1. MaxUses \in 0 .. MaxUses /\ TRUE \in BOOLEAN
          BY ShopAssumption
      <4> QED BY <1>2, <4>1 DEF Windows
    <3>2. search' = [search EXCEPT ![p] = w]
        BY <2>1 DEF searchstore_open
    <3> HIDE DEF w
    <3> QED BY <1>2, <3>1, <3>2, WindowKept DEF SearchKept
  <2>2. CASE searchstore_query(p)
    <3>1. PICK kind \in {"vend", "buy"} :
              search' = [search EXCEPT ![p].uses = @ - 1, ![p].kind = kind, ![p].found = Found(p, kind),
                                       ![p].remote = RemoteCleared(p)]
        BY <2>2 DEF searchstore_query
    <3> DEFINE w == [search[p] EXCEPT !.uses = @ - 1, !.kind = kind, !.found = Found(p, kind), !.remote = RemoteCleared(p)]
    <3>2. search' = [search EXCEPT ![p] = w]
        BY <3>1
    <3>3. search[p].uses - 1 \in 0 .. MaxUses
        BY <1>2, <2>2, ShopAssumption DEF searchstore_query, Windows
    <3>4. \A r \in Found(p, kind) : r \in [owner : Dealers, uid : Nat] /\ r.owner # p /\ r.uid < nextid
        BY DEF Found, ShopInv, Numbered, IsOpen
    <3>5. w \in Windows /\ w.found = Found(p, kind)
        BY <1>2, <3>3, <3>4 DEF Windows, Kinds, RemoteCleared
    <3> HIDE DEF w
    <3> QED BY <1>2, <3>2, <3>4, <3>5, WindowKept
  <2>3. CASE searchstore_click(p)
    <3>0. PICK r \in search[p].found : \E remote \in {r.owner, NoDealer} : search' = [search EXCEPT ![p].remote = remote]
        BY <2>3 DEF searchstore_click
    <3>1. PICK remote \in {r.owner, NoDealer} : search' = [search EXCEPT ![p].remote = remote]
        BY <3>0
    <3> DEFINE w == [search[p] EXCEPT !.remote = remote]
    <3>2. search' = [search EXCEPT ![p] = w]
        BY <3>1
    <3>3. r \in [owner : Dealers, uid : Nat]
        BY <1>2 DEF Windows
    <3>4. remote \in Dealers \cup {NoDealer}
        BY <3>3
    <3>5. w \in Windows /\ w.found = search[p].found
        BY <1>2, <3>4 DEF Windows
    <3> HIDE DEF w
    <3> QED BY <1>2, <3>2, <3>5, WindowKept DEF SearchKept
  <2>4. CASE searchstore_close(p)
      BY <1>2, <2>4, NoSearchKept, WindowKept DEF searchstore_close
  <2> QED BY <2>1, <2>2, <2>3, <2>4 DEF Searches
<1> QED BY <1>1, <1>3, <1>4 DEF ShopKept, ListsKept, SearchKept

(* A deal makes nothing. *)
GoodsKept ==
    /\ Money(wallet') = Money(wallet)
    /\ \A v \in Variants : Amount(stock', v) = Amount(stock, v) \/ (lastDeal'.lost /\ lastDeal'.unchecked)

LEMMA ClosingKept ==
    ASSUME ShopKept, NEW o \in Dealers, NEW over, NEW closing \in Stores, LeavesIf(o, over, closing)
    PROVE  dealer' \in Whereabouts /\ shop' \in Stores /\ slots' \in [Dealers -> BOOLEAN]
<1>1. dealer' \in Whereabouts
  <2>1. dealer \in Whereabouts /\ (dealer' = dealer \/ dealer' = [dealer EXCEPT ![o].at = "gone"])
      BY DEF LeavesIf, ShopKept
  <2> QED BY <2>1, DealerKept
<1>2. shop' \in Stores
  <2>1. shop' = closing \/ shop' = [closing EXCEPT ![o] = NoShop]
      BY DEF LeavesIf
  <2> QED BY <2>1, NoShopStore DEF Stores
<1>3. slots' \in [Dealers -> BOOLEAN]
    BY DEF LeavesIf, ShopKept
<1> QED BY <1>1, <1>2, <1>3

LEMMA RemoteKept ==
    ASSUME SearchKept(search, nextid), NEW p \in Dealers
    PROVE  SearchKept([search EXCEPT ![p].remote = NoDealer], nextid)
<1> DEFINE w == [search[p] EXCEPT !.remote = NoDealer]
<1>1. search[p] \in Windows /\ [search EXCEPT ![p].remote = NoDealer] = [search EXCEPT ![p] = w]
    BY DEF SearchKept
<1>2. w \in Windows /\ w.found = search[p].found
    BY <1>1 DEF Windows
<1> HIDE DEF w
<1> QED BY <1>1, <1>2, WindowKept DEF SearchKept

(* vending_purchasereq: the lines leave the cart of the owner and are placed with the buyer. *)
LEMMA PurchaseKept ==
    ASSUME ShopInv, ShopKept, NEW p \in Dealers, vending_purchasereq(p)
    PROVE  ShopKept' /\ GoodsKept
<1> DEFINE o == seen[p].owner
<1>1. o \in Dealers /\ o # p
    BY ShopAssumption DEF vending_purchasereq, ShopInv, Numbered, IsOpen, ShopKept, NoOwn
<1>2. PICK lines \in (SUBSET Held(shop[o].amount)) \ {{}}, n \in [Variants -> 1 .. 2] :
          /\ SumOf(shop[o].price, lines, n) <= wallet[p]
          /\ \A v \in lines : n[v] <= Least(shop[o].amount[v], stock[o].cart[v])
          /\ HasPlace(p, lines)
          /\ wallet' = Pay(p, o, SumOf(shop[o].price, lines, n))
          /\ \E into \in Placed(p, lines) :
                /\ stock' = [stock EXCEPT ![p].inv = Plus(@, into, n), ![o].cart = Minus(@, lines, n)]
                /\ lastDeal' = [paid |-> SumOf(shop[o].price, lines, n), due |-> SumOf(seen[p].price, lines, n),
                                lost |-> into # lines, unchecked |-> Owns(p)]
          /\ LeavesIf(o, Held(Minus(shop[o].amount, lines, n)) = {},
                      [shop EXCEPT ![o].amount = Minus(shop[o].amount, lines, n)])
    BY DEF vending_purchasereq
<1>3. PICK into \in Placed(p, lines) :
                /\ stock' = [stock EXCEPT ![p].inv = Plus(@, into, n), ![o].cart = Minus(@, lines, n)]
                /\ lastDeal' = [paid |-> SumOf(shop[o].price, lines, n), due |-> SumOf(seen[p].price, lines, n),
                                lost |-> into # lines, unchecked |-> Owns(p)]
    BY <1>2
<1>4. seen' = [seen EXCEPT ![p] = NoList] /\ search' = [search EXCEPT ![p].remote = NoDealer] /\ nextid' = nextid
    BY DEF vending_purchasereq
<1>5. stock \in Stocks /\ wallet \in [Dealers -> Nat] /\ shop \in Stores /\ Fits(stock[p].inv)
    BY DEF ShopKept
<1> HIDE DEF o
<1>6. lines \in SUBSET Variants /\ n \in Bags
    BY <1>2, HeldFinite DEF Bags
<1>7. shop[o].price \in Nat /\ shop[o].amount \in Bags
    BY <1>1, <1>5, StoreFields DEF Stores
<1>8. /\ stock[o].cart \in Bags /\ stock[p].inv \in Bags /\ stock[o].inv \in Bags /\ stock[p].cart \in Bags
    BY <1>1, <1>5 DEF Stocks
<1>9. \A v \in lines : n[v] <= shop[o].amount[v] /\ n[v] <= stock[o].cart[v]
    BY <1>2, <1>6, <1>7, <1>8 DEF Least, Bags
<1> DEFINE left == Minus(shop[o].amount, lines, n)
           cart == Minus(stock[o].cart, lines, n)
           inv == Plus(stock[p].inv, into, n)
<1>10. left \in Bags /\ cart \in Bags
    BY <1>6, <1>7, <1>8, <1>9 DEF Minus, Bags
<1>11. into \subseteq lines /\ inv \in Bags /\ Fits(inv)
    BY <1>3, <1>5, <1>6, PlacedFits
<1>12. \A v \in Variants : /\ inv[v] = stock[p].inv[v] + IF v \in into THEN n[v] ELSE 0
                           /\ cart[v] = stock[o].cart[v] - IF v \in lines THEN n[v] ELSE 0
    BY DEF Plus, Minus
<1> HIDE DEF left, cart, inv
<1>13. /\ stock' \in Stocks
       /\ stock'[p].inv = inv /\ stock'[p].cart = stock[p].cart
       /\ stock'[o].inv = stock[o].inv /\ stock'[o].cart = cart
       /\ \A q \in Dealers \ {p, o} : stock'[q] = stock[q]
  <2>1. stock' = [stock EXCEPT ![p] = [inv |-> inv, cart |-> stock[p].cart], ![o] = [inv |-> stock[o].inv, cart |-> cart]]
    <3>1. /\ [stock[p] EXCEPT !.inv = Plus(@, into, n)] = [inv |-> inv, cart |-> stock[p].cart]
          /\ [stock[o] EXCEPT !.cart = Minus(@, lines, n)] = [inv |-> stock[o].inv, cart |-> cart]
        BY <1>1, <1>5 DEF inv, cart, Stocks
    <3>2. stock' = [stock EXCEPT ![p] = [stock[p] EXCEPT !.inv = Plus(@, into, n)],
                                 ![o] = [stock[o] EXCEPT !.cart = Minus(@, lines, n)]]
        BY <1>1, <1>3, <1>5 DEF Stocks
    <3> QED BY <3>1, <3>2
  <2>2. [inv |-> inv, cart |-> stock[p].cart] \in [inv : Bags, cart : Bags]
        /\ [inv |-> stock[o].inv, cart |-> cart] \in [inv : Bags, cart : Bags]
      BY <1>8, <1>10, <1>11
  <2> QED BY <1>1, <1>5, <2>1, <2>2 DEF Stocks
<1>14. wallet' \in [Dealers -> Nat] /\ Money(wallet') = Money(wallet)
    BY <1>1, <1>2, <1>5, <1>6, <1>7, PriceOfLines, PayKeeps
<1>15. \A v \in Variants : Amount(stock', v) = Amount(stock, v) \/ (lastDeal'.lost /\ lastDeal'.unchecked)
  <2> SUFFICES ASSUME NEW v \in Variants, ~(lastDeal'.lost /\ lastDeal'.unchecked)
               PROVE  Amount(stock', v) = Amount(stock, v)
      OBVIOUS
  <2>1. into = lines
    <3>1. lastDeal'.lost = (into # lines) /\ lastDeal'.unchecked = Owns(p)
        BY <1>3
    <3> QED BY <1>2, <1>3, <1>5, <1>6, <3>1, CheckedArrives
  <2>2. inv[v] + cart[v] = stock[p].inv[v] + stock[o].cart[v]
      BY <1>6, <1>8, <1>12, <2>1 DEF Bags
  <2>3. stock[p].inv[v] \in Nat /\ stock[o].cart[v] \in Nat /\ stock[p].cart[v] \in Nat /\ stock[o].inv[v] \in Nat
        /\ inv[v] \in Nat /\ cart[v] \in Nat
      BY <1>8, <1>10, <1>11 DEF Bags
  <2>4. (stock'[p].inv[v] + stock'[p].cart[v]) + (stock'[o].inv[v] + stock'[o].cart[v])
            = (stock[p].inv[v] + stock[p].cart[v]) + (stock[o].inv[v] + stock[o].cart[v])
      BY <1>13, <2>2, <2>3
  <2> QED BY <1>1, <1>5, <1>13, <2>4, AmountKept
<1>16. \A q \in Dealers : Fits(stock'[q].inv)
    BY <1>11, <1>13 DEF ShopKept
<1>17. dealer' \in Whereabouts /\ shop' \in Stores /\ slots' \in [Dealers -> BOOLEAN]
  <2> DEFINE closing == [shop EXCEPT ![o].amount = left]
  <2>1. closing \in Stores
    <3>1. [shop[o] EXCEPT !.amount = left] \in [kind : Kinds, uid : 0 .. MaxShops, amount : Bags, price : Nat, limit : Nat]
        BY <1>1, <1>5, <1>10 DEF Stores
    <3> QED BY <1>5, <3>1 DEF Stores
  <2> HIDE DEF closing
  <2>2. LeavesIf(o, Held(left) = {}, closing)
      BY <1>2 DEF left, closing
  <2> QED BY <1>1, <2>1, <2>2, ClosingKept
<1>18. ListsKept(seen') /\ SearchKept(search', nextid') /\ nextid' \in 0 .. MaxShops
  <2>1. ListsKept(seen) /\ SearchKept(search, nextid) /\ nextid \in 0 .. MaxShops
      BY KeptParts
  <2> QED BY <1>4, <2>1, NoListKept, ListKept, RemoteKept
<1> QED BY <1>13, <1>14, <1>15, <1>16, <1>17, <1>18 DEF ShopKept, GoodsKept, ListsKept, SearchKept

(* buyingstore_trade: what the owner asks for leaves the seller and is placed with the owner. *)
LEMMA TradeKept ==
    ASSUME ShopInv, ShopKept, NEW p \in Dealers, buyingstore_trade(p)
    PROVE  ShopKept' /\ (UNCHANGED <<stock, wallet>> \/ GoodsKept)
<1> DEFINE o == seen[p].owner
<1>1. o \in Dealers /\ o # p
    BY ShopAssumption DEF buyingstore_trade, ShopInv, Numbered, IsOpen, ShopKept, NoOwn
<1>2. search' = [search EXCEPT ![p].remote = NoDealer] /\ UNCHANGED <<nextid, seen>>
    BY DEF buyingstore_trade
<1>3. \/ \E n \in 1 .. Least(stock[p].inv[Plain], shop[o].amount[Plain]) :
             LET z == shop[o].price * n
                 left == [shop[o] EXCEPT !.amount[Plain] = @ - n, !.limit = LimitNow(o) - z]
             IN /\ z <= LimitNow(o)
                /\ \E into \in Placed(o, {Plain}) :
                      /\ stock' = [stock EXCEPT ![o].inv = Plus(@, into, [None EXCEPT ![Plain] = n]),
                                                ![p].inv[Plain] = @ - n]
                      /\ lastDeal' = [paid |-> z, due |-> seen[p].price * n, lost |-> into = {}, unchecked |-> TRUE]
                /\ wallet' = Pay(o, p, z)
                /\ LeavesIf(o, left.amount[Plain] = 0 \/ left.limit = 0, [shop EXCEPT ![o] = left])
      \/ /\ shop' = [shop EXCEPT ![o].limit = LimitNow(o)]
         /\ UNCHANGED <<dealer, slots, stock, wallet, lastDeal>>
    BY DEF buyingstore_trade
<1>4. /\ stock \in Stocks /\ wallet \in [Dealers -> Nat] /\ shop \in Stores /\ dealer \in Whereabouts
      /\ slots \in [Dealers -> BOOLEAN] /\ (\A q \in Dealers : Fits(stock[q].inv))
    BY DEF ShopKept
<1> HIDE DEF o
<1>5. /\ shop[o].price \in Nat /\ shop[o].amount \in Bags /\ shop[o].limit \in Nat
      /\ shop[o] \in [kind : Kinds, uid : 0 .. MaxShops, amount : Bags, price : Nat, limit : Nat]
    BY <1>1, <1>4, StoreFields DEF Stores
<1>6. LimitNow(o) \in Nat /\ LimitNow(o) <= wallet[o]
    BY <1>1, <1>4, <1>5 DEF LimitNow, Least
<1>7. ListsKept(seen') /\ SearchKept(search', nextid') /\ nextid' \in 0 .. MaxShops
  <2>1. ListsKept(seen) /\ SearchKept(search, nextid) /\ nextid \in 0 .. MaxShops
      BY KeptParts
  <2> QED BY <1>2, <2>1, RemoteKept
<1>8. ASSUME NEW amount \in Bags, NEW limit \in Nat
      PROVE  [shop EXCEPT ![o] = [shop[o] EXCEPT !.amount = amount, !.limit = limit]] \in Stores
  <2>1. [shop[o] EXCEPT !.amount = amount, !.limit = limit]
            \in [kind : Kinds, uid : 0 .. MaxShops, amount : Bags, price : Nat, limit : Nat]
      BY <1>5
  <2> QED BY <1>4, <2>1 DEF Stores
<1>9. CASE shop' = [shop EXCEPT ![o].limit = LimitNow(o)] /\ UNCHANGED <<dealer, slots, stock, wallet, lastDeal>>
  <2> DEFINE s == [shop[o] EXCEPT !.limit = LimitNow(o)]
  <2>1. s \in [kind : Kinds, uid : 0 .. MaxShops, amount : Bags, price : Nat, limit : Nat]
      BY <1>5, <1>6
  <2>2. shop' = [shop EXCEPT ![o] = s]
      BY <1>9
  <2> HIDE DEF s
  <2>3. shop' \in Stores
      BY <1>4, <2>1, <2>2 DEF Stores
  <2> QED BY <1>4, <1>7, <1>9, <2>3 DEF ShopKept, ListsKept, SearchKept
<1>10. ASSUME NEW n \in 1 .. Least(stock[p].inv[Plain], shop[o].amount[Plain]), NEW z, z = shop[o].price * n,
              NEW s, s = [shop[o] EXCEPT !.amount[Plain] = @ - n, !.limit = LimitNow(o) - z],
              z <= LimitNow(o), NEW into \in Placed(o, {Plain}),
              stock' = [stock EXCEPT ![o].inv = Plus(@, into, [None EXCEPT ![Plain] = n]), ![p].inv[Plain] = @ - n],
              lastDeal'.lost = (into = {}), lastDeal'.unchecked,
              wallet' = Pay(o, p, z), NEW over, LeavesIf(o, over, [shop EXCEPT ![o] = s])
       PROVE  ShopKept' /\ GoodsKept
  <2>1. /\ stock[o].cart \in Bags /\ stock[p].inv \in Bags /\ stock[o].inv \in Bags /\ stock[p].cart \in Bags
        /\ Plain \in Variants
      BY <1>1, <1>4, ShopAssumption DEF Stocks
  <2>2. n \in Nat /\ n <= stock[p].inv[Plain] /\ n <= shop[o].amount[Plain] /\ z \in Nat
      BY <1>5, <1>10, <2>1 DEF Least, Bags
  <2> DEFINE some == [None EXCEPT ![Plain] = n]
             more == Plus(stock[o].inv, into, some)
             less == [stock[p].inv EXCEPT ![Plain] = @ - n]
             left == [shop[o].amount EXCEPT ![Plain] = @ - n]
  <2>3. some \in Bags /\ less \in Bags /\ left \in Bags
      BY <1>5, <2>1, <2>2 DEF None, Bags
  <2>4. into \subseteq {Plain} /\ more \in Bags /\ Fits(more)
    <3>1. {Plain} \in SUBSET Variants
        BY <2>1
    <3> HIDE DEF some
    <3> QED BY <1>1, <1>4, <1>10, <2>3, <3>1, PlacedFits
  <2>5. Fits(less)
    <3>1. Held(less) \subseteq Held(stock[p].inv)
        BY <2>1, <2>2 DEF Held, Bags
    <3> HIDE DEF less
    <3> QED BY <1>4, <3>1, FewerHeld
  <2>6. \A v \in Variants : /\ more[v] = stock[o].inv[v] + (IF v \in into THEN (IF v = Plain THEN n ELSE 0) ELSE 0)
                            /\ less[v] = stock[p].inv[v] - (IF v = Plain THEN n ELSE 0)
    <3>1. \A v \in Variants : some[v] = IF v = Plain THEN n ELSE 0
        BY DEF None
    <3>2. \A v \in Variants : more[v] = stock[o].inv[v] + IF v \in into THEN some[v] ELSE 0
        BY DEF Plus
    <3>3. \A v \in Variants : less[v] = stock[p].inv[v] - (IF v = Plain THEN n ELSE 0)
        BY <2>1 DEF Bags
    <3> HIDE DEF some, more, less
    <3> QED BY <3>1, <3>2, <3>3
  <2>7. stock' = [stock EXCEPT ![o] = [inv |-> more, cart |-> stock[o].cart], ![p] = [inv |-> less, cart |-> stock[p].cart]]
    <3>1. /\ [stock[o] EXCEPT !.inv = Plus(@, into, some)] = [inv |-> more, cart |-> stock[o].cart]
          /\ [stock[p] EXCEPT !.inv[Plain] = @ - n] = [inv |-> less, cart |-> stock[p].cart]
        BY <1>1, <1>4 DEF Stocks
    <3>2. stock' = [stock EXCEPT ![o] = [stock[o] EXCEPT !.inv = Plus(@, into, some)],
                                 ![p] = [stock[p] EXCEPT !.inv[Plain] = @ - n]]
        BY <1>1, <1>4, <1>10 DEF Stocks
    <3> QED BY <3>1, <3>2
  <2> HIDE DEF some, more, less, left
  <2>8. /\ stock' \in Stocks
        /\ stock'[o].inv = more /\ stock'[o].cart = stock[o].cart
        /\ stock'[p].inv = less /\ stock'[p].cart = stock[p].cart
        /\ \A q \in Dealers \ {p, o} : stock'[q] = stock[q]
    <3>1. [inv |-> more, cart |-> stock[o].cart] \in [inv : Bags, cart : Bags]
          /\ [inv |-> less, cart |-> stock[p].cart] \in [inv : Bags, cart : Bags]
        BY <2>1, <2>3, <2>4
    <3> QED BY <1>1, <1>4, <2>7, <3>1 DEF Stocks
  <2>9. wallet' \in [Dealers -> Nat] /\ Money(wallet') = Money(wallet)
    <3>1. z <= wallet[o]
        BY <1>1, <1>4, <1>6, <1>10, <2>2
    <3> QED BY <1>1, <1>4, <1>10, <2>2, <3>1, PayKeeps
  <2>10. \A v \in Variants : Amount(stock', v) = Amount(stock, v) \/ (lastDeal'.lost /\ lastDeal'.unchecked)
    <3> SUFFICES ASSUME NEW v \in Variants, into # {}
                 PROVE  Amount(stock', v) = Amount(stock, v)
        BY <1>10
    <3>1. into = {Plain}
        BY <2>4
    <3>2. stock[p].inv[v] \in Nat /\ stock[o].cart[v] \in Nat /\ stock[p].cart[v] \in Nat /\ stock[o].inv[v] \in Nat
        BY <2>1 DEF Bags
    <3>3. more[v] + less[v] = stock[o].inv[v] + stock[p].inv[v] /\ more[v] \in Nat /\ less[v] \in Nat
        BY <2>2, <2>3, <2>4, <2>6, <3>1, <3>2 DEF Bags
    <3>4. (stock'[p].inv[v] + stock'[p].cart[v]) + (stock'[o].inv[v] + stock'[o].cart[v])
              = (stock[p].inv[v] + stock[p].cart[v]) + (stock[o].inv[v] + stock[o].cart[v])
        BY <2>8, <3>2, <3>3
    <3> QED BY <1>1, <1>4, <2>8, <3>4, AmountKept
  <2>11. \A q \in Dealers : Fits(stock'[q].inv)
      BY <1>4, <2>4, <2>5, <2>8
  <2>12. dealer' \in Whereabouts /\ shop' \in Stores /\ slots' \in [Dealers -> BOOLEAN]
    <3>1. LimitNow(o) - z \in Nat
        BY <1>6, <1>10, <2>2
    <3>2. s = [shop[o] EXCEPT !.amount = left, !.limit = LimitNow(o) - z]
        BY <1>10 DEF left
    <3>3. [shop EXCEPT ![o] = s] \in Stores
        BY <1>8, <2>3, <3>1, <3>2
    <3> QED BY <1>1, <1>10, <3>3, ClosingKept
  <2> QED BY <1>7, <2>8, <2>9, <2>10, <2>11, <2>12 DEF ShopKept, GoodsKept, ListsKept, SearchKept
<1>11. ASSUME NEW n \in 1 .. Least(stock[p].inv[Plain], shop[o].amount[Plain]),
              LET z == shop[o].price * n
                  left == [shop[o] EXCEPT !.amount[Plain] = @ - n, !.limit = LimitNow(o) - z]
              IN /\ z <= LimitNow(o)
                 /\ \E into \in Placed(o, {Plain}) :
                       /\ stock' = [stock EXCEPT ![o].inv = Plus(@, into, [None EXCEPT ![Plain] = n]),
                                                 ![p].inv[Plain] = @ - n]
                       /\ lastDeal' = [paid |-> z, due |-> seen[p].price * n, lost |-> into = {}, unchecked |-> TRUE]
                 /\ wallet' = Pay(o, p, z)
                 /\ LeavesIf(o, left.amount[Plain] = 0 \/ left.limit = 0, [shop EXCEPT ![o] = left])
       PROVE  ShopKept' /\ GoodsKept
  <2> DEFINE z == shop[o].price * n
             s == [shop[o] EXCEPT !.amount[Plain] = @ - n, !.limit = LimitNow(o) - z]
             over == s.amount[Plain] = 0 \/ s.limit = 0
  <2>1. PICK into \in Placed(o, {Plain}) :
            /\ stock' = [stock EXCEPT ![o].inv = Plus(@, into, [None EXCEPT ![Plain] = n]), ![p].inv[Plain] = @ - n]
            /\ lastDeal' = [paid |-> z, due |-> seen[p].price * n, lost |-> into = {}, unchecked |-> TRUE]
      BY <1>11
  <2>2. lastDeal'.lost = (into = {}) /\ lastDeal'.unchecked
      BY <2>1
  <2>3. z <= LimitNow(o) /\ wallet' = Pay(o, p, z) /\ LeavesIf(o, over, [shop EXCEPT ![o] = s])
      BY <1>11
  <2>4. z = shop[o].price * n /\ s = [shop[o] EXCEPT !.amount[Plain] = @ - n, !.limit = LimitNow(o) - z]
      OBVIOUS
  <2> HIDE DEF z, s, over
  <2> QED BY <1>10, <2>1, <2>2, <2>3, <2>4
<1> QED BY <1>3, <1>9, <1>11

LEMMA ShopKeptStep == ShopInv /\ ShopKept /\ [ShopNext]_shopVars => ShopKept' /\ (UNCHANGED <<stock, wallet>> \/ GoodsKept)
<1> SUFFICES ASSUME ShopInv, ShopKept, [ShopNext]_shopVars
             PROVE  ShopKept' /\ (UNCHANGED <<stock, wallet>> \/ GoodsKept)
    OBVIOUS
<1>1. CASE UNCHANGED shopVars
    BY <1>1 DEF shopVars, ShopKept
<1>2. ASSUME NEW p \in Dealers, Deals(p)
      PROVE  ShopKept' /\ (UNCHANGED <<stock, wallet>> \/ GoodsKept)
  <2>1. ASSUME NEW o \in Dealers, LookAt(p, o)
        PROVE  ShopKept' /\ UNCHANGED <<stock, wallet>>
    <3>1. ListsKept(seen')
        BY <2>1, ListOfKept DEF LookAt, MayLook
    <3> QED BY <2>1, <3>1 DEF LookAt, ShopKept, ListsKept
  <2>2. ASSUME RefusedPurchase(p)
        PROVE  ShopKept' /\ UNCHANGED <<stock, wallet>>
    <3>1. ListsKept([seen EXCEPT ![p] = NoList])
        BY KeptParts, NoListKept, ListKept
    <3> QED BY <2>2, <3>1 DEF RefusedPurchase, ShopKept, ListsKept
  <2> QED BY <1>2, <2>1, <2>2, PurchaseKept, TradeKept DEF Deals
<1> QED BY <1>1, <1>2, KeepsKept, SearchesKept DEF ShopNext

LEMMA ShopInitKept == ShopInit => ShopKept
<1> SUFFICES ASSUME ShopInit PROVE ShopKept
    OBVIOUS
<1>1. /\ dealer \in [Dealers -> [at : {"here"}, afar : BOOLEAN]]
      /\ shop = [p \in Dealers |-> NoShop] /\ seen = [p \in Dealers |-> NoList] /\ search = [p \in Dealers |-> NoSearch]
      /\ slots = [p \in Dealers |-> FALSE] /\ nextid = 0
    BY DEF ShopInit
<1>2. dealer \in Whereabouts
    BY <1>1 DEF Whereabouts
<1>3. shop \in Stores
    BY <1>1, NoShopStore DEF Stores
<1>4. ListsKept(seen)
    BY <1>1, NoListKept DEF ListsKept
<1>5. SearchKept(search, nextid)
    BY <1>1, NoSearchKept DEF SearchKept
<1>6. stock \in Stocks /\ wallet \in [Dealers -> Nat] /\ \A p \in Dealers : Fits(stock[p].inv)
    BY BundleAssumption DEF ShopInit, Stocks, Bags, Fits, Held
<1>7. slots \in [Dealers -> BOOLEAN] /\ nextid \in 0 .. MaxShops
    BY <1>1, ShopAssumption
<1> QED BY <1>2, <1>3, <1>4, <1>5, <1>6, <1>7 DEF ShopKept, ListsKept, SearchKept

LEMMA KeptInvariant == ShopSpec => []ShopKept
BY ShopInitInv, ShopStep, ShopInitKept, ShopKeptStep, PTL DEF ShopSpec

(* For any dealers, goods and prices: no deal puts more kinds of goods into an inventory than it has places
   (pc_additem), and nobody has a list of, or finds, an own shop (searchstore.c 202). *)
THEOREM ShopTypes == ShopSpec => []ShopTypeOK
<1>1. ShopInv /\ ShopKept => ShopTypeOK
  <2> SUFFICES ASSUME ShopInv, ShopKept PROVE ShopTypeOK
      OBVIOUS
  <2>1. ASSUME NEW p \in Dealers PROVE shop[p].kind \in {"none", "vend", "buy"} /\ shop[p].uid \in 0 .. MaxShops
      BY StoreFields DEF ShopKept, Stores, Kinds
  <2>2. ASSUME NEW p \in Dealers PROVE search[p].uses \in 0 .. MaxUses /\ search[p].found \subseteq [owner : Dealers, uid : Nat]
    <3>1. search[p] \in Windows
        BY DEF ShopKept
    <3> QED BY <3>1 DEF Windows
  <2>3. ASSUME NEW p \in Dealers, NEW r \in search[p].found PROVE r.owner \in Dealers \ {p} /\ r.uid < nextid
    <3>1. r \in [owner : Dealers, uid : Nat]
        BY <2>2
    <3> QED BY <3>1 DEF ShopKept
  <2>4. ASSUME NEW p \in Dealers PROVE Cardinality({v \in Variants : stock[p].inv[v] > 0}) <= MaxPlaces
      BY DEF ShopKept, Fits, Held
  <2> QED BY <2>1, <2>2, <2>3, <2>4 DEF ShopTypeOK, ShopKept, Whereabouts, NoOwn, Kinds
<1> QED BY <1>1, ShopInvariant, KeptInvariant, PTL

(* A deal from a shop, or with a buying store, moves zeny and goods and makes none; nothing is lost but goods for which
   nobody looked whether the inventory has a place (vending.c 173-191, buyingstore.c 356-381). *)
THEOREM DealsConserve == ShopSpec => DealsKeepGoods
<1>1. (UNCHANGED <<stock, wallet>> \/ GoodsKept)
          => \/ UNCHANGED <<stock, wallet>>
             \/ /\ Money(wallet') = Money(wallet)
                /\ \A v \in Variants : Amount(stock', v) = Amount(stock, v) \/ (lastDeal'.lost /\ lastDeal'.unchecked)
    BY DEF GoodsKept
<1> QED BY <1>1, ShopInvariant, KeptInvariant, ShopKeptStep, PTL DEF ShopSpec, DealsKeepGoods
=============================================================================
