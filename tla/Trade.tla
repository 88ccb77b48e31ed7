------------------------------- MODULE Trade -------------------------------
(***************************************************************************)
(* The trade window of one map server (src/map/trade.c): two players name  *)
(* each other as partners, put items and zeny in, press OK and then TRADE. *)
(*                                                                         *)
(* The map server is one thread and every packet handler below runs to its *)
(* end before the next, so a handler is one action.  What interleaves is   *)
(* the handlers of several players, the warps and disconnections that tear *)
(* a trade down (unit_remove_map_, map_quit), the other windows a player   *)
(* may have open, and everything else on the server that gives a player    *)
(* items or zeny or takes them away while the window stands.               *)
(*                                                                         *)
(* Left out: the map, distance and GM rules of who may ask whom (a refused *)
(* request changes nothing; the distance test of an answer is a choice),   *)
(* items that may not be traded or are worn, cards and refinement (an item *)
(* is its kind), and the two saves after an exchange, which Handoff        *)
(* models.  Every unit of every item weighs 1.                             *)
(***************************************************************************)
EXTENDS Integers, FiniteSets, FiniteSetsExt

CONSTANTS Players,
          NoOne,         \* no player
          Items,         \* item kinds
          Equipment,     \* the kinds that do not stack
          NoItem,        \* nameid 0
          MaxSlots,      \* MAX_INVENTORY
          MaxDeals,      \* positions of a trade window (10)
          MaxAmount,     \* MAX_AMOUNT
          MaxZeny,       \* MAX_ZENY
          MaxWeight,     \* max_weight, of every player
          MaxOutside,    \* bound: changes to goods that come from outside the trade
          StartGoods,    \* the inventories the players start with
          StartZeny,
          AskedOnMapOnly \* are requests only made of players that have loaded the map?

ASSUME PlayersAssumption == IsFiniteSet(Players)
ASSUME NoOneAssumption == NoOne \notin Players
ASSUME ItemsAssumption == NoItem \notin Items /\ Equipment \subseteq Items
ASSUME LimitsAssumption ==
    /\ MaxSlots \in Nat \ {0} /\ MaxDeals \in Nat \ {0} /\ MaxAmount \in Nat \ {0}
    /\ MaxZeny \in Nat /\ MaxWeight \in Nat /\ MaxOutside \in Nat
ASSUME SwitchAssumption == AskedOnMapOnly \in BOOLEAN

VARIABLES sd,        \* the trade fields of each player's session
          place,     \* is the player on the map, loading one, or not connected?
          mode,      \* the other windows: a vending shop, or a script dialog or storage
          inventory, zeny,
          outside    \* how many outside changes there were

vars == <<sd, place, mode, inventory, zeny, outside>>
goods == <<inventory, zeny, outside>>

Slots     == 0 .. MaxSlots - 1
Positions == 1 .. MaxDeals
Stack     == {i \in [item : Items \cup {NoItem}, amount : 0 .. MaxAmount] : i.item = NoItem => i.amount = 0}
Offer     == [slot : Slots, amount : 0 .. MaxAmount]
Deal      == [goods : [Positions -> Offer], zeny : 0 .. MaxZeny]
Session   == [trade_partner : Players \cup {NoOne}, can_tradeack : BOOLEAN,
              trading : BOOLEAN, deal_locked : 0 .. 2, deal : Deal]

Empty   == [item |-> NoItem, amount |-> 0]
NoDeal  == [goods |-> [i \in Positions |-> [slot |-> 0, amount |-> 0]], zeny |-> 0]
Fresh   == [trade_partner |-> NoOne, can_tradeack |-> FALSE, trading |-> FALSE,
            deal_locked |-> 0, deal |-> NoDeal]

ASSUME StartAssumption ==
    StartGoods \in [Players -> [Slots -> Stack]] /\ StartZeny \in [Players -> 0 .. MaxZeny]

Init ==
    /\ sd = [p \in Players |-> Fresh]
    /\ place = [p \in Players |-> "map"]
    /\ mode = [p \in Players |-> "free"]
    /\ inventory = StartGoods /\ zeny = StartZeny
    /\ outside = 0

----------------------------------------------------------------------------
(* Inventories.                                                            *)

Count(inv, it) == MapThenSumSet(LAMBDA s : inv[s].amount, {s \in Slots : inv[s].item = it})
Weight(inv)    == MapThenSumSet(LAMBDA s : inv[s].amount, Slots)

StacksOf(inv, it) == IF it \in Equipment THEN {} ELSE {s \in Slots : inv[s].item = it}
FreeSlots(inv)    == {s \in Slots : inv[s].item = NoItem}

HasRoom(inv, it, amount) ==
    IF StacksOf(inv, it) # {} THEN inv[Min(StacksOf(inv, it))].amount + amount <= MaxAmount
                              ELSE FreeSlots(inv) # {}

Stacked(inv, it, amount) ==
    IF StacksOf(inv, it) # {} THEN [inv EXCEPT ![Min(StacksOf(inv, it))].amount = @ + amount]
    ELSE [inv EXCEPT ![Min(FreeSlots(inv))] = [item |-> it, amount |-> amount]]

pc_additem_ok(inv, it, amount) ==
    /\ it # NoItem /\ amount \in 1 .. MaxAmount
    /\ Weight(inv) + amount <= MaxWeight /\ HasRoom(inv, it, amount)

pc_delitem(inv, s, amount) ==
    IF inv[s].item = NoItem \/ amount <= 0 \/ inv[s].amount < amount THEN inv
    ELSE [inv EXCEPT ![s] = IF @.amount = amount THEN Empty
                            ELSE [item |-> @.item, amount |-> @.amount - amount]]

----------------------------------------------------------------------------
(* Who is a player's partner, and the end of a trade.  These compute the   *)
(* sessions that a handler leaves, so that handlers can call them.         *)

map_id2sd(S, p) ==
    LET id == S[p].trade_partner IN IF id # NoOne /\ place[id] # "off" THEN id ELSE NoOne

Among(S, ps, Change(_)) == [q \in Players |-> IF q \in ps THEN Change(S[q]) ELSE S[q]]

Asked(s, p)  == [s EXCEPT !.can_tradeack = TRUE, !.trade_partner = p]
Asking(s, q) == [s EXCEPT !.trade_partner = q]

Unasked(s)  == [s EXCEPT !.can_tradeack = FALSE, !.trade_partner = NoOne]
Unpaired(s) == [s EXCEPT !.trade_partner = NoOne]
Unlocked(s) == [s EXCEPT !.trade_partner = NoOne, !.deal_locked = 0]
Started(s)  == [s EXCEPT !.trading = TRUE, !.deal = NoDeal]
Finished(s) == [Unlocked(s) EXCEPT !.trading = FALSE, !.deal = NoDeal]

trade_tradecancel(S, p) ==
    LET both == {p, map_id2sd(S, p)}
    IN  IF S[p].trading THEN Among(S, both, Finished) ELSE Among(S, both, Unasked)

unit_remove_map_unheeding(S, p) == S          \* a mistake the runs must notice

(* The BL_PC part of unit_remove_map_; nothing happens to a unit that is on no map. *)
unit_remove_map(S, p) ==
    IF place[p] = "map" /\ S[p].trade_partner # NoOne THEN trade_tradecancel(S, p) ELSE S

----------------------------------------------------------------------------
(* The handlers of trade.c.  A player who is loading a map sends nothing   *)
(* that clif_parse lets through.                                           *)

Playing(p) == place[p] = "map"
Trading(p) == Playing(p) /\ sd[p].trading
OpenEvenLocked(p) == Trading(p)               \* a mistake the runs must notice
Open(p)    == Trading(p) /\ sd[p].deal_locked = 0

trade_traderequest_forgetful(p, q) ==         \* a mistake the runs must notice
    /\ Playing(p) /\ p # q /\ Playing(q) /\ sd[q].trade_partner = NoOne
    /\ sd' = [sd EXCEPT ![q] = Asked(@, p), ![p] = Asking(@, q)]
    /\ UNCHANGED <<place, mode, goods>>

trade_traderequest(p, q) ==
    /\ Playing(p) /\ p # q /\ place[q] # "off"
    /\ AskedOnMapOnly => Playing(q)
    /\ sd[q].trade_partner = NoOne
    /\ LET S == IF sd[p].trade_partner # NoOne THEN trade_tradecancel(sd, p) ELSE sd
       IN  sd' = IF "vending" \in {mode[p], mode[q]} THEN S
                 ELSE [S EXCEPT ![q] = Asked(@, p), ![p] = Asking(@, q)]
    /\ UNCHANGED <<place, mode, goods>>

BusyWithNpc(p) == mode[p] = "busy"            \* a mistake the runs must notice
Busy(p) == mode[p] # "free"

trade_tradeack(p, answer, near) ==
    /\ Playing(p) /\ sd[p].can_tradeack
    /\ LET t == map_id2sd(sd, p)
           S == [sd EXCEPT ![p].can_tradeack = FALSE]
       IN  sd' = IF sd[p].trading \/ sd[p].trade_partner = NoOne THEN S
                 ELSE IF t = NoOne \/ sd[t].trading \/ sd[t].trade_partner # p
                      THEN Among(S, {p}, Unpaired)
                 ELSE IF answer = "cancel" THEN Among(S, {p, t}, Unlocked)
                 ELSE IF answer # "accept" THEN S
                 ELSE IF ~near THEN Among(S, {p, t}, Unpaired)
                 ELSE IF Busy(p) \/ Busy(t) THEN Among(S, {p, t}, Unlocked)
                 ELSE Among(S, {p, t}, Started)
    /\ UNCHANGED <<place, mode, goods>>

(* The position of the window that slot s goes to, 0 when there is none. *)
PositionFor(d, s) ==
    LET fit == {i \in Positions : d.goods[i].slot = s \/ d.goods[i].amount = 0}
    IN  IF fit = {} THEN 0 ELSE Min(fit)

DealWeight(d) == MapThenSumSet(LAMBDA i : d.goods[i].amount, Positions)

trade_tradeadditem(p, s, amount) ==
    /\ Open(p) /\ amount <= inventory[p][s].amount
    /\ LET t == map_id2sd(sd, p)
           i == PositionFor(sd[p].deal, s)
           offered == IF sd[p].deal.goods[i].slot = s THEN sd[p].deal.goods[i].amount ELSE 0
       IN  IF t = NoOne THEN sd' = trade_tradecancel(sd, p)
           ELSE /\ i # 0
                /\ Weight(inventory[t]) + DealWeight(sd[p].deal) + amount <= MaxWeight
                /\ sd' = [sd EXCEPT ![p].deal.goods[i] =
                             [slot |-> s, amount |-> Min({offered + amount, inventory[p][s].amount})]]
    /\ UNCHANGED <<place, mode, goods>>

trade_tradeaddzeny(p, amount) ==
    /\ Open(p)
    /\ LET t == map_id2sd(sd, p)
       IN  sd' = IF t = NoOne \/ amount > zeny[p] \/ amount > MaxZeny - zeny[t]
                 THEN trade_tradecancel(sd, p) ELSE [sd EXCEPT ![p].deal.zeny = amount]
    /\ UNCHANGED <<place, mode, goods>>

trade_tradeok(p) ==
    /\ Open(p)
    /\ sd' = IF map_id2sd(sd, p) = NoOne THEN trade_tradecancel(sd, p)
             ELSE [sd EXCEPT ![p].deal_locked = 1]
    /\ UNCHANGED <<place, mode, goods>>

clif_parse_TradeCancel(p) ==
    Playing(p) /\ sd' = trade_tradecancel(sd, p) /\ UNCHANGED <<place, mode, goods>>

(* Does p offer more than p has?  No two positions hold the same slot. *)
impossible_trade_check(p) ==
    \/ sd[p].deal.zeny > zeny[p]
    \/ \E i \in Positions : LET o == sd[p].deal.goods[i] IN o.amount > inventory[p][o.slot].amount

(* trade_check tries the exchange on copies, position by position, first what p *)
(* gives and then what t gives; a slot it empties there stays taken.            *)
Tried(try, from, to, o) ==
    LET it == try.inv[from][o.slot].item
    IN  IF o.amount = 0 \/ ~try.ok THEN try
        ELSE IF o.amount > try.inv[from][o.slot].amount \/ ~HasRoom(try.inv[to], it, o.amount)
             THEN [try EXCEPT !.ok = FALSE]
        ELSE [try EXCEPT !.inv[to] = Stacked(@, it, o.amount),
                         !.inv[from][o.slot].amount = @ - o.amount]

GoodsFit(p, t) ==
    LET tried[i \in 0 .. MaxDeals] ==
            IF i = 0 THEN [ok |-> TRUE, inv |-> inventory]
            ELSE LET given == Tried(tried[i - 1], p, t, sd[p].deal.goods[i])
                 IN  Tried(given, t, p, sd[t].deal.goods[i])
    IN  tried[MaxDeals].ok

ZenyFits(p, t) == sd[p].deal.zeny <= zeny[p] /\ zeny[t] <= MaxZeny - sd[p].deal.zeny

trade_check_uncapped(p, t) == GoodsFit(p, t)  \* a mistake the runs must notice
trade_check(p, t) == ZenyFits(p, t) /\ ZenyFits(t, p) /\ GoodsFit(p, t)

GivenOrLost(inv, from, to, o) ==              \* a mistake the runs must notice
    LET it == inv[from][o.slot].item
    IN  IF o.amount = 0 THEN inv
        ELSE [inv EXCEPT ![to] = IF pc_additem_ok(@, it, o.amount) THEN Stacked(@, it, o.amount) ELSE @,
                         ![from] = pc_delitem(@, o.slot, o.amount)]

GivenWhole(inv, from, to, o) ==               \* a mistake the runs must notice
    LET it == inv[from][o.slot].item
    IN  IF o.amount = 0 \/ ~pc_additem_ok(inv[to], it, o.amount) THEN inv
        ELSE [inv EXCEPT ![to] = Stacked(@, it, o.amount), ![from] = [@ EXCEPT ![o.slot] = Empty]]

(* One position of one side: pc_additem to the taker, and pc_delitem from the giver *)
(* only when the taker got it.                                                      *)
Given(inv, from, to, o) ==
    LET it == inv[from][o.slot].item
    IN  IF o.amount = 0 \/ ~pc_additem_ok(inv[to], it, o.amount) THEN inv
        ELSE [inv EXCEPT ![to] = Stacked(@, it, o.amount), ![from] = pc_delitem(@, o.slot, o.amount)]

Turn(p, t, i, inv) ==
    Given(Given(inv, p, t, sd[p].deal.goods[i]), t, p, sd[t].deal.goods[i])

GoodsExchanged(p, t) ==
    LET after[i \in 0 .. MaxDeals] == IF i = 0 THEN inventory ELSE Turn(p, t, i, after[i - 1])
    IN  after[MaxDeals]

MayConcludeEarly(t) == sd[t].deal_locked >= 0 \* a mistake the runs must notice
MayConclude(t) == sd[t].deal_locked = 2

trade_tradecommit(p) ==
    /\ Trading(p) /\ sd[p].deal_locked # 0
    /\ LET t == map_id2sd(sd, p)
           S == [sd EXCEPT ![p].deal_locked = 2]
       IN  IF t = NoOne THEN sd' = trade_tradecancel(sd, p) /\ UNCHANGED <<inventory, zeny>>
           ELSE \/ ~MayConclude(t) /\ sd' = S /\ UNCHANGED <<inventory, zeny>>
                \/ /\ MayConclude(t)
                   /\ impossible_trade_check(p) \/ impossible_trade_check(t) \/ ~trade_check(p, t)
                   /\ sd' = trade_tradecancel(S, IF impossible_trade_check(p) THEN p
                                                 ELSE IF impossible_trade_check(t) THEN t ELSE p)
                   /\ UNCHANGED <<inventory, zeny>>
                \/ /\ MayConclude(t)
                   /\ ~impossible_trade_check(p) /\ ~impossible_trade_check(t) /\ trade_check(p, t)
                   /\ inventory' = GoodsExchanged(p, t)
                   /\ zeny' = [zeny EXCEPT ![p] = @ + sd[t].deal.zeny - sd[p].deal.zeny,
                                           ![t] = @ + sd[p].deal.zeny - sd[t].deal.zeny]
                   /\ sd' = Among(S, {p, t}, Finished)
    /\ UNCHANGED <<place, mode, outside>>

----------------------------------------------------------------------------
(* What happens to a player besides the trade window.                      *)

(* pc_setpos to a map of this server, and the client's answer once it has loaded it. *)
pc_setpos(p) ==
    /\ place[p] # "off"
    /\ sd' = unit_remove_map(sd, p)
    /\ place' = [place EXCEPT ![p] = "loading"]
    /\ mode' = [mode EXCEPT ![p] = IF @ = "vending" /\ Playing(p) THEN "free" ELSE @]
    /\ UNCHANGED goods

clif_parse_LoadEndAck(p) ==
    place[p] = "loading" /\ place' = [place EXCEPT ![p] = "map"] /\ UNCHANGED <<sd, mode, goods>>

(* The session is freed; the next one of the account starts from zeroes. *)
map_quit(p) ==
    /\ place[p] # "off"
    /\ sd' = [unit_remove_map(sd, p) EXCEPT ![p] = Fresh]
    /\ place' = [place EXCEPT ![p] = "off"]
    /\ mode' = [mode EXCEPT ![p] = "free"]
    /\ UNCHANGED goods

pc_authok(p) ==
    place[p] = "off" /\ place' = [place EXCEPT ![p] = "loading"] /\ UNCHANGED <<sd, mode, goods>>

vending_openvending(p) ==
    /\ Playing(p) /\ mode[p] = "free" /\ ~sd[p].trading
    /\ mode' = [mode EXCEPT ![p] = "vending"]
    /\ UNCHANGED <<sd, place, goods>>

(* A script that runs for the player, or a storage, opens at any time. *)
OtherWindow(p) ==
    /\ Playing(p) /\ mode[p] = "free"
    /\ mode' = [mode EXCEPT ![p] = "busy"] /\ UNCHANGED <<sd, place, goods>>

CloseWindow(p) ==
    mode[p] # "free" /\ mode' = [mode EXCEPT ![p] = "free"] /\ UNCHANGED <<sd, place, goods>>

(* The rest of the server: a shared pickup, a script, the cost of a spell being cast... *)
Outside(p) ==
    /\ place[p] # "off" /\ outside < MaxOutside /\ outside' = outside + 1
    /\ \/ \E it \in Items : /\ pc_additem_ok(inventory[p], it, 1)
                            /\ inventory' = [inventory EXCEPT ![p] = Stacked(@, it, 1)]
                            /\ UNCHANGED zeny
       \/ \E s \in Slots : /\ inventory[p][s] # Empty
                           /\ inventory' = [inventory EXCEPT ![p] = pc_delitem(@, s, 1)]
                           /\ UNCHANGED zeny
       \/ zeny[p] < MaxZeny /\ zeny' = [zeny EXCEPT ![p] = @ + 1] /\ UNCHANGED inventory
       \/ zeny[p] > 0 /\ zeny' = [zeny EXCEPT ![p] = @ - 1] /\ UNCHANGED inventory
    /\ UNCHANGED <<sd, place, mode>>

----------------------------------------------------------------------------
TradeStep(p) ==
    \/ \E q \in Players : trade_traderequest(p, q)
    \/ \E answer \in {"accept", "cancel", "garbled"}, near \in BOOLEAN : trade_tradeack(p, answer, near)
    \/ \E s \in Slots, amount \in 1 .. MaxAmount : trade_tradeadditem(p, s, amount)
    \/ \E amount \in 0 .. MaxZeny : trade_tradeaddzeny(p, amount)
    \/ trade_tradeok(p)
    \/ clif_parse_TradeCancel(p)
    \/ trade_tradecommit(p)

OtherStep(p) ==
    \/ pc_setpos(p) \/ clif_parse_LoadEndAck(p) \/ map_quit(p) \/ pc_authok(p)
    \/ vending_openvending(p) \/ OtherWindow(p) \/ CloseWindow(p) \/ Outside(p)

Next == \E p \in Players : TradeStep(p) \/ OtherStep(p)
Spec == Init /\ [][Next]_vars

----------------------------------------------------------------------------
(* PROPERTIES                                                              *)

(* Sessions, inventories and purses have their shape: no stack passes MAX_AMOUNT and no *)
(* purse MAX_ZENY or zero, though both may change between an offer and its commit.      *)
SessionsOK == sd \in [Players -> Session]
PlacesOK   == place \in [Players -> {"map", "loading", "off"}] /\ mode \in [Players -> {"free", "vending", "busy"}]
GoodsOK    == inventory \in [Players -> [Slots -> Stack]] /\ outside \in 0 .. MaxOutside
ZenyOK     == zeny \in [Players -> 0 .. MaxZeny]
TypeOK     == SessionsOK /\ PlacesOK /\ GoodsOK /\ ZenyOK

(* A player's partner is a connected player whose partner is the player, and either both *)
(* are trading or neither is; who locked an offer is trading.  trade_tradeack, the cancel *)
(* and the commit each touch both sessions, and the removal from the map ends a trade.    *)
Paired(p) ==
    LET q == sd[p].trade_partner
    IN  q # NoOne => place[q] # "off" /\ sd[q].trade_partner = p /\ sd[q].trading = sd[p].trading
TradesArePairs ==
    \A p \in Players : /\ Paired(p)
                       /\ sd[p].deal_locked # 0 => sd[p].trading
                       /\ sd[p].trading => sd[p].trade_partner # NoOne

(* Only the one who was asked can answer: of a pair at most one may send a tradeack, and *)
(* nobody once the window is open (clif_parse_TradeAck relies on can_tradeack alone).    *)
OnlyTheAskedAnswers ==
    \A p \in Players : sd[p].can_tradeack =>
        /\ sd[p].trade_partner # NoOne /\ ~sd[p].trading
        /\ ~sd[sd[p].trade_partner].can_tradeack

(* A vending shop and a trade window are never open for the same player: each checks for *)
(* the other only when it opens.                                                         *)
NeverVendingAndTrading == \A p \in Players : ~(sd[p].trading /\ mode[p] = "vending")

(* Once a player pressed OK the offer shown to the partner does not change until the     *)
(* trade ends.                                                                           *)
LockedOfferStands ==
    [][\A p \in Players : sd[p].deal_locked # 0 /\ sd'[p].deal_locked # 0
           => sd'[p].deal = sd[p].deal]_vars

(* The goods of a player change by a trade only when the player and the partner have both *)
(* locked their offers and one of them has pressed TRADE before this step, and the zeny    *)
(* by the balance of the two offers.                                                       *)
Agreed(p, q) ==
    /\ q # NoOne /\ sd[q].trade_partner = p
    /\ sd[p].deal_locked > 0 /\ sd[q].deal_locked > 0 /\ 2 \in {sd[p].deal_locked, sd[q].deal_locked}
ConsentedExchange ==
    [][\A p \in Players : LET q == sd[p].trade_partner IN
           (inventory'[p] # inventory[p] \/ zeny'[p] # zeny[p]) /\ outside' = outside =>
               Agreed(p, q) /\ zeny'[p] = zeny[p] - sd[p].deal.zeny + sd[q].deal.zeny]_vars

(* No more of an item leaves a player by a trade than the player offers of it, whatever   *)
(* came to or went from the slots since they were offered.                                *)
Offered(p, it) ==
    MapThenSumSet(LAMBDA i : sd[p].deal.goods[i].amount,
                  {i \in Positions : inventory[p][sd[p].deal.goods[i].slot].item = it})
NothingUnofferedLeaves ==
    [][outside' = outside => \A p \in Players, it \in Items :
           Count(inventory'[p], it) >= Count(inventory[p], it) - Offered(p, it)]_vars

(* Trading makes nothing and loses nothing: over all players each item and the zeny are as *)
(* many after a step of the trade window as before, also when pc_additem refuses an item.  *)
Total(inv, it) == MapThenSumSet(LAMBDA p : Count(inv[p], it), Players)
AllZeny(purse) == MapThenSumSet(LAMBDA p : purse[p], Players)
TradingConserves ==
    [][outside' = outside => /\ AllZeny(zeny') = AllZeny(zeny)
                             /\ \A it \in Items : Total(inventory', it) = Total(inventory, it)]_vars

(* "Leave/reject all invitations" (unit_remove_map_): nobody is the partner of a player    *)
(* who is not connected.  It does not hold of a player asked while loading a map, from     *)
(* whom unit_remove_map_ returns early.                                                    *)
NobodyAwaitsTheGone ==
    \A p \in Players : sd[p].trade_partner # NoOne => place[sd[p].trade_partner] # "off"
=============================================================================
