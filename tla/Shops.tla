-------------------------------- MODULE Shops --------------------------------
(***************************************************************************)
(* The shops of players on one map server: vending.c sells from the cart,  *)
(* buyingstore.c buys into the inventory, searchstore.c finds a shop and   *)
(* may open it from afar.  A client acts on the list it was shown, which   *)
(* may be of a shop that has been changed since.                           *)
(*                                                                         *)
(* The goods are one item (one nameid) in variants that differ in their    *)
(* cards; each variant takes one place of an inventory or a cart.          *)
(*                                                                         *)
(* Left out: weight, MAX_AMOUNT, MAX_ZENY, the tax of shops, the limits on *)
(* their number of lines, game masters, maps and cells without shops.      *)
(***************************************************************************)
EXTENDS Naturals, FiniteSets, FiniteSetsExt

CONSTANTS Dealers,    \* players
          Variants,   \* the item with different cards
          Plain,      \* the variant without
          Bundles,    \* the ways inventory and cart may be filled at the start
          Prices,     \* prices asked or offered
          MaxPlaces,  \* MAX_INVENTORY
          MaxShops,   \* bound: how many shops are opened
          MaxUses,    \* searches that one window allows
          NoDealer

ASSUME ShopAssumption == /\ Plain \in Variants /\ NoDealer \notin Dealers
                         /\ Prices \subseteq Nat \ {0} /\ MaxPlaces \in Nat /\ MaxShops \in Nat /\ MaxUses \in Nat
                         /\ IsFiniteSet(Dealers) /\ IsFiniteSet(Variants)

ASSUME BundleAssumption ==
    \A b \in Bundles : /\ b.stock \in [Dealers -> [inv : [Variants -> Nat], cart : [Variants -> Nat]]]
                       /\ b.wallet \in [Dealers -> Nat]
                       /\ \A p \in Dealers : Cardinality({v \in Variants : b.stock[p].inv[v] > 0}) <= MaxPlaces

VARIABLES dealer,   \* per player: "here", "auto" (its client left the shop alone) or "gone"; afar: out of sight
          shop,     \* per player: the shop it keeps
          slots,    \* per player: buyingstore.slots, set by the skill
          nextid,   \* vending_nextid, buyingstore_nextid
          seen,     \* per player: the list its client shows
          search,   \* per player: sd->searchstore
          stock,    \* per player: amounts in the inventory and in the cart
          wallet,   \* per player: zeny
          lastDeal  \* what moved in the last deal and what the lists said: for the properties only

shopVars == <<dealer, shop, slots, nextid, seen, search, stock, wallet, lastDeal>>

None == [v \in Variants |-> 0]
NoShop == [kind |-> "none", uid |-> 0, amount |-> None, price |-> 0, limit |-> 0]
NoList == [kind |-> "none", owner |-> NoDealer, uid |-> 0, price |-> 0]
NoSearch == [open |-> FALSE, uses |-> 0, kind |-> "none", found |-> {}, remote |-> NoDealer]
NoDealYet == [paid |-> 0, due |-> 0, lost |-> FALSE, unchecked |-> FALSE]

ShopTypeOK ==
    /\ dealer \in [Dealers -> [at : {"here", "auto", "gone"}, afar : BOOLEAN]]
    /\ slots \in [Dealers -> BOOLEAN] /\ nextid \in 0 .. MaxShops
    /\ \A p \in Dealers :
          /\ shop[p].kind \in {"none", "vend", "buy"} /\ shop[p].uid \in 0 .. MaxShops
          /\ seen[p].kind \in {"none", "vend", "buy"} /\ seen[p].owner \in (Dealers \ {p}) \cup {NoDealer}
          /\ search[p].uses \in 0 .. MaxUses
          /\ \A r \in search[p].found : r.owner \in Dealers \ {p} /\ r.uid < nextid
          /\ Cardinality({v \in Variants : stock[p].inv[v] > 0}) <= MaxPlaces

ShopInit ==
    /\ \E bundle \in Bundles : stock = bundle.stock /\ wallet = bundle.wallet
    /\ dealer \in [Dealers -> [at : {"here"}, afar : BOOLEAN]]
    /\ shop = [p \in Dealers |-> NoShop]
    /\ slots = [p \in Dealers |-> FALSE]
    /\ nextid = 0
    /\ seen = [p \in Dealers |-> NoList]
    /\ search = [p \in Dealers |-> NoSearch]
    /\ lastDeal = NoDealYet

Here(p) == dealer[p].at = "here"
pc_istrading(p) == shop[p].kind # "none"
Sells(o) == shop[o].kind = "vend"
Buys(o) == shop[o].kind = "buy"

(* In view range, or found by a search and opened from there: searchstore_queryremote. *)
queryremote(p, o) == search[p].open /\ search[p].found # {} /\ search[p].remote = o
Reaches(p, o) == queryremote(p, o) \/ dealer[p].afar = dealer[o].afar

----------------------------------------------------------------------------
(* Opening and closing. *)

(* vending_openvending, of what is in the cart, at one price *)
openvending(p) ==
    /\ Here(p) /\ ~pc_istrading(p) /\ nextid < MaxShops
    /\ \E lines \in (SUBSET {v \in Variants : stock[p].cart[v] > 0}) \ {{}}, price \in Prices :
           shop' = [shop EXCEPT ![p] = [kind |-> "vend", uid |-> nextid, price |-> price, limit |-> 0,
                                        amount |-> [v \in Variants |-> IF v \in lines THEN stock[p].cart[v] ELSE 0]]]
    /\ nextid' = nextid + 1
    /\ UNCHANGED <<dealer, slots, seen, search, stock, wallet, lastDeal>>

(* buyingstore_setup, by the skill or a script *)
buyingstore_setup(p) ==
    /\ Here(p) /\ ~pc_istrading(p) /\ ~slots[p]
    /\ slots' = [slots EXCEPT ![p] = TRUE]
    /\ UNCHANGED <<dealer, shop, nextid, seen, search, stock, wallet, lastDeal>>

(* buyingstore_create: the owner must have one of the item, whatever its cards. *)
Owns(p) == \E v \in Variants : stock[p].inv[v] > 0

buyingstore_create(p) ==
    /\ Here(p) /\ slots[p] /\ nextid < MaxShops
    /\ \E limit \in 1 .. wallet[p], price \in Prices :
           IF pc_istrading(p) \/ ~Owns(p)
           THEN /\ slots' = [slots EXCEPT ![p] = FALSE]
                /\ UNCHANGED <<shop, nextid>>
           ELSE /\ \E n \in 1 .. 2 :
                     shop' = [shop EXCEPT ![p] = [kind |-> "buy", uid |-> nextid, price |-> price, limit |-> limit,
                                                  amount |-> [None EXCEPT ![Plain] = n]]]
                /\ nextid' = nextid + 1
                /\ UNCHANGED slots
    /\ UNCHANGED <<dealer, seen, search, stock, wallet, lastDeal>>

ShopClosed(p) == [shop EXCEPT ![p] = NoShop]
SlotsClosed(p) == IF Buys(p) THEN [slots EXCEPT ![p] = FALSE] ELSE slots

(* clif_parse_CloseVending, clif_parse_ReqCloseBuyingStore *)
CloseShop(p) ==
    /\ Here(p) /\ pc_istrading(p)
    /\ shop' = ShopClosed(p) /\ slots' = SlotsClosed(p)
    /\ UNCHANGED <<dealer, nextid, seen, search, stock, wallet, lastDeal>>

(* @autotrade: the client leaves, the shop stays. *)
autotrade(p) ==
    /\ Here(p) /\ pc_istrading(p)
    /\ dealer' = [dealer EXCEPT ![p].at = "auto"]
    /\ seen' = [seen EXCEPT ![p] = NoList]
    /\ search' = [search EXCEPT ![p] = NoSearch]
    /\ UNCHANGED <<shop, slots, nextid, stock, wallet, lastDeal>>

(* unit_remove_map_ of one who quits; its character comes back with what it had. *)
QuitShop(p) ==
    /\ dealer[p].at # "gone"
    /\ dealer' = [dealer EXCEPT ![p].at = "gone"]
    /\ shop' = ShopClosed(p) /\ slots' = [slots EXCEPT ![p] = FALSE]
    /\ seen' = [seen EXCEPT ![p] = NoList]
    /\ search' = [search EXCEPT ![p] = NoSearch]
    /\ UNCHANGED <<nextid, stock, wallet, lastDeal>>

ComeBack(p) ==
    /\ dealer[p].at = "gone"
    /\ dealer' = [dealer EXCEPT ![p].at = "here"]
    /\ UNCHANGED <<shop, slots, nextid, seen, search, stock, wallet, lastDeal>>

(* Walking; a warp closes the shop first (unit_remove_map_). *)
WalkOff(p) ==
    /\ Here(p) /\ ~pc_istrading(p)
    /\ dealer' = [dealer EXCEPT ![p].afar = ~@]
    /\ UNCHANGED <<shop, slots, nextid, seen, search, stock, wallet, lastDeal>>

----------------------------------------------------------------------------
(* Looking. *)

ListOf(o) == [kind |-> shop[o].kind, owner |-> o, uid |-> shop[o].uid, price |-> shop[o].price]

(* vending_vendinglistreq, buyingstore_open: the list is what the client asks from later. *)
MayLook(p, o) == o # p /\ (Sells(o) \/ (Buys(o) /\ ~pc_istrading(p) /\ Reaches(p, o)))

LookAt(p, o) ==
    /\ Here(p) /\ MayLook(p, o)
    /\ seen' = [seen EXCEPT ![p] = ListOf(o)]
    /\ UNCHANGED <<dealer, shop, slots, nextid, search, stock, wallet, lastDeal>>

(* searchstore_open, by an item or a script *)
searchstore_open(p) ==
    /\ Here(p) /\ ~search[p].open
    /\ search' = [search EXCEPT ![p].open = TRUE, ![p].uses = MaxUses]
    /\ UNCHANGED <<dealer, shop, slots, nextid, seen, stock, wallet, lastDeal>>

(* searchstore_query: earlier results, and the shop opened by them, are forgotten. *)
Offers(o) == \E v \in Variants : shop[o].amount[v] > 0
Found(p, kind) == {[owner |-> o, uid |-> shop[o].uid] : o \in {q \in Dealers \ {p} : shop[q].kind = kind /\ Offers(q)}}
RemoteCleared(p) == NoDealer

searchstore_query(p) ==
    /\ Here(p) /\ search[p].open /\ search[p].uses > 0
    /\ \E kind \in {"vend", "buy"} :
           search' = [search EXCEPT ![p].uses = @ - 1, ![p].kind = kind, ![p].found = Found(p, kind),
                                    ![p].remote = RemoteCleared(p)]
    /\ UNCHANGED <<dealer, shop, slots, nextid, seen, stock, wallet, lastDeal>>

(* searchstore_click with the effect of opening the shop: if it is still the one that was found. *)
searchstore_click(p) ==
    /\ Here(p) /\ search[p].open
    /\ \E r \in search[p].found :
           LET same == shop[r.owner].kind = search[p].kind /\ shop[r.owner].uid = r.uid /\ Offers(r.owner)
               opens == same /\ (Sells(r.owner) \/ ~pc_istrading(p))
           IN /\ search' = [search EXCEPT ![p].remote = IF same THEN r.owner ELSE NoDealer]
              /\ seen' = IF opens THEN [seen EXCEPT ![p] = ListOf(r.owner)] ELSE seen
    /\ UNCHANGED <<dealer, shop, slots, nextid, stock, wallet, lastDeal>>

searchstore_close(p) ==
    /\ Here(p) /\ search[p].open
    /\ search' = [search EXCEPT ![p] = NoSearch]
    /\ UNCHANGED <<dealer, shop, slots, nextid, seen, stock, wallet, lastDeal>>

----------------------------------------------------------------------------
(* Dealing. *)

Held(bag) == {v \in Variants : bag[v] > 0}
BlankSlotsOneMore(p) == MaxPlaces + 1 - Cardinality(Held(stock[p].inv))   \* a mistake the runs must notice
BlankSlots(p) == MaxPlaces - Cardinality(Held(stock[p].inv))

(* pc_checkadditem of every line: one that looks like an item already held, by its nameid alone,
   is taken to need no place. *)
HasPlace(p, lines) == Owns(p) \/ Cardinality(lines) <= BlankSlots(p)

(* pc_additem of every line: the same variant is stacked, another one needs a place or is refused,
   and nobody looks. *)
Placed(p, lines) ==
    LET stacked == lines \cap Held(stock[p].inv)
        room == {S \in SUBSET (lines \ stacked) : Cardinality(S) <= BlankSlots(p)}
    IN {stacked \cup S : S \in {R \in room : \A T \in room : Cardinality(T) <= Cardinality(R)}}

Plus(bag, lines, n)  == [v \in Variants |-> bag[v] + IF v \in lines THEN n[v] ELSE 0]
Minus(bag, lines, n) == [v \in Variants |-> bag[v] - IF v \in lines THEN n[v] ELSE 0]
Least(a, b) == IF a < b THEN a ELSE b
Pay(from, to, z) ==    \* pc_payzeny does nothing when there is not enough, pc_getzeny gives all the same
    [wallet EXCEPT ![from] = IF @ < z THEN @ ELSE @ - z, ![to] = @ + z]

(* vending_purchasereq: n[v] of each line.  The shop is known by its id. *)
SameOwner(p, o) == Sells(o)                            \* a mistake the runs must notice
SameShop(p, o) == Sells(o) /\ shop[o].uid = seen[p].uid

(* An unattended shop that is sold out closes and leaves. *)
LeavesIf(o, over, closing) ==
    LET leaves == over /\ dealer[o].at = "auto" IN
    /\ dealer' = IF leaves THEN [dealer EXCEPT ![o].at = "gone"] ELSE dealer
    /\ shop' = IF leaves \/ (over /\ Buys(o)) THEN [closing EXCEPT ![o] = NoShop] ELSE closing
    /\ slots' = IF over /\ Buys(o) THEN [slots EXCEPT ![o] = FALSE] ELSE slots

SumOf(price, lines, n) == MapThenSumSet(LAMBDA v : price * n[v], lines)

vending_purchasereq(p) ==
    LET o == seen[p].owner IN
    /\ Here(p) /\ seen[p].kind = "vend"
    /\ SameShop(p, o) /\ Reaches(p, o)
    /\ \E lines \in (SUBSET Held(shop[o].amount)) \ {{}}, n \in [Variants -> 1 .. 2] :
          LET z == SumOf(shop[o].price, lines, n)
              due == SumOf(seen[p].price, lines, n)
              left == Minus(shop[o].amount, lines, n)
          IN /\ z <= wallet[p]
             /\ \A v \in lines : n[v] <= Least(shop[o].amount[v], stock[o].cart[v])
             /\ HasPlace(p, lines)
             /\ wallet' = Pay(p, o, z)
             /\ \E into \in Placed(p, lines) :
                   /\ stock' = [stock EXCEPT ![p].inv = Plus(@, into, n), ![o].cart = Minus(@, lines, n)]
                   /\ lastDeal' = [paid |-> z, due |-> due, lost |-> into # lines, unchecked |-> Owns(p)]
             /\ LeavesIf(o, Held(left) = {}, [shop EXCEPT ![o].amount = left])
    /\ seen' = [seen EXCEPT ![p] = NoList]
    /\ search' = [search EXCEPT ![p].remote = NoDealer]
    /\ UNCHANGED nextid

(* The list of a shop that is gone or changed: the window closes with an error. *)
RefusedPurchase(p) ==
    LET o == seen[p].owner IN
    /\ Here(p) /\ seen[p].kind = "vend" /\ ~(SameShop(p, o) /\ Reaches(p, o))
    /\ seen' = [seen EXCEPT ![p] = NoList]
    /\ UNCHANGED <<dealer, shop, slots, nextid, search, stock, wallet, lastDeal>>

(* buyingstore_trade.  The owner may have spent zeny since: the limit is lowered to what is left. *)
LimitAsSet(o) == shop[o].limit                         \* a mistake the runs must notice
LimitNow(o) == Least(shop[o].limit, wallet[o])

buyingstore_trade(p) ==
    LET o == seen[p].owner IN
    /\ Here(p) /\ seen[p].kind = "buy" /\ ~pc_istrading(p)
    /\ Buys(o) /\ shop[o].uid = seen[p].uid /\ Reaches(p, o)
    /\ search' = [search EXCEPT ![p].remote = NoDealer]
    /\ \/ \E n \in 1 .. Least(stock[p].inv[Plain], shop[o].amount[Plain]) :
             LET z == shop[o].price * n
                 left == [shop[o] EXCEPT !.amount[Plain] = @ - n, !.limit = LimitNow(o) - z]
             IN /\ z <= LimitNow(o)
                /\ \E into \in Placed(o, {Plain}) :
                      /\ stock' = [stock EXCEPT ![o].inv = Plus(@, into, [None EXCEPT ![Plain] = n]),
                                                ![p].inv[Plain] = @ - n]
                      /\ lastDeal' = [paid |-> z, due |-> seen[p].price * n, lost |-> into = {}, unchecked |-> TRUE]
                /\ wallet' = Pay(o, p, z)
                /\ LeavesIf(o, left.amount[Plain] = 0 \/ left.limit = 0, [shop EXCEPT ![o] = left])
       \/ /\ \/ stock[p].inv[Plain] > shop[o].amount[Plain]
             \/ \E n \in 1 .. Least(stock[p].inv[Plain], shop[o].amount[Plain]) : shop[o].price * n > LimitNow(o)
          /\ shop' = [shop EXCEPT ![o].limit = LimitNow(o)]
          /\ UNCHANGED <<dealer, slots, stock, wallet, lastDeal>>
    /\ UNCHANGED <<nextid, seen>>

Keeps(p) == \/ openvending(p) \/ buyingstore_setup(p) \/ buyingstore_create(p) \/ CloseShop(p)
            \/ autotrade(p) \/ QuitShop(p) \/ ComeBack(p) \/ WalkOff(p)
Searches(p) == searchstore_open(p) \/ searchstore_query(p) \/ searchstore_click(p) \/ searchstore_close(p)
Deals(p) == (\E o \in Dealers : LookAt(p, o)) \/ vending_purchasereq(p) \/ RefusedPurchase(p) \/ buyingstore_trade(p)

ShopNext == \E p \in Dealers : Keeps(p) \/ Searches(p) \/ Deals(p)
ShopSpec == ShopInit /\ [][ShopNext]_shopVars

----------------------------------------------------------------------------
Amount(goods, v) == MapThenSumSet(LAMBDA p : goods[p].inv[v] + goods[p].cart[v], Dealers)
Money(purses) == MapThenSumSet(LAMBDA p : purses[p], Dealers)

(* Nobody pays or gets another price than the one on the list its client showed, however the shop
   was closed, opened again and priced in between (vending_purchasereq and buyingstore_trade check
   the id of the shop); and who may deal from afar was shown the shop's owner by its last search
   (searchstore_clear). *)
ShopsAsShown ==
    /\ lastDeal.paid = lastDeal.due
    /\ \A p \in Dealers : search[p].remote # NoDealer => \E r \in search[p].found : r.owner = search[p].remote

(* A deal makes neither zeny nor goods, and no zeny is lost: the owner of a buying store never pays
   with zeny it spent elsewhere after it opened the store.  Goods are lost only where the check for
   room goes by the nameid alone (pc_checkadditem) or is not made for it (buyingstore_trade). *)
DealsKeepGoods ==
    [][\/ UNCHANGED <<stock, wallet>>
       \/ /\ Money(wallet') = Money(wallet)
          /\ \A v \in Variants : Amount(stock', v) = Amount(stock, v) \/ (lastDeal'.lost /\ lastDeal'.unchecked)]_shopVars
=============================================================================
