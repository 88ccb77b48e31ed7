-------------------------------- MODULE MCMap --------------------------------
(* One TLC instance for the components that share nothing: in each behaviour one of them moves,
   the others rest in an initial state. *)
EXTENDS Post, Shops, Timers, Tables, LockFile, Gatherings, Instances

CONSTANTS d1, d2, d3,  \* characters
          v1, v2    \* an item without and with a card

VARIABLE scene
meetVars == <<duelVars, roomVars, instanceVars>>
vars == <<scene, linkVars, postVars, shopVars, timerVars, tableVars, lockVars, meetVars>>

(* A seller with goods to sell, and a buyer with room for one more kind. *)
OnePlain == [v \in Variants |-> IF v = v1 THEN 1 ELSE 0]
OneCarded == [v \in Variants |-> IF v = v2 THEN 1 ELSE 0]
OfEach == [v \in Variants |-> 1]
NoneOfEach == [v \in Variants |-> 0]
Stalls == {[stock |-> [p \in Dealers |-> IF p = d1 THEN [inv |-> OneCarded, cart |-> NoneOfEach]
                                         ELSE [inv |-> OnePlain, cart |-> OfEach]],
            wallet |-> [p \in Dealers |-> IF p = d1 THEN 2 ELSE 0]]}

(* For a mail with one zeny, and for two bidders. *)
MailPurse == [p \in Posters |-> IF p = d1 THEN 1 ELSE 0]
BidPurse == [p \in Posters |-> IF p = d2 THEN 1 ELSE IF p = d3 THEN 2 ELSE 0]
TwoPurses == {MailPurse, BidPurse}

PostRests  == LinkInit /\ PostInit /\ purse = MailPurse /\ bag[d1] # {}
ShopRests  == ShopInit /\ \A p \in Dealers : dealer[p].afar = FALSE
LockRests  == LockInit /\ kind = "mapreg"

MeetInit == GatherInit /\ InstanceInit
MeetRests == MeetInit /\ \A p, q \in Adventurers : adventurer[p] = adventurer[q] /\ adventurer[p].party_id = 1

Init ==
    \/ scene = "mail" /\ LinkInit /\ PostInit /\ purse = MailPurse /\ bag[d3] = {}
       /\ ShopRests /\ TimerInit /\ TableInit /\ LockRests /\ MeetRests
    \/ scene = "auction" /\ LinkInit /\ PostInit /\ purse = BidPurse
       /\ ShopRests /\ TimerInit /\ TableInit /\ LockRests /\ MeetRests
    \/ scene \in {"shops", "search"} /\ ShopInit
       /\ PostRests /\ TimerInit /\ TableInit /\ LockRests /\ MeetRests
    \/ scene \in {"timers", "tables", "trees", "duels", "chats", "teams"}
       /\ TimerInit /\ TableInit /\ PostRests /\ ShopRests /\ LockRests /\ MeetRests
    \/ scene = "instances" /\ MeetInit /\ TimerInit /\ TableInit /\ PostRests /\ ShopRests /\ LockRests
    \/ scene = "files" /\ LockInit /\ PostRests /\ ShopRests /\ TimerInit /\ TableInit /\ MeetRests

PostMoves == /\ \/ scene = "mail" /\ MailNext({d1, d2})
                \/ scene = "auction" /\ AuctionNext(Posters)
             /\ UNCHANGED <<scene, shopVars, timerVars, tableVars, lockVars, meetVars>>

(* The window of searches is of one player, who keeps no shop while it is tried. *)
ShopMoves == /\ \/ /\ scene = "shops"
                   /\ \E p \in Dealers : Keeps(p) \/ Deals(p)
                \/ /\ scene = "search"
                   /\ \/ Searches(d1)
                      \/ \E p \in Dealers : Deals(p) \/ openvending(p) \/ CloseShop(p) \/ QuitShop(p) \/ ComeBack(p)
             /\ UNCHANGED <<scene, linkVars, postVars, timerVars, tableVars, lockVars, meetVars>>

TimerMoves == scene = "timers" /\ TimerNext
              /\ UNCHANGED <<scene, linkVars, postVars, shopVars, tableVars, lockVars, meetVars>>

(* A tree alone, whose nodes are its keys. *)
TreeMoves == /\ \/ \E k \in Nodes \ InTree : tree' = TreePut(tree, k)
                \/ \E k \in InTree : tree' = Erased(tree, k)
             /\ node' = [n \in Nodes |-> [node[n] EXCEPT !.key = n]]
             /\ UNCHANGED <<reuse, cache, free_list, iterator, made, agrees>>
TableMoves == /\ \/ scene = "tables" /\ TableNext
                 \/ scene = "trees" /\ TreeMoves
              /\ UNCHANGED <<scene, linkVars, postVars, shopVars, timerVars, lockVars, meetVars>>

LockMoves == scene = "files" /\ LockNext
             /\ UNCHANGED <<scene, linkVars, postVars, shopVars, timerVars, tableVars, meetVars>>

MeetMoves == /\ \/ scene = "duels" /\ DuelNext /\ UNCHANGED <<roomVars, instanceVars>>
                \/ scene = "chats" /\ (ChatNext \/ GuestNext) /\ UNCHANGED <<duelVars, instanceVars>>
                \/ scene = "teams" /\ (WaitingNext \/ GuestNext \/ TeamNext) /\ UNCHANGED <<duelVars, instanceVars>>
                \/ scene = "instances" /\ InstanceNext /\ UNCHANGED <<duelVars, roomVars>>
             /\ UNCHANGED <<scene, linkVars, postVars, shopVars, timerVars, tableVars, lockVars>>

Next == PostMoves \/ ShopMoves \/ TimerMoves \/ TableMoves \/ LockMoves \/ MeetMoves
Spec == Init /\ [][Next]_vars

(* Every variable has its shape, bounds included, and every timer id is pending or free. *)
MapTypeOK == LinkTypeOK /\ PostTypeOK /\ ShopTypeOK /\ TimerTypeOK /\ TableTypeOK /\ LockTypeOK
             /\ DuelTypeOK /\ RoomTypeOK /\ InstanceTypeOK

(* A table answers what was stored last, and its tree stays a red-black tree over its keys (the parts
   are stated in their modules). *)
TablesSound == TablesAnswer /\ TreesAreRedBlack
=============================================================================
