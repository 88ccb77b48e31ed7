-------------------------------- MODULE Post --------------------------------
(***************************************************************************)
(* Mail with attachments and auctions: mail.c, clif.c and intif.c on the   *)
(* map server, int_mail.c and int_auction.c on the char server.            *)
(*                                                                         *)
(* Goods leave a player when a request is sent and come back when it is    *)
(* refused; in between they are in a packet.  Mails and auctions are rows  *)
(* of SQL that the char server changes in one step.  A player sees a copy  *)
(* of the inbox that may be old.                                           *)
(*                                                                         *)
(* Left out: texts, fees, the limits of MAX_ZENY, the flood protection of  *)
(* one mail per second, towns, items that may not be given, the search of  *)
(* auctions, and SQL errors.  The link does not fail here.                 *)
(***************************************************************************)
EXTENDS InterLink, FiniteSetsExt

CONSTANTS Posters,    \* characters, each of its own account
          PostServer, \* the map server they play on
          Wares,      \* items, each a different one
          Purses,     \* the ways zeny may be spread over them at the start
          MostZeny,   \* bound: no more than that altogether
          MaxInbox,   \* MAIL_MAX_INBOX
          MaxMails,   \* bound: how many mails are written
          MaxSent,    \* bound: how many while players use their mailboxes
          BuyNow,     \* buynow of every auction
          NoWare,     \* nameid 0
          Manager     \* "Auction Manager", nobody: id 0

ASSUME PostAssumption == /\ PostServer \in MapServers /\ NoWare \notin Wares /\ Manager \notin Posters
                         /\ MostZeny \in Nat /\ Purses \subseteq [Posters -> 0 .. MostZeny]
                         /\ BuyNow \in Nat \ {0} /\ MaxMails \in Nat /\ MaxSent \in Nat
                         /\ IsFiniteSet(Posters) /\ IsFiniteSet(Wares)

VARIABLES poster,   \* per character: the fields of map_session_data about mail and auctions
          bag,      \* per character: inventory
          purse,    \* per character: zeny
          inbox,    \* per character: sd->mail.inbox
          mails,    \* the table of mails
          written,  \* the last id of a mail
          auctions, \* per item: the auction of it, if any
          mislaid   \* goods that were dropped, and all zeny there is: for the properties only

postVars == <<poster, bag, purse, inbox, mails, written, auctions, mislaid>>
postTables == <<mails, written, auctions>>

NoAuction == [seller |-> Manager, buyer |-> Manager, price |-> 0]
Idle(here) == [here |-> here, item |-> NoWare, zeny |-> 0, sale |-> NoWare,
               changed |-> FALSE, full |-> FALSE]

Parcel == [id : 1 .. MaxMails, to : Posters, from : Posters \cup {Manager}, item : Wares \cup {NoWare},
           zeny : 0 .. MostZeny, read : BOOLEAN]

PostTypeOK ==
    /\ poster \in [Posters -> [here : BOOLEAN, item : Wares \cup {NoWare}, zeny : 0 .. MostZeny,
                           sale : Wares \cup {NoWare}, changed : BOOLEAN, full : BOOLEAN]]
    /\ bag \in [Posters -> SUBSET Wares] /\ purse \in [Posters -> 0 .. MostZeny]
    /\ \A p \in Posters : inbox[p] \subseteq Parcel /\ Cardinality(inbox[p]) <= MaxInbox
    /\ mails \subseteq Parcel /\ written \in 0 .. MaxMails
    /\ auctions \in [Wares -> [seller : Posters \cup {Manager}, buyer : Posters \cup {Manager},
                               price : 0 .. MostZeny]]

PostInit ==
    /\ \E p \in Posters : bag = [q \in Posters |-> IF q = p THEN Wares ELSE {}]
    /\ purse \in Purses
    /\ poster = [p \in Posters |-> Idle(TRUE)]
    /\ inbox = [p \in Posters |-> {}]
    /\ mails = {} /\ written = 0
    /\ auctions = [w \in Wares |-> NoAuction]
    /\ mislaid = [items |-> {}, zeny |-> 0, all |-> MapThenSumSet(LAMBDA p : purse[p], Posters)]

m0 == PostServer
Asks(msgs) == Send(m0, msgs)
Some(w) == {w} \ {NoWare}
Withdraw(p) == [poster EXCEPT ![p].item = NoWare, ![p].zeny = 0]    \* mail_removeitem(0), mail_removezeny(0)

----------------------------------------------------------------------------
(* Mail, the player's side. *)

(* mail_setitem: offers of what the player has at that moment. *)
clif_parse_Mail_setattach(p) ==
    /\ poster[p].here
    /\ \/ \E w \in bag[p] : poster' = [poster EXCEPT ![p].item = w]
       \/ \E z \in 1 .. purse[p] : poster' = [poster EXCEPT ![p].zeny = z]
    /\ UNCHANGED <<linkVars, bag, purse, inbox, postTables, mislaid>>

(* clif_parse_Mail_winopen *)
clif_parse_Mail_winopen(p) ==
    /\ poster[p].here
    /\ poster' \in {Withdraw(p), [poster EXCEPT ![p].item = NoWare], [poster EXCEPT ![p].zeny = 0]}
    /\ UNCHANGED <<linkVars, bag, purse, inbox, postTables, mislaid>>

(* mail_setattachment: is what was offered still there? *)
StillHas(p) == poster[p].zeny <= purse[p] /\ Some(poster[p].item) \subseteq bag[p]

clif_parse_Mail_send(p, to) ==
    /\ poster[p].here /\ Room(m0)
    /\ poster' = Withdraw(p)
    /\ IF StillHas(p)
       THEN /\ bag' = [bag EXCEPT ![p] = @ \ {poster[p].item}]
            /\ purse' = [purse EXCEPT ![p] = @ - poster[p].zeny]
            /\ Asks(<<[t |-> "mail", from |-> p, to |-> to, item |-> poster[p].item, zeny |-> poster[p].zeny]>>)
       ELSE UNCHANGED <<bag, purse, toInter>>
    /\ UNCHANGED <<fromInter, ends, inbox, postTables, mislaid>>

(* clif_parse_Mail_refreshinbox *)
Refreshes(p) == Cardinality(inbox[p]) < MaxInbox /\ (poster[p].full \/ poster[p].changed)
Inbox(p) == [t |-> "inbox", p |-> p]

clif_parse_Mail_refreshinbox(p) ==
    /\ poster[p].here /\ Room(m0)
    /\ Asks(IF Refreshes(p) THEN <<Inbox(p)>> ELSE <<>>)
    /\ poster' = Withdraw(p)
    /\ UNCHANGED <<fromInter, ends, bag, purse, inbox, postTables, mislaid>>

(* clif_Mail_read; an unread mail is marked, and the inbox refreshed. *)
Marks(p, x) == IF x.read THEN <<>>
               ELSE <<[t |-> "read", id |-> x.id]>> \o IF Refreshes(p) THEN <<Inbox(p)>> ELSE <<>>
Shown(x) == [x EXCEPT !.read = TRUE]

clif_parse_Mail_read(p) ==
    \E x \in inbox[p] :
        /\ poster[p].here /\ Room(m0) /\ ~x.read
        /\ Asks(Marks(p, x))
        /\ inbox' = [inbox EXCEPT ![p] = (@ \ {x}) \cup {Shown(x)}]
        /\ poster' = Withdraw(p)
        /\ UNCHANGED <<fromInter, ends, bag, purse, postTables, mislaid>>

(* The attachment is struck from the copy, and shown so, before it is asked for. *)
Emptied(x) == [x EXCEPT !.item = NoWare, !.zeny = 0]
HasParcel(x) == x.item # NoWare \/ x.zeny > 0

clif_parse_Mail_getattach(p) ==
    \E x \in inbox[p] :
        /\ poster[p].here /\ Room(m0) /\ HasParcel(x)
        /\ Asks(Marks(p, x) \o <<[t |-> "attach", p |-> p, id |-> x.id]>>)
        /\ inbox' = [inbox EXCEPT ![p] = (@ \ {x}) \cup {Shown(Emptied(x))}]
        /\ poster' = IF x.read THEN poster ELSE Withdraw(p)
        /\ UNCHANGED <<fromInter, ends, bag, purse, postTables, mislaid>>

MayDeleteAny(x) == TRUE                                \* a mistake the runs must notice

(* "can't delete mail without removing attachment first", according to the copy. *)
MayDelete(x) == ~HasParcel(x)

clif_parse_Mail_delete(p) ==
    \E x \in inbox[p] :
        /\ poster[p].here /\ Room(m0) /\ MayDelete(x)
        /\ Asks(<<[t |-> "delete", p |-> p, id |-> x.id]>>)
        /\ UNCHANGED <<fromInter, ends, postVars>>

clif_parse_Mail_return(p) ==
    \E x \in inbox[p] :
        /\ poster[p].here /\ Room(m0) /\ x.from # Manager
        /\ Asks(<<[t |-> "return", p |-> p, id |-> x.id]>>)
        /\ UNCHANGED <<fromInter, ends, postVars>>

----------------------------------------------------------------------------
(* Auctions, the player's side. *)

clif_parse_Auction_setitem(p) ==
    /\ poster[p].here
    /\ \E w \in bag[p] : poster' = [poster EXCEPT ![p].sale = w]
    /\ UNCHANGED <<linkVars, bag, purse, inbox, postTables, mislaid>>

clif_parse_Auction_cancelreg(p) ==
    /\ poster[p].here /\ poster[p].sale # NoWare
    /\ poster' = [poster EXCEPT ![p].sale = NoWare]
    /\ UNCHANGED <<linkVars, bag, purse, inbox, postTables, mislaid>>

clif_parse_Auction_register(p) ==
    LET w == poster[p].sale IN
    /\ poster[p].here /\ Room(m0) /\ w \in bag[p]
    /\ \E price \in 0 .. BuyNow - 1 : Asks(<<[t |-> "register", p |-> p, item |-> w, price |-> price]>>)
    /\ bag' = [bag EXCEPT ![p] = @ \ {w}]
    /\ poster' = [poster EXCEPT ![p].sale = NoWare]
    /\ UNCHANGED <<fromInter, ends, purse, inbox, postTables, mislaid>>

(* clif_parse_Auction_cancel, clif_parse_Auction_close *)
EndAuction(p, how) ==
    /\ poster[p].here /\ Room(m0)
    /\ \E w \in Wares : Asks(<<[t |-> how, p |-> p, item |-> w]>>)
    /\ UNCHANGED <<fromInter, ends, postVars>>

clif_parse_Auction_bid(p) ==
    /\ poster[p].here /\ Room(m0)
    /\ \E w \in Wares, bid \in 1 .. purse[p] :
           /\ Asks(<<[t |-> "bid", p |-> p, item |-> w, zeny |-> bid]>>)
           /\ purse' = [purse EXCEPT ![p] = @ - bid]
    /\ UNCHANGED <<fromInter, ends, poster, bag, inbox, postTables, mislaid>>

----------------------------------------------------------------------------
(* Coming and going, and trading: what was offered for a mail or an auction may be gone. *)

PosterQuits(p) ==
    /\ poster[p].here
    /\ poster' = [poster EXCEPT ![p] = Idle(FALSE)]
    /\ inbox' = [inbox EXCEPT ![p] = {}]
    /\ UNCHANGED <<linkVars, bag, purse, postTables, mislaid>>

(* pc_reg_received asks for the inbox. *)
PosterComes(p) ==
    /\ ~poster[p].here /\ Room(m0)
    /\ Asks(<<Inbox(p)>>)
    /\ poster' = [poster EXCEPT ![p] = Idle(TRUE)]
    /\ UNCHANGED <<fromInter, ends, bag, purse, inbox, postTables, mislaid>>

GiveItem(p, q) ==
    /\ poster[p].here /\ poster[q].here /\ p # q
    /\ \E w \in bag[p] : bag' = [bag EXCEPT ![p] = @ \ {w}, ![q] = @ \cup {w}]
    /\ UNCHANGED <<linkVars, poster, purse, inbox, postTables, mislaid>>

GiveZeny(p, q) ==
    /\ poster[p].here /\ poster[q].here /\ p # q /\ purse[p] > 0
    /\ purse' = [purse EXCEPT ![p] = @ - 1, ![q] = @ + 1]
    /\ UNCHANGED <<linkVars, poster, bag, inbox, postTables, mislaid>>

----------------------------------------------------------------------------
(* The char server.  Written(S, first) numbers the letters of the sequence S. *)

Letter(from, to, item, zeny) == [from |-> from, to |-> to, item |-> item, zeny |-> zeny]
Numbered(S) == {[id |-> written + i, to |-> S[i].to, from |-> S[i].from, item |-> S[i].item,
                 zeny |-> S[i].zeny, read |-> FALSE] : i \in 1 .. Len(S)}

(* mail_savemessage of each, after the mails in out are removed *)
Store(S, out) ==
    /\ written + Len(S) <= MaxMails
    /\ mails' = (mails \ out) \cup Numbered(S)
    /\ written' = written + Len(S)

(* mapif_Mail_new to all map servers *)
News(S) == [i \in 1 .. Len(S) |-> [t |-> "newmail", p |-> S[i].to]]
PostAnswer(msgs) == Reply(m0, msgs)
RowOf(id) == {x \in mails : x.id = id}

mapif_Mail_sendinbox(p) ==
    LET mine == {x \in mails : x.to = p}
        page == {x \in mine : Cardinality({y \in mine : y.id < x.id}) < MaxInbox}
    IN /\ PostAnswer(<<[t |-> "inbox", p |-> p, page |-> page, full |-> mine # page]>>)
       /\ UNCHANGED postTables

mapif_parse_Mail_read(id) ==
    /\ mails' = {IF x.id = id THEN Shown(x) ELSE x : x \in mails}
    /\ UNCHANGED <<fromInter, written, auctions>>

mapif_Mail_getattach(p, id) ==
    /\ LET found == {x \in RowOf(id) : x.to = p /\ x.read /\ HasParcel(x)} IN
       /\ mails' = (mails \ found) \cup {Emptied(x) : x \in found}
       /\ IF found = {} THEN UNCHANGED fromInter
          ELSE LET x == CHOOSE y \in found : TRUE
               IN PostAnswer(<<[t |-> "attached", p |-> p, item |-> x.item, zeny |-> x.zeny]>>)
    /\ UNCHANGED <<written, auctions>>

mapif_Mail_delete(p, id) ==
    /\ mails' = mails \ RowOf(id)
    /\ PostAnswer(<<[t |-> "struck", p |-> p, id |-> id]>>)
    /\ UNCHANGED <<written, auctions>>

mapif_Mail_return(p, id) ==
    IF RowOf(id) = {} THEN UNCHANGED <<fromInter, postTables>>    \* refused: the copy stays
    ELSE LET x == CHOOSE y \in RowOf(id) : TRUE
             back == <<Letter(x.to, x.from, x.item, x.zeny)>>
         IN IF x.to # p THEN UNCHANGED <<fromInter, postTables>>
            ELSE /\ Store(back, {x})
                 /\ PostAnswer(News(back) \o <<[t |-> "struck", p |-> p, id |-> id]>>)
                 /\ UNCHANGED auctions

(* Refused for an unknown name or one of the sender's own account. *)
mapif_parse_Mail_send(msg) ==
    IF msg.to \in Posters \ {msg.from}
    THEN /\ Store(<<Letter(msg.from, msg.to, msg.item, msg.zeny)>>, {})
         /\ PostAnswer(<<[t |-> "mailed", p |-> msg.from, to |-> msg.to]>>)
         /\ UNCHANGED auctions
    ELSE /\ PostAnswer(<<[t |-> "back", p |-> msg.from, item |-> msg.item, zeny |-> msg.zeny]>>)
         /\ UNCHANGED postTables

(* Refused when the seller has five auctions already, of other items. *)
mapif_parse_Auction_register(msg) ==
    \/ /\ auctions' = [auctions EXCEPT ![msg.item] = [seller |-> msg.p, buyer |-> Manager, price |-> msg.price]]
       /\ UNCHANGED <<fromInter, mails, written>>
    \/ /\ PostAnswer(<<[t |-> "back", p |-> msg.p, item |-> msg.item, zeny |-> 0]>>)
       /\ UNCHANGED postTables

Goods(w, to) == Letter(Manager, to, w, 0)
Zeny(z, to) == Letter(Manager, to, NoWare, z)
Ends(w, letters, reply) ==
    /\ Store(letters, {})
    /\ PostAnswer(News(letters) \o reply)
    /\ auctions' = [auctions EXCEPT ![w] = NoAuction]

mapif_parse_Auction_cancel(p, w) ==
    LET a == auctions[w] IN
    IF a.seller = p /\ a.buyer = Manager THEN Ends(w, <<Goods(w, p)>>, <<>>)
    ELSE UNCHANGED <<fromInter, postTables>>

mapif_parse_Auction_close(p, w) ==
    LET a == auctions[w] IN
    IF a.seller = p /\ a.buyer # Manager
    THEN Ends(w, <<Zeny(a.price, p), Goods(w, a.buyer)>>, <<[t |-> "closed", p |-> p]>>)
    ELSE UNCHANGED <<fromInter, postTables>>

(* Who is outbid gets the money back by mail.  A bid of buynow ends the auction: the rest is
   given back with the answer. *)
Outbid(a) == IF a.buyer = Manager THEN <<>> ELSE <<Zeny(a.price, a.buyer)>>
Returned(p, z) == [t |-> "bid", p |-> p, zeny |-> z]

mapif_parse_Auction_bid(p, w, bid) ==
    LET a == auctions[w] IN
    \/ /\ a.seller \in {Manager, p} \/ a.price >= bid \/ (bid < BuyNow /\ a.buyer # p)   \* the last: too many bids
       /\ PostAnswer(<<Returned(p, bid)>>)
       /\ UNCHANGED postTables
    \/ /\ a.seller \notin {Manager, p} /\ a.price < bid
       /\ IF bid >= BuyNow
          THEN Ends(w, Outbid(a) \o <<Goods(w, p), Zeny(BuyNow, a.seller)>>, <<Returned(p, bid - BuyNow)>>)
          ELSE /\ Store(Outbid(a), {})
               /\ PostAnswer(News(Outbid(a)) \o <<Returned(p, 0)>>)
               /\ auctions' = [auctions EXCEPT ![w].buyer = p, ![w].price = bid]

(* auction_end_timer, at any time *)
auction_end_timer(w) ==
    LET a == auctions[w] IN
    /\ a.seller # Manager
    /\ Ends(w, IF a.buyer = Manager THEN <<Goods(w, a.seller)>>
               ELSE <<Goods(w, a.buyer), Zeny(a.price, a.seller)>>, <<>>)
    /\ UNCHANGED <<toInter, ends, poster, bag, purse, inbox, mislaid>>

(* inter_mail_parse_frommap, inter_auction_parse_frommap *)
inter_post_parse_frommap ==
    /\ toInter[m0] # <<>>
    /\ LET msg == Head(toInter[m0]) IN
       \/ msg.t = "inbox" /\ mapif_Mail_sendinbox(msg.p)
       \/ msg.t = "read" /\ mapif_parse_Mail_read(msg.id)
       \/ msg.t = "attach" /\ mapif_Mail_getattach(msg.p, msg.id)
       \/ msg.t = "delete" /\ mapif_Mail_delete(msg.p, msg.id)
       \/ msg.t = "return" /\ mapif_Mail_return(msg.p, msg.id)
       \/ msg.t = "mail" /\ mapif_parse_Mail_send(msg)
       \/ msg.t = "register" /\ mapif_parse_Auction_register(msg)
       \/ msg.t = "cancel" /\ mapif_parse_Auction_cancel(msg.p, msg.item)
       \/ msg.t = "close" /\ mapif_parse_Auction_close(msg.p, msg.item)
       \/ msg.t = "bid" /\ mapif_parse_Auction_bid(msg.p, msg.item, msg.zeny)
    /\ TakenFrom(m0)
    /\ UNCHANGED <<ends, poster, bag, purse, inbox, mislaid>>

----------------------------------------------------------------------------
(* The map server: what it gives to player p, or drops.  Everything else a player does fills the
   inventory or makes room at any time, so pc_additem may refuse an item though there was room
   when it was asked for (clif_parse_Mail_getattach); nobody looks at its result. *)
Hand(p, item, zeny) == \E room \in BOOLEAN :
    LET here == poster[p].here
        fits == here /\ room
    IN
    /\ bag' = IF fits THEN [bag EXCEPT ![p] = @ \cup Some(item)] ELSE bag
    /\ purse' = IF here THEN [purse EXCEPT ![p] = @ + zeny] ELSE purse
    /\ mislaid' = [mislaid EXCEPT !.items = IF fits THEN @ ELSE @ \cup Some(item),
                                  !.zeny = IF here THEN @ ELSE @ + zeny]
    /\ UNCHANGED <<poster, inbox>>

(* intif_parse_Mail_delete, intif_parse_Mail_return *)
Struck(p, id) == [inbox EXCEPT ![p] = {x \in @ : x.id # id}]

intif_parse_post ==
    /\ fromInter[m0] # <<>>
    /\ LET msg == Head(fromInter[m0]) IN
       \/ /\ msg.t \in {"attached", "back"}
          /\ Hand(msg.p, msg.item, msg.zeny) /\ UNCHANGED toInter
       \/ /\ msg.t = "bid"
          /\ Hand(msg.p, NoWare, msg.zeny) /\ UNCHANGED toInter
       \/ /\ msg.t = "inbox"
          /\ inbox' = IF poster[msg.p].here THEN [inbox EXCEPT ![msg.p] = msg.page] ELSE inbox
          /\ poster' = IF poster[msg.p].here
                       THEN [poster EXCEPT ![msg.p].changed = FALSE, ![msg.p].full = msg.full] ELSE poster
          /\ UNCHANGED <<toInter, bag, purse, mislaid>>
       \/ /\ msg.t = "struck"
          /\ inbox' = Struck(msg.p, msg.id)
          /\ Asks(IF poster[msg.p].here /\ poster[msg.p].full THEN <<Inbox(msg.p)>> ELSE <<>>)
          /\ UNCHANGED <<poster, bag, purse, mislaid>>
       \/ /\ msg.t = "newmail"
          /\ poster' = [poster EXCEPT ![msg.p].changed = poster[msg.p].here]
          /\ UNCHANGED <<toInter, bag, purse, inbox, mislaid>>
       \/ /\ msg.t = "mailed"
          /\ poster' = [poster EXCEPT ![msg.to].changed = poster[msg.to].here]
          /\ UNCHANGED <<toInter, bag, purse, inbox, mislaid>>
       \/ /\ msg.t = "closed"
          /\ poster' = [poster EXCEPT ![msg.p].sale = NoWare]
          /\ UNCHANGED <<toInter, bag, purse, inbox, mislaid>>
    /\ TakenBy(m0)
    /\ UNCHANGED <<ends, postTables>>

Elsewhere(p, P) == PosterQuits(p) \/ PosterComes(p) \/ \E q \in P : GiveItem(p, q)
Mailbox(p, P) == \/ clif_parse_Mail_setattach(p) \/ \E to \in P \cup {Manager} : clif_parse_Mail_send(p, to)
              \/ clif_parse_Mail_winopen(p) \/ clif_parse_Mail_refreshinbox(p) \/ clif_parse_Mail_read(p)
              \/ clif_parse_Mail_getattach(p) \/ clif_parse_Mail_delete(p) \/ clif_parse_Mail_return(p)
AuctionWindow(p) == \/ clif_parse_Auction_setitem(p) \/ clif_parse_Auction_cancelreg(p)
                    \/ clif_parse_Auction_register(p) \/ clif_parse_Auction_bid(p)
                    \/ \E how \in {"cancel", "close"} : EndAuction(p, how)

PostServers == inter_post_parse_frommap \/ intif_parse_post

(* What the characters P do with mails and auctions. *)
MailNext(P) ==
    /\ \/ PostServers
       \/ \E p \in P : Elsewhere(p, P) \/ Mailbox(p, P) \/ \E q \in P : GiveZeny(p, q)
    /\ written' <= MaxSent
AuctionNext(P) ==
    \/ PostServers
    \/ \E w \in Wares : auction_end_timer(w)
    \/ \E p \in P : Elsewhere(p, P) \/ AuctionWindow(p)

PostNext == MailNext(Posters) \/ AuctionNext(Posters)
PostSpec == LinkInit /\ PostInit /\ [][PostNext]_<<linkVars, postVars>>

----------------------------------------------------------------------------
(* Where items and zeny are.  What is counted is an item, or the zeny: NoWare stands for them, as
   index 0 does in mail_setitem. *)
Kinds == Wares \cup {NoWare}
Of(u, item, zeny) == IF u = NoWare THEN zeny ELSE IF item = u THEN 1 ELSE 0
InPacket(u, msg) ==
    IF msg.t \in {"mail", "attached", "back"} THEN Of(u, msg.item, msg.zeny)
    ELSE IF msg.t = "register" THEN Of(u, msg.item, 0)
    ELSE IF msg.t = "bid" THEN Of(u, NoWare, msg.zeny) ELSE 0
WithPoster(u, p) == IF u = NoWare THEN purse[p] ELSE IF u \in bag[p] THEN 1 ELSE 0
AtAuction(u, a) == IF u = NoWare THEN (IF a.buyer = Manager THEN 0 ELSE a.price)
                   ELSE IF a.seller = Manager THEN 0 ELSE 1
Dropped(u) == IF u = NoWare THEN mislaid.zeny ELSE IF u \in mislaid.items THEN 1 ELSE 0

CountIn(u, packets) == MapThenSumSet(LAMBDA i : InPacket(u, packets[i]), 1 .. Len(packets))
Count(u) ==
    MapThenSumSet(LAMBDA p : WithPoster(u, p), Posters)
      + CountIn(u, toInter[m0]) + CountIn(u, fromInter[m0])
      + MapThenSumSet(LAMBDA x : Of(u, x.item, x.zeny), mails)
      + MapThenSumSet(LAMBDA w : IF u \in {w, NoWare} THEN AtAuction(u, auctions[w]) ELSE 0, Wares) + Dropped(u)

(* Every item and every zeny is in exactly one place: with a player, in a packet, attached to a
   mail, held by an auction (the zeny of its highest bid), or was dropped where an answer with
   goods found the player gone or without room.  So nothing is doubled when an attachment is asked
   for twice, a mail is returned or deleted while it is emptied, or the same item is offered for a
   mail and an auction. *)
PostLosesNothing == \A u \in Kinds : Count(u) = IF u = NoWare THEN mislaid.all ELSE 1
=============================================================================
